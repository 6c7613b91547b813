------------------------- MODULE SessionTable_proofs -------------------------
(***************************************************************************)
(* Proofs about SessionTable.tla, for any flows, buckets and blocks.       *)
(***************************************************************************)
EXTENDS SessionTable, Sums_proofs, TLAPS

-----------------------------------------------------------------------------
(* Drop frees the block it is told of, or nothing.                         *)
LEMMA DropIsSmall ==
    ASSUME NEW b, NEW t, NEW s, NEW q
    PROVE  \/ Drop(b, t, s, q) = {}
           \/ Drop(b, t, s, q) = {b} /\ b # None
<1>1. CASE b = None \/ InTable(t, b) \/ s = b \/ b \in q
  BY <1>1 DEF Drop
<1>2. CASE ~(b = None \/ InTable(t, b) \/ s = b \/ b \in q)
  BY <1>2 DEF Drop
<1> QED  BY <1>1, <1>2

(* What it does to a set of free blocks and to the count of the others.    *)
LEMMA DropType ==
    ASSUME NEW b \in Blocks \cup {None}, NEW t, NEW s, NEW q
    PROVE  /\ Drop(b, t, s, q) \subseteq Blocks
           /\ Cardinality(Drop(b, t, s, q)) \in Int
<1>1. Cardinality({}) = 0 /\ Cardinality({b}) = 1
  BY FS_EmptySet, FS_Singleton
<1> QED  BY <1>1, DropIsSmall

-----------------------------------------------------------------------------
(* The invariant behind the others.  Who holds a bucket's mutex ...        *)
LockInv ==
    /\ capPC \in {"allocate", "take", "insert", "rehashed", "count", "update"}
         => locks[Bucket[capFlow]] = "capture"
    /\ flPC \in {"scan", "erase", "count"} => locks[flBucket] = "flush"
    /\ flErase # {} => flPC \in {"scan", "erase", "count"}

(* ... and therefore what neither thread can do to the other's sessions:   *)
(* the flow of the packet being processed stays in or out of the table,    *)
(* what the sweep has handed off stays idle until it is erased, and        *)
(* nothing else in the table is in the writer's queue.                     *)
TableInv ==
    /\ capPC \in {"allocate", "take", "insert"} => table[capFlow] = None
    /\ capPC \in {"count", "update"} => table[capFlow] # None
    /\ capPC = "insert" => /\ session # None
                           /\ ~InTable(table, session)
                           /\ session \notin queued
    /\ OneFlowPerSession
    /\ \A f \in flErase : Bucket[f] = flBucket /\ IdleAt(f, flTime)
    /\ \A f \in Flows : table[f] \in queued => f \in flErase

-----------------------------------------------------------------------------
LEMMA InitTypeOK == Init => TypeOK
<1> SUFFICES ASSUME Init PROVE TypeOK
  OBVIOUS
<1> USE SessionTableAssumption DEF SessionTableAssumption, Init
<1>1. now \in Times /\ capTime \in Times /\ flTime \in Times
  BY DEF Times
<1>2. lastUpdate \in [Blocks -> Times] /\ packets \in [Blocks -> Nat]
  BY <1>1 DEF Times
<1>3. table \in [Flows -> Blocks \cup {None}]
  OBVIOUS
<1>4. locks \in [Buckets -> {"none", "capture", "flush"}]
  OBVIOUS
<1>5. flBucket \in Buckets /\ received \in 0..MaxPackets
  BY DEF Buckets
<1>6. capPC \in CapPCs /\ flPC \in FlPCs
  BY DEF CapPCs, FlPCs
<1>7. sessionWarning \in BOOLEAN
  OBVIOUS
<1> QED  BY <1>1, <1>2, <1>3, <1>4, <1>5, <1>6, <1>7 DEF TypeOK

(* Every action keeps the types.                                           *)
LEMMA NextTypeOK == TypeOK /\ TableInv /\ [Next]_vars => TypeOK'
<1> SUFFICES ASSUME TypeOK, TableInv, [Next]_vars PROVE TypeOK'
  OBVIOUS
<1> USE SessionTableAssumption
    DEF SessionTableAssumption, TypeOK, CapPCs, FlPCs, Buckets, Times
<1>1. ASSUME NEW f \in Flows, Receive(f) PROVE TypeOK'
  BY <1>1 DEF Receive, memVars, blockVars, capVars, flVars
<1>2. CASE CapLock
  BY <1>2 DEF CapLock, memVars, blockVars, capVars, flVars
<1>3. CASE HasFreeBlock
  BY <1>3 DEF HasFreeBlock, memVars, blockVars, capVars, flVars
<1>4. CASE NoFreeBlock
  <2>1. session \in Blocks \cup {None}
    OBVIOUS
  <2>2. /\ Drop(session, table, None, queued) \subseteq Blocks
        /\ Cardinality(Drop(session, table, None, queued)) \in Int
    BY <2>1, DropType
  <2> QED  BY <1>4, <2>2 DEF NoFreeBlock, memVars, blockVars, capVars, flVars
<1>5. CASE WarningOff
  BY <1>5 DEF WarningOff, memVars, blockVars, capVars, flVars
<1>6. ASSUME NEW b \in Blocks, Take(b) PROVE TypeOK'
  <2>1. session \in Blocks \cup {None}
    OBVIOUS
  <2>2. /\ Drop(session, table, b, queued) \subseteq Blocks
        /\ Cardinality(Drop(session, table, b, queued)) \in Int
    BY <2>1, DropType
  <2> QED  BY <1>6, <2>2 DEF Take, memVars, blockVars, capVars, flVars
<1>7. CASE Insert
  BY <1>7 DEF Insert, memVars, blockVars, capVars, flVars
<1>8. CASE InsertRehashes
  BY <1>8 DEF InsertRehashes, memVars, blockVars, capVars, flVars
<1>9. CASE CountUp
  BY <1>9 DEF CountUp, memVars, blockVars, capVars, flVars
<1>10. CASE Update
  <2>1. table[capFlow] \in Blocks
    BY <1>10 DEF Update, TableInv
  <2>2. /\ lastUpdate' \in [Blocks -> Times]
        /\ packets' \in [Blocks -> Nat]
        /\ locks' \in [Buckets -> {"none", "capture", "flush"}]
    BY <1>10, <2>1 DEF Update
  <2> QED  BY <1>10, <2>2 DEF Update, memVars, blockVars, capVars, flVars
<1>11. CASE FlushBegin
  BY <1>11 DEF FlushBegin, memVars, blockVars, capVars, flVars
<1>12. CASE SweepLock
  BY <1>12 DEF SweepLock, memVars, blockVars, capVars, flVars
<1>13. ASSUME NEW f \in Flows, HandOff(f) PROVE TypeOK'
  <2>1. table[f] \in Blocks
    BY <1>13 DEF HandOff, Expired, IdleAt
  <2> QED  BY <1>13, <2>1 DEF HandOff, memVars, blockVars, capVars, flVars
<1>14. CASE ScanEnds
  BY <1>14 DEF ScanEnds, memVars, blockVars, capVars, flVars
<1>15. ASSUME NEW f \in Flows, Erase(f) PROVE TypeOK'
  <2> DEFINE D == Drop(table[f], table', session, queued)
  <2>1. D \subseteq Blocks /\ Cardinality(D) \in Int
    <3>1. table[f] \in Blocks \cup {None}
      BY <1>15 DEF Erase
    <3> QED  BY <3>1, DropType
  <2>2. free' = free \cup D /\ allocated' = allocated - Cardinality(D)
    BY <1>15 DEF Erase
  <2> HIDE DEF D
  <2>3. free' \subseteq Blocks /\ allocated' \in Int
    BY <2>1, <2>2
  <2>4. table' \in [Flows -> Blocks \cup {None}] /\ flErase' \subseteq Flows
    BY <1>15 DEF Erase
  <2>5. flPC' \in FlPCs /\ flCount' \in Int
    BY <1>15 DEF Erase
  <2>6. UNCHANGED <<count, session, queued, blockVars, locks, sessionWarning, now,
                    capVars, flBucket, flTime, handedOff>>
    BY <1>15 DEF Erase
  <2> QED  BY <2>3, <2>4, <2>5, <2>6 DEF memVars, blockVars, capVars, flVars
<1>16. CASE CountDown
  BY <1>16 DEF CountDown, memVars, blockVars, capVars, flVars
<1>17. CASE SweepUnlock
  BY <1>17 DEF SweepUnlock, memVars, blockVars, capVars, flVars
<1>18. ASSUME NEW b \in Blocks, Release(b) PROVE TypeOK'
  <2> DEFINE D == Drop(b, table, session, queued')
  <2>1. D \subseteq Blocks /\ Cardinality(D) \in Int
    BY <1>18, DropType DEF Release
  <2>2. free' = free \cup D /\ allocated' = allocated - Cardinality(D)
    BY <1>18 DEF Release
  <2> HIDE DEF D
  <2>3. free' \subseteq Blocks /\ allocated' \in Int
    BY <2>1, <2>2
  <2>4. queued' \subseteq Blocks
    BY <1>18 DEF Release
  <2>5. UNCHANGED <<table, count, session, blockVars, locks, sessionWarning, now,
                    capVars, flVars>>
    BY <1>18 DEF Release
  <2> QED  BY <2>3, <2>4, <2>5 DEF memVars, blockVars, capVars, flVars
<1>19. CASE Tick
  BY <1>19 DEF Tick, memVars, blockVars, capVars, flVars
<1>20. CASE UNCHANGED vars
  BY <1>20 DEF vars, memVars, blockVars, capVars, flVars
<1> QED
  BY <1>1, <1>2, <1>3, <1>4, <1>5, <1>6, <1>7, <1>8, <1>9,
     <1>10, <1>11, <1>12, <1>13, <1>14, <1>15, <1>16, <1>17, <1>18,
     <1>19, <1>20
     DEF Next, CaptureStep, FlushStep, WriterStep

LEMMA NextLockInv == TypeOK /\ LockInv /\ [Next]_vars => LockInv'
<1> SUFFICES ASSUME TypeOK, LockInv, [Next]_vars PROVE LockInv'
  OBVIOUS
<1> USE SessionTableAssumption
    DEF SessionTableAssumption, TypeOK, CapPCs, FlPCs, LockInv
<1>1. ASSUME NEW f \in Flows, Receive(f) PROVE LockInv'
  BY <1>1 DEF Receive, memVars, blockVars, capVars, flVars
<1>2. CASE CapLock
  BY <1>2 DEF CapLock, memVars, blockVars, capVars, flVars
<1>3. CASE HasFreeBlock
  BY <1>3 DEF HasFreeBlock, memVars, blockVars, capVars, flVars
<1>4. CASE NoFreeBlock
  BY <1>4 DEF NoFreeBlock, memVars, blockVars, capVars, flVars
<1>5. CASE WarningOff
  BY <1>5 DEF WarningOff, memVars, blockVars, capVars, flVars
<1>6. ASSUME NEW b \in Blocks, Take(b) PROVE LockInv'
  BY <1>6 DEF Take, memVars, blockVars, capVars, flVars
<1>7. CASE Insert
  BY <1>7 DEF Insert, memVars, blockVars, capVars, flVars
<1>8. CASE InsertRehashes
  BY <1>8 DEF InsertRehashes, memVars, blockVars, capVars, flVars
<1>9. CASE CountUp
  BY <1>9 DEF CountUp, memVars, blockVars, capVars, flVars
<1>10. CASE Update
  BY <1>10 DEF Update, memVars, blockVars, capVars, flVars
<1>11. CASE FlushBegin
  BY <1>11 DEF FlushBegin, memVars, blockVars, capVars, flVars
<1>12. CASE SweepLock
  BY <1>12 DEF SweepLock, memVars, blockVars, capVars, flVars
<1>13. ASSUME NEW f \in Flows, HandOff(f) PROVE LockInv'
  BY <1>13 DEF HandOff, memVars, blockVars, capVars, flVars
<1>14. CASE ScanEnds
  BY <1>14 DEF ScanEnds, memVars, blockVars, capVars, flVars
<1>15. ASSUME NEW f \in Flows, Erase(f) PROVE LockInv'
  BY <1>15 DEF Erase, memVars, blockVars, capVars, flVars
<1>16. CASE CountDown
  BY <1>16 DEF CountDown, memVars, blockVars, capVars, flVars
<1>17. CASE SweepUnlock
  BY <1>17 DEF SweepUnlock, memVars, blockVars, capVars, flVars
<1>18. ASSUME NEW b \in Blocks, Release(b) PROVE LockInv'
  BY <1>18 DEF Release, memVars, blockVars, capVars, flVars
<1>19. CASE Tick
  BY <1>19 DEF Tick, memVars, blockVars, capVars, flVars
<1>20. CASE UNCHANGED vars
  BY <1>20 DEF vars, memVars, blockVars, capVars, flVars
<1> QED
  BY <1>1, <1>2, <1>3, <1>4, <1>5, <1>6, <1>7, <1>8, <1>9,
     <1>10, <1>11, <1>12, <1>13, <1>14, <1>15, <1>16, <1>17, <1>18,
     <1>19, <1>20
     DEF Next, CaptureStep, FlushStep, WriterStep

-----------------------------------------------------------------------------
(* The pool holds exactly the blocks nobody holds: the first half of       *)
(* PoolHoldsTheRest.                                                       *)
PoolInv == \A b \in Blocks : b \in free <=> ~Held(b)

LEMMA NextTableInv ==
    TypeOK /\ LockInv /\ TableInv /\ PoolInv /\ [Next]_vars => TableInv'
<1> SUFFICES ASSUME TypeOK, LockInv, TableInv, PoolInv, [Next]_vars
             PROVE  TableInv'
  OBVIOUS
<1> USE SessionTableAssumption
    DEF SessionTableAssumption, TypeOK, LockInv, TableInv, OneFlowPerSession,
        IdleAt, InTable
<1>1. ASSUME NEW f \in Flows, Receive(f) PROVE TableInv'
  BY <1>1 DEF Receive, memVars, blockVars, capVars, flVars
<1>2. CASE CapLock
  BY <1>2 DEF CapLock, memVars, blockVars, capVars, flVars
<1>3. CASE HasFreeBlock
  BY <1>3 DEF HasFreeBlock, memVars, blockVars, capVars, flVars
<1>4. CASE NoFreeBlock
  BY <1>4 DEF NoFreeBlock, memVars, blockVars, capVars, flVars
<1>5. CASE WarningOff
  BY <1>5 DEF WarningOff, memVars, blockVars, capVars, flVars
<1>6. ASSUME NEW b \in Blocks, Take(b) PROVE TableInv'
  <2>1. ~Held(b)
    BY <1>6 DEF Take, PoolInv
  <2> QED  BY <1>6, <2>1 DEF Take, Held, memVars, blockVars, capVars, flVars
<1>7. CASE Insert
  BY <1>7 DEF Insert, memVars, blockVars, capVars, flVars
<1>8. CASE InsertRehashes
  BY <1>8 DEF InsertRehashes, memVars, blockVars, capVars, flVars
<1>9. CASE CountUp
  BY <1>9 DEF CountUp, memVars, blockVars, capVars, flVars
<1>10. CASE Update
  BY <1>10 DEF Update, memVars, blockVars, capVars, flVars
<1>11. CASE FlushBegin
  BY <1>11 DEF FlushBegin, memVars, blockVars, capVars, flVars
<1>12. CASE SweepLock
  BY <1>12 DEF SweepLock, memVars, blockVars, capVars, flVars
<1>13. ASSUME NEW f \in Flows, HandOff(f) PROVE TableInv'
  BY <1>13 DEF HandOff, Expired, memVars, blockVars, capVars, flVars
<1>14. CASE ScanEnds
  BY <1>14 DEF ScanEnds, memVars, blockVars, capVars, flVars
<1>15. ASSUME NEW f \in Flows, Erase(f) PROVE TableInv'
  BY <1>15 DEF Erase, memVars, blockVars, capVars, flVars
<1>16. CASE CountDown
  BY <1>16 DEF CountDown, memVars, blockVars, capVars, flVars
<1>17. CASE SweepUnlock
  BY <1>17 DEF SweepUnlock, memVars, blockVars, capVars, flVars
<1>18. ASSUME NEW b \in Blocks, Release(b) PROVE TableInv'
  BY <1>18 DEF Release, memVars, blockVars, capVars, flVars
<1>19. CASE Tick
  BY <1>19 DEF Tick, memVars, blockVars, capVars, flVars
<1>20. CASE UNCHANGED vars
  BY <1>20 DEF vars, memVars, blockVars, capVars, flVars
<1> QED
  BY <1>1, <1>2, <1>3, <1>4, <1>5, <1>6, <1>7, <1>8, <1>9,
     <1>10, <1>11, <1>12, <1>13, <1>14, <1>15, <1>16, <1>17, <1>18,
     <1>19, <1>20
     DEF Next, CaptureStep, FlushStep, WriterStep

(* Blocks move between the pool and their holders only in six actions.     *)
QuietStep ==
    UNCHANGED <<free, allocated, table, session, queued>>

LEMMA PoolCases ==
    ASSUME [Next]_vars
    PROVE  \/ QuietStep
           \/ NoFreeBlock \/ Insert
           \/ \E b \in Blocks : Take(b) \/ Release(b)
           \/ \E f \in Flows : HandOff(f) \/ Erase(f)
BY DEF Next, CaptureStep, FlushStep, WriterStep, QuietStep, Receive, CapLock,
       HasFreeBlock, WarningOff, InsertRehashes, CountUp, Update, FlushBegin,
       SweepLock, ScanEnds, CountDown, SweepUnlock, Tick, vars, memVars

LEMMA NextPoolInv ==
    TypeOK /\ LockInv /\ TableInv /\ PoolInv /\ [Next]_vars => PoolInv'
<1> SUFFICES ASSUME TypeOK, LockInv, TableInv, PoolInv, [Next]_vars
             PROVE  PoolInv'
  OBVIOUS
<1> USE SessionTableAssumption
    DEF SessionTableAssumption, TypeOK, PoolInv, Held, InTable
<1>1. CASE QuietStep
  BY <1>1 DEF QuietStep
<1>2. CASE NoFreeBlock
  BY <1>2 DEF NoFreeBlock, Drop
<1>3. CASE Insert
  BY <1>3 DEF Insert, memVars, TableInv
<1>4. ASSUME NEW b \in Blocks, Take(b) PROVE PoolInv'
  BY <1>4 DEF Take, Drop
<1>5. ASSUME NEW b \in Blocks, Release(b) PROVE PoolInv'
  BY <1>5 DEF Release, Drop
<1>6. ASSUME NEW f \in Flows, HandOff(f) PROVE PoolInv'
  BY <1>6 DEF HandOff, Expired, IdleAt, memVars
<1>7. ASSUME NEW f \in Flows, Erase(f) PROVE PoolInv'
  BY <1>7 DEF Erase, Drop, TableInv, OneFlowPerSession
<1> QED  BY <1>1, <1>2, <1>3, <1>4, <1>5, <1>6, <1>7, PoolCases

-----------------------------------------------------------------------------
(* Memory::size() counts the blocks that are out: the other half.          *)
SizeInv == allocated = Cardinality(Blocks) - Cardinality(free)

(* Putting back a block that was out.                                      *)
LEMMA PutBack ==
    ASSUME NEW F, F \subseteq Blocks, NEW D,
           D = {} \/ \E b \in Blocks \ F : D = {b}
    PROVE  /\ Cardinality(F \cup D) = Cardinality(F) + Cardinality(D)
           /\ Cardinality(F) \in Int
           /\ Cardinality(D) \in Int
<1>1. IsFiniteSet(F)
  BY SessionTableAssumption, FS_Subset DEF SessionTableAssumption
<1>2. Cardinality(F) \in Int
  BY <1>1, FS_CardinalityType
<1>3. CASE D = {}
  BY <1>2, <1>3, FS_EmptySet
<1>4. ASSUME NEW b \in Blocks \ F, D = {b} PROVE
        /\ Cardinality(F \cup D) = Cardinality(F) + Cardinality(D)
        /\ Cardinality(D) \in Int
  <2>1. Cardinality(F \cup {b}) = Cardinality(F) + 1
    BY <1>1, FS_AddElement
  <2>2. Cardinality({b}) = 1
    BY FS_Singleton
  <2> QED  BY <1>4, <2>1, <2>2
<1> QED  BY <1>2, <1>3, <1>4, FS_EmptySet

LEMMA NextSizeInv ==
    TypeOK /\ PoolInv /\ SizeInv /\ [Next]_vars => SizeInv'
<1> SUFFICES ASSUME TypeOK, PoolInv, SizeInv, [Next]_vars PROVE SizeInv'
  OBVIOUS
<1> USE SessionTableAssumption DEF SessionTableAssumption
<1>0. /\ free \subseteq Blocks /\ allocated \in Int
      /\ queued \subseteq Blocks /\ session \in Blocks \cup {None}
      /\ table \in [Flows -> Blocks \cup {None}]
      /\ Cardinality(Blocks) \in Int
      /\ UNCHANGED Cardinality(Blocks)
  BY FS_CardinalityType DEF TypeOK
<1>1. CASE UNCHANGED memVars
  BY <1>1 DEF SizeInv, memVars
<1>2. CASE NoFreeBlock
  <2> DEFINE D == Drop(session, table, None, queued)
  <2>1. D = {} \/ \E c \in Blocks \ free : D = {c}
    <3>1. session # None => session \notin free
      BY <1>0 DEF PoolInv, Held
    <3> QED  BY <1>0, <3>1, DropIsSmall
  <2>2. free' = free \cup D /\ allocated' = allocated - Cardinality(D)
    BY <1>2 DEF NoFreeBlock
  <2> HIDE DEF D
  <2>3. /\ Cardinality(free \cup D) = Cardinality(free) + Cardinality(D)
        /\ Cardinality(free) \in Int
        /\ Cardinality(D) \in Int
    BY <1>0, <2>1, PutBack
  <2> QED  BY <1>0, <2>2, <2>3 DEF SizeInv
<1>3. ASSUME NEW b \in Blocks, Take(b) PROVE SizeInv'
  <2> DEFINE D == Drop(session, table, b, queued)
             F == free \ {b}
  <2>1. D = {} \/ \E c \in Blocks \ F : D = {c}
    <3>1. session # None => session \notin free
      BY <1>0 DEF PoolInv, Held
    <3> QED  BY <1>0, <3>1, DropIsSmall
  <2>2. free' = F \cup D /\ allocated' = allocated + 1 - Cardinality(D)
    BY <1>3 DEF Take
  <2>3. Cardinality(F) = Cardinality(free) - 1
    <3>1. IsFiniteSet(free) /\ b \in free
      BY <1>0, <1>3, FS_Subset DEF Take
    <3> QED  BY <3>1, FS_RemoveElement
  <2>4. F \subseteq Blocks /\ Cardinality(free) \in Int
    BY <1>0, FS_Subset, FS_CardinalityType
  <2> HIDE DEF D, F
  <2>5. /\ Cardinality(F \cup D) = Cardinality(F) + Cardinality(D)
        /\ Cardinality(D) \in Int
    BY <2>1, <2>4, PutBack
  <2> QED  BY <1>0, <2>2, <2>3, <2>4, <2>5 DEF SizeInv
<1>4. ASSUME NEW b \in Blocks, Release(b) PROVE SizeInv'
  <2> DEFINE D == Drop(b, table, session, queued')
  <2>1. D = {} \/ \E c \in Blocks \ free : D = {c}
    <3>1. b \notin free
      BY <1>4 DEF Release, PoolInv, Held
    <3> QED  BY <3>1, DropIsSmall
  <2>2. free' = free \cup D /\ allocated' = allocated - Cardinality(D)
    BY <1>4 DEF Release
  <2> HIDE DEF D
  <2>3. /\ Cardinality(free \cup D) = Cardinality(free) + Cardinality(D)
        /\ Cardinality(free) \in Int
        /\ Cardinality(D) \in Int
    BY <1>0, <2>1, PutBack
  <2> QED  BY <1>0, <2>2, <2>3 DEF SizeInv
<1>5. ASSUME NEW f \in Flows, Erase(f) PROVE SizeInv'
  <2> DEFINE D == Drop(table[f], table', session, queued)
  <2>1. D = {} \/ \E c \in Blocks \ free : D = {c}
    <3>1. table[f] # None => table[f] \in Blocks /\ table[f] \notin free
      BY <1>0 DEF PoolInv, Held, InTable
    <3> QED  BY <3>1, DropIsSmall
  <2>2. free' = free \cup D /\ allocated' = allocated - Cardinality(D)
    BY <1>5 DEF Erase
  <2> HIDE DEF D
  <2>3. /\ Cardinality(free \cup D) = Cardinality(free) + Cardinality(D)
        /\ Cardinality(free) \in Int
        /\ Cardinality(D) \in Int
    BY <1>0, <2>1, PutBack
  <2> QED  BY <1>0, <2>2, <2>3 DEF SizeInv
<1> QED
  BY <1>1, <1>2, <1>3, <1>4, <1>5, PoolCases
     DEF QuietStep, memVars, Insert, HandOff

-----------------------------------------------------------------------------
IInv == TypeOK /\ LockInv /\ TableInv /\ PoolInv /\ SizeInv

LEMMA InitIInv == Init => IInv
<1> SUFFICES ASSUME Init PROVE IInv
  OBVIOUS
<1>1. TypeOK
  BY InitTypeOK
<1>2. LockInv /\ TableInv /\ PoolInv
  BY SessionTableAssumption
     DEF SessionTableAssumption, Init, LockInv, TableInv, OneFlowPerSession,
         PoolInv, Held, InTable
<1>3. SizeInv
  BY SessionTableAssumption, FS_CardinalityType
     DEF SessionTableAssumption, Init, SizeInv
<1> QED  BY <1>1, <1>2, <1>3 DEF IInv

LEMMA NextIInv == IInv /\ [Next]_vars => IInv'
BY NextTypeOK, NextLockInv, NextTableInv, NextPoolInv, NextSizeInv DEF IInv

(* TypeOK of SessionTable.tla is invariant.                                *)
THEOREM SessionTableTypeOK == Spec => []TypeOK
<1>1. IInv => TypeOK
  BY DEF IInv
<1> QED  BY InitIInv, NextIInv, <1>1, PTL DEF Spec

(* PoolHoldsTheRest of SessionTable.tla: shared_ptr, the three threads and *)
(* the deallocator between them never lose, duplicate or free a block that *)
(* is in use.                                                              *)
THEOREM NoBlockLostOrShared == Spec => []PoolHoldsTheRest
<1>1. IInv => PoolHoldsTheRest
  BY DEF IInv, PoolHoldsTheRest, PoolInv, SizeInv
<1> QED  BY InitIInv, NextIInv, <1>1, PTL DEF Spec

(* OneFlowPerSession of SessionTable.tla: no two flows share a block.      *)
THEOREM FlowsDoNotShare == Spec => []OneFlowPerSession
<1>1. IInv => OneFlowPerSession
  BY DEF IInv, TableInv
<1> QED  BY InitIInv, NextIInv, <1>1, PTL DEF Spec

(* PopFindsABlock of SessionTable.tla: the unlocked test of allocate() is  *)
(* still true when the block is popped, because only the capture thread    *)
(* takes blocks out.                                                       *)
THEOREM PopNeverUnderflows == Spec => []PopFindsABlock
<1>1. Init => PopFindsABlock
  BY DEF Init, PopFindsABlock
<1>2. PopFindsABlock /\ [Next]_vars => PopFindsABlock'
  <2> SUFFICES ASSUME PopFindsABlock, [Next]_vars PROVE PopFindsABlock'
    OBVIOUS
  <2> USE DEF PopFindsABlock
  <2>1. ASSUME NEW f \in Flows, Receive(f) PROVE PopFindsABlock'
    BY <2>1 DEF Receive, memVars, blockVars, capVars, flVars
  <2>2. CASE CapLock
    BY <2>2 DEF CapLock, memVars, blockVars, capVars, flVars
  <2>3. CASE HasFreeBlock
    BY <2>3 DEF HasFreeBlock, memVars, blockVars, capVars, flVars
  <2>4. CASE NoFreeBlock
    BY <2>4 DEF NoFreeBlock, memVars, blockVars, capVars, flVars
  <2>5. CASE WarningOff
    BY <2>5 DEF WarningOff, memVars, blockVars, capVars, flVars
  <2>6. ASSUME NEW b \in Blocks, Take(b) PROVE PopFindsABlock'
    BY <2>6 DEF Take, memVars, blockVars, capVars, flVars
  <2>7. CASE Insert
    BY <2>7 DEF Insert, memVars, blockVars, capVars, flVars
  <2>8. CASE InsertRehashes
    BY <2>8 DEF InsertRehashes, memVars, blockVars, capVars, flVars
  <2>9. CASE CountUp
    BY <2>9 DEF CountUp, memVars, blockVars, capVars, flVars
  <2>10. CASE Update
    BY <2>10 DEF Update, memVars, blockVars, capVars, flVars
  <2>11. CASE FlushBegin
    BY <2>11 DEF FlushBegin, memVars, blockVars, capVars, flVars
  <2>12. CASE SweepLock
    BY <2>12 DEF SweepLock, memVars, blockVars, capVars, flVars
  <2>13. ASSUME NEW f \in Flows, HandOff(f) PROVE PopFindsABlock'
    BY <2>13 DEF HandOff, memVars, blockVars, capVars, flVars
  <2>14. CASE ScanEnds
    BY <2>14 DEF ScanEnds, memVars, blockVars, capVars, flVars
  <2>15. ASSUME NEW f \in Flows, Erase(f) PROVE PopFindsABlock'
    BY <2>15 DEF Erase, memVars, blockVars, capVars, flVars
  <2>16. CASE CountDown
    BY <2>16 DEF CountDown, memVars, blockVars, capVars, flVars
  <2>17. CASE SweepUnlock
    BY <2>17 DEF SweepUnlock, memVars, blockVars, capVars, flVars
  <2>18. ASSUME NEW b \in Blocks, Release(b) PROVE PopFindsABlock'
    BY <2>18 DEF Release, memVars, blockVars, capVars, flVars
  <2>19. CASE Tick
    BY <2>19 DEF Tick, memVars, blockVars, capVars, flVars
  <2>20. CASE UNCHANGED vars
    BY <2>20 DEF vars, memVars, blockVars, capVars, flVars
  <2> QED
    BY <2>1, <2>2, <2>3, <2>4, <2>5, <2>6, <2>7, <2>8, <2>9,
       <2>10, <2>11, <2>12, <2>13, <2>14, <2>15, <2>16, <2>17, <2>18,
       <2>19, <2>20
       DEF Next, CaptureStep, FlushStep, WriterStep
<1> QED  BY <1>1, <1>2, PTL DEF Spec

(* HandedOffIsFrozen of SessionTable.tla: the bucket's mutex keeps the     *)
(* capture thread away from a session between the hand-off and the         *)
(* erasure, and afterwards it cannot find it.                              *)
THEOREM WriterReadsFrozenSessions == Spec => HandedOffIsFrozen
<1> DEFINE Frozen == \A b \in queued \cap queued' :
                        lastUpdate'[b] = lastUpdate[b] /\ packets'[b] = packets[b]
<1>1. IInv /\ [Next]_vars => Frozen
  <2> SUFFICES ASSUME IInv, [Next]_vars PROVE Frozen
    OBVIOUS
  <2> USE SessionTableAssumption DEF SessionTableAssumption, IInv, TypeOK
  <2>1. CASE Update
    <3>1. table[capFlow] \notin queued
      BY <2>1 DEF Update, LockInv, TableInv
    <3> QED  BY <2>1, <3>1 DEF Update
  <2>2. CASE Insert
    BY <2>2 DEF Insert, TableInv
  <2>3. CASE ~Update /\ ~Insert
    <3>1. UNCHANGED blockVars
      BY <2>3 DEF Next, CaptureStep, FlushStep, WriterStep, Receive, CapLock,
         HasFreeBlock, NoFreeBlock, WarningOff, Take, InsertRehashes, CountUp,
         FlushBegin, SweepLock, HandOff, ScanEnds, Erase, CountDown,
         SweepUnlock, Release, Tick, vars
    <3> QED  BY <3>1 DEF blockVars
  <2> QED  BY <2>1, <2>2, <2>3
<1>2. IInv /\ [Next]_vars => [Frozen]_vars
  BY <1>1
<1> QED  BY InitIInv, NextIInv, <1>2, PTL DEF Spec, HandedOffIsFrozen

(* OnlyIdleSessionsLeave of SessionTable.tla: between the idle test and    *)
(* the erasure no packet can make the session busy again.                  *)
THEOREM NoBusySessionIsErased == Spec => OnlyIdleSessionsLeave
<1> DEFINE Leaves == \A f \in Flows : IdleIfLeaving(f)
<1>1. IInv /\ [Next]_vars => Leaves
  <2> SUFFICES ASSUME IInv, [Next]_vars PROVE Leaves
    OBVIOUS
  <2> USE SessionTableAssumption DEF SessionTableAssumption, IInv, TypeOK
  <2>1. ASSUME NEW g \in Flows, Erase(g) PROVE Leaves
    BY <2>1 DEF Erase, TableInv, IdleIfLeaving
  <2>2. CASE Insert
    BY <2>2 DEF Insert, TableInv, IdleIfLeaving
  <2>3. CASE UNCHANGED table
    BY <2>3 DEF IdleIfLeaving
  <2> QED
    BY <2>1, <2>2, <2>3, PoolCases
       DEF QuietStep, NoFreeBlock, Take, Release, HandOff
<1>2. IInv /\ [Next]_vars => [Leaves]_vars
  BY <1>1
<1> QED  BY InitIInv, NextIInv, <1>2, PTL DEF Spec, OnlyIdleSessionsLeave

-----------------------------------------------------------------------------
(* Counting: what the packets of the sessions in the table add up to.      *)
LEMMA LiveIsFinite ==
    ASSUME TypeOK
    PROVE  LiveSessions \subseteq Blocks /\ IsFiniteSet(LiveSessions)
<1>1. LiveSessions \subseteq Blocks
  BY DEF TypeOK, LiveSessions
<1> QED  BY <1>1, SessionTableAssumption, FS_Subset DEF SessionTableAssumption

(* Five actions touch what is counted.                                     *)
CountsUnchanged ==
    UNCHANGED <<table, flErase, packets, counted, handedOff>>

LEMMA CountCases ==
    ASSUME [Next]_vars
    PROVE  CountsUnchanged \/ Insert \/ Update
           \/ \E f \in Flows : HandOff(f) \/ Erase(f)
BY DEF Next, CaptureStep, FlushStep, WriterStep, CountsUnchanged, Receive,
       CapLock, HasFreeBlock, NoFreeBlock, WarningOff, Take, InsertRehashes,
       CountUp, FlushBegin, SweepLock, ScanEnds, CountDown, SweepUnlock,
       Release, Tick, vars, blockVars, capVars, flVars

LEMMA NextPacketsAccounted ==
    IInv /\ PacketsAccounted /\ [Next]_vars => PacketsAccounted'
<1> SUFFICES ASSUME IInv, PacketsAccounted, [Next]_vars
             PROVE  PacketsAccounted'
  OBVIOUS
<1> DEFINE S == LiveSessions
           Sum == SumFunctionOnSet(packets, S)
<1>1. /\ TypeOK /\ LockInv /\ TableInv
      /\ TypeOK'
  BY NextTypeOK DEF IInv
<1>2. /\ S \subseteq Blocks /\ IsFiniteSet(S)
      /\ \A b \in Blocks : packets[b] \in Nat /\ packets'[b] \in Nat
      /\ counted \in Nat /\ handedOff \in Nat
  BY <1>1, LiveIsFinite DEF TypeOK
<1>3. Sum \in Nat
  BY <1>2, SumIsNat
<1>4. counted = handedOff + Sum
  BY DEF PacketsAccounted
<1>5. SUFFICES counted' = handedOff' + SumFunctionOnSet(packets', S')
  BY DEF PacketsAccounted
<1>6. CASE CountsUnchanged
  <2>1. S' = S
    BY <1>6 DEF CountsUnchanged, LiveSessions
  <2> HIDE DEF S
  <2> QED  BY <1>4, <1>6, <2>1 DEF CountsUnchanged
<1>7. CASE Insert
  <2>1. capFlow \in Flows \ flErase
    BY <1>1, <1>7 DEF Insert, LockInv, TableInv, TypeOK, IdleAt
  <2>2. session \in Blocks /\ session \notin S
    BY <1>1, <1>7 DEF Insert, TableInv, TypeOK, InTable, LiveSessions
  <2>3. S' = S \cup {session}
    <3>1. table[capFlow] = None /\ session # None
      BY <1>1, <1>7 DEF Insert, TableInv
    <3>2. /\ flErase' = flErase
          /\ table' = [table EXCEPT ![capFlow] = session]
      BY <1>7 DEF Insert, flVars
    <3> QED  BY <1>1, <2>1, <3>1, <3>2 DEF LiveSessions, TypeOK
  <2>4. /\ packets' = [packets EXCEPT ![session] = 0]
        /\ counted' = counted /\ handedOff' = handedOff
    BY <1>7 DEF Insert, flVars
  <2>5. packets'[session] = 0 /\ \A b \in S : packets'[b] = packets[b]
    BY <1>1, <1>2, <2>2, <2>4 DEF TypeOK
  <2> HIDE DEF S
  <2>6. SumFunctionOnSet(packets', S) = Sum
    BY <1>2, <2>5, SumSame
  <2>7. SumFunctionOnSet(packets', S \cup {session})
          = packets'[session] + SumFunctionOnSet(packets', S)
    BY <1>2, <2>2, SumAdd
  <2> QED  BY <1>2, <1>3, <1>4, <2>3, <2>4, <2>5, <2>6, <2>7
<1>8. CASE Update
  <2> DEFINE b == table[capFlow]
  <2>1. capFlow \in Flows \ flErase /\ b # None
    BY <1>1, <1>8, SessionTableAssumption
       DEF Update, LockInv, TableInv, TypeOK, SessionTableAssumption
  <2>2. b \in S
    BY <2>1 DEF LiveSessions
  <2>3. S' = S
    BY <1>8 DEF Update, LiveSessions, flVars
  <2>4. /\ packets' = [packets EXCEPT ![b] = @ + 1]
        /\ counted' = counted + 1 /\ handedOff' = handedOff
    BY <1>8 DEF Update, flVars
  <2>5. /\ packets'[b] = packets[b] + 1
        /\ \A c \in S : c # b => packets[c] = packets'[c]
    BY <1>1, <1>2, <2>2, <2>4 DEF TypeOK
  <2> HIDE DEF S, b
  <2>6. SumFunctionOnSet(packets', S) = (Sum - packets[b]) + packets'[b]
    BY <1>2, <2>2, <2>5, SumChange
  <2>7. packets[b] \in Nat
    BY <1>2, <2>2
  <2> QED  BY <1>2, <1>3, <1>4, <2>3, <2>4, <2>5, <2>6, <2>7
<1>9. ASSUME NEW f \in Flows, HandOff(f)
      PROVE  counted' = handedOff' + SumFunctionOnSet(packets', S')
  <2> DEFINE b == table[f]
  <2>1. f \in Flows \ flErase /\ b # None
    BY <1>9 DEF HandOff, Expired, IdleAt
  <2>2. b \in S
    BY <2>1 DEF LiveSessions
  <2>3. S' = S \ {b}
    <3>1. /\ flErase' = flErase \cup {f}
          /\ table' = table
      BY <1>9 DEF HandOff
    <3>2. \A g \in Flows : table[g] = b => g = f
      BY <1>1, <2>1 DEF TableInv, OneFlowPerSession
    <3> QED  BY <3>1, <3>2 DEF LiveSessions
  <2>4. /\ packets' = packets /\ counted' = counted
        /\ handedOff' = handedOff + packets[b]
    BY <1>9 DEF HandOff, blockVars, capVars
  <2> HIDE DEF S, b
  <2>5. Sum = packets[b] + SumFunctionOnSet(packets, S \ {b})
    BY <1>2, <2>2, SumRemove
  <2>6. IsFiniteSet(S \ {b})
    BY <1>2, FS_Subset
  <2>7. SumFunctionOnSet(packets, S \ {b}) \in Nat /\ packets[b] \in Nat
    BY <1>2, <2>2, <2>6, SumIsNat
  <2> QED  BY <1>2, <1>4, <2>3, <2>4, <2>5, <2>7
<1>10. ASSUME NEW f \in Flows, Erase(f)
       PROVE  counted' = handedOff' + SumFunctionOnSet(packets', S')
  <2>1. /\ f \in flErase /\ flErase' = flErase \ {f}
        /\ table' = [table EXCEPT ![f] = None]
    BY <1>10 DEF Erase
  <2>2. S' = S
    BY <1>1, <2>1 DEF LiveSessions, TypeOK
  <2>3. UNCHANGED <<packets, counted, handedOff>>
    BY <1>10 DEF Erase, blockVars, capVars
  <2> HIDE DEF S
  <2> QED  BY <1>4, <2>2, <2>3
<1> QED  BY <1>6, <1>7, <1>8, <1>9, <1>10, CountCases

(* PacketsAccounted of SessionTable.tla: whatever the order of inserts,    *)
(* hand-offs and erasures, no packet is counted twice or cut off.          *)
THEOREM PacketsAreAccounted == Spec => []PacketsAccounted
<1>1. Init => PacketsAccounted
  <2> SUFFICES ASSUME Init PROVE PacketsAccounted
    OBVIOUS
  <2>1. LiveSessions = {} /\ counted = 0 /\ handedOff = 0
    BY DEF Init, LiveSessions
  <2> QED  BY <2>1, SumEmpty DEF PacketsAccounted
<1> QED  BY InitIInv, NextIInv, <1>1, NextPacketsAccounted, PTL DEF Spec

=============================================================================
