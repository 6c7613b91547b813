------------------------------ MODULE BT_proofs ------------------------------
(***************************************************************************)
(* Theorems about BT.tla, for any connections, buckets, sessions and IDs,  *)
(* and about the SMTP client that sends its mails (SMTP.tla).              *)
(***************************************************************************)
EXTENDS BT, SMTP, Sums_proofs, SequenceTheorems, WellFoundedInduction, TLAPS

Sweeping == flPC \in {"scan", "smtp", "send"}

(* What the flush thread is to visit, or has found idle and is to erase,   *)
(* is in the bucket it has locked.  The idle ones stay as they were found. *)
(* processHTTP() sends while it has a mail to send.                        *)
SweepInv ==
    /\ \A f \in flScan \cup flErase :
          Sweeping /\ Bucket[f] = flBucket /\ table[f] # None
    /\ \A f \in flErase : ExpiredAt(store[table[f]], flTime)
    /\ flPC = "httpSend" => httpMails > 0

(* A session is in the table under one of the two flows of its connection. *)
(* What the capture thread has looked for and not found stays absent, as   *)
(* nobody else inserts.                                                    *)
TableInv ==
    /\ \A f \in Flows : table[f] # None => table[Opposite(f)] = None
    /\ \A f, g \in Flows : table[f] # None /\ table[f] = table[g] => f = g
    /\ capPC \in {"reverse", "allocate", "insert"} =>
           table[packet.flow] = None
    /\ capPC \in {"allocate", "insert"} => table[Opposite(packet.flow)] = None
    /\ capPC = "insert" =>
           /\ session \in Sessions
           /\ \A f \in Flows : table[f] # session

LEMMA OppositeFlow ==
    ASSUME NEW f \in Flows
    PROVE  /\ Opposite(f) \in Flows
           /\ Opposite(f) # f
           /\ Opposite(Opposite(f)) = f
<1>1. PICK c \in Connections, d \in Sides : f = <<c, d>>
  BY DEF Flows
<1>2. d = "client" \/ d = "tracker"
  BY DEF Sides
<1> QED  BY <1>1, <1>2 DEF Opposite, Flows, Sides

-----------------------------------------------------------------------------
(* What a step writes is the contents of a session.                        *)
Contents == [time : Times, tid : TransactionIDs,
             cid : ConnectionIDs \cup {None},
             announceRequests : Nat, announceResponses : Nat]

LEMMA PayloadTyped ==
    ASSUME NEW f \in Flows, NEW p \in Payloads(f[2])
    PROVE  p.tid \in TransactionIDs /\ p.cid \in ConnectionIDs \cup {None}
BY DEF Payloads, Payload

LEMMA NewSessionTyped ==
    ASSUME NEW t \in Times, NEW tid \in TransactionIDs,
           NEW cid \in ConnectionIDs \cup {None}
    PROVE  NewSession(t, tid, cid) \in Contents
BY DEF NewSession, Contents

LEMMA BlankTyped == Blank \in Contents
<1>1. (CHOOSE tid \in TransactionIDs : TRUE) \in TransactionIDs
  BY BTAssumption DEF BTAssumption
<1>2. 0 \in Times
  BY BTAssumption DEF BTAssumption, Times
<1> QED  BY <1>1, <1>2, NewSessionTyped DEF Blank

LEMMA UpdateTyped ==
    ASSUME NEW x \in Contents, NEW t \in Times,
           NEW tid \in TransactionIDs, NEW cid \in ConnectionIDs \cup {None}
    PROVE  /\ [x EXCEPT !.tid = tid] \in Contents
           /\ [x EXCEPT !.time = t] \in Contents
           /\ [x EXCEPT !.time = t, !.cid = cid] \in Contents
           /\ [x EXCEPT !.time = t, !.announceRequests = @ + 1] \in Contents
           /\ [x EXCEPT !.time = t, !.announceResponses = @ + 1] \in Contents
<1>1. /\ x.announceRequests + 1 \in Nat
      /\ x.announceResponses + 1 \in Nat
  BY DEF Contents
<1> QED  BY <1>1 DEF Contents

LEMMA RecordedTyped ==
    ASSUME NEW x \in Contents, NEW t \in Times,
           NEW f \in Flows, NEW p \in Payloads(f[2])
    PROVE  Request(x, p, t) \in Contents /\ Response(x, p, t) \in Contents
<1>1. p.tid \in TransactionIDs /\ p.cid \in ConnectionIDs \cup {None}
  BY PayloadTyped
<1>2. Request(x, p, t) \in Contents
  <2>1. PICK y \in Contents : y = [x EXCEPT !.tid = p.tid]
    BY <1>1, UpdateTyped
  <2>2. \/ Request(x, p, t) = y
        \/ Request(x, p, t) = [y EXCEPT !.time = t]
        \/ Request(x, p, t) = [y EXCEPT !.time = t, !.announceRequests = @ + 1]
    BY <2>1 DEF Request
  <2> QED  BY <1>1, <2>2, UpdateTyped
<1>3. Response(x, p, t) \in Contents
  BY <1>1, UpdateTyped DEF Response
<1> QED  BY <1>2, <1>3

LEMMA KeptTyped ==
    ASSUME NEW st \in [Sessions -> Contents]
    PROVE  Kept(st) \in [Sessions -> Contents]
BY BlankTyped DEF Kept

-----------------------------------------------------------------------------
LEMMA InitInv == Init => TypeOK /\ SweepInv /\ TableInv
<1> SUFFICES ASSUME Init PROVE TypeOK /\ SweepInv /\ TableInv
  OBVIOUS
<1> USE BTAssumption DEF BTAssumption, Init
<1>1. TypeOK
  <2>1. store \in [Sessions -> Contents]
    BY BlankTyped
  <2>2. now \in Times /\ flTime \in Times /\ flBucket \in Buckets
    BY DEF Times, Buckets
  <2>3. received \in 0..MaxPackets
    OBVIOUS
  <2> HIDE DEF Init
  <2>4. /\ table \in [Flows -> Sessions \cup {None}]
        /\ session \in Sessions \cup {None}
    BY DEF Init
  <2> QED  BY <2>1, <2>2, <2>3, <2>4 DEF TypeOK, Contents, Init
<1>2. SweepInv
  BY DEF SweepInv
<1>3. TableInv
  <2>1. \A f \in Flows : table[f] = None /\ Opposite(f) \in Flows
    BY OppositeFlow
  <2> QED  BY <2>1 DEF TableInv
<1> QED  BY <1>1, <1>2, <1>3

LEMMA NextTypeOK == TypeOK /\ SweepInv /\ TableInv /\ [Next]_vars => TypeOK'
<1> SUFFICES ASSUME TypeOK, SweepInv, TableInv, [Next]_vars PROVE TypeOK'
  OBVIOUS
<1> USE BTAssumption
    DEF BTAssumption, TypeOK, Times, Buckets, Goto, Miss, tableVars, capVars,
        flVars
<1>1. ASSUME NEW f \in Flows, NEW p \in Payloads(f[2]), Receive(f, p)
       PROVE  TypeOK'
  BY <1>1 DEF Receive
<1>2. CASE LookUp
  <2>1. ASSUME table[packet.flow] # None
        PROVE  Request(store[table[packet.flow]], packet.payload,
                       packet.time) \in Contents
    BY <1>2, <2>1, RecordedTyped DEF LookUp, Contents
  <2> QED  BY <1>2, <2>1 DEF LookUp, Record, Contents
<1>3. CASE LookUpReverse
  <2>1. Opposite(packet.flow) \in Flows
    BY <1>3, OppositeFlow DEF LookUpReverse
  <2>2. ASSUME table[Opposite(packet.flow)] # None
        PROVE  Response(store[table[Opposite(packet.flow)]],
                        packet.payload, packet.time) \in Contents
    BY <1>3, <2>1, <2>2, RecordedTyped DEF LookUpReverse, Contents
  <2> QED  BY <1>3, <2>1, <2>2 DEF LookUpReverse, Record, Contents
<1>4. ASSUME NEW s \in Sessions,
             NEW cid \in ConnectionIDs \cup {None}, Allocate(s, cid)
       PROVE  TypeOK'
  <2>1. NewSession(packet.time, packet.payload.tid, cid) \in Contents
    BY <1>4, PayloadTyped, NewSessionTyped DEF Allocate
  <2>2. store' \in [Sessions -> Contents]
    BY <1>4, <2>1, KeptTyped DEF Allocate, Contents
  <2> QED  BY <1>4, <2>2 DEF Allocate, Contents
<1>5. CASE TableIsFull
  <2>1. store' \in [Sessions -> Contents]
    BY <1>5, KeptTyped DEF TableIsFull, Contents
  <2> QED  BY <1>5, <2>1 DEF TableIsFull, Contents
<1>6. CASE Insert
  BY <1>6 DEF Insert
<1>7. CASE FlushBegin
  BY <1>7 DEF FlushBegin
<1>8. CASE SweepLock
  BY <1>8 DEF SweepLock
<1>9. ASSUME NEW f \in Flows, Visit(f)
       PROVE  TypeOK'
  BY <1>9 DEF Visit
<1>10. CASE LockSMTP
  BY <1>10 DEF LockSMTP
<1>11. ASSUME NEW f \in Flows, Sent(f)
       PROVE  TypeOK'
  BY <1>11 DEF Sent
<1>12. ASSUME NEW f \in Flows, Erase(f)
       PROVE  TypeOK'
  <2>1. store' \in [Sessions -> Contents]
    BY <1>12, KeptTyped DEF Erase, Contents
  <2> QED  BY <1>12, <2>1 DEF Erase, Contents
<1>13. CASE SweepUnlock
  BY <1>13 DEF SweepUnlock
<1>14. CASE HTTPLockSMTP
  BY <1>14 DEF HTTPLockSMTP
<1>15. CASE HTTPSent
  <2>1. httpMails' \in Nat
    BY <1>15 DEF HTTPSent, SweepInv
  <2> QED  BY <1>15, <2>1 DEF HTTPSent
<1>16. ASSUME NEW torrent \in BOOLEAN, NEW tracker \in BOOLEAN,
              ProcessHTTP(torrent, tracker)
       PROVE  TypeOK'
  <2>1. httpMails' \in Nat
    BY <1>16 DEF ProcessHTTP
  <2> QED  BY <1>16, <2>1 DEF ProcessHTTP
<1>17. CASE Tick
  BY <1>17 DEF Tick
<1>18. CASE UNCHANGED vars
  BY <1>18 DEF vars
<1> QED
  BY <1>1, <1>2, <1>3, <1>4, <1>5, <1>6, <1>7, <1>8, <1>9, <1>10,
     <1>11, <1>12, <1>13, <1>14, <1>15, <1>16, <1>17, <1>18 DEF
     Next, CaptureStep, FlushStep

LEMMA NextSweepInv ==
    TypeOK /\ SweepInv /\ TableInv /\ [Next]_vars => SweepInv'
<1> SUFFICES ASSUME TypeOK, SweepInv, TableInv, [Next]_vars PROVE SweepInv'
  OBVIOUS
<1> USE DEF TypeOK, SweepInv, TableInv, Sweeping, Unlocked, ExpiredAt, Goto,
            Miss, Record, Kept, tableVars, capVars, flVars
<1>1. ASSUME NEW f \in Flows, NEW p \in Payloads(f[2]), Receive(f, p)
       PROVE  SweepInv'
  BY <1>1 DEF Receive
<1>2. CASE LookUp
  BY <1>2 DEF LookUp
<1>3. CASE LookUpReverse
  BY <1>3, OppositeFlow DEF LookUpReverse
<1>4. ASSUME NEW s \in Sessions,
             NEW cid \in ConnectionIDs \cup {None}, Allocate(s, cid)
       PROVE  SweepInv'
  BY <1>4 DEF Allocate, Held
<1>5. CASE TableIsFull
  BY <1>5 DEF TableIsFull, Held
<1>6. CASE Insert
  BY <1>6 DEF Insert
<1>7. CASE FlushBegin
  BY <1>7 DEF FlushBegin
<1>8. CASE SweepLock
  BY <1>8 DEF SweepLock
<1>9. ASSUME NEW f \in Flows, Visit(f)
       PROVE  SweepInv'
  BY <1>9 DEF Visit
<1>10. CASE LockSMTP
  BY <1>10 DEF LockSMTP
<1>11. ASSUME NEW f \in Flows, Sent(f)
       PROVE  SweepInv'
  BY <1>11 DEF Sent
<1>12. ASSUME NEW f \in Flows, Erase(f)
       PROVE  SweepInv'
  BY <1>12 DEF Erase, Held
<1>13. CASE SweepUnlock
  BY <1>13 DEF SweepUnlock
<1>14. CASE HTTPLockSMTP
  BY <1>14 DEF HTTPLockSMTP
<1>15. CASE HTTPSent
  BY <1>15 DEF HTTPSent
<1>16. ASSUME NEW torrent \in BOOLEAN, NEW tracker \in BOOLEAN,
              ProcessHTTP(torrent, tracker)
       PROVE  SweepInv'
  BY <1>16 DEF ProcessHTTP
<1>17. CASE Tick
  BY <1>17 DEF Tick
<1>18. CASE UNCHANGED vars
  BY <1>18 DEF vars
<1> QED
  BY <1>1, <1>2, <1>3, <1>4, <1>5, <1>6, <1>7, <1>8, <1>9, <1>10,
     <1>11, <1>12, <1>13, <1>14, <1>15, <1>16, <1>17, <1>18 DEF
     Next, CaptureStep, FlushStep

LEMMA NextTableInv ==
    TypeOK /\ SweepInv /\ TableInv /\ [Next]_vars => TableInv'
<1> SUFFICES ASSUME TypeOK, SweepInv, TableInv, [Next]_vars PROVE TableInv'
  OBVIOUS
<1> USE BTAssumption
    DEF BTAssumption, TypeOK, TableInv, Record, Miss, Goto, tableVars,
        capVars, flVars
<1>0. \A f \in Flows : /\ Opposite(f) \in Flows /\ Opposite(f) # f
                       /\ Opposite(Opposite(f)) = f
  BY OppositeFlow
<1>1. ASSUME NEW f \in Flows, NEW p \in Payloads(f[2]), Receive(f, p)
       PROVE  TableInv'
  BY <1>1 DEF Receive
<1>2. CASE LookUp
  BY <1>2, <1>0 DEF LookUp
<1>3. CASE LookUpReverse
  BY <1>3, <1>0 DEF LookUpReverse
<1>4. ASSUME NEW s \in Sessions,
             NEW cid \in ConnectionIDs \cup {None}, Allocate(s, cid)
       PROVE  TableInv'
  BY <1>4, <1>0 DEF Allocate, Held
<1>5. CASE TableIsFull
  BY <1>5 DEF TableIsFull
<1>6. CASE Insert
  BY <1>6, <1>0 DEF Insert
<1>7. CASE FlushBegin
  BY <1>7 DEF FlushBegin
<1>8. CASE SweepLock
  BY <1>8 DEF SweepLock
<1>9. ASSUME NEW f \in Flows, Visit(f)
       PROVE  TableInv'
  BY <1>9 DEF Visit
<1>10. CASE LockSMTP
  BY <1>10 DEF LockSMTP
<1>11. ASSUME NEW f \in Flows, Sent(f)
       PROVE  TableInv'
  BY <1>11 DEF Sent
<1>12. ASSUME NEW f \in Flows, Erase(f)
       PROVE  TableInv'
  BY <1>12, <1>0 DEF Erase
<1>13. CASE SweepUnlock
  BY <1>13 DEF SweepUnlock
<1>14. CASE HTTPLockSMTP
  BY <1>14 DEF HTTPLockSMTP
<1>15. CASE HTTPSent
  BY <1>15 DEF HTTPSent
<1>16. ASSUME NEW torrent \in BOOLEAN, NEW tracker \in BOOLEAN,
              ProcessHTTP(torrent, tracker)
       PROVE  TableInv'
  BY <1>16 DEF ProcessHTTP
<1>17. CASE Tick
  BY <1>17 DEF Tick
<1>18. CASE UNCHANGED vars
  BY <1>18 DEF vars
<1> QED
  BY <1>1, <1>2, <1>3, <1>4, <1>5, <1>6, <1>7, <1>8, <1>9, <1>10,
     <1>11, <1>12, <1>13, <1>14, <1>15, <1>16, <1>17, <1>18 DEF
     Next, CaptureStep, FlushStep

IInv == TypeOK /\ SweepInv /\ TableInv

LEMMA InvariantIInv == Spec => []IInv
BY InitInv, NextTypeOK, NextSweepInv, NextTableInv, PTL DEF Spec, IInv

-----------------------------------------------------------------------------
(* The variables keep their types: no step of the capture thread or the    *)
(* flush thread (bt.cpp processPacket(), flush(), processHTTP()) puts a    *)
(* null session or a foreign value where the other reads a session.        *)
THEOREM BTTypeOK == Spec => []TypeOK
BY InvariantIInv, PTL DEF IInv

(* A connection between a client and a tracker has at most one session,    *)
(* and a session is in the table once: processPacket() looks for both flow *)
(* IDs and unlocks the bucket before it inserts, yet nobody else does.     *)
OneSessionEach ==
    /\ \A f \in Flows : table[f] # None => table[Opposite(f)] = None
    /\ \A f, g \in Flows : table[f] # None /\ table[f] = table[g] => f = g

THEOREM OneSessionPerConnection == Spec => []OneSessionEach
<1>1. IInv => OneSessionEach
  BY DEF IInv, TableInv, OneSessionEach
<1> QED  BY <1>1, InvariantIInv, PTL

(* flush() erases a session only if it has been idle for the timeout: the  *)
(* lock of the bucket, kept while the mail is sent, keeps requests and     *)
(* responses from the sessions that were found idle.                       *)
THEOREM NoBusyTrackerIsErased == Spec => OnlyIdleTrackersLeave
<1> DEFINE Leaves(f) == table[f] # None /\ table'[f] = None
           Safe == \A f \in Flows :
                       Leaves(f) => ExpiredAt(store[table[f]], flTime)
<1>1. IInv /\ [Next]_vars => Safe
  <2> SUFFICES ASSUME IInv, [Next]_vars, NEW f \in Flows, Leaves(f)
               PROVE  ExpiredAt(store[table[f]], flTime)
    OBVIOUS
  <2>1. \/ table' = table
        \/ Insert
        \/ \E g \in Flows : Erase(g)
    BY Zenon DEF Next, CaptureStep, FlushStep, vars, tableVars, Receive, LookUp,
       LookUpReverse, Record, Miss, Allocate, TableIsFull, FlushBegin,
       SweepLock, Visit, LockSMTP, Sent, SweepUnlock, HTTPLockSMTP, HTTPSent,
       ProcessHTTP, Tick
  <2>2. ASSUME Insert PROVE FALSE
    BY <2>2 DEF Insert, IInv, TypeOK, TableInv
  <2>3. ASSUME NEW g \in Flows, Erase(g)
        PROVE  ExpiredAt(store[table[f]], flTime)
    <3>1. f = g
      BY <2>3 DEF Erase, IInv, TypeOK
    <3> QED  BY <2>3, <3>1 DEF Erase, IInv, SweepInv
  <2> QED  BY <2>1, <2>2, <2>3
<1> QED
  BY <1>1, InvariantIInv, PTL DEF Spec, OnlyIdleTrackersLeave

-----------------------------------------------------------------------------
(* Counting announces.  The session about to be inserted has none.         *)
(* A session found idle is mailed before the next one is looked at.        *)
CountInv ==
    /\ unreported \in Int
    /\ flPC = "scan" => flScan \cap flErase = {}
    /\ \A f, g \in flScan \cap flErase : f = g
    /\ capPC = "insert" => Announces(store[session]) = 0

AccountInv == IInv /\ CountInv /\ AnnouncesAreReported

LEMMA AnnouncesTyped ==
    ASSUME NEW x \in Contents
    PROVE  Announces(x) \in Nat
BY DEF Announces, Contents

LEMMA OwedFacts ==
    ASSUME TypeOK
    PROVE  /\ IsFiniteSet(Flows)
           /\ \A f \in Flows :
                 /\ Owed[f] = IF table[f] = None \/ Reported(f) THEN 0
                              ELSE Announces(store[table[f]])
                 /\ Owed[f] \in Nat
<1>1. IsFiniteSet(Flows)
  <2>1. IsFiniteSet(Sides)
    <3>1. Sides = ({} \cup {"client"}) \cup {"tracker"}
      BY DEF Sides
    <3> QED  BY <3>1, FS_EmptySet, FS_AddElement
  <2> QED  BY <2>1, BTAssumption, FS_Product DEF BTAssumption, Flows
<1>2. ASSUME NEW f \in Flows, table[f] # None
      PROVE  Announces(store[table[f]]) \in Nat
  BY <1>2, AnnouncesTyped DEF TypeOK, Contents
<1> QED  BY <1>1, <1>2 DEF Owed

(* What a step may do to the account: what one flow owes changes with      *)
(* unreported.                                                             *)
LEMMA OneOwes ==
    ASSUME AccountInv, NEW f \in Flows, Owed'[f] \in Nat,
           \A g \in Flows : g # f => Owed'[g] = Owed[g],
           unreported' = unreported + Owed'[f] - Owed[f]
    PROVE  AnnouncesAreReported' /\ unreported' \in Int
<1>1. /\ IsFiniteSet(Flows)
      /\ \A g \in Flows : Owed[g] \in Nat
      /\ unreported \in Int
      /\ unreported = SumFunctionOnSet(Owed, Flows)
  BY OwedFacts DEF AccountInv, IInv, CountInv, AnnouncesAreReported
<1>2. \A g \in Flows : Owed'[g] \in Nat
  BY <1>1
<1>3. SumFunctionOnSet(Owed', Flows)
        = (SumFunctionOnSet(Owed, Flows) - Owed[f]) + Owed'[f]
  BY <1>1, <1>2, SumChange
<1>4. Owed[f] \in Nat /\ Owed'[f] \in Nat
  BY <1>1, <1>2
<1>5. unreported' = SumFunctionOnSet(Owed', Flows)
  BY <1>1, <1>3, <1>4
<1> QED  BY <1>1, <1>4, <1>5 DEF AnnouncesAreReported

LEMMA NobodyOwesMore ==
    ASSUME AccountInv, unreported' = unreported,
           \A f \in Flows : Owed'[f] = Owed[f]
    PROVE  AnnouncesAreReported' /\ unreported' \in Int
<1>1. SumFunctionOnSet(Owed', Flows) = SumFunctionOnSet(Owed, Flows)
  BY OwedFacts, SumSame DEF AccountInv, IInv
<1> QED  BY <1>1 DEF AccountInv, CountInv, AnnouncesAreReported

LEMMA OwesTheSame ==
    ASSUME NEW f \in Flows, table'[f] = table[f],
           Reported(f)' <=> Reported(f),
           table[f] # None =>
               Announces(store'[table[f]]) = Announces(store[table[f]])
    PROVE  Owed'[f] = Owed[f]
BY DEF Owed

(* What is in the table, or about to be, is not destroyed.                 *)
LEMMA HeldAreKept ==
    ASSUME NEW st, store' = Kept(st), NEW s \in Sessions,
           s = session' \/ \E f \in Flows : table'[f] = s
    PROVE  store'[s] = st[s]
BY DEF Kept, Held

(* An announce that is recorded is owed: the session has not been reported,*)
(* for its bucket is not locked.                                           *)
LEMMA RecordAccounts ==
    ASSUME AccountInv, NEW f \in Flows, table[f] # None, Unlocked(f),
           NEW y \in Contents, Record(f, y)
    PROVE  CountInv' /\ AnnouncesAreReported'
<1> DEFINE s == table[f]
<1>1. /\ TypeOK /\ SweepInv /\ TableInv /\ CountInv
      /\ s \in Sessions /\ store[s] \in Contents
      /\ store' = [store EXCEPT ![s] = y]
      /\ unreported' = unreported + Announces(y) - Announces(store[s])
      /\ UNCHANGED <<table, session, flPC, flScan, flErase>>
      /\ capPC' = "idle"
  BY DEF AccountInv, IInv, TypeOK, Contents, Record, Goto, flVars
<1>2. store' \in [Sessions -> Contents] /\ store'[s] = y
  BY <1>1 DEF TypeOK, Contents
<1>3. ~Reported(f) /\ ~Reported(f)'
  BY <1>1 DEF Reported, SweepInv, Sweeping, Unlocked
<1>4. Owed[f] = Announces(store[s]) /\ Owed'[f] = Announces(y)
  BY <1>1, <1>2, <1>3 DEF Owed
<1>5. Owed'[f] \in Nat
  BY <1>4, AnnouncesTyped
<1>6. ASSUME NEW g \in Flows, g # f PROVE Owed'[g] = Owed[g]
  <2>1. table[g] # None => table[g] \in Sessions /\ table[g] # s
    BY <1>1, <1>6 DEF TypeOK, TableInv
  <2>2. Reported(g)' <=> Reported(g)
    BY <1>1 DEF Reported
  <2> QED  BY <1>1, <2>1, <2>2, OwesTheSame DEF TypeOK
<1>7. unreported' = unreported + Owed'[f] - Owed[f]
  BY <1>1, <1>4
<1>8. AnnouncesAreReported' /\ unreported' \in Int
  BY <1>5, <1>6, <1>7, OneOwes
<1> QED  BY <1>1, <1>8 DEF CountInv

(* A step that leaves alone what the flows owe.                            *)
LEMMA QuietAccounts ==
    ASSUME AccountInv, unreported' = unreported,
           UNCHANGED <<table, flScan, flErase>>,
           \A f \in Flows : table[f] # None =>
               Announces(store'[table[f]]) = Announces(store[table[f]])
    PROVE  AnnouncesAreReported' /\ unreported' \in Int
<1>1. ASSUME NEW f \in Flows PROVE Owed'[f] = Owed[f]
  BY OwesTheSame DEF Reported
<1> QED  BY <1>1, NobodyOwesMore

LEMMA LookUpAccounts ==
    AccountInv /\ (LookUp \/ LookUpReverse)
        => CountInv' /\ AnnouncesAreReported'
<1> SUFFICES ASSUME AccountInv, LookUp \/ LookUpReverse
             PROVE  CountInv' /\ AnnouncesAreReported'
  OBVIOUS
<1>1. /\ capPC # "idle" /\ packet.flow \in Flows
      /\ packet.payload \in Payloads(packet.flow[2]) /\ packet.time \in Times
      /\ \A f \in Flows : table[f] # None => store[table[f]] \in Contents
  BY DEF LookUp, LookUpReverse, AccountInv, IInv, TypeOK, Contents
<1>2. CASE \E next \in {"reverse", "allocate", "idle"} : Miss(next)
  <2>1. /\ UNCHANGED <<table, store, session, unreported, flPC, flScan,
                       flErase>>
        /\ capPC' # "insert"
    BY <1>2 DEF Miss, Goto, tableVars, flVars
  <2>2. AnnouncesAreReported' /\ unreported' \in Int
    BY <2>1, QuietAccounts
  <2> QED  BY <2>1, <2>2 DEF CountInv, AccountInv
<1>3. CASE \E f \in Flows, y \in Contents :
               table[f] # None /\ Unlocked(f) /\ Record(f, y)
  BY <1>3, RecordAccounts
<1>4. CASE LookUp
  <2>1. ASSUME table[packet.flow] # None
        PROVE  Request(store[table[packet.flow]], packet.payload, packet.time)
                   \in Contents
    BY <1>1, <2>1, RecordedTyped
  <2> QED  BY <1>1, <1>2, <1>3, <1>4, <2>1 DEF LookUp
<1>5. CASE LookUpReverse
  <2>1. Opposite(packet.flow) \in Flows
    BY <1>1, OppositeFlow
  <2>2. ASSUME table[Opposite(packet.flow)] # None
        PROVE  Response(store[table[Opposite(packet.flow)]], packet.payload,
                        packet.time) \in Contents
    BY <1>1, <2>1, <2>2, RecordedTyped
  <2> QED  BY <1>1, <1>2, <1>3, <1>5, <2>1, <2>2 DEF LookUpReverse
<1> QED  BY <1>4, <1>5

(* The block of a new session is nobody's, and the blocks of the others    *)
(* are not destroyed.                                                      *)
LEMMA AllocateAccounts ==
    ASSUME AccountInv,
           TableIsFull \/ \E s \in Sessions,
                             cid \in ConnectionIDs \cup {None} :
                                 Allocate(s, cid)
    PROVE  CountInv' /\ AnnouncesAreReported'
<1>1. /\ UNCHANGED <<table, unreported, flPC, flScan, flErase>>
      /\ TypeOK /\ CountInv
  BY DEF TableIsFull, Allocate, flVars, AccountInv, IInv
<1>2. CASE TableIsFull
  <2>1. store' = Kept(store) /\ capPC' = "idle"
    BY <1>2 DEF TableIsFull, Goto
  <2>2. ASSUME NEW f \in Flows, table[f] # None
        PROVE  store'[table[f]] = store[table[f]]
    <3>1. table[f] \in Sessions /\ table'[f] = table[f]
      BY <1>1, <2>2 DEF TypeOK
    <3> QED  BY <2>1, <3>1, HeldAreKept
  <2>3. AnnouncesAreReported' /\ unreported' \in Int
    BY <1>1, <2>2, QuietAccounts
  <2> QED  BY <1>1, <2>1, <2>3 DEF CountInv
<1>3. ASSUME NEW s \in Sessions, NEW cid \in ConnectionIDs \cup {None},
             Allocate(s, cid)
      PROVE  CountInv' /\ AnnouncesAreReported'
  <2> DEFINE x == NewSession(packet.time, packet.payload.tid, cid)
             st == [store EXCEPT ![s] = x]
  <2>1. /\ store' = Kept(st) /\ session' = s
        /\ \A f \in Flows : table[f] # s
    BY <1>3 DEF Allocate, Held
  <2>2. Announces(x) = 0
    BY DEF NewSession, Announces
  <2>3. st[s] = x /\ \A r \in Sessions : r # s => st[r] = store[r]
    BY <1>1 DEF TypeOK
  <2> HIDE DEF x, st
  <2>4. store'[s] = x
    BY <2>1, <2>3, HeldAreKept
  <2>5. ASSUME NEW f \in Flows, table[f] # None
        PROVE  store'[table[f]] = store[table[f]]
    <3>1. table[f] \in Sessions /\ table'[f] = table[f] /\ table[f] # s
      BY <1>1, <2>1, <2>5 DEF TypeOK
    <3>2. store'[table[f]] = st[table[f]]
      BY <2>1, <3>1, HeldAreKept
    <3> QED  BY <2>3, <3>1, <3>2
  <2>6. AnnouncesAreReported' /\ unreported' \in Int
    BY <1>1, <2>5, QuietAccounts
  <2> QED  BY <1>1, <2>1, <2>2, <2>4, <2>6 DEF CountInv
<1> QED  BY <1>2, <1>3

(* A new session in the table owes nothing yet.                            *)
LEMMA InsertAccounts ==
    AccountInv /\ Insert => CountInv' /\ AnnouncesAreReported'
<1> SUFFICES ASSUME AccountInv, Insert PROVE CountInv' /\ AnnouncesAreReported'
  OBVIOUS
<1> DEFINE f == packet.flow
<1>1. /\ TypeOK /\ SweepInv /\ TableInv /\ CountInv
      /\ table' = [table EXCEPT ![f] = session] /\ capPC' = "idle"
      /\ UNCHANGED <<store, unreported, flPC, flScan, flErase>>
      /\ f \in Flows /\ table[f] = None /\ session \in Sessions
      /\ Announces(store[session]) = 0
  BY DEF AccountInv, IInv, Insert, Goto, TypeOK, TableInv, CountInv, flVars
<1> HIDE DEF f
<1>2. ASSUME NEW g \in Flows PROVE Owed'[g] = Owed[g]
  <2>1. CASE g = f
    BY <1>1, <2>1 DEF Owed, TypeOK
  <2>2. CASE g # f
    BY <1>1, <2>2 DEF Owed, Reported, TypeOK
  <2> QED  BY <2>1, <2>2
<1>3. AnnouncesAreReported' /\ unreported' \in Int
  BY <1>1, <1>2, NobodyOwesMore
<1> QED  BY <1>1, <1>3 DEF CountInv

(* A session found idle is to be mailed, unless it has nothing to report.  *)
LEMMA VisitAccounts ==
    ASSUME AccountInv, NEW f \in Flows, Visit(f)
    PROVE  CountInv' /\ AnnouncesAreReported'
<1> DEFINE x == store[table[f]]
<1>1. /\ TypeOK /\ SweepInv /\ CountInv /\ flPC = "scan" /\ f \in flScan
      /\ UNCHANGED <<table, store, session, capPC, unreported>>
      /\ flErase' = IF ExpiredAt(x, flTime) THEN flErase \cup {f} ELSE flErase
      /\ IF ExpiredAt(x, flTime) /\ Interesting(x)
         THEN flPC' = "smtp" /\ flScan' = flScan
         ELSE flScan' = flScan \ {f} /\ flPC' = "scan"
  BY DEF AccountInv, IInv, Visit, tableVars, capVars
<1>2. f \notin flErase /\ table[f] # None /\ x \in Contents
  BY <1>1 DEF CountInv, SweepInv, TypeOK, Contents
<1>3. ~Interesting(x) => Announces(x) = 0
  BY <1>2 DEF Interesting, Announces, Contents
<1> HIDE DEF x
<1>4. ASSUME NEW g \in Flows PROVE Owed'[g] = Owed[g]
  <2>1. CASE g = f
    <3>1. CASE ExpiredAt(x, flTime) /\ ~Interesting(x)
      <4>1. Owed'[f] = 0
        BY <1>1, <1>3, <3>1 DEF Owed, Reported
      <4>2. Owed[f] = 0
        BY <1>3, <3>1 DEF Owed, x
      <4> QED  BY <2>1, <4>1, <4>2
    <3>2. CASE ~(ExpiredAt(x, flTime) /\ ~Interesting(x))
      <4>1. ~Reported(f)' /\ ~Reported(f)
        BY <1>1, <1>2, <3>2 DEF Reported
      <4> QED  BY <1>1, <2>1, <4>1 DEF Owed
    <3> QED  BY <3>1, <3>2
  <2>2. CASE g # f
    BY <1>1, <2>2 DEF Owed, Reported
  <2> QED  BY <2>1, <2>2
<1>5. AnnouncesAreReported' /\ unreported' \in Int
  BY <1>1, <1>4, NobodyOwesMore
<1> QED  BY <1>1, <1>2, <1>5 DEF CountInv

(* What a session owes is reported once, when its mail has been sent.      *)
LEMMA SentAccounts ==
    ASSUME AccountInv, NEW f \in Flows, Sent(f)
    PROVE  CountInv' /\ AnnouncesAreReported'
<1>1. /\ TypeOK /\ SweepInv /\ CountInv /\ f \in flScan \cap flErase
      /\ unreported' = unreported - Announces(store[table[f]])
      /\ UNCHANGED <<table, store, session, capPC, flErase>>
      /\ flScan' = flScan \ {f} /\ flPC' = "scan"
  BY DEF AccountInv, IInv, Sent, tableVars, capVars
<1>2. table[f] # None
  BY <1>1 DEF SweepInv
<1>3. Owed[f] = Announces(store[table[f]]) /\ Owed'[f] = 0
  BY <1>1, <1>2 DEF Owed, Reported
<1>4. ASSUME NEW g \in Flows, g # f PROVE Owed'[g] = Owed[g]
  BY <1>1, <1>4 DEF Owed, Reported
<1>5. Owed[f] \in Nat /\ unreported \in Int
  BY <1>1, OwedFacts DEF CountInv
<1>6. unreported' = unreported + Owed'[f] - Owed[f]
  BY <1>1, <1>3, <1>5
<1>7. AnnouncesAreReported' /\ unreported' \in Int
  BY <1>3, <1>4, <1>6, OneOwes
<1> QED  BY <1>1, <1>7 DEF CountInv

(* What is erased has been reported, and the other sessions stay.          *)
LEMMA EraseAccounts ==
    ASSUME AccountInv, NEW f \in Flows, Erase(f)
    PROVE  CountInv' /\ AnnouncesAreReported'
<1>1. /\ TypeOK /\ SweepInv /\ TableInv /\ CountInv
      /\ flScan = {} /\ f \in flErase
      /\ table' = [table EXCEPT ![f] = None] /\ store' = Kept(store)
      /\ flErase' = flErase \ {f}
      /\ UNCHANGED <<unreported, session, capPC, flScan, flPC>>
  BY DEF AccountInv, IInv, Erase, capVars
<1>2. ASSUME NEW g \in Flows PROVE Owed'[g] = Owed[g]
  <2>1. CASE g = f
    <3>1. Owed[f] = 0
      BY <1>1 DEF Owed, Reported
    <3>2. Owed'[f] = 0
      BY <1>1 DEF Owed, TypeOK
    <3> QED  BY <2>1, <3>1, <3>2
  <2>2. CASE g # f
    <3>1. table'[g] = table[g]
      BY <1>1, <2>2 DEF TypeOK
    <3>2. Reported(g)' <=> Reported(g)
      BY <1>1, <2>2 DEF Reported
    <3>3. ASSUME table[g] # None PROVE store'[table[g]] = store[table[g]]
      <4>1. table[g] \in Sessions
        BY <1>1, <3>3 DEF TypeOK
      <4> QED  BY <1>1, <3>1, <4>1, HeldAreKept
    <3> QED  BY <3>1, <3>2, <3>3, OwesTheSame
  <2> QED  BY <2>1, <2>2
<1>3. ASSUME capPC = "insert" PROVE store'[session] = store[session]
  <2>1. session \in Sessions /\ session' = session
    BY <1>1, <1>3 DEF TableInv
  <2> QED  BY <1>1, <2>1, HeldAreKept
<1>4. AnnouncesAreReported' /\ unreported' \in Int
  BY <1>1, <1>2, NobodyOwesMore
<1> QED  BY <1>1, <1>3, <1>4 DEF CountInv

LEMMA NextAccounts ==
    AccountInv /\ [Next]_vars => CountInv' /\ AnnouncesAreReported'
<1> SUFFICES ASSUME AccountInv, [Next]_vars
             PROVE  CountInv' /\ AnnouncesAreReported'
  OBVIOUS
<1>1. CASE /\ UNCHANGED <<table, store, session, unreported, flErase>>
           /\ capPC' = "insert" => capPC = "insert"
           /\ \/ flScan' = flScan /\ flPC' \in {flPC, "lock", "idle", "send",
                                               "httpSend"}
              \/ flErase = {}
  <2>1. ASSUME NEW f \in Flows PROVE Owed'[f] = Owed[f]
    BY <1>1 DEF Owed, Reported
  <2>2. AnnouncesAreReported' /\ unreported' \in Int
    BY <1>1, <2>1, NobodyOwesMore
  <2> QED  BY <1>1, <2>2 DEF CountInv, AccountInv
<1>2. CASE SweepLock
  <2>1. flErase = {}
    BY <1>2 DEF SweepLock, AccountInv, IInv, SweepInv, Sweeping, TypeOK
  <2> QED  BY <1>1, <1>2, <2>1 DEF SweepLock, tableVars, capVars
<1>3. CASE \/ \E f \in Flows : \E p \in Payloads(f[2]) : Receive(f, p)
           \/ FlushBegin \/ LockSMTP \/ SweepUnlock \/ HTTPLockSMTP
           \/ HTTPSent \/ Tick
           \/ \E torrent, tracker \in BOOLEAN : ProcessHTTP(torrent, tracker)
           \/ UNCHANGED vars
  BY <1>1, <1>3 DEF Receive, FlushBegin, LockSMTP, SweepUnlock, HTTPLockSMTP,
     HTTPSent, Tick, ProcessHTTP, vars, tableVars, capVars, flVars
<1>4. CASE CaptureStep
  BY <1>4, LookUpAccounts, AllocateAccounts, InsertAccounts DEF CaptureStep
<1> QED
  BY <1>2, <1>3, <1>4, VisitAccounts, SentAccounts, EraseAccounts
     DEF Next, FlushStep

(* AnnouncesAreReported of BT.tla: every announce that processPacket()     *)
(* records is in a session of the table or in a mail that flush() has      *)
(* sent, and in one of them only.                                          *)
THEOREM AnnouncesReachTheMail == Spec => []AnnouncesAreReported
<1>1. Init => AccountInv
  <2> SUFFICES ASSUME Init PROVE AccountInv
    OBVIOUS
  <2>1. IInv
    BY InitInv DEF IInv
  <2>2. SumFunctionOnSet(Owed, Flows) = 0
    <3>1. \A f \in Flows : Owed[f] = 0
      BY DEF Init, Owed
    <3> QED  BY <2>1, <3>1, OwedFacts, SumZero DEF IInv
  <2> QED  BY <2>1, <2>2 DEF Init, AccountInv, CountInv, AnnouncesAreReported
<1>2. AccountInv /\ [Next]_vars => AccountInv'
  BY NextTypeOK, NextSweepInv, NextTableInv, NextAccounts DEF AccountInv, IInv
<1> QED  BY <1>1, <1>2, PTL DEF Spec, AccountInv

-----------------------------------------------------------------------------
(* The SMTP client that the mails go through (SMTP.tla): what send()       *)
(* leaves behind in libesmtp, for any number of recipients, mails and      *)
(* lines of the server.                                                    *)

(* What the running send() has open.                                       *)
Open == IF pc = "dialogue" \/ (pc = "calls" /\ call > 1) THEN 1 ELSE 0
OpenContext ==
    IF _auth /\ (pc = "dialogue" \/ (pc = "calls" /\ call > 4)) THEN 1 ELSE 0

CountersOK ==
    /\ sessions \in Nat /\ contexts \in Nat /\ unsent \in Nat
    /\ call \in Nat \ {0}
    /\ pc \in {"idle", "calls", "dialogue", "returned"}

LeakInv ==
    /\ Open <= sessions /\ sessions <= unsent + Open
    /\ OpenContext <= contexts /\ contexts + Open <= sessions + OpenContext

ClientInv == CountersOK /\ LeakInv

LEMMA InitClientInv == ClientInit => ClientInv
BY DEF ClientInit, ClientInv, CountersOK, LeakInv, Open, OpenContext

LEMMA NextClientInv == ClientInv /\ [ClientNext]_clientVars => ClientInv'
<1> SUFFICES ASSUME ClientInv, [ClientNext]_clientVars PROVE ClientInv'
  OBVIOUS
<1> USE SMTPAssumption
    DEF SMTPAssumption, ClientInv, CountersOK, LeakInv, Open, OpenContext
<1>1. ASSUME NEW m \in Mails, Compose(m) PROVE ClientInv'
  BY <1>1 DEF Compose, library
<1>2. CASE CallSucceeds
  BY <1>2 DEF CallSucceeds, smtp_create_session, auth_create_context
<1>3. CASE CallFails
  BY <1>3 DEF CallFails, Return, library
<1>4. CASE StartSession
  <2>1. call > 1 /\ (_auth => call > 4)
    BY <1>4 DEF StartSession, Calls
  <2> QED  BY <1>4, <2>1 DEF StartSession, library
<1>5. ASSUME NEW bytes \in Pieces, monitorCallback(bytes) PROVE ClientInv'
  BY <1>5 DEF monitorCallback, library
<1>6. CASE messageCallback
  BY <1>6 DEF messageCallback, library
<1>7. CASE SessionFails
  BY <1>7 DEF SessionFails, Return, library
<1>8. CASE SessionRefused
  BY <1>8 DEF SessionRefused, SessionOver, Return, library
<1>9. CASE SessionSucceeds
  BY <1>9 DEF SessionSucceeds, SessionOver, Return
<1>10. CASE Clear
  BY <1>10 DEF Clear, library
<1>11. CASE UNCHANGED clientVars
  BY <1>11 DEF clientVars, library
<1> QED
  BY <1>1, <1>2, <1>3, <1>4, <1>5, <1>6, <1>7, <1>8, <1>9, <1>10, <1>11
     DEF ClientNext

(* What outlives its send() in libesmtp is of a send() that returned       *)
(* false, and no context outlives the session it was made for.             *)
THEOREM OnlyFailuresLeak == ClientSpec => []LeaksNeedAFailure
<1>1. ClientInv => LeaksNeedAFailure
  BY DEF ClientInv, CountersOK, LeakInv, Open, OpenContext, LeaksNeedAFailure
<1> QED
  BY InitClientInv, NextClientInv, <1>1, PTL DEF ClientSpec

-----------------------------------------------------------------------------
(* What send() says of a mail: the wire form.                              *)
-----------------------------------------------------------------------------


(* What a mail and the dialogue with a server are made of.                 *)
Byte == STRING \cup {"Subject:", "CR", "LF", "2", "5"}

(* A set of natural numbers has a least member.                            *)
LEMMA LeastOf ==
    ASSUME NEW S, S \subseteq Nat, S # {}
    PROVE  \E m \in S : \A k \in S : m <= k
<1> DEFINE R == OpToRel(<, Nat)
<1>1. IsWellFoundedOn(R, Nat)
  BY NatLessThanWellFounded
<1>2. \E m \in S : \A k \in S : ~ (<<k, m>> \in R)
  <2> HIDE DEF R
  <2> QED  BY <1>1, WFMin
<1>3. PICK m \in S : \A k \in S : ~ (k < m)
  BY <1>2 DEF OpToRel
<1>4. \A k \in S : m <= k
  BY <1>3
<1> QED  BY <1>4

(* The first n bytes of a text as they go over the wire.                   *)
IsWire(g, text, n) ==
    /\ g \in [0..n -> Seq(Byte)]
    /\ g[0] = <<>>
    /\ \A i \in 1..n : g[i] = g[i - 1] \o OnWire(text, i)

(* Sequences over a set are sequences over a wider one.                    *)
LEMMA SeqWider ==
    ASSUME NEW S, NEW T, S \subseteq T
    PROVE  Seq(S) \subseteq Seq(T)
<1> SUFFICES ASSUME NEW s \in Seq(S) PROVE s \in Seq(T)
  OBVIOUS
<1>1. s \in [1..Len(s) -> S] /\ Len(s) \in Nat
  OBVIOUS
<1>2. s \in [1..Len(s) -> T]
  BY <1>1
<1> QED  BY <1>1, <1>2, SeqDef

(* Two bytes, alone and after others.                                      *)
LEMMA TwoBytes ==
    ASSUME NEW S, NEW a \in S, NEW b \in S
    PROVE  /\ <<a, b>> \in Seq(S) /\ Len(<<a, b>>) = 2
           /\ <<a, b>>[1] = a /\ <<a, b>>[2] = b
<1>1. <<a>> \in Seq(S) /\ Len(<<a>>) = 1
  OBVIOUS
<1>2. <<a, b>> = Append(<<a>>, b)
  OBVIOUS
<1>3. Append(<<a>>, b) \in Seq(S)
  BY <1>1, AppendProperties
<1> QED  BY <1>2, <1>3

LEMMA AddTwo ==
    ASSUME NEW S, NEW w \in Seq(S), NEW a \in S, NEW b \in S,
           NEW v, v = w \o <<a, b>>
    PROVE  /\ v \in Seq(S) /\ Len(v) = Len(w) + 2
           /\ \A i \in 1..Len(w) : v[i] = w[i]
           /\ v[Len(w) + 1] = a /\ v[Len(w) + 2] = b
<1>1. v \in Seq(S)
  OBVIOUS
<1>2. Len(v) = Len(w) + 2
  OBVIOUS
<1>3. \A i \in 1..Len(w) : v[i] = w[i]
  OBVIOUS
<1>4. v[Len(w) + 1] = a
  OBVIOUS
<1>5. v[Len(w) + 2] = b
  OBVIOUS
<1> QED  BY <1>1, <1>2, <1>3, <1>4, <1>5

(* A byte of the text is one or two on the wire.                           *)
LEMMA OnWireType ==
    ASSUME NEW text \in Seq(Byte), NEW i \in DOMAIN text
    PROVE  OnWire(text, i) \in Seq(Byte)
<1>0. text[i] \in Byte
  OBVIOUS
<1>0a. "CR" \in Byte /\ "LF" \in Byte
  BY DEF Byte
<1>1. <<"CR", "LF">> \in Seq(Byte) /\ <<text[i]>> \in Seq(Byte)
  BY <1>0, <1>0a, TwoBytes
<1>2. OnWire(text, i) = <<"CR", "LF">> \/ OnWire(text, i) = <<text[i]>>
  BY DEF OnWire
<1> QED  BY <1>1, <1>2

(* There is such a function, and WithCRs() is what it comes to.            *)
LEMMA WireExists ==
    ASSUME NEW text \in Seq(Byte)
    PROVE  \A n \in 0..Len(text) : \E g : IsWire(g, text, n)
<1> DEFINE S == {n \in 0..Len(text) : ~ \E g : IsWire(g, text, n)}
<1>1. SUFFICES ASSUME S # {} PROVE FALSE
  OBVIOUS
<1>2. S \subseteq Nat
  OBVIOUS
<1>3. PICK n \in S : \A k \in S : n <= k
  <2> HIDE DEF S
  <2> QED  BY <1>1, <1>2, LeastOf
<1>4. n # 0
  <2>1. IsWire([i \in 0..0 |-> <<>>], text, 0)
    BY DEF IsWire
  <2> QED  BY <1>3, <2>1
<1>5. n \in 1..Len(text) /\ n - 1 \in 0..Len(text) /\ n - 1 \notin S
  BY <1>3, <1>4
<1>6. PICK g : IsWire(g, text, n - 1)
  BY <1>5
<1> DEFINE last == g[n - 1] \o OnWire(text, n)
           h == [i \in 0..n |-> IF i = n THEN last ELSE g[i]]
<1>7. OnWire(text, n) \in Seq(Byte)
  BY <1>5, OnWireType
<1>8. last \in Seq(Byte)
  BY <1>5, <1>6, <1>7 DEF IsWire
<1>8a. last = g[n - 1] \o OnWire(text, n)
  OBVIOUS
<1> HIDE DEF last
<1>9. h \in [0..n -> Seq(Byte)]
  <2>1. ASSUME NEW i \in 0..n, i # n PROVE g[i] \in Seq(Byte)
    <3>1. i \in 0..(n - 1)
      BY <1>5, <2>1
    <3> QED  BY <1>6, <3>1 DEF IsWire
  <2> QED  BY <1>8, <2>1
<1>10. h[0] = <<>>
  BY <1>5, <1>6 DEF IsWire
<1>11. ASSUME NEW i \in 1..n PROVE h[i] = h[i - 1] \o OnWire(text, i)
  <2>1. CASE i = n
    <3>1. n - 1 \in 0..n /\ n - 1 # n /\ n \in 0..n
      BY <1>5
    <3>2. h[n] = last /\ h[n - 1] = g[n - 1]
      BY <3>1
    <3> HIDE DEF h
    <3> QED  BY <1>8a, <2>1, <3>2
  <2>2. CASE i # n
    <3>1. i \in 1..(n - 1) /\ i \in 0..n /\ i - 1 \in 0..n /\ i - 1 # n
      BY <1>5, <2>2
    <3> QED  BY <1>6, <2>2, <3>1 DEF IsWire
  <2> QED  BY <2>1, <2>2
<1>12. IsWire(h, text, n)
  <2> HIDE DEF h
  <2> QED  BY <1>9, <1>10, <1>11 DEF IsWire
<1> QED  BY <1>3, <1>12

LEMMA WireOf ==
    ASSUME NEW text \in Seq(Byte)
    PROVE  \E g : IsWire(g, text, Len(text)) /\ WithCRs(text) = g[Len(text)]
<1> DEFINE L == Len(text)
           F(g) == g = [n \in 0..L |->
                          IF n = 0 THEN <<>> ELSE g[n - 1] \o OnWire(text, n)]
           wire == CHOOSE g : F(g)
<1>1. PICK g : IsWire(g, text, L)
  BY WireExists
<1>2. F(g)
  <2>1. ASSUME NEW n \in 0..L
        PROVE  g[n] = IF n = 0 THEN <<>> ELSE g[n - 1] \o OnWire(text, n)
    BY <1>1 DEF IsWire
  <2>2. g = [n \in 0..L |-> g[n]]
    BY <1>1 DEF IsWire
  <2> QED  BY <2>1, <2>2
<1>3. F(wire)
  <2> HIDE DEF F
  <2> QED  BY <1>2
<1>4. WithCRs(text) = wire[L]
  BY DEF WithCRs
<1> HIDE DEF wire
<1>5. ASSUME NEW n \in 0..L
      PROVE  wire[n] = IF n = 0 THEN <<>> ELSE wire[n - 1] \o OnWire(text, n)
  <2>1. wire = [m \in 0..L |-> IF m = 0 THEN <<>>
                               ELSE wire[m - 1] \o OnWire(text, m)]
    BY <1>3
  <2> QED  BY <2>1
<1>6. \A n \in 0..L : wire[n] = g[n]
  <2> DEFINE S == {n \in 0..L : wire[n] # g[n]}
  <2>1. SUFFICES ASSUME S # {} PROVE FALSE
    OBVIOUS
  <2>2. S \subseteq Nat
    OBVIOUS
  <2>3. PICK n \in S : \A k \in S : n <= k
    <3> HIDE DEF S
    <3> QED  BY <2>1, <2>2, LeastOf
  <2>4. n # 0
    BY <1>1, <1>5, <2>3 DEF IsWire
  <2>5. n \in 1..L /\ n - 1 \in 0..L /\ n - 1 \notin S
    BY <2>3, <2>4
  <2>6. wire[n - 1] = g[n - 1]
    BY <2>5
  <2>7. wire[n] = wire[n - 1] \o OnWire(text, n)
    BY <1>5, <2>4, <2>5
  <2>8. g[n] = g[n - 1] \o OnWire(text, n)
    BY <1>1, <2>5 DEF IsWire
  <2> QED  BY <2>3, <2>6, <2>7, <2>8
<1>7. L \in 0..L
  OBVIOUS
<1> QED  BY <1>1, <1>4, <1>6, <1>7

(* Where byte i of the text is on the wire.                                *)
BareTo(text, n) == {j \in BareLFs(text) : j <= n}
Place(text, n) == n + Cardinality(BareTo(text, n))

LEMMA BareToFacts ==
    ASSUME NEW text \in Seq(Byte), NEW n \in Nat
    PROVE  /\ IsFiniteSet(BareTo(text, n))
           /\ Cardinality(BareTo(text, n)) \in Nat
           /\ BareTo(text, 0) = {}
           /\ Place(text, 0) = 0
           /\ BareTo(text, Len(text)) = BareLFs(text)
<1>1. BareLFs(text) \subseteq 1..Len(text) /\ Len(text) \in Int
  BY DEF BareLFs
<1>2. IsFiniteSet(1..Len(text))
  BY <1>1, FS_Interval
<1>3. \A m : BareTo(text, m) \subseteq 1..Len(text)
  BY <1>1 DEF BareTo
<1>4. IsFiniteSet(BareTo(text, n)) /\ Cardinality(BareTo(text, n)) \in Nat
  BY <1>2, <1>3, FS_Subset, FS_CardinalityType
<1>5. BareTo(text, 0) = {}
  BY <1>1 DEF BareTo
<1>6. Place(text, 0) = 0
  <2>1. Cardinality(BareTo(text, 0)) = 0
    BY <1>5, FS_EmptySet
  <2> QED  BY <2>1 DEF Place
<1>7. BareTo(text, Len(text)) = BareLFs(text)
  BY <1>1 DEF BareTo
<1> QED  BY <1>4, <1>5, <1>6, <1>7

(* A bare LF takes two places, any other byte one.                         *)
LEMMA NextPlace ==
    ASSUME NEW text \in Seq(Byte), NEW n \in 1..Len(text)
    PROVE  /\ Place(text, n - 1) \in Nat
           /\ Place(text, n) = Place(text, n - 1) +
                  IF n \in BareLFs(text) THEN 2 ELSE 1
<1>1. BareLFs(text) \subseteq 1..Len(text) /\ Len(text) \in Nat /\ n \in Nat
      /\ n - 1 \in Nat
  BY DEF BareLFs
<1>2. IsFiniteSet(BareTo(text, n - 1))
      /\ Cardinality(BareTo(text, n - 1)) \in Nat
  BY <1>1, BareToFacts
<1>3. n \notin BareTo(text, n - 1)
  BY <1>1 DEF BareTo
<1>4. CASE n \in BareLFs(text)
  <2>1. BareTo(text, n) = BareTo(text, n - 1) \cup {n}
    BY <1>1, <1>4 DEF BareTo
  <2>2. Cardinality(BareTo(text, n)) = Cardinality(BareTo(text, n - 1)) + 1
    BY <1>2, <1>3, <2>1, FS_AddElement
  <2> QED  BY <1>1, <1>2, <1>4, <2>2 DEF Place
<1>5. CASE n \notin BareLFs(text)
  <2>1. BareTo(text, n) = BareTo(text, n - 1)
    BY <1>1, <1>5 DEF BareTo
  <2> QED  BY <1>1, <1>2, <1>5, <2>1 DEF Place
<1> QED  BY <1>4, <1>5

(* What is on the wire after n bytes: as many bytes as there are places,   *)
(* each byte at its own, and a CR before each LF.                          *)
WireOK(w, text, n) ==
    /\ w \in Seq(Byte)
    /\ Len(w) = Place(text, n)
    /\ \A i \in 1..n : Place(text, i) \in 1..Len(w)
                       /\ w[Place(text, i)] = text[i]
    /\ BareLFs(w) = {}

(* One byte more keeps that, and so it holds of the whole text.            *)
LEMMA WireGrows ==
    ASSUME NEW text \in Seq(Byte), text = <<>> \/ text[1] # "LF",
           NEW n \in 1..Len(text), NEW w, WireOK(w, text, n - 1)
    PROVE  WireOK(w \o OnWire(text, n), text, n)
<1> DEFINE v == w \o OnWire(text, n)
           P == Place(text, n - 1)
<1>1. w \in Seq(Byte) /\ Len(w) = P /\ P \in Nat /\ n - 1 \in Nat
      /\ text[n] \in Byte
  BY NextPlace DEF WireOK
<1>2. n \in BareLFs(text) => n > 1 /\ text[n] = "LF" /\ text[n - 1] # "CR"
  BY DEF BareLFs
<1>3. n \notin BareLFs(text) =>
          text[n] # "LF" \/ (n > 1 /\ text[n - 1] = "CR")
  BY DEF BareLFs
<1>4. CASE n \in BareLFs(text)
  <2>1. v = w \o <<"CR", "LF">>
    BY <1>2, <1>4 DEF OnWire
  <2>2. /\ v \in Seq(Byte) /\ Len(v) = P + 2
        /\ \A i \in 1..P : v[i] = w[i]
        /\ v[P + 1] = "CR" /\ v[P + 2] = "LF"
    <3>1. "CR" \in Byte /\ "LF" \in Byte
      BY DEF Byte
    <3>2. /\ v \in Seq(Byte) /\ Len(v) = Len(w) + 2
          /\ \A i \in 1..Len(w) : v[i] = w[i]
          /\ v[Len(w) + 1] = "CR" /\ v[Len(w) + 2] = "LF"
      <4> HIDE DEF v
      <4> QED  BY <1>1, <2>1, <3>1, AddTwo
    <3> HIDE DEF v, P
    <3> QED  BY <1>1, <3>2
  <2> HIDE DEF v
  <2>3. Place(text, n) = P + 2
    BY <1>4, NextPlace
  <2>4. ASSUME NEW i \in 1..n
        PROVE  Place(text, i) \in 1..Len(v) /\ v[Place(text, i)] = text[i]
    <3>1. CASE i = n
      BY <1>1, <1>2, <1>4, <2>2, <2>3, <3>1
    <3>2. CASE i # n
      <4>1. i \in 1..(n - 1)
        BY <3>2
      <4>2. Place(text, i) \in 1..P /\ w[Place(text, i)] = text[i]
        BY <1>1, <4>1 DEF WireOK
      <4> HIDE DEF P
      <4> QED  BY <1>1, <2>2, <4>2
    <3> QED  BY <3>1, <3>2
  <2>5. BareLFs(v) = {}
    <3>1. SUFFICES ASSUME NEW i \in BareLFs(v) PROVE FALSE
      OBVIOUS
    <3>2. i \in 1..(P + 2) /\ v[i] = "LF" /\ (i = 1 \/ v[i - 1] # "CR")
      BY <2>2 DEF BareLFs
    <3>3. i \in 1..P
      BY <1>1, <2>2, <3>2
    <3>4. i \in BareLFs(w)
      BY <1>1, <2>2, <3>2, <3>3 DEF BareLFs
    <3> QED  BY <3>4 DEF WireOK
  <2> QED  BY <2>2, <2>3, <2>4, <2>5 DEF WireOK, v
<1>5. CASE n \notin BareLFs(text)
  <2>1. v = w \o <<text[n]>>
    BY <1>3, <1>5 DEF OnWire
  <2>2. /\ v \in Seq(Byte) /\ Len(v) = P + 1
        /\ \A i \in 1..P : v[i] = w[i]
        /\ v[P + 1] = text[n]
    BY <1>1, <2>1
  <2> HIDE DEF v
  <2>3. Place(text, n) = P + 1
    BY <1>5, NextPlace
  <2>4. ASSUME NEW i \in 1..n
        PROVE  Place(text, i) \in 1..Len(v) /\ v[Place(text, i)] = text[i]
    <3>1. CASE i = n
      BY <1>1, <2>2, <2>3, <3>1
    <3>2. CASE i # n
      <4>1. i \in 1..(n - 1)
        BY <3>2
      <4>2. Place(text, i) \in 1..P /\ w[Place(text, i)] = text[i]
        BY <1>1, <4>1 DEF WireOK
      <4> HIDE DEF P
      <4> QED  BY <1>1, <2>2, <4>2
    <3> QED  BY <3>1, <3>2
  <2>5. BareLFs(v) = {}
    <3>1. SUFFICES ASSUME NEW i \in BareLFs(v) PROVE FALSE
      OBVIOUS
    <3>2. i \in 1..(P + 1) /\ v[i] = "LF" /\ (i = 1 \/ v[i - 1] # "CR")
      BY <2>2 DEF BareLFs
    <3>3. CASE i = P + 1
      <4>1. n > 1 /\ text[n - 1] = "CR"
        BY <1>3, <1>5, <2>2, <3>2, <3>3
      <4>2. n - 1 \in 1..(n - 1)
        BY <4>1
      <4>3. P \in 1..P /\ w[P] = "CR"
        BY <1>1, <4>1, <4>2 DEF WireOK
      <4> QED  BY <1>1, <2>2, <3>2, <3>3, <4>3
    <3>4. CASE i # P + 1
      <4>1. i \in 1..P
        BY <1>1, <3>2, <3>4
      <4>2. i \in BareLFs(w)
        BY <1>1, <2>2, <3>2, <4>1 DEF BareLFs
      <4> QED  BY <4>2 DEF WireOK
    <3> QED  BY <3>3, <3>4
  <2> QED  BY <2>2, <2>3, <2>4, <2>5 DEF WireOK, v
<1> QED  BY <1>4, <1>5

LEMMA WireIsOK ==
    ASSUME NEW text \in Seq(Byte), text = <<>> \/ text[1] # "LF"
    PROVE  WireOK(WithCRs(text), text, Len(text))
<1> DEFINE L == Len(text)
<1>1. PICK g : IsWire(g, text, L) /\ WithCRs(text) = g[L]
  BY WireOf
<1> DEFINE S == {n \in 0..L : ~ WireOK(g[n], text, n)}
<1>2. ASSUME S # {} PROVE FALSE
  <2>1. S \subseteq Nat
    OBVIOUS
  <2>2. PICK n \in S : \A k \in S : n <= k
    <3> HIDE DEF S
    <3> QED  BY <1>2, <2>1, LeastOf
  <2>3. n # 0
    <3>1. WireOK(<<>>, text, 0)
      BY BareToFacts DEF WireOK, BareLFs
    <3> QED  BY <1>1, <2>2, <3>1 DEF IsWire
  <2>4. n \in 1..L /\ n - 1 \in 0..L /\ n - 1 \notin S
    BY <2>2, <2>3
  <2>5. WireOK(g[n - 1], text, n - 1)
    BY <2>4
  <2>6. g[n] = g[n - 1] \o OnWire(text, n)
    BY <1>1, <2>4 DEF IsWire
  <2>7. WireOK(g[n], text, n)
    BY <2>4, <2>5, <2>6, WireGrows
  <2> QED  BY <2>2, <2>7
<1>3. L \in 0..L
  OBVIOUS
<1> QED  BY <1>1, <1>2, <1>3

LEMMA HeaderTyped ==
    ASSUME NEW subject \in Seq(Byte)
    PROVE  Header(subject) \in Seq(Byte)
<1>1. "Subject:" \in Byte /\ "CR" \in Byte /\ "LF" \in Byte
  BY DEF Byte
<1>2. <<"Subject:">> \in Seq(Byte)
  BY <1>1
<1>3. <<"CR", "LF">> \in Seq(Byte)
  BY <1>1, TwoBytes
<1>4. <<"CR", "LF", "CR", "LF">> = <<"CR", "LF">> \o <<"CR", "LF">>
  OBVIOUS
<1> QED  BY <1>2, <1>3, <1>4, ConcatProperties DEF Header

(* What StartSession makes of the streams is the wire form of the mail.    *)
LEMMA HeaderAndWire ==
    ASSUME NEW m \in Mails
    PROVE  IsWireForm(Header(m.subject) \o WithCRs(m.message), m)
<1> DEFINE h == Header(m.subject)
           w == WithCRs(m.message)
           t == h \o w
<1>1. /\ m.subject \in Seq(Byte) /\ m.message \in Seq(Byte)
      /\ m.message = <<>> \/ m.message[1] # "LF"
  <2>1. m.subject \in Seq(STRING) /\ m.message \in Seq(STRING)
    BY SMTPAssumption DEF SMTPAssumption
  <2>2. STRING \subseteq Byte
    BY DEF Byte
  <2>3. Seq(STRING) \subseteq Seq(Byte)
    BY <2>2, SeqWider
  <2> QED  BY <2>1, <2>3, SMTPAssumption DEF SMTPAssumption
<1>2. h \in Seq(Byte)
  BY <1>1, HeaderTyped
<1>3. WireOK(w, m.message, Len(m.message))
  BY <1>1, WireIsOK
<1>4. w \in Seq(Byte)
  BY <1>3 DEF WireOK
<1> HIDE DEF h, w
<1>5. SubSeq(t, Len(h) + 1, Len(t)) = w
  <2>1. t \in Seq(Byte) /\ Len(t) = Len(h) + Len(w)
        /\ Len(h) \in Nat /\ Len(w) \in Nat
        /\ \A i \in 1..Len(w) : t[Len(h) + i] = w[i]
    BY <1>2, <1>4
  <2> HIDE DEF t
  <2> DEFINE s == SubSeq(t, Len(h) + 1, Len(t))
  <2>2. /\ s \in Seq(Byte) /\ Len(s) = Len(w)
        /\ \A i \in 1..Len(w) : s[i] = t[Len(h) + i]
    BY <2>1, SubSeqProperties
  <2> HIDE DEF s
  <2>3. s = w
    BY <1>4, <2>1, <2>2, SeqEqual
  <2> QED  BY <2>3 DEF s
<1>6. /\ Len(w) = Len(m.message) + Cardinality(BareLFs(m.message))
      /\ BareLFs(w) = {}
      /\ \A i \in DOMAIN m.message :
             w[i + Cardinality({j \in BareLFs(m.message) : j <= i})]
                 = m.message[i]
  <2>1. BareTo(m.message, Len(m.message)) = BareLFs(m.message)
    BY <1>1, BareToFacts
  <2>2. DOMAIN m.message = 1..Len(m.message)
    BY <1>1
  <2> QED  BY <1>3, <2>1, <2>2 DEF WireOK, Place, BareTo
<1>7. t = h \o w
  OBVIOUS
<1> HIDE DEF t
<1> QED  BY <1>5, <1>6, <1>7 DEF IsWireForm, h, t, w

-----------------------------------------------------------------------------
(* What send() says of a mail: the lines of the server.                    *)

(* What is held back of what the server said: its unfinished line, and     *)
(* before its first line is whole, whatever an earlier server left.        *)
HeldBack(buffer, said, cut) ==
    LET r == Len(said) % 3
    IN  /\ buffer \in Seq(Byte) /\ LineEnds(buffer) = {}
        /\ Len(buffer) >= r
        /\ \A j \in 1..r :
               buffer[Len(buffer) - r + j] = said[Len(said) - r + j]
        /\ ~cut \/ Len(said) >= 3 => Len(buffer) = r

RefusedIn(said) == \E k \in 1..(Len(said) \div 3) : said[3 * k - 2] = "5"

(* What is read are the lines of a dialogue from line q + 1 on, after s     *)
(* other bytes, among which no line ends.                                  *)
Reads(read, all, q, s) ==
    /\ q \in Nat /\ s \in Nat /\ 3 * q <= Len(all)
    /\ Len(read) = s + (Len(all) - 3 * q)
    /\ \A j \in 1..(Len(all) - 3 * q) : read[s + j] = all[3 * q + j]
    /\ \A i \in 2..s : read[i] # "LF" \/ read[i - 1] # "CR"

(* Lines end where the dialogue says, whatever is before them.             *)
LEMMA WhereLinesEnd ==
    ASSUME NEW all \in Seq(Byte), IsDialogue(all), NEW read \in Seq(Byte),
           NEW q, NEW s, Reads(read, all, q, s)
    PROVE  \A i : i \in LineEnds(read)
                   <=> i \in (s + 1)..Len(read) /\ (i - s) % 3 = 0
<1> USE DEF Reads
<1>1. Len(all) \in Nat /\ Len(read) \in Nat /\ DOMAIN all = 1..Len(all)
      /\ q \in Nat /\ s \in Nat
  OBVIOUS
<1>2. ASSUME NEW j \in 1..(Len(all) - 3 * q)
      PROVE  /\ j % 3 = 1 => read[s + j] \in Digits
             /\ j % 3 = 2 => read[s + j] = "CR"
             /\ j % 3 = 0 => read[s + j] = "LF"
  <2>1. 3 * q + j \in DOMAIN all /\ (3 * q + j) % 3 = j % 3
    BY <1>1
  <2>2. /\ (3 * q + j) % 3 = 1 => all[3 * q + j] \in Digits
        /\ (3 * q + j) % 3 = 2 => all[3 * q + j] = "CR"
        /\ (3 * q + j) % 3 = 0 => all[3 * q + j] = "LF"
    BY <2>1 DEF IsDialogue
  <2> QED  BY <2>1, <2>2
<1>3. ASSUME NEW i \in LineEnds(read)
      PROVE  i \in (s + 1)..Len(read) /\ (i - s) % 3 = 0
  <2>1. i \in 2..Len(read) /\ read[i] = "LF" /\ read[i - 1] = "CR"
    BY DEF LineEnds
  <2>2. i > s
    BY <1>1, <2>1
  <2>3. i - s \in 1..(Len(all) - 3 * q) /\ s + (i - s) = i
    BY <1>1, <2>1, <2>2
  <2>4. (i - s) % 3 \in {0, 1, 2}
    BY <2>3
  <2>5. (i - s) % 3 # 1 /\ (i - s) % 3 # 2
    BY <1>2, <2>1, <2>3 DEF Digits
  <2> QED  BY <2>1, <2>2, <2>4, <2>5
<1>4. ASSUME NEW i \in (s + 1)..Len(read), (i - s) % 3 = 0
      PROVE  i \in LineEnds(read)
  <2>1. i - s \in 1..(Len(all) - 3 * q) /\ s + (i - s) = i
    BY <1>1
  <2>2. i - s >= 3
    BY <1>4, <2>1
  <2>3. i - s - 1 \in 1..(Len(all) - 3 * q) /\ s + (i - s - 1) = i - 1
        /\ (i - s - 1) % 3 = 2
    BY <1>4, <2>1, <2>2
  <2>4. read[s + (i - s)] = "LF" /\ read[s + (i - s - 1)] = "CR"
    BY <1>2, <1>4, <2>1, <2>3
  <2>5. i \in 2..Len(read) /\ read[i] = "LF" /\ read[i - 1] = "CR"
    BY <1>1, <2>1, <2>2, <2>3, <2>4
  <2> QED  BY <2>5 DEF LineEnds
<1> QED  BY <1>3, <1>4

(* The server says more: whole lines are taken out, and counted if they    *)
(* are errors.                                                             *)
(* A number is three times its quotient by three, and a remainder.         *)
LEMMA InThrees ==
    ASSUME NEW n \in Nat
    PROVE  \E k \in Nat, l \in 0..2 :
               k = n \div 3 /\ l = n % 3 /\ n = 3 * k + l
<1>1. PICK k \in Nat : k = n \div 3
  OBVIOUS
<1>2. PICK l \in 0..2 : l = n % 3
  OBVIOUS
<1>3. n = 3 * k + l
  BY <1>1, <1>2
<1> QED  BY <1>1, <1>2, <1>3

LEMMA LinesAreTakenOut ==
    ASSUME NEW said \in Seq(Byte), NEW bytes \in Seq(Byte),
           IsDialogue(said \o bytes), NEW cut \in BOOLEAN,
           NEW buffer, HeldBack(buffer, said, cut)
    PROVE  /\ HeldBack(Unfinished(buffer \o bytes), said \o bytes, cut)
           /\ Cardinality(ErrorLines(buffer \o bytes)) \in Nat
           /\ ~cut => (RefusedIn(said \o bytes)
                         <=> \/ RefusedIn(said)
                             \/ Cardinality(ErrorLines(buffer \o bytes)) > 0)
<1>1. PICK all : all = said \o bytes
  OBVIOUS
<1>2. PICK read : read = buffer \o bytes
  OBVIOUS
<1>3. /\ buffer \in Seq(Byte) /\ LineEnds(buffer) = {}
      /\ Len(said) \in Nat /\ Len(bytes) \in Nat /\ Len(buffer) \in Nat
  BY DEF HeldBack
<1>4. PICK t \in Nat : t = Len(said)
  BY <1>3
<1>5. PICK n \in Nat : n = Len(bytes)
  BY <1>3
<1>6. PICK h \in Nat : h = Len(buffer)
  BY <1>3
<1>7. /\ all \in Seq(Byte) /\ Len(all) = t + n
      /\ \A i \in 1..t : all[i] = said[i]
      /\ \A i \in 1..n : all[t + i] = bytes[i]
  BY <1>1, <1>4, <1>5
<1>8. /\ read \in Seq(Byte) /\ Len(read) = h + n
      /\ \A i \in 1..h : read[i] = buffer[i]
      /\ \A i \in 1..n : read[h + i] = bytes[i]
  BY <1>2, <1>3, <1>5, <1>6
<1>9. IsDialogue(all)
  BY <1>1
<1>10. PICK T \in Nat : T = t + n
  OBVIOUS
<1>11. PICK q \in Nat, r \in 0..2 :
           q = t \div 3 /\ r = t % 3 /\ t = 3 * q + r
  BY InThrees
<1>12. PICK Q \in Nat, R \in 0..2 :
           Q = T \div 3 /\ R = T % 3 /\ T = 3 * Q + R
  BY InThrees
<1>13. /\ h >= r
       /\ \A j \in 1..r : buffer[h - r + j] = said[t - r + j]
       /\ (~cut \/ t >= 3 => h = r)
  BY <1>4, <1>6, <1>11 DEF HeldBack
<1>14. PICK s \in Nat : s = h - r
  BY <1>13
<1>15. PICK J \in Nat : J = Q - q
  BY <1>10, <1>11, <1>12
<1>16. /\ t = 3 * q + r /\ T >= t /\ T = t + n
       /\ T = 3 * q + 3 * J + R
       /\ h = s + r /\ Len(read) = s + (T - 3 * q)
       /\ (~cut \/ t >= 3 => s = 0)
       /\ Q = q + J /\ 3 * q <= T /\ Len(all) = T
       /\ DOMAIN read = 1..Len(read) /\ DOMAIN all = 1..T
       /\ Len(read) \in Nat
  <2>1. T >= t /\ T = t + n /\ t = 3 * q + r
    BY <1>10, <1>11
  <2>2. Q = q + J /\ T = 3 * q + 3 * J + R
    BY <1>12, <1>15
  <2>3. h = s + r /\ (~cut \/ t >= 3 => s = 0)
    BY <1>13, <1>14
  <2>4. Len(all) = T /\ 3 * q <= T
    BY <1>7, <2>1
  <2>5. Len(read) = s + (T - 3 * q) /\ Len(read) \in Nat
    BY <1>8, <2>1, <2>3
  <2>6. DOMAIN read = 1..Len(read) /\ DOMAIN all = 1..T
    BY <1>7, <1>8, <2>4
  <2> QED  BY <2>1, <2>2, <2>3, <2>4, <2>5, <2>6
<1>17. ASSUME NEW j \in 1..(T - 3 * q) PROVE read[s + j] = all[3 * q + j]
  <2>1. CASE j <= r
    <3>1. j \in 1..r /\ h - r + j = s + j /\ t - r + j = 3 * q + j
          /\ s + j \in 1..h /\ 3 * q + j \in 1..t
      BY <1>16, <2>1
    <3>2. buffer[s + j] = said[3 * q + j]
      BY <1>13, <3>1
    <3> QED  BY <1>7, <1>8, <3>1, <3>2
  <2>2. CASE j > r
    <3>1. PICK i \in Int : i = j - r
      BY <1>16
    <3>2. i \in 1..n /\ h + i = s + j /\ t + i = 3 * q + j
      BY <1>16, <2>2, <3>1
    <3>3. read[h + i] = bytes[i] /\ all[t + i] = bytes[i]
      BY <1>7, <1>8, <3>2
    <3> QED  BY <3>2, <3>3
  <2> QED  BY <1>16, <2>1, <2>2
<1>18. ASSUME NEW i \in 2..s PROVE read[i] # "LF" \/ read[i - 1] # "CR"
  <2>1. i \in 2..h /\ i - 1 \in 1..h /\ i \in 1..h
    BY <1>16
  <2>2. i \notin LineEnds(buffer)
    BY <1>3
  <2>3. buffer[i] # "LF" \/ buffer[i - 1] # "CR"
    BY <1>6, <2>1, <2>2 DEF LineEnds
  <2> QED  BY <1>8, <2>1, <2>3
<1>19. ASSUME NEW k \in 1..Q
      PROVE  3 * k - 2 \in 1..T /\ all[3 * k - 2] \in {"2", "5"}
  <2>1. 3 * k - 2 \in 1..T /\ (3 * k - 2) % 3 = 1
    BY <1>16
  <2> QED  BY <1>9, <1>16, <2>1 DEF IsDialogue, Digits
<1>20. \A i : i \in LineEnds(read)
                <=> i \in (s + 1)..Len(read) /\ (i - s) % 3 = 0
  <2>1. /\ 3 * q <= Len(all) /\ Len(read) = s + (Len(all) - 3 * q)
        /\ q \in Nat /\ s \in Nat /\ Len(all) = T
    BY <1>16
  <2>2. \A j \in 1..(Len(all) - 3 * q) : read[s + j] = all[3 * q + j]
    BY <1>17, <2>1
  <2>3. all \in Seq(Byte) /\ read \in Seq(Byte) /\ IsDialogue(all)
    BY <1>7, <1>8, <1>9
  <2>4. \A i \in 2..s : read[i] # "LF" \/ read[i - 1] # "CR"
    BY <1>18
  <2>5. Reads(read, all, q, s)
    BY <2>1, <2>2, <2>4 DEF Reads
  <2> QED  BY <2>3, <2>5, WhereLinesEnd
<1>21. Max(LineEnds(read) \cup {0}) = IF J = 0 THEN 0 ELSE s + 3 * J
  <2> DEFINE m == IF J = 0 THEN 0 ELSE s + 3 * J
             E == LineEnds(read) \cup {0}
  <2>1. m \in E
    <3>1. CASE J = 0
      BY <3>1
    <3>2. CASE J # 0
      <4>1. PICK i \in Nat : i = s + 3 * J
        BY <1>16
      <4>2. i \in (s + 1)..Len(read) /\ i - s = 3 * J /\ (3 * J) % 3 = 0
        BY <1>16, <3>2, <4>1
      <4>3. i \in LineEnds(read)
        BY <1>20, <4>2
      <4> QED  BY <3>2, <4>1, <4>3
    <3> QED  BY <3>1, <3>2
  <2>2. ASSUME NEW i \in E PROVE i \in Nat /\ i <= m
    <3>1. CASE i = 0
      BY <1>16, <3>1
    <3>2. CASE i # 0
      <4>1. i \in (s + 1)..Len(read) /\ (i - s) % 3 = 0
        BY <1>20, <3>2
      <4>2. i - s \in Nat /\ i - s >= 3 /\ i - s <= 3 * J + 2
        BY <1>16, <4>1
      <4>3. i - s <= 3 * J /\ J # 0
        BY <1>16, <4>1, <4>2
      <4> QED  BY <1>16, <4>1, <4>3
    <3> QED  BY <3>1, <3>2
  <2>3. m \in Nat
    BY <2>1, <2>2
  <2> HIDE DEF m, E
  <2>4. \E x \in E : \A y \in E : x >= y
    BY <2>1, <2>2, <2>3
  <2>5. Max(E) \in E /\ \A y \in E : Max(E) >= y
    BY <2>4 DEF Max
  <2>6. Max(E) \in Nat /\ Max(E) <= m /\ Max(E) >= m
    BY <2>1, <2>2, <2>5
  <2>7. Max(E) = m
    BY <2>3, <2>6
  <2> QED  BY <2>7 DEF m, E
<1>22. HeldBack(Unfinished(read), all, cut)
  <2> DEFINE left == Unfinished(read)
  <2>1. CASE J = 0
    <3>1. left = read
      <4>1. 0 + 1 = 1
        OBVIOUS
      <4>2. Unfinished(read) = SubSeq(read, 1, Len(read))
        BY <1>21, <2>1, <4>1 DEF Unfinished
      <4> QED  BY <1>8, <4>2
    <3>2. LineEnds(read) = {}
      <4>1. SUFFICES ASSUME NEW i \in LineEnds(read) PROVE FALSE
        OBVIOUS
      <4>2. i \in (s + 1)..Len(read) /\ (i - s) % 3 = 0
        BY <1>20
      <4>3. i - s = 1 \/ i - s = 2
        BY <1>16, <2>1, <4>2
      <4>4. 1 % 3 # 0 /\ 2 % 3 # 0
        OBVIOUS
      <4> QED  BY <4>2, <4>3, <4>4
    <3>3. Len(read) = s + R /\ R \in 0..2 /\ 3 * q = T - R
          /\ T - 3 * q = R
      BY <1>16, <2>1
    <3>4. ASSUME NEW j \in 1..R
          PROVE  read[Len(read) - R + j] = all[T - R + j]
      <4>1. j \in 1..(T - 3 * q)
        BY <3>3
      <4>2. read[s + j] = all[3 * q + j]
        BY <1>17, <4>1
      <4>3. Len(read) - R + j = s + j /\ T - R + j = 3 * q + j
        BY <1>16, <3>3
      <4> QED  BY <4>2, <4>3
    <3>5. ~cut \/ T >= 3 => Len(read) = R
      <4>1. T >= 3 => t >= 3
        BY <1>16, <2>1
      <4> QED  BY <1>16, <3>3, <4>1
    <3> HIDE DEF left
    <3>6. HeldBack(read, all, cut)
      <4>1. Len(all) = T /\ Len(all) % 3 = R
        BY <1>12, <1>16
      <4>2. \A j \in 1..(Len(all) % 3) :
                read[Len(read) - (Len(all) % 3) + j]
                    = all[Len(all) - (Len(all) % 3) + j]
        BY <3>4, <4>1
      <4>3. Len(read) >= Len(all) % 3
            /\ (~cut \/ Len(all) >= 3 => Len(read) = Len(all) % 3)
        BY <1>16, <3>3, <3>5, <4>1
      <4> QED  BY <1>8, <3>2, <4>2, <4>3 DEF HeldBack
    <3> QED  BY <3>1, <3>6 DEF left
  <2>2. CASE J # 0
    <3> DEFINE b == s + 3 * J + 1
    <3>1. left = SubSeq(read, b, Len(read))
      BY <1>21, <2>2 DEF Unfinished
    <3>2. b \in 1..(Len(read) + 1) /\ Len(read) - b + 1 = R /\ R \in 0..2
          /\ T - R = 3 * q + 3 * J /\ Len(read) \in Nat /\ b \in Nat
      BY <1>16
    <3> HIDE DEF left, b
    <3>3. left \in Seq(Byte) /\ Len(left) = R
          /\ \A j \in 1..R : left[j] = read[b + j - 1]
      <4>1. left \in Seq(Byte)
        BY <1>8, <3>1, <3>2, SubSeqProperties
      <4>2. Len(left) = R
        BY <1>8, <3>1, <3>2, SubSeqProperties
      <4>3. \A j \in 1..R : left[j] = read[b + j - 1]
        BY <1>8, <3>1, <3>2, <4>2, SubSeqProperties
      <4> QED  BY <4>1, <4>2, <4>3
    <3>4. ASSUME NEW j \in 1..R PROVE left[j] = all[T - R + j]
      <4>1. 3 * J + j \in 1..(T - 3 * q) /\ b + j - 1 = s + (3 * J + j)
            /\ T - R + j = 3 * q + (3 * J + j)
        BY <1>16, <3>2 DEF b
      <4>2. read[s + (3 * J + j)] = all[3 * q + (3 * J + j)]
        BY <1>17, <4>1
      <4> QED  BY <3>3, <4>1, <4>2
    <3>5. LineEnds(left) = {}
      <4>1. SUFFICES ASSUME NEW i \in LineEnds(left) PROVE FALSE
        OBVIOUS
      <4>2. i \in 2..R /\ left[i] = "LF"
        BY <3>3 DEF LineEnds
      <4>3. i = 2 /\ R = 2 /\ T - R + 2 \in 1..T /\ (T - R + 2) % 3 = 2
        BY <1>16, <3>2, <4>2
      <4>4. all[T - R + 2] = "CR"
        BY <1>9, <1>16, <4>3 DEF IsDialogue
      <4> QED  BY <3>4, <4>2, <4>3, <4>4
    <3>6. Len(left) - R = 0 /\ Len(left) \in Nat /\ R \in Nat
      BY <3>2, <3>3
    <3>7. \A j \in 1..R : left[Len(left) - R + j] = all[T - R + j]
      BY <3>4, <3>6
    <3>8. HeldBack(left, all, cut)
      <4>1. Len(all) = T /\ Len(all) % 3 = R
        BY <1>12, <1>16
      <4>2. \A j \in 1..(Len(all) % 3) :
                left[Len(left) - (Len(all) % 3) + j]
                    = all[Len(all) - (Len(all) % 3) + j]
        BY <3>7, <4>1
      <4>3. Len(left) = Len(all) % 3
        BY <3>3, <4>1
      <4> QED  BY <3>3, <3>5, <3>6, <4>2, <4>3 DEF HeldBack
    <3> QED  BY <3>8 DEF left
  <2> QED  BY <2>1, <2>2
<1>23. IsFiniteSet(ErrorLines(read)) /\ Cardinality(ErrorLines(read)) \in Nat
       /\ (Cardinality(ErrorLines(read)) > 0 <=> ErrorLines(read) # {})
  <2>1. ErrorLines(read) \subseteq 1..Len(read)
    BY <1>16 DEF ErrorLines, LineBegins
  <2>2. IsFiniteSet(1..Len(read))
    BY <1>16, FS_Interval
  <2>3. IsFiniteSet(ErrorLines(read))
    BY <2>1, <2>2, FS_Subset
  <2>4. Cardinality(ErrorLines(read)) \in Nat
        /\ (Cardinality(ErrorLines(read)) = 0 <=> ErrorLines(read) = {})
    BY <2>3, FS_CardinalityType, FS_EmptySet
  <2> QED  BY <2>3, <2>4
<1>24. ASSUME ~cut
       PROVE  RefusedIn(all) <=> RefusedIn(said) \/ ErrorLines(read) # {}
  <2>1. s = 0
    BY <1>16, <1>24
  <2>2. ASSUME NEW k \in 1..q
        PROVE  k \in 1..Q /\ all[3 * k - 2] = said[3 * k - 2]
    <3>1. k \in 1..Q /\ 3 * k - 2 \in 1..t
      BY <1>16
    <3> QED  BY <1>7, <3>1
  <2>3. RefusedIn(said) => RefusedIn(all)
    BY <1>4, <1>11, <1>12, <1>16, <2>2 DEF RefusedIn
  <2>4. ASSUME NEW i \in ErrorLines(read) PROVE RefusedIn(all)
    <3>1. PICK e \in LineEnds(read) : e > i
      BY DEF ErrorLines, LineBegins
    <3>2. i \in 1..Len(read) /\ (i = 1 \/ i - 1 \in LineEnds(read))
          /\ read[i] # "2"
      BY <1>16 DEF ErrorLines, LineBegins
    <3>3. e \in 1..Len(read) /\ e % 3 = 0
      BY <1>16, <1>20, <2>1
    <3>4. i % 3 = 1
      <4>1. CASE i = 1
        BY <4>1
      <4>2. CASE i - 1 \in LineEnds(read)
        <5>1. i - 1 \in 1..Len(read) /\ (i - 1) % 3 = 0
          BY <1>16, <1>20, <2>1, <4>2
        <5>2. i - 1 \in Nat /\ i = (i - 1) + 1
          BY <3>2
        <5>3. \A o \in Nat : o % 3 = 0 => (o + 1) % 3 = 1
          OBVIOUS
        <5> QED  BY <5>1, <5>2, <5>3
      <4> QED  BY <3>2, <4>1, <4>2
    <3>5. PICK l \in Nat : i = 3 * l + 1
      BY <1>16, <3>2, <3>4, InThrees
    <3>6. PICK o \in Nat : e = 3 * o
      BY <1>16, <3>3, InThrees
    <3>7. PICK k \in Nat : k = q + l + 1
      BY <1>16
    <3>8. k \in 1..Q /\ 3 * k - 2 = 3 * q + i /\ i \in 1..(T - 3 * q)
      <4>1. l < o /\ e <= Len(read)
        BY <1>16, <3>1, <3>2, <3>3, <3>5, <3>6
      <4>2. o <= J
        BY <1>16, <2>1, <3>6, <4>1
      <4>3. i \in 1..(T - 3 * q)
        BY <1>16, <2>1, <3>2
      <4> QED  BY <1>16, <3>5, <3>7, <4>1, <4>2, <4>3
    <3>9. read[0 + i] = all[3 * q + i]
      BY <1>17, <2>1, <3>8
    <3>10. all[3 * k - 2] = read[i]
      BY <3>2, <3>8, <3>9
    <3>11. all[3 * k - 2] = "5"
      BY <1>19, <3>2, <3>8, <3>10
    <3> QED  BY <1>12, <1>16, <3>8, <3>11 DEF RefusedIn
  <2>5. ASSUME RefusedIn(all), ~ RefusedIn(said)
        PROVE  ErrorLines(read) # {}
    <3>1. PICK k \in 1..Q : all[3 * k - 2] = "5"
      BY <1>12, <1>16, <2>5 DEF RefusedIn
    <3>2. k > q
      <4>1. SUFFICES ASSUME k <= q PROVE FALSE
        BY <1>16
      <4>2. k \in 1..q
        BY <1>16, <4>1
      <4> QED  BY <1>4, <1>11, <2>2, <2>5, <3>1, <4>2 DEF RefusedIn
    <3> DEFINE i == 3 * (k - q) - 2
    <3>3. i \in 1..(T - 3 * q) /\ 3 * q + i = 3 * k - 2
          /\ i \in 1..Len(read) /\ i + 2 \in 1..Len(read)
          /\ (i + 2) % 3 = 0 /\ i % 3 = 1
      BY <1>16, <2>1, <3>2
    <3> HIDE DEF i
    <3>4. read[i] = "5"
      <4>1. read[0 + i] = all[3 * q + i]
        BY <1>17, <2>1, <3>3
      <4> QED  BY <3>1, <3>3, <4>1
    <3>5. i + 2 \in LineEnds(read)
      BY <1>16, <1>20, <2>1, <3>3
    <3>6. i = 1 \/ i - 1 \in LineEnds(read)
      <4>1. i # 1 => i - 1 \in 1..Len(read) /\ (i - 1) % 3 = 0
        BY <1>16, <3>3
      <4> QED  BY <1>16, <1>20, <2>1, <4>1
    <3>7. i \in LineBegins(read)
      BY <1>16, <3>3, <3>5, <3>6 DEF LineBegins
    <3> QED  BY <3>4, <3>7 DEF ErrorLines
  <2> QED  BY <2>3, <2>4, <2>5
<1> QED  BY <1>1, <1>2, <1>22, <1>23, <1>24

-----------------------------------------------------------------------------
(* What send() says of a mail: the client.                                 *)

Wire(m) == Header(m.subject) \o WithCRs(m.message)

(* What is held back of what this server said.  When no earlier server was *)
(* cut off in a line, the lines that are errors are what this one refused. *)
ServerInv ==
    /\ told \in Seq(Byte) /\ smtpErrors \in Nat /\ midLine \in BOOLEAN
    /\ pc \in {"idle", "calls", "dialogue", "returned"}
    /\ pc = "idle" =>
           /\ _buffer \in Seq(Byte) /\ LineEnds(_buffer) = {}
           /\ ~midLine => _buffer = <<>>
    /\ pc # "idle" =>
           /\ HeldBack(_buffer, told, midLine)
           /\ ~midLine => (RefusedIn(told) <=> smtpErrors > 0)

(* The streams hold this mail and no other, libesmtp is given its wire     *)
(* form once, and send() returns what the session came to.                 *)
MailInv ==
    /\ pc = "idle" => _subject = <<>> /\ __message = <<>>
    /\ pc # "idle" => mail \in Mails
    /\ pc = "calls" => /\ _subject = mail.subject /\ __message = mail.message
                       /\ given = <<>> /\ ~ended
    /\ pc = "dialogue" =>
           /\ ___message = Wire(mail)
           /\ \/ messageStatus = "MESSAGE" /\ given = <<>> /\ ~ended
              \/ messageStatus = "DONE" /\ given = Wire(mail)
    /\ pc = "returned" =>
           IF result THEN /\ smtpErrors = 0
                          /\ ended \/ RefusedIn(told)
                          /\ ended => given = Wire(mail)
           ELSE failed \/ smtpErrors > 0

SendInv == ServerInv /\ MailInv

(* What Refused, the client's invariants and their steps rest on.          *)
LEMMA RefusedIs == Refused <=> RefusedIn(told)
BY DEF Refused, Answers, RefusedIn

LEMMA NothingHeld ==
    ASSUME NEW buffer \in Seq(Byte), LineEnds(buffer) = {},
           NEW cut \in BOOLEAN, ~cut => buffer = <<>>
    PROVE  HeldBack(buffer, <<>>, cut) /\ ~RefusedIn(<<>>)
<1>1. Len(<<>>) = 0 /\ 0 % 3 = 0 /\ 0 \div 3 = 0
  OBVIOUS
<1>2. HeldBack(buffer, <<>>, cut)
  BY <1>1 DEF HeldBack
<1>3. ~RefusedIn(<<>>)
  BY <1>1 DEF RefusedIn
<1> QED  BY <1>2, <1>3

LEMMA PieceTyped ==
    ASSUME NEW bytes \in Pieces
    PROVE  bytes \in Seq(Byte)
<1>1. PICK n \in 1..MaxPiece : bytes \in [1..n -> Digits \cup {"CR", "LF"}]
  BY DEF Pieces
<1>2. Digits \cup {"CR", "LF"} \subseteq Byte
  BY DEF Digits, Byte
<1>3. bytes \in [1..n -> Byte] /\ n \in Nat
  BY <1>1, <1>2, SMTPAssumption DEF SMTPAssumption
<1> QED  BY <1>3, SeqDef

LEMMA WireTyped ==
    ASSUME NEW m \in Mails
    PROVE  /\ Wire(m) \in Seq(Byte)
           /\ <<>> \o m.subject = m.subject /\ <<>> \o m.message = m.message
           /\ <<>> \o Wire(m) = Wire(m)
<1>1. /\ m.subject \in Seq(STRING) /\ m.message \in Seq(STRING)
      /\ m.message = <<>> \/ m.message[1] # "LF"
  BY SMTPAssumption DEF SMTPAssumption
<1>2. STRING \subseteq Byte
  BY DEF Byte
<1>3. m.subject \in Seq(Byte) /\ m.message \in Seq(Byte)
  BY <1>1, <1>2, SeqWider
<1>4. Header(m.subject) \in Seq(Byte)
  BY <1>3, HeaderTyped
<1>5. WithCRs(m.message) \in Seq(Byte)
  BY <1>1, <1>3, WireIsOK DEF WireOK
<1>6. Wire(m) \in Seq(Byte)
  BY <1>4, <1>5, ConcatProperties DEF Wire
<1> QED  BY <1>1, <1>6

(* The two hold at first, and every step keeps them.                       *)
LEMMA InitSendInv == ClientInit => SendInv
<1> SUFFICES ASSUME ClientInit PROVE SendInv
  OBVIOUS
<1>1. LineEnds(<<>>) = {} /\ <<>> \in Seq(Byte)
  BY DEF LineEnds
<1> QED  BY <1>1 DEF ClientInit, SendInv, ServerInv, MailInv

LEMMA NextServerInv == SendInv /\ [ClientNext]_clientVars => ServerInv'
<1> SUFFICES ASSUME SendInv, [ClientNext]_clientVars PROVE ServerInv'
  OBVIOUS
<1> USE DEF SendInv, ServerInv
<1>1. ASSUME NEW m \in Mails, Compose(m) PROVE ServerInv'
  <2>1. HeldBack(_buffer, <<>>, midLine) /\ ~RefusedIn(<<>>)
    BY <1>1, NothingHeld DEF Compose
  <2> QED  BY <1>1, <2>1 DEF Compose
<1>2. CASE CallSucceeds
  BY <1>2 DEF CallSucceeds, dialogue
<1>3. CASE CallFails
  BY <1>3 DEF CallFails, Return, dialogue
<1>4. CASE StartSession
  BY <1>4 DEF StartSession
<1>5. ASSUME NEW bytes \in Pieces, monitorCallback(bytes) PROVE ServerInv'
  <2>1. /\ IsDialogue(told \o bytes) /\ told' = told \o bytes
        /\ _buffer' = Unfinished(_buffer \o bytes)
        /\ smtpErrors' =
               smtpErrors + Cardinality(ErrorLines(_buffer \o bytes))
        /\ pc = "dialogue" /\ UNCHANGED <<pc, midLine>>
    BY <1>5 DEF monitorCallback
  <2>2. bytes \in Seq(Byte) /\ told \o bytes \in Seq(Byte)
    BY PieceTyped, ConcatProperties
  <2>3. /\ HeldBack(_buffer', told', midLine)
        /\ Cardinality(ErrorLines(_buffer \o bytes)) \in Nat
        /\ ~midLine => (RefusedIn(told')
               <=> \/ RefusedIn(told)
                   \/ Cardinality(ErrorLines(_buffer \o bytes)) > 0)
    BY <2>1, <2>2, LinesAreTakenOut
  <2> QED  BY <2>1, <2>2, <2>3
<1>6. CASE messageCallback
  BY <1>6 DEF messageCallback
<1>7. CASE SessionFails
  BY <1>7 DEF SessionFails, Return, dialogue
<1>8. CASE SessionRefused
  BY <1>8 DEF SessionRefused, SessionOver, Return, dialogue
<1>9. CASE SessionSucceeds
  BY <1>9 DEF SessionSucceeds, SessionOver, Return, dialogue
<1>10. CASE Clear
  <2>1. /\ pc = "returned" /\ pc' = "idle"
        /\ UNCHANGED <<told, _buffer, smtpErrors>>
        /\ midLine' = IF told = <<>> THEN midLine ELSE Len(told) % 3 # 0
    BY <1>10 DEF Clear, dialogue
  <2>2. _buffer \in Seq(Byte) /\ LineEnds(_buffer) = {}
        /\ (~midLine \/ Len(told) >= 3 => Len(_buffer) = Len(told) % 3)
    BY <2>1 DEF HeldBack
  <2>3. ASSUME ~midLine' PROVE _buffer = <<>>
    <3>1. CASE told = <<>>
      <4>1. Len(told) = 0 /\ 0 % 3 = 0
        BY <3>1
      <4> QED  BY <2>1, <2>2, <2>3, <3>1, <4>1
    <3>2. CASE told # <<>>
      <4>0. Len(told) \in Nat /\ Len(told) # 0
        BY <3>2
      <4>1. Len(told) \in Nat /\ Len(told) # 0 /\ Len(told) % 3 = 0
        <5>1. midLine' = (Len(told) % 3 # 0)
          BY <2>1, <3>2
        <5> QED  BY <2>3, <4>0, <5>1
      <4>2. Len(told) >= 3
        BY <4>1
      <4>3. Len(_buffer) = 0
        BY <2>2, <4>1, <4>2
      <4> QED  BY <2>2, <4>3
    <3> QED  BY <3>1, <3>2
  <2>4. midLine' \in BOOLEAN
    BY <2>1
  <2> QED  BY <2>1, <2>2, <2>3, <2>4
<1>11. CASE UNCHANGED clientVars
  BY <1>11 DEF clientVars, dialogue
<1> QED
  BY <1>1, <1>2, <1>3, <1>4, <1>5, <1>6, <1>7, <1>8, <1>9, <1>10, <1>11
     DEF ClientNext

LEMMA NextMailInv == SendInv /\ [ClientNext]_clientVars => MailInv'
<1> SUFFICES ASSUME SendInv, [ClientNext]_clientVars PROVE MailInv'
  OBVIOUS
<1> USE DEF SendInv, MailInv
<1>1. ASSUME NEW m \in Mails, Compose(m) PROVE MailInv'
  <2>1. _subject' = m.subject /\ __message' = m.message
    BY <1>1, WireTyped DEF Compose
  <2> QED  BY <1>1, <2>1 DEF Compose
<1>2. CASE CallSucceeds
  BY <1>2 DEF CallSucceeds, dialogue, streams
<1>3. CASE CallFails
  BY <1>3 DEF CallFails, Return, dialogue, streams
<1>4. CASE StartSession
  BY <1>4 DEF StartSession, streams, Wire
<1>5. ASSUME NEW bytes \in Pieces, monitorCallback(bytes) PROVE MailInv'
  BY <1>5 DEF monitorCallback, streams
<1>6. CASE messageCallback
  <2>1. <<>> \o Wire(mail) = Wire(mail)
    BY <1>6, WireTyped DEF messageCallback
  <2> QED  BY <1>6, <2>1 DEF messageCallback, streams
<1>7. CASE SessionFails
  BY <1>7 DEF SessionFails, Return, dialogue, streams
<1>8. CASE SessionRefused
  BY <1>8 DEF SessionRefused, SessionOver, Return, dialogue, streams
<1>9. CASE SessionSucceeds
  <2>1. ended \/ RefusedIn(told)
    BY <1>9, RefusedIs DEF SessionSucceeds, SessionOver
  <2>2. /\ pc = "dialogue" /\ smtpErrors = 0
        /\ pc' = "returned" /\ result' = TRUE
        /\ UNCHANGED <<mail, told, given, ended, smtpErrors>>
    BY <1>9 DEF SessionSucceeds, SessionOver, Return, dialogue
  <2>3. mail \in Mails /\ (ended => given = Wire(mail))
    BY <2>2
  <2> QED  BY <2>1, <2>2, <2>3
<1>10. CASE Clear
  BY <1>10 DEF Clear, dialogue
<1>11. CASE UNCHANGED clientVars
  BY <1>11 DEF clientVars, dialogue, streams
<1> QED
  BY <1>1, <1>2, <1>3, <1>4, <1>5, <1>6, <1>7, <1>8, <1>9, <1>10, <1>11
     DEF ClientNext

(* ResultIsOfThisMail of SMTP.tla: send() returns true only if the server  *)
(* was given the wire form of this mail and refused nothing, and false     *)
(* only if a call failed or this mail was refused.                         *)
THEOREM SendTellsOfThisMail == ClientSpec => []ResultIsOfThisMail
<1>1. SendInv => ResultIsOfThisMail
  <2> SUFFICES ASSUME SendInv, pc = "returned", ~midLine
               PROVE  IF result
                      THEN ~Refused /\ ended /\ IsWireForm(given, mail)
                      ELSE failed \/ Refused
    BY DEF ResultIsOfThisMail
  <2>1. mail \in Mails /\ (Refused <=> smtpErrors > 0) /\ smtpErrors \in Nat
    BY RefusedIs DEF SendInv, ServerInv, MailInv
  <2>2. CASE result
    <3>1. ~Refused /\ ended /\ given = Wire(mail)
      BY <2>1, <2>2, RefusedIs DEF SendInv, MailInv
    <3>2. IsWireForm(Wire(mail), mail)
      BY <2>1, HeaderAndWire DEF Wire
    <3> QED  BY <2>2, <3>1, <3>2
  <2>3. CASE ~result
    BY <2>1, <2>3 DEF SendInv, MailInv
  <2> QED  BY <2>2, <2>3
<1> QED
  BY InitSendInv, NextServerInv, NextMailInv, <1>1, PTL
     DEF ClientSpec, SendInv

=============================================================================
