------------------------------ MODULE PPS_proofs ------------------------------
(***************************************************************************)
(* Theorems about PPS.tla, for any networks, addresses, buckets and blocks.*)
(***************************************************************************)
EXTENDS PPS, Sums_proofs, TLAPS

-----------------------------------------------------------------------------
(* internal() looks at one network only.  If no two networks overlap, that *)
(* is enough to say whether an address belongs to any.                     *)
THEOREM InternalIsMembership ==
    ASSUME Disjoint
    PROVE  \A ip \in Nat : internal(ip) <=> Internal(ip)
<1>1. TAKE ip \in Nat
<1>2. ASSUME internal(ip) PROVE Internal(ip)
  BY <1>2 DEF internal, Internal
<1>3. ASSUME Internal(ip) PROVE internal(ip)
  <2>1. PICK n \in Networks : n[1] <= ip /\ ip <= n[2]
    BY <1>3 DEF Internal
  <2>2. ASSUME NEW m \in Networks, m[1] <= ip PROVE m[1] <= n[1]
    <3>1. m[1] \in Nat /\ m[2] \in Nat /\ n[1] \in Nat /\ n[2] \in Nat
      BY PPSAssumption DEF PPSAssumption
    <3>2. CASE m = n
      BY <3>1, <3>2
    <3>3. CASE m # n
      <4>1. m[2] < n[1] \/ n[2] < m[1]
        BY <3>3 DEF Disjoint
      <4>2. ~ (n[2] < m[1])
        BY <2>1, <2>2, <3>1
      <4>3. m[1] <= m[2]
        BY PPSAssumption DEF PPSAssumption
      <4> QED
        BY <4>1, <4>2, <4>3, <3>1
    <3> QED
      BY <3>2, <3>3
  <2> QED
    BY <2>1, <2>2 DEF internal
<1> QED
  BY <1>2, <1>3

-----------------------------------------------------------------------------
(* What a block may hold.                                                  *)
Statistics == [lastUpdate : Times, lastEmail : Times,
               packets : [Directions -> Nat]]

LEMMA NewStatsTyped == NewStats(0) \in Statistics
BY PPSAssumption DEF PPSAssumption, NewStats, Statistics, Times

LEMMA CountedTyped ==
    ASSUME TypeOK, capPC = "lock", NEW x \in Statistics
    PROVE  Counted(x) \in Statistics
<1>1. x.packets[packet.direction] + 1 \in Nat
  BY DEF Statistics, TypeOK
<1>2. [x.packets EXCEPT ![packet.direction] = @ + 1] \in [Directions -> Nat]
  BY <1>1 DEF Statistics
<1> QED  BY <1>2 DEF Counted, Statistics, TypeOK

LEMMA KeptTyped ==
    ASSUME NEW st \in [Blocks -> Statistics]
    PROVE  Kept(st) \in [Blocks -> Statistics]
BY NewStatsTyped DEF Kept

(* What the counters of an address add up to is a number of packets.       *)
LEMMA TotalsTyped ==
    ASSUME addressStats \in [IPs -> Blocks \cup {None}],
           store \in [Blocks -> Statistics]
    PROVE  \A ip \in IPs : Totals[ip] \in Nat
<1>1. TAKE ip \in IPs
<1>2. CASE addressStats[ip] = None
  BY <1>2 DEF Totals
<1>3. CASE addressStats[ip] # None
  <2>1. store[addressStats[ip]] \in Statistics
    BY <1>3
  <2>2. Packets(ip, "incoming") \in Nat /\ Packets(ip, "outgoing") \in Nat
    BY <2>1 DEF Packets, Statistics, Directions
  <2> QED  BY <1>3, <2>2 DEF Totals
<1> QED  BY <1>2, <1>3

LEMMA TypeInit == Init => TypeOK
<1> SUFFICES ASSUME Init PROVE TypeOK
  OBVIOUS
<1>1. Start \in Times /\ 0 \in Times /\ 1 \in Buckets
      /\ 0 \in 0..MaxPackets /\ Start + FlushInterval \in Nat
  BY PPSAssumption DEF PPSAssumption, Start, Times, Buckets
<1>2. store \in [Blocks -> Statistics]
  BY NewStatsTyped DEF Init
<1> QED  BY <1>1, <1>2 DEF Init, TypeOK, Statistics

LEMMA TypeNext == TypeOK /\ [Next]_vars => TypeOK'
<1> SUFFICES ASSUME TypeOK, [Next]_vars PROVE TypeOK'
  OBVIOUS
<1> USE PPSAssumption
    DEF PPSAssumption, TypeOK, Times, Buckets, Done, tableVars, capVars, flVars
<1>1. CASE \E source, destination \in IPs : Receive(source, destination)
  BY <1>1 DEF Receive, Directions
<1>2. CASE Count
  <2>1. Counted(store[addressStats[packet.ip]]) \in Statistics
    BY <1>2, CountedTyped DEF Count, Statistics
  <2>2. store' \in [Blocks -> Statistics]
    BY <1>2, <2>1 DEF Count, Statistics
  <2> QED  BY <1>2, <2>2 DEF Count, Statistics
<1>3. ASSUME NEW b \in Blocks, Insert(b)
      PROVE  TypeOK'
  <2>1. Counted(NewStats(0)) \in Statistics
    BY <1>3, NewStatsTyped, CountedTyped DEF Insert
  <2>2. store' \in [Blocks -> Statistics]
    BY <1>3, <2>1, KeptTyped DEF Insert, Statistics
  <2>3. addressStats' \in [IPs -> Blocks \cup {None}] /\ stats' \in Blocks
    BY <1>3 DEF Insert
  <2> QED  BY <1>3, <2>2, <2>3 DEF Insert, Statistics
<1>4. CASE TableIsFull
  <2>1. store' \in [Blocks -> Statistics]
    BY <1>4, KeptTyped DEF TableIsFull, Statistics
  <2>2. dropped' \in Nat
    BY <1>4 DEF TableIsFull
  <2> HIDE DEF PPSAssumption, Times, Buckets
  <2> QED  BY <1>4, <2>1, <2>2 DEF TableIsFull, Statistics
<1>5. ASSUME NEW interrupted \in BOOLEAN, FlushBegin(interrupted)
      PROVE  TypeOK'
  BY <1>5 DEF FlushBegin
<1>6. CASE Scan
  <2>1. [d \in Directions |-> 0] \in [Directions -> Nat]
    OBVIOUS
  <2>2. store' \in [Blocks -> Statistics]
    <3>1. ASSUME NEW x \in Statistics, NEW t \in Times
          PROVE  [x EXCEPT !.packets = [d \in Directions |-> 0],
                           !.lastEmail = t] \in Statistics
      BY <2>1 DEF Statistics
    <3>2. ASSUME NEW b \in Blocks
          PROVE  \/ store'[b] = store[b]
                 \/ \E t \in {flTime, store[b].lastEmail} :
                        store'[b] = [store[b] EXCEPT
                                         !.packets = [d \in Directions |-> 0],
                                         !.lastEmail = t]
      <4> HIDE DEF TypeOK, PPSAssumption, Times, Buckets
      <4>1. PICK e \in {flTime, store[b].lastEmail} :
               store'[b] = IF \E ip \in InBucket : addressStats[ip] = b
                  THEN [store[b] EXCEPT
                           !.packets = [d \in Directions |-> 0],
                           !.lastEmail = e]
                  ELSE store[b]
        BY <1>6 DEF Scan
      <4> QED  BY <4>1
    <3>3. ASSUME NEW b \in Blocks PROVE store'[b] \in Statistics
      <4>1. store[b] \in Statistics /\ store[b].lastEmail \in Times
        BY DEF Statistics
      <4>2. flTime \in Times
        OBVIOUS
      <4>3. CASE store'[b] = store[b]
        BY <4>1, <4>3
      <4>4. ASSUME NEW t \in {flTime, store[b].lastEmail},
                   store'[b] = [store[b] EXCEPT
                                   !.packets = [d \in Directions |-> 0],
                                   !.lastEmail = t]
            PROVE  store'[b] \in Statistics
        <5> HIDE DEF TypeOK, Times, Statistics
        <5>1. t \in Times
          BY <4>1, <4>2
        <5> QED  BY <3>1, <4>1, <4>4, <5>1
      <4> QED  BY <3>2, <4>3, <4>4
    <3>4. DOMAIN store' = Blocks /\ store' = [b \in Blocks |-> store'[b]]
      BY <1>6 DEF Scan
    <3> QED  BY <3>3, <3>4
  <2>3. mailed' \in [IPs -> Times]
    BY <1>6 DEF Scan
  <2>4. read' \in Nat
    <3>1. \A ip \in IPs : Totals[ip] \in Nat
      BY TotalsTyped DEF Statistics
    <3>2. IsFiniteSet(InBucket) /\ InBucket \subseteq IPs
      BY FS_Subset DEF InBucket
    <3>3. SumFunctionOnSet(Totals, InBucket) \in Nat
      BY <3>1, <3>2, SumIsNat
    <3>4. read \in Nat /\ read' = read + SumFunctionOnSet(Totals, InBucket)
      BY <1>6 DEF Scan
    <3> QED  BY <3>3, <3>4
  <2> HIDE DEF PPSAssumption, Times, Buckets
  <2> QED  BY <1>6, <2>2, <2>3, <2>4 DEF Scan, Statistics, InBucket
<1>7. ASSUME NEW ip \in IPs, Erase(ip)
      PROVE  TypeOK'
  <2>1. store' \in [Blocks -> Statistics]
    BY <1>7, KeptTyped DEF Erase, Statistics
  <2>2. addressStats' \in [IPs -> Blocks \cup {None}] /\ flErase' \subseteq IPs
    BY <1>7 DEF Erase
  <2> HIDE DEF PPSAssumption, Times, Buckets
  <2> QED  BY <1>7, <2>1, <2>2 DEF Erase, Statistics
<1>8. CASE DivideByZero \/ Unlock \/ Mail \/ NextBucket
  <2>1. CASE DivideByZero \/ Unlock \/ Mail
    BY <2>1 DEF DivideByZero, Unlock, Mail
  <2>2. CASE NextBucket
    <3>1. flBucket' \in Buckets
      BY <2>2 DEF NextBucket
    <3> QED  BY <2>2, <3>1 DEF NextBucket
  <2> QED  BY <1>8, <2>1, <2>2
<1>9. CASE FlushEnd
  <2>1. wake' \in Nat
    BY <1>9 DEF FlushEnd
  <2> QED  BY <1>9, <2>1 DEF FlushEnd
<1>10. CASE Tick
  BY <1>10 DEF Tick
<1>11. CASE UNCHANGED vars
  BY <1>11 DEF vars
<1> QED
  BY <1>1, <1>2, <1>3, <1>4, <1>5, <1>6, <1>7, <1>8, <1>9, <1>10, <1>11
  DEF Next, CaptureStep, FlushStep

(* The variables keep their types: pps.cpp reads no null pointer as a block*)
(* and no time that is not one.                                            *)
THEOREM PPSTypeOK == Spec => []TypeOK
BY TypeInit, TypeNext, PTL DEF Spec

-----------------------------------------------------------------------------
(* The time of a flush() is after that of the one before, if the thread    *)
(* sleeps in between.                                                      *)
TimesInv ==
    /\ now \in Nat /\ lastFlush \in Nat /\ flTime \in Nat /\ wake \in Nat
    /\ signalled \in BOOLEAN
    /\ flTime <= now
    /\ FlushInterval # 0 =>
           /\ flPC = "sleep" => lastFlush < wake
           /\ flPC \in {"next", "bucket", "mail", "end"} /\ ~signalled =>
                  lastFlush < flTime
           /\ flPC = "crashed" => signalled

LEMMA TimesInit == Init => TimesInv
<1>1. MailInterval \in Nat /\ FlushInterval \in Nat
  BY PPSAssumption DEF PPSAssumption
<1>2. ASSUME Init
      PROVE  /\ now = MailInterval /\ lastFlush = MailInterval /\ flTime = 0
             /\ wake = MailInterval + FlushInterval
             /\ flPC = "sleep" /\ signalled = FALSE
  BY <1>2 DEF Init, Start
<1> QED
  BY <1>1, <1>2 DEF TimesInv

(* What the steps that leave the flush thread alone have in common.        *)
LEMMA TimesUnchanged ==
    ASSUME TimesInv, UNCHANGED <<flVars, now>>
    PROVE  TimesInv'
BY DEF TimesInv, flVars

LEMMA TimesNext == TimesInv /\ [Next]_vars => TimesInv'
<1> SUFFICES ASSUME TimesInv, [Next]_vars PROVE TimesInv'
  OBVIOUS
<1>1. CASE UNCHANGED vars
  BY <1>1, TimesUnchanged DEF vars
<1>2. CASE \E source, destination \in IPs : Receive(source, destination)
  <2>1. UNCHANGED <<flVars, now>>
    BY <1>2 DEF Receive
  <2> QED
    BY <2>1, TimesUnchanged
<1>3. CASE CaptureStep
  <2>1. UNCHANGED <<flVars, now>>
    BY <1>3 DEF CaptureStep, Count, Insert, TableIsFull
  <2> QED
    BY <2>1, TimesUnchanged
<1>4. CASE FlushStep
  <2>1. ASSUME NEW interrupted \in BOOLEAN, FlushBegin(interrupted)
        PROVE  TimesInv'
    <3>1. now' = now /\ lastFlush' = lastFlush /\ wake' = wake
          /\ flTime' = now /\ flPC' \in {"next", "end"}
          /\ signalled' \in BOOLEAN
      BY <2>1 DEF FlushBegin, TimesInv
    <3>2. FlushInterval # 0 /\ ~signalled' => lastFlush < now
      BY <2>1 DEF FlushBegin, TimesInv
    <3> QED
      BY <3>1, <3>2 DEF TimesInv
  <2>2. CASE Scan
    BY <2>2 DEF Scan, TimesInv
  <2>3. CASE DivideByZero
    BY <2>3 DEF DivideByZero, TimesInv, tableVars, capVars
  <2>4. CASE \E ip \in IPs : Erase(ip)
    BY <2>4 DEF Erase, TimesInv
  <2>5. CASE Unlock \/ Mail \/ NextBucket
    BY <2>5 DEF Unlock, Mail, NextBucket, TimesInv
  <2>6. CASE FlushEnd
    BY <2>6, PPSAssumption DEF FlushEnd, TimesInv, PPSAssumption
  <2> QED
    BY <1>4, <2>1, <2>2, <2>3, <2>4, <2>5, <2>6 DEF FlushStep
<1>5. CASE Tick
  <2>1. now' = now + 1 /\ UNCHANGED flVars
    BY <1>5 DEF Tick
  <2> QED
    BY <2>1 DEF TimesInv, flVars
<1> QED
  BY <1>1, <1>2, <1>3, <1>4, <1>5 DEF Next

(* The division by the time since the last flush() only fails if a signal  *)
(* cut the sleep short, or if the configuration has none.                  *)
THEOREM DivisionNeedsASignal == Spec => []CrashNeedsASignal
<1>1. TimesInv => CrashNeedsASignal
  BY DEF TimesInv, CrashNeedsASignal
<1> QED
  BY TimesInit, TimesNext, <1>1, PTL DEF Spec

-----------------------------------------------------------------------------
(* Two addresses never share a block, and what the flush thread is about   *)
(* to evict is idle and read: its bucket is locked.                        *)
BlocksInv ==
    /\ addressStats \in [IPs -> Blocks \cup {None}]
    /\ DOMAIN store = Blocks
    /\ capPC = "lock" => packet.ip \in IPs
    /\ \A ip, jp \in IPs :
          addressStats[ip] = addressStats[jp] /\ ip # jp =>
              addressStats[ip] = None

ErasedInv ==
    /\ flErase \subseteq IPs
    /\ flErase # {} => flPC = "bucket"
    /\ \A ip \in flErase :
          /\ Bucket[ip] = flBucket
          /\ addressStats[ip] # None
          /\ IdleAt(store[addressStats[ip]], flTime)
          /\ \A d \in Directions : Packets(ip, d) = 0

IInv == BlocksInv /\ ErasedInv

LEMMA IInvInit == Init => IInv
<1> SUFFICES ASSUME Init PROVE IInv
  OBVIOUS
<1>1. BlocksInv
  BY DEF Init, BlocksInv
<1>2. ErasedInv
  BY DEF Init, ErasedInv
<1> QED
  BY <1>1, <1>2 DEF IInv

(* A step that changes nothing but the contents of other blocks, or frees  *)
(* some, keeps what is known of the addresses about to be evicted.         *)
LEMMA ErasedKept ==
    ASSUME IInv,
           UNCHANGED <<flPC, flBucket, flTime, flErase>>,
           \A ip \in flErase :
               /\ addressStats'[ip] = addressStats[ip]
               /\ store'[addressStats[ip]] = store[addressStats[ip]]
    PROVE  ErasedInv'
BY DEF IInv, ErasedInv, Packets, IdleAt

LEMMA CountKeeps == IInv /\ Count => IInv'
<1> SUFFICES ASSUME IInv, Count PROVE IInv'
  OBVIOUS
<1> DEFINE p == packet.ip
<1>1. p \in IPs /\ addressStats[p] # None /\ addressStats[p] \in Blocks
  BY DEF IInv, BlocksInv, Count
<1>2. BlocksInv'
  BY DEF IInv, BlocksInv, Count, Done
<1>3. p \notin flErase
  BY DEF IInv, ErasedInv, Count, Unlocked
<1>4. \A ip \in flErase : addressStats[ip] # addressStats[p]
  BY <1>1, <1>3 DEF IInv, BlocksInv, ErasedInv
<1>5. ErasedInv'
  <2>1. \A ip \in flErase : store'[addressStats[ip]] = store[addressStats[ip]]
    BY <1>4 DEF IInv, BlocksInv, ErasedInv, Count
  <2>2. UNCHANGED <<flPC, flBucket, flTime, flErase, addressStats>>
    BY DEF Count, flVars
  <2> QED
    BY <2>1, <2>2, ErasedKept
<1> QED
  BY <1>2, <1>5 DEF IInv

LEMMA InsertKeeps ==
    ASSUME NEW b \in Blocks, IInv, Insert(b)
    PROVE  IInv'
<1> DEFINE p == packet.ip
<1>1. p \in IPs /\ addressStats[p] = None /\ ~Held(b) /\ b # None
  BY PPSAssumption DEF IInv, BlocksInv, Insert, PPSAssumption
<1>2. addressStats' = [addressStats EXCEPT ![p] = b]
  BY DEF Insert
<1>3. \A ip \in IPs : addressStats[ip] # b
  BY <1>1 DEF Held
<1>4. BlocksInv'
  <2>1. addressStats' \in [IPs -> Blocks \cup {None}] /\ DOMAIN store' = Blocks
    BY <1>2 DEF IInv, BlocksInv, Insert, Kept
  <2>2. capPC' = "idle"
    BY DEF Insert, Done
  <2>3. \A ip, jp \in IPs :
           addressStats'[ip] = addressStats'[jp] /\ ip # jp =>
               addressStats'[ip] = None
    BY <1>2, <1>3 DEF IInv, BlocksInv
  <2> QED
    BY <2>1, <2>2, <2>3 DEF BlocksInv
<1>5. \A ip \in flErase : ip \in IPs /\ ip # p
  BY <1>1 DEF IInv, ErasedInv
<1>6. \A ip \in flErase : addressStats'[ip] = addressStats[ip]
  BY <1>2, <1>5 DEF IInv, BlocksInv
<1>7. ASSUME NEW ip \in flErase
      PROVE  store'[addressStats[ip]] = store[addressStats[ip]]
  <2>1. ip \in IPs /\ addressStats[ip] \in Blocks /\ addressStats[ip] # b
    BY <1>3, <1>5 DEF IInv, BlocksInv, ErasedInv
  <2>2. Held(addressStats[ip])'
    BY <1>6, <2>1 DEF Held
  <2>3. store'[addressStats[ip]] =
            [store EXCEPT ![b] = Counted(NewStats(0))][addressStats[ip]]
    BY <1>6, <2>1, <2>2 DEF Insert, Kept
  <2> QED
    BY <2>1, <2>3 DEF IInv, BlocksInv
<1>8. ErasedInv'
  BY <1>6, <1>7, ErasedKept DEF Insert, flVars
<1> QED
  BY <1>4, <1>8 DEF IInv

(* Dropping a pointer frees no block that an address has.                  *)
LEMMA FreeingKeeps ==
    ASSUME IInv, store' = Kept(store),
           UNCHANGED <<addressStats, flPC, flBucket, flTime, flErase>>
    PROVE  ErasedInv'
<1>1. ASSUME NEW ip \in flErase
      PROVE  store'[addressStats[ip]] = store[addressStats[ip]]
  <2>1. ip \in IPs /\ addressStats[ip] \in Blocks
    BY DEF IInv, BlocksInv, ErasedInv
  <2>2. Held(addressStats[ip])'
    BY <2>1 DEF Held
  <2> QED
    BY <2>1, <2>2 DEF Kept
<1> QED
  BY <1>1, ErasedKept

LEMMA TableIsFullKeeps == IInv /\ TableIsFull => IInv'
<1> SUFFICES ASSUME IInv, TableIsFull PROVE IInv'
  OBVIOUS
<1>1. BlocksInv'
  BY DEF IInv, BlocksInv, TableIsFull, Kept, Done
<1>2. ErasedInv'
  BY FreeingKeeps DEF TableIsFull, flVars
<1> QED
  BY <1>1, <1>2 DEF IInv

LEMMA ScanKeeps == IInv /\ Scan => IInv'
<1> SUFFICES ASSUME IInv, Scan PROVE IInv'
  OBVIOUS
<1>1. BlocksInv'
  BY DEF IInv, BlocksInv, Scan, capVars
<1>2. flErase' = {ip \in InBucket : IdleAt(store[addressStats[ip]], flTime)}
      /\ flPC' = "bucket"
      /\ UNCHANGED <<addressStats, flBucket, flTime>>
  BY DEF Scan
<1>3. ASSUME NEW ip \in flErase'
      PROVE  /\ ip \in IPs /\ Bucket[ip] = flBucket /\ addressStats[ip] # None
             /\ IdleAt(store[addressStats[ip]], flTime)
             /\ store'[addressStats[ip]].lastUpdate =
                    store[addressStats[ip]].lastUpdate
             /\ \A d \in Directions :
                    store'[addressStats[ip]].packets[d] = 0
  <2>1. ip \in InBucket /\ ip \in IPs /\ addressStats[ip] \in Blocks
    BY <1>2 DEF InBucket, IInv, BlocksInv
  <2>2. PICK e : store'[addressStats[ip]] =
                   [store[addressStats[ip]] EXCEPT
                       !.packets = [d \in Directions |-> 0], !.lastEmail = e]
    BY <2>1 DEF Scan
  <2> QED
    BY <1>2, <2>1, <2>2 DEF InBucket
<1>4. ErasedInv'
  BY <1>2, <1>3 DEF ErasedInv, IdleAt, Packets
<1> QED
  BY <1>1, <1>4 DEF IInv

LEMMA EraseKeeps ==
    ASSUME NEW jp \in IPs, IInv, Erase(jp)
    PROVE  IInv'
<1>1. addressStats' = [addressStats EXCEPT ![jp] = None]
      /\ flErase' = flErase \ {jp} /\ jp \in flErase
      /\ UNCHANGED <<stats, flPC, flBucket, flTime>> /\ store' = Kept(store)
  BY DEF Erase
<1>2. BlocksInv'
  <2>1. addressStats' \in [IPs -> Blocks \cup {None}] /\ DOMAIN store' = Blocks
    BY <1>1 DEF IInv, BlocksInv, Kept
  <2>2. packet' = packet /\ capPC' = capPC
    BY DEF Erase, capVars
  <2> QED
    BY <1>1, <2>1, <2>2 DEF IInv, BlocksInv
<1>3. ASSUME NEW ip \in flErase'
      PROVE  /\ ip \in flErase /\ addressStats'[ip] = addressStats[ip]
             /\ store'[addressStats[ip]] = store[addressStats[ip]]
  <2>1. ip \in flErase /\ ip \in IPs /\ ip # jp
        /\ addressStats[ip] \in Blocks
    BY <1>1 DEF IInv, BlocksInv, ErasedInv
  <2>2. addressStats'[ip] = addressStats[ip]
    BY <1>1, <2>1 DEF IInv, BlocksInv
  <2>3. Held(addressStats[ip])'
    BY <2>1, <2>2 DEF Held
  <2> QED
    BY <1>1, <2>1, <2>2, <2>3 DEF Kept
<1>4. ErasedInv'
  BY <1>1, <1>3 DEF IInv, ErasedInv, IdleAt, Packets
<1> QED
  BY <1>2, <1>4 DEF IInv

LEMMA IInvNext == IInv /\ [Next]_vars => IInv'
<1> SUFFICES ASSUME IInv, [Next]_vars PROVE IInv'
  OBVIOUS
<1>1. CASE UNCHANGED vars
  BY <1>1 DEF vars, tableVars, capVars, flVars, IInv, BlocksInv, ErasedInv,
              IdleAt, Packets
<1>2. ASSUME NEW source \in IPs, NEW destination \in IPs,
             Receive(source, destination)
      PROVE  IInv'
  <2>1. UNCHANGED <<tableVars, flVars>>
    BY <1>2 DEF Receive
  <2>2. capPC' = "lock" => packet'.ip \in IPs
    BY <1>2 DEF Receive
  <2> QED
    BY <2>1, <2>2 DEF tableVars, flVars, IInv, BlocksInv, ErasedInv, IdleAt,
                      Packets
<1>3. CASE CaptureStep
  BY <1>3, CountKeeps, InsertKeeps, TableIsFullKeeps DEF CaptureStep
<1>4. CASE FlushStep
  <2>1. ASSUME NEW interrupted \in BOOLEAN, FlushBegin(interrupted)
        PROVE  IInv'
    BY <2>1 DEF FlushBegin, tableVars, capVars, IInv, BlocksInv, ErasedInv
  <2>2. CASE DivideByZero \/ Unlock \/ Mail \/ NextBucket \/ FlushEnd
    BY <2>2 DEF DivideByZero, Unlock, Mail, NextBucket, FlushEnd, tableVars,
                capVars, IInv, BlocksInv, ErasedInv, IdleAt, Packets
  <2> QED
    BY <1>4, <2>1, <2>2, ScanKeeps, EraseKeeps DEF FlushStep
<1>5. CASE Tick
  BY <1>5 DEF Tick, tableVars, capVars, flVars, IInv, BlocksInv, ErasedInv,
              IdleAt, Packets
<1> QED
  BY <1>1, <1>2, <1>3, <1>4, <1>5 DEF Next

(* An address is only evicted idle and with its counters read, whatever    *)
(* the capture thread does between the test and the eviction.              *)
THEOREM NoBusyAddressIsEvicted == Spec => OnlyIdleAddressesLeave
<1>1. IInv /\ [Next]_vars =>
        [\A ip \in IPs :
            addressStats[ip] # None /\ addressStats'[ip] = None =>
              /\ IdleAt(store[addressStats[ip]], flTime)
              /\ \A d \in Directions : Packets(ip, d) = 0]_vars
  <2> SUFFICES ASSUME IInv, [Next]_vars, NEW ip \in IPs,
                      addressStats[ip] # None, addressStats'[ip] = None
               PROVE  ip \in flErase
    BY DEF IInv, ErasedInv
  <2>1. addressStats' # addressStats
    OBVIOUS
  <2>2. CASE \E b \in Blocks : Insert(b)
    BY <2>2, PPSAssumption DEF Insert, IInv, BlocksInv, PPSAssumption
  <2>3. CASE \E jp \in IPs : Erase(jp)
    BY <2>3 DEF Erase, IInv, BlocksInv
  <2> QED
    BY <2>1, <2>2, <2>3
       DEF Next, vars, tableVars, Receive, CaptureStep, Count, TableIsFull,
           FlushStep, FlushBegin, Scan, DivideByZero, Unlock, Mail,
           NextBucket, FlushEnd, Tick
<1> QED
  BY IInvInit, IInvNext, <1>1, PTL DEF Spec, OnlyIdleAddressesLeave

-----------------------------------------------------------------------------
(* Counting: where the packets of internal addresses are.                  *)
AccountInv == TypeOK /\ IInv /\ PacketsAccounted

InProcess == IF capPC = "lock" THEN 1 ELSE 0

(* What every state that AccountInv holds in gives the steps below.        *)
LEMMA AccountFacts ==
    ASSUME AccountInv
    PROVE  /\ IsFiniteSet(IPs)
           /\ \A ip \in IPs : Totals[ip] \in Nat
           /\ SumFunctionOnSet(Totals, IPs) \in Nat
           /\ counted \in Nat /\ read \in Nat /\ dropped \in Nat
           /\ counted = read + dropped + InProcess
                          + SumFunctionOnSet(Totals, IPs)
<1>1. IsFiniteSet(IPs)
  BY PPSAssumption DEF PPSAssumption
<1>2. \A ip \in IPs : Totals[ip] \in Nat
  BY TotalsTyped DEF AccountInv, TypeOK, Statistics
<1>3. SumFunctionOnSet(Totals, IPs) \in Nat
  BY <1>1, <1>2, SumIsNat
<1> QED
  BY <1>1, <1>2, <1>3 DEF AccountInv, TypeOK, PacketsAccounted, InProcess

(* A step that leaves the counters and the histories alone.                *)
LEMMA QuietAccount ==
    ASSUME AccountInv, Totals' = Totals,
           UNCHANGED <<capPC, counted, read, dropped>>
    PROVE  PacketsAccounted'
BY DEF AccountInv, PacketsAccounted

(* The block of an address keeps its contents unless the step changes it.  *)
LEMMA KeptTotals ==
    ASSUME TypeOK, store' = Kept(store), addressStats' = addressStats
    PROVE  Totals' = Totals
<1>1. ASSUME NEW ip \in IPs, addressStats[ip] # None
      PROVE  store'[addressStats[ip]] = store[addressStats[ip]]
  <2>1. addressStats[ip] \in Blocks
    BY <1>1 DEF TypeOK
  <2>2. Held(addressStats[ip])'
    BY <2>1 DEF Held
  <2> QED  BY <2>1, <2>2 DEF Kept
<1> QED  BY <1>1 DEF Totals, Packets

(* The packet is counted for its address, which has a block ...            *)
LEMMA CountAccounts == AccountInv /\ Count => PacketsAccounted'
<1> SUFFICES ASSUME AccountInv, Count PROVE PacketsAccounted'
  OBVIOUS
<1> DEFINE p == packet.ip
           b == addressStats[p]
<1>1. /\ p \in IPs /\ packet.direction \in Directions /\ b \in Blocks
      /\ capPC = "lock" /\ b # None
      /\ store[b] \in Statistics
  BY DEF AccountInv, TypeOK, Count, Statistics
<1>2. /\ store' = [store EXCEPT ![b] = Counted(@)]
      /\ capPC' = "idle"
      /\ UNCHANGED <<addressStats, counted, read, dropped>>
  BY DEF Count, Done, flVars
<1>3. \A d \in Directions :
          store'[b].packets[d] = IF d = packet.direction
                                 THEN store[b].packets[d] + 1
                                 ELSE store[b].packets[d]
  BY <1>1, <1>2 DEF AccountInv, TypeOK, Counted, Statistics
<1>4. Totals'[p] = Totals[p] + 1
  <2>1. store[b].packets \in [Directions -> Nat]
    BY <1>1 DEF Statistics
  <2> HIDE DEF b
  <2>2. /\ Totals[p] = store[b].packets["incoming"]
                         + store[b].packets["outgoing"]
        /\ Totals'[p] = store'[b].packets["incoming"]
                          + store'[b].packets["outgoing"]
    BY <1>1, <1>2 DEF Totals, Packets, b
  <2>3. /\ store[b].packets["incoming"] \in Nat
        /\ store[b].packets["outgoing"] \in Nat
    BY <2>1 DEF Directions
  <2> QED  BY <1>1, <1>3, <2>2, <2>3 DEF Directions
<1>5. ASSUME NEW ip \in IPs, ip # p PROVE Totals[ip] = Totals'[ip]
  <2>1. addressStats[ip] # None => addressStats[ip] # b
    BY <1>1, <1>5 DEF AccountInv, IInv, BlocksInv
  <2>2. addressStats[ip] # None =>
            store'[addressStats[ip]] = store[addressStats[ip]]
    BY <1>2, <2>1 DEF AccountInv, TypeOK
  <2> QED  BY <1>2, <2>2 DEF Totals, Packets
<1>6. \A ip \in IPs : Totals'[ip] \in Nat
  BY <1>4, <1>5, AccountFacts
<1> HIDE DEF p, b
<1>7. SumFunctionOnSet(Totals', IPs)
        = (SumFunctionOnSet(Totals, IPs) - Totals[p]) + Totals'[p]
  BY <1>1, <1>5, <1>6, AccountFacts, SumChange
<1>8. Totals[p] \in Nat
  BY <1>1, AccountFacts
<1> QED  BY <1>1, <1>2, <1>4, <1>7, <1>8, AccountFacts
         DEF PacketsAccounted, InProcess

(* ... or gets one ...                                                     *)
LEMMA InsertAccounts ==
    ASSUME AccountInv, NEW b \in Blocks, Insert(b)
    PROVE  PacketsAccounted'
<1> DEFINE p == packet.ip
<1>1. /\ p \in IPs /\ packet.direction \in Directions /\ b # None
      /\ capPC = "lock" /\ addressStats[p] = None
      /\ \A ip \in IPs : addressStats[ip] # b
  BY PPSAssumption DEF PPSAssumption, AccountInv, TypeOK, Insert, Held
<1>2. /\ addressStats' = [addressStats EXCEPT ![p] = b]
      /\ store' = Kept([store EXCEPT ![b] = Counted(NewStats(0))])
      /\ capPC' = "idle"
      /\ UNCHANGED <<counted, read, dropped>>
  BY DEF Insert, Done, flVars
<1>3. addressStats'[p] = b /\ \A ip \in IPs \ {p} :
          addressStats'[ip] = addressStats[ip]
  BY <1>1, <1>2 DEF AccountInv, TypeOK
<1>4. Totals[p] = 0
  BY <1>1 DEF Totals
<1>5. Totals'[p] = 1
  <2>1. Held(b)'
    BY <1>1, <1>3 DEF Held
  <2>2. store'[b] = Counted(NewStats(0))
    BY <1>2, <2>1 DEF Kept, AccountInv, TypeOK
  <2>3. \A d \in Directions :
           store'[b].packets[d] = IF d = packet.direction THEN 1 ELSE 0
    BY <1>1, <2>2 DEF Counted, NewStats
  <2>4. Totals'[p] = store'[b].packets["incoming"]
                        + store'[b].packets["outgoing"]
    BY <1>1, <1>3 DEF Totals, Packets
  <2> QED  BY <1>1, <2>3, <2>4 DEF Directions
<1>6. ASSUME NEW ip \in IPs, ip # p PROVE Totals[ip] = Totals'[ip]
  <2>1. CASE addressStats[ip] = None
    BY <1>3, <1>6, <2>1 DEF Totals
  <2>2. CASE addressStats[ip] # None
    <3>1. addressStats[ip] \in Blocks /\ addressStats[ip] # b
      BY <1>1, <2>2 DEF AccountInv, TypeOK
    <3>2. Held(addressStats[ip])'
      BY <1>3, <1>6 DEF Held
    <3>3. store'[addressStats[ip]] = store[addressStats[ip]]
      BY <1>2, <1>3, <1>6, <3>1, <3>2 DEF Kept, AccountInv, TypeOK
    <3> QED  BY <1>3, <1>6, <3>3 DEF Totals, Packets
  <2> QED  BY <2>1, <2>2
<1>7. \A ip \in IPs : Totals'[ip] \in Nat
  BY <1>5, <1>6, AccountFacts
<1> HIDE DEF p
<1>8. SumFunctionOnSet(Totals', IPs)
        = (SumFunctionOnSet(Totals, IPs) - Totals[p]) + Totals'[p]
  BY <1>1, <1>6, <1>7, AccountFacts, SumChange
<1> QED  BY <1>1, <1>2, <1>4, <1>5, <1>8, AccountFacts
         DEF PacketsAccounted, InProcess

(* ... or is dropped.                                                      *)
LEMMA FullAccounts == AccountInv /\ TableIsFull => PacketsAccounted'
<1> SUFFICES ASSUME AccountInv, TableIsFull PROVE PacketsAccounted'
  OBVIOUS
<1>1. Totals' = Totals
  BY KeptTotals DEF AccountInv, TableIsFull
<1>2. /\ capPC = "lock" /\ capPC' = "idle" /\ dropped' = dropped + 1
      /\ UNCHANGED <<counted, read>>
  BY DEF TableIsFull, Done, flVars
<1> QED  BY <1>1, <1>2, AccountFacts DEF PacketsAccounted, InProcess

(* flush() reads what it sets to zero.                                     *)
LEMMA ScanAccounts == AccountInv /\ Scan => PacketsAccounted'
<1> SUFFICES ASSUME AccountInv, Scan PROVE PacketsAccounted'
  OBVIOUS
<1> DEFINE Rest == IPs \ InBucket
<1>1. /\ UNCHANGED <<addressStats, capPC, counted, dropped>>
      /\ read' = read + SumFunctionOnSet(Totals, InBucket)
  BY DEF Scan, capVars
<1>2. InBucket \subseteq IPs /\ IsFiniteSet(InBucket) /\ IsFiniteSet(Rest)
  BY AccountFacts, FS_Subset DEF InBucket
<1>3. \A ip \in InBucket : Totals'[ip] = 0
  <2>1. TAKE ip \in InBucket
  <2>2. ip \in IPs /\ addressStats[ip] \in Blocks /\ addressStats[ip] # None
    BY DEF InBucket, AccountInv, TypeOK
  <2>3. PICK e : store'[addressStats[ip]] =
                   [store[addressStats[ip]] EXCEPT
                       !.packets = [d \in Directions |-> 0], !.lastEmail = e]
    BY <2>2 DEF Scan
  <2>4. store[addressStats[ip]] \in Statistics
    BY <2>2 DEF AccountInv, TypeOK, Statistics
  <2>5. \A d \in Directions : store'[addressStats[ip]].packets[d] = 0
    BY <2>3, <2>4 DEF Statistics
  <2> QED  BY <1>1, <2>2, <2>5 DEF Totals, Packets, Directions
<1>4. \A ip \in Rest : Totals'[ip] = Totals[ip]
  <2>1. TAKE ip \in Rest
  <2>2. CASE addressStats[ip] = None
    BY <1>1, <2>2 DEF Totals
  <2>3. CASE addressStats[ip] # None
    <3>1. addressStats[ip] \in Blocks
      BY <2>3 DEF AccountInv, TypeOK
    <3>2. ~ \E jp \in InBucket : addressStats[jp] = addressStats[ip]
      BY <1>2, <2>3 DEF AccountInv, IInv, BlocksInv
    <3>3. store'[addressStats[ip]] = store[addressStats[ip]]
      BY <3>1, <3>2 DEF Scan
    <3> QED  BY <1>1, <3>3 DEF Totals, Packets
  <2> QED  BY <2>2, <2>3
<1>5. \A ip \in IPs : Totals'[ip] \in Nat
  BY <1>3, <1>4, AccountFacts
<1>6. SumFunctionOnSet(Totals, IPs)
        = SumFunctionOnSet(Totals, InBucket) + SumFunctionOnSet(Totals, Rest)
  BY <1>2, AccountFacts, SumSplit
<1>7. SumFunctionOnSet(Totals', IPs)
        = SumFunctionOnSet(Totals', InBucket) + SumFunctionOnSet(Totals', Rest)
  BY <1>2, <1>5, AccountFacts, SumSplit
<1>8. SumFunctionOnSet(Totals', InBucket) = 0
  BY <1>2, <1>3, SumZero
<1>9. SumFunctionOnSet(Totals', Rest) = SumFunctionOnSet(Totals, Rest)
  BY <1>2, <1>4, SumSame
<1>10. /\ SumFunctionOnSet(Totals, InBucket) \in Nat
       /\ SumFunctionOnSet(Totals, Rest) \in Nat
  BY <1>2, AccountFacts, SumIsNat
<1> HIDE DEF Rest
<1> QED
  BY <1>1, <1>6, <1>7, <1>8, <1>9, <1>10, AccountFacts
     DEF PacketsAccounted, InProcess

(* An address leaves with its counters at zero.                            *)
LEMMA EraseAccounts ==
    ASSUME AccountInv, NEW jp \in IPs, Erase(jp)
    PROVE  PacketsAccounted'
<1>1. /\ addressStats' = [addressStats EXCEPT ![jp] = None]
      /\ jp \in flErase /\ store' = Kept(store)
      /\ UNCHANGED <<capPC, counted, read, dropped>>
  BY DEF Erase, capVars
<1>2. Totals[jp] = 0
  <2>1. \A d \in Directions : Packets(jp, d) = 0
    BY <1>1 DEF AccountInv, IInv, ErasedInv
  <2> QED  BY <2>1 DEF Totals, Directions
<1>3. ASSUME NEW ip \in IPs PROVE Totals'[ip] = Totals[ip]
  <2>1. CASE ip = jp
    BY <1>1, <1>2, <2>1 DEF Totals, AccountInv, TypeOK
  <2>2. CASE ip # jp
    <3>1. addressStats'[ip] = addressStats[ip]
      BY <1>1, <2>2 DEF AccountInv, TypeOK
    <3>2. CASE addressStats[ip] = None
      BY <3>1, <3>2 DEF Totals
    <3>3. CASE addressStats[ip] # None
      <4>1. addressStats[ip] \in Blocks
        BY <3>3 DEF AccountInv, TypeOK
      <4>2. Held(addressStats[ip])'
        BY <3>1 DEF Held
      <4>3. store'[addressStats[ip]] = store[addressStats[ip]]
        BY <1>1, <3>1, <4>1, <4>2 DEF Kept
      <4> QED  BY <3>1, <4>3 DEF Totals, Packets
    <3> QED  BY <3>2, <3>3
  <2> QED  BY <2>1, <2>2
<1>4. Totals' = Totals
  BY <1>3 DEF Totals
<1> QED  BY <1>1, <1>4, QuietAccount

(* A packet is captured: internal() says what it is for.                   *)
LEMMA ReceiveAccounts ==
    ASSUME AccountInv, Disjoint, NEW source \in IPs, NEW destination \in IPs,
           Receive(source, destination)
    PROVE  PacketsAccounted'
<1>1. source \in Nat /\ destination \in Nat
  BY PPSAssumption DEF PPSAssumption
<1>2. /\ internal(source) <=> Internal(source)
      /\ internal(destination) <=> Internal(destination)
  BY <1>1, InternalIsMembership
<1>3. UNCHANGED <<addressStats, store, read, dropped>> /\ capPC = "idle"
  BY DEF Receive, tableVars, flVars
<1>4. Totals' = Totals
  BY <1>3 DEF Totals, Packets
<1>5. CASE internal(source) \/ internal(destination)
  <2>1. capPC' = "lock" /\ counted' = counted + 1
    BY <1>2, <1>5 DEF Receive
  <2> QED  BY <1>3, <1>4, <2>1, AccountFacts DEF PacketsAccounted, InProcess
<1>6. CASE ~(internal(source) \/ internal(destination))
  <2>1. capPC' = capPC /\ counted' = counted
    BY <1>2, <1>6 DEF Receive
  <2> QED  BY <1>3, <1>4, <2>1, QuietAccount
<1> QED  BY <1>5, <1>6

LEMMA NextAccounts ==
    ASSUME AccountInv, Disjoint, [Next]_vars
    PROVE  PacketsAccounted'
<1>1. CASE UNCHANGED <<addressStats, store, capPC, counted, read, dropped>>
  BY <1>1, QuietAccount DEF Totals, Packets
<1> QED
  BY <1>1, CountAccounts, InsertAccounts, FullAccounts, ScanAccounts,
     EraseAccounts, ReceiveAccounts
     DEF Next, CaptureStep, FlushStep, FlushBegin, DivideByZero, Unlock, Mail,
         NextBucket, FlushEnd, Tick, vars, tableVars, capVars, flVars

(* PacketsAccounted of PPS.tla: every packet of an internal address is in  *)
(* a counter, was read, was dropped with a full table, or is in process.   *)
(* With networks that overlap internal() may miss an address.              *)
THEOREM PacketsAreAccounted ==
    ASSUME Disjoint
    PROVE  Spec => []PacketsAccounted
<1>1. Init => PacketsAccounted
  <2> SUFFICES ASSUME Init PROVE PacketsAccounted
    OBVIOUS
  <2>1. \A ip \in IPs : Totals[ip] = 0
    BY DEF Init, Totals
  <2>2. SumFunctionOnSet(Totals, IPs) = 0
    BY <2>1, PPSAssumption, SumZero DEF PPSAssumption
  <2> QED  BY <2>2 DEF Init, PacketsAccounted
<1>2. Init => AccountInv
  BY <1>1, TypeInit, IInvInit DEF AccountInv
<1>3. AccountInv /\ [Next]_vars => AccountInv'
  BY TypeNext, IInvNext, NextAccounts DEF AccountInv
<1>4. AccountInv => PacketsAccounted
  BY DEF AccountInv
<1> QED  BY <1>2, <1>3, <1>4, PTL DEF Spec

=============================================================================
