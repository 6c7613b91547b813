----------------------------- MODULE HTTP_proofs -----------------------------
(***************************************************************************)
(* Theorems about HTTP.tla, for any connections, buckets and sessions, and *)
(* whatever the parser makes of a payload.                                 *)
(***************************************************************************)
EXTENDS HTTP, SequenceTheorems, Sums_proofs, TLAPS

(* The flush thread collects only sessions of the bucket it has locked.    *)
LockInv ==
    flPC = "bucket" =>
        \A f \in flErase : Bucket[f] = flBucket /\ table[f] # None

(* A session is in the table under one of the two flows of its connection, *)
(* and the consumers' sessions are not in it.  What the capture thread has *)
(* looked for and not found stays absent, as nobody else inserts.          *)
TableInv ==
    /\ \A f \in Flows : table[f] # None => table[Opposite(f)] = None
    /\ \A f, g \in Flows : table[f] # None /\ table[f] = table[g] => f = g
    /\ \A f \in Flows : table[f] \notin queued
    /\ capPC \in {"reverse", "allocate", "insert"} =>
           table[packet.flow] = None
    /\ capPC \in {"allocate", "insert"} => table[Opposite(packet.flow)] = None
    /\ capPC = "insert" =>
           /\ session \in Sessions
           /\ session \notin queued
           /\ \A f \in Flows : table[f] # session

LEMMA OppositeFlow ==
    ASSUME NEW f \in Flows
    PROVE  /\ Opposite(f) \in Flows
           /\ Opposite(f) # f
           /\ Opposite(Opposite(f)) = f
<1>1. PICK c \in Connections, d \in Sides : f = <<c, d>>
  BY DEF Flows
<1>2. d = "client" \/ d = "server"
  BY DEF Sides
<1> QED  BY <1>1, <1>2 DEF Opposite, Flows, Sides

LEMMA InitInv == Init => TypeOK /\ LockInv /\ TableInv
<1> SUFFICES ASSUME Init PROVE TypeOK /\ LockInv /\ TableInv
  OBVIOUS
<1> USE HTTPAssumption DEF HTTPAssumption, Init
<1>1. TypeOK
  BY DEF TypeOK, Times, Buckets
<1>2. LockInv
  BY DEF LockInv
<1>3. TableInv
  <2>1. \A f \in Flows : table[f] = None /\ Opposite(f) \in Flows
    BY OppositeFlow
  <2> QED  BY <2>1 DEF TableInv
<1> QED  BY <1>1, <1>2, <1>3

LEMMA NextTypeOK == TypeOK /\ LockInv /\ TableInv /\ [Next]_vars => TypeOK'
<1> SUFFICES ASSUME TypeOK, LockInv, TableInv, [Next]_vars PROVE TypeOK'
  OBVIOUS
<1> USE HTTPAssumption
    DEF HTTPAssumption, TypeOK, Times, Buckets, Kept, Goto, capVars, flVars
<1>1. ASSUME NEW f \in Flows, NEW p \in Packets, Receive(f, p) PROVE TypeOK'
  BY <1>1 DEF Receive
<1>2. ASSUME NEW f \in Flows, NEW i, Parse(f, i), table[f] # None,
             capPC # "idle"
      PROVE  TypeOK'
  BY <1>2 DEF Parse
<1>3. CASE LookUp
  BY <1>2, <1>3 DEF LookUp, Miss
<1>4. CASE LookUpReverse
  BY <1>2, <1>4, OppositeFlow DEF LookUpReverse, Miss
<1>5. ASSUME NEW s \in Sessions, Allocate(s) PROVE TypeOK'
  BY <1>5 DEF Allocate
<1>6. CASE TableIsFull
  BY <1>6 DEF TableIsFull
<1>7. CASE Insert
  BY <1>7 DEF Insert, TableInv
<1>8. CASE FlushBegin
  BY <1>8 DEF FlushBegin
<1>9. CASE Scan
  BY <1>9 DEF Scan
<1>10. ASSUME NEW f \in Flows, ConsumeAndErase(f) PROVE TypeOK'
  BY <1>10 DEF ConsumeAndErase, LockInv
<1>11. CASE SweepUnlock \/ Clear
  BY <1>11 DEF SweepUnlock, Clear
<1>12. ASSUME NEW s \in Sessions, Release(s) PROVE TypeOK'
  BY <1>12 DEF Release
<1>13. CASE Tick
  BY <1>13 DEF Tick
<1>14. CASE UNCHANGED vars
  BY <1>14 DEF vars
<1> QED
  BY <1>1, <1>3, <1>4, <1>5, <1>6, <1>7, <1>8, <1>9, <1>10, <1>11, <1>12,
     <1>13, <1>14 DEF Next, CaptureStep, FlushStep

LEMMA NextLockInv == TypeOK /\ LockInv /\ [Next]_vars => LockInv'
<1> SUFFICES ASSUME TypeOK, LockInv, [Next]_vars PROVE LockInv'
  OBVIOUS
<1> USE DEF TypeOK, LockInv, Goto, capVars, flVars
<1>1. ASSUME NEW f \in Flows, NEW p \in Packets, Receive(f, p) PROVE LockInv'
  BY <1>1 DEF Receive
<1>2. ASSUME NEW f \in Flows, NEW i, Parse(f, i), Unlocked(f) PROVE LockInv'
  BY <1>2 DEF Parse, Unlocked
<1>3. CASE LookUp
  BY <1>2, <1>3 DEF LookUp, Miss
<1>4. CASE LookUpReverse
  BY <1>2, <1>4, OppositeFlow DEF LookUpReverse, Miss
<1>5. ASSUME NEW s \in Sessions, Allocate(s) PROVE LockInv'
  BY <1>5 DEF Allocate
<1>6. CASE TableIsFull
  BY <1>6 DEF TableIsFull
<1>7. CASE Insert
  BY <1>7 DEF Insert, Unlocked
<1>8. CASE FlushBegin
  BY <1>8 DEF FlushBegin
<1>9. CASE Scan
  BY <1>9 DEF Scan
<1>10. ASSUME NEW f \in Flows, ConsumeAndErase(f) PROVE LockInv'
  BY <1>10 DEF ConsumeAndErase
<1>11. CASE SweepUnlock \/ Clear
  BY <1>11 DEF SweepUnlock, Clear
<1>12. ASSUME NEW s \in Sessions, Release(s) PROVE LockInv'
  BY <1>12 DEF Release
<1>13. CASE Tick
  BY <1>13 DEF Tick
<1>14. CASE UNCHANGED vars
  BY <1>14 DEF vars
<1> QED
  BY <1>1, <1>3, <1>4, <1>5, <1>6, <1>7, <1>8, <1>9, <1>10, <1>11, <1>12,
     <1>13, <1>14 DEF Next, CaptureStep, FlushStep

LEMMA NextTableInv == TypeOK /\ LockInv /\ TableInv /\ [Next]_vars => TableInv'
<1> SUFFICES ASSUME TypeOK, LockInv, TableInv, [Next]_vars PROVE TableInv'
  OBVIOUS
<1> USE HTTPAssumption
    DEF HTTPAssumption, TypeOK, TableInv, Goto, capVars, flVars
<1>0. \A f \in Flows : /\ Opposite(f) \in Flows /\ Opposite(f) # f
                       /\ Opposite(Opposite(f)) = f
  BY OppositeFlow
<1>1. ASSUME NEW f \in Flows, NEW p \in Packets, Receive(f, p)
      PROVE  TableInv'
  BY <1>1 DEF Receive
<1>2. ASSUME NEW f \in Flows, NEW i, Parse(f, i)
      PROVE  TableInv'
  BY <1>2, <1>0 DEF Parse
<1>3. CASE LookUp
  BY <1>2, <1>3 DEF LookUp, Miss
<1>4. CASE LookUpReverse
  BY <1>2, <1>4, <1>0 DEF LookUpReverse, Miss
<1>5. ASSUME NEW s \in Sessions, Allocate(s) PROVE TableInv'
  BY <1>5, <1>0 DEF Allocate, Held
<1>6. CASE TableIsFull
  BY <1>6 DEF TableIsFull
<1>7. CASE Insert
  BY <1>7, <1>0 DEF Insert
<1>8. CASE FlushBegin
  BY <1>8 DEF FlushBegin
<1>9. CASE Scan
  BY <1>9 DEF Scan
<1>10. ASSUME NEW f \in Flows, ConsumeAndErase(f) PROVE TableInv'
  BY <1>10, <1>0 DEF ConsumeAndErase, LockInv
<1>11. CASE SweepUnlock \/ Clear
  BY <1>11 DEF SweepUnlock, Clear
<1>12. ASSUME NEW s \in Sessions, Release(s) PROVE TableInv'
  BY <1>12 DEF Release
<1>13. CASE Tick
  BY <1>13 DEF Tick
<1>14. CASE UNCHANGED vars
  BY <1>14 DEF vars
<1> QED
  BY <1>1, <1>3, <1>4, <1>5, <1>6, <1>7, <1>8, <1>9, <1>10, <1>11, <1>12,
     <1>13, <1>14 DEF Next, CaptureStep, FlushStep

IInv == TypeOK /\ LockInv /\ TableInv

LEMMA InvariantIInv == Spec => []IInv
BY InitInv, NextTypeOK, NextLockInv, NextTableInv, PTL DEF Spec, IInv

(* TypeOK of HTTP.tla is invariant.                                        *)
THEOREM HTTPTypeOK == Spec => []TypeOK
BY InvariantIInv, PTL DEF IInv

(* OneSessionPerConnection of HTTP.tla: between the two lookups and the    *)
(* insertion no lock is held, but only the capture thread inserts, and the *)
(* flush thread does not put back what it has erased.                      *)
THEOREM OneSessionEach == Spec => []OneSessionPerConnection
<1>1. IInv => OneSessionPerConnection
  BY DEF IInv, TableInv, OneSessionPerConnection
<1> QED  BY <1>1, InvariantIInv, PTL

(* HandedOffIsFrozen of HTTP.tla: the consumers, whose threads read a      *)
(* session later, find it as flush() has left it.                          *)
THEOREM ConsumersReadFrozenSessions == Spec => HandedOffIsFrozen
<1>1. ASSUME IInv, [Next]_vars, NEW s \in queued \cap queued'
      PROVE  store'[s] = store[s]
  <2> USE <1>1, HTTPAssumption
      DEF HTTPAssumption, IInv, TypeOK, TableInv, Goto, Kept, capVars, flVars
  <2>0. s \in Sessions /\ Held(s)'
    BY DEF Held
  <2>1. ASSUME NEW f \in Flows, NEW p \in Packets, Receive(f, p)
        PROVE  store'[s] = store[s]
    BY <2>1 DEF Receive
  <2>2. ASSUME NEW f \in Flows, NEW i, Parse(f, i)
        PROVE  store'[s] = store[s]
    BY <2>0, <2>2 DEF Parse
  <2>3. CASE LookUp
    BY <2>2, <2>3 DEF LookUp, Miss
  <2>4. CASE LookUpReverse
    BY <2>2, <2>4, OppositeFlow DEF LookUpReverse, Miss
  <2>5. ASSUME NEW t \in Sessions, Allocate(t) PROVE store'[s] = store[s]
    <3>1. s # t
      BY <2>5 DEF Allocate, Held
    <3> QED  BY <2>0, <2>5, <3>1 DEF Allocate
  <2>6. CASE TableIsFull
    BY <2>0, <2>6 DEF TableIsFull
  <2>7. CASE Insert
    BY <2>7 DEF Insert
  <2>8. CASE FlushBegin
    BY <2>8 DEF FlushBegin
  <2>9. CASE Scan
    BY <2>9 DEF Scan
  <2>10. ASSUME NEW f \in Flows, ConsumeAndErase(f) PROVE store'[s] = store[s]
    BY <2>0, <2>10 DEF ConsumeAndErase
  <2>11. CASE SweepUnlock \/ Clear
    BY <2>0, <2>11 DEF SweepUnlock, Clear
  <2>12. ASSUME NEW t \in Sessions, Release(t) PROVE store'[s] = store[s]
    BY <2>0, <2>12 DEF Release
  <2>13. CASE Tick
    BY <2>13 DEF Tick
  <2>14. CASE UNCHANGED vars
    BY <2>14 DEF vars
  <2> QED
    BY <2>1, <2>3, <2>4, <2>5, <2>6, <2>7, <2>8, <2>9, <2>10, <2>11, <2>12,
       <2>13, <2>14 DEF Next, CaptureStep, FlushStep
<1>2. ASSUME IInv, [Next]_vars
      PROVE  [\A s \in queued \cap queued' : store'[s] = store[s]]_vars
  BY <1>1, <1>2
<1> QED  BY <1>2, InvariantIInv, PTL DEF Spec, HandedOffIsFrozen

-----------------------------------------------------------------------------
(* What a session holds.                                                   *)
Strings == {"method", "path", "queryString", "fragment", "version"}
Places == {"start", "path", "field", "body", "nowhere"}
States == {"none", "url", "path", "field", "value", "complete"}

MessageType ==
    [time : Times, strings : SUBSET Strings, statuses : Nat, headers : Nat]

SessionType ==
    [time : Times, parsers : [1..2 -> Places],
     requestState : States, responseState : States,
     requests : Seq(MessageType), responses : Seq(MessageType)]

LEMMA MessageTyped == ASSUME NEW t \in Times PROVE Message(t) \in MessageType
BY DEF Message, MessageType

LEMMA NewSessionTyped ==
    ASSUME NEW t \in Times
    PROVE  NewSession(t) \in SessionType
<1>1. <<"start", "start">> \in [1..2 -> Places]
  BY DEF Places
<1>2. <<>> \in Seq(MessageType)
  OBVIOUS
<1> QED  BY <1>1, <1>2 DEF NewSession, SessionType, States

(* A new last message, and a change of the last message if there is one.   *)
LEMMA LastMessage ==
    ASSUME NEW q \in Seq(MessageType), NEW m, q # <<>> => m \in MessageType
    PROVE  [q EXCEPT ![Len(q)] = m] \in Seq(MessageType)
<1>1. CASE q = <<>>
  <2>1. [q EXCEPT ![Len(q)] = m] = q
    BY <1>1
  <2> QED  BY <2>1
<1>2. CASE q # <<>>
  <2>1. Len(q) \in 1..Len(q)
    BY <1>2, LenProperties, EmptySeq
  <2> QED  BY <1>2, <2>1, ExceptSeq
<1> QED  BY <1>1, <1>2

LEMMA LastIsMessage ==
    ASSUME NEW q \in Seq(MessageType), q # <<>>
    PROVE  q[Len(q)] \in MessageType
<1>1. Len(q) \in 1..Len(q)
  BY LenProperties, EmptySeq
<1> QED  BY <1>1, ElementOfSeq

LEMMA CountsTyped ==
    ASSUME NEW l \in MessageType
    PROVE  /\ \A b \in BOOLEAN : [l EXCEPT !.headers = IF b THEN @ ELSE @ + 1]
                                   \in MessageType
           /\ [l EXCEPT !.statuses = @ + 1] \in MessageType
<1>1. l.headers + 1 \in Nat /\ l.statuses + 1 \in Nat
  BY DEF MessageType
<1> QED  BY <1>1 DEF MessageType

LEMMA NewMessageTyped ==
    ASSUME NEW x \in SessionType, NEW t \in Times
    PROVE  /\ NewRequest(x, t) \in SessionType
           /\ NewResponse(x, t) \in SessionType
<1>1. /\ Append(x.requests, Message(t)) \in Seq(MessageType)
      /\ Append(x.responses, Message(t)) \in Seq(MessageType)
  BY MessageTyped, AppendProperties DEF SessionType
<1> QED  BY <1>1 DEF NewRequest, NewResponse, SessionType

LEMMA SetTyped ==
    ASSUME NEW x \in SessionType, NEW string \in Strings
    PROVE  Set(x, string) \in SessionType
<1> DEFINE q == x.requests
           m == [q[Len(q)] EXCEPT !.strings = @ \cup {string}]
<1>1. q \in Seq(MessageType)
  BY DEF SessionType
<1>2. q # <<>> => m \in MessageType
  BY <1>1, LastIsMessage DEF MessageType
<1>3. [q EXCEPT ![Len(q)] = m] \in Seq(MessageType)
  <2> HIDE DEF q, m
  <2> QED  BY <1>1, <1>2, LastMessage
<1>4. Set(x, string) = [x EXCEPT !.requests = [q EXCEPT ![Len(q)] = m]]
  BY DEF Set
<1> HIDE DEF q, m
<1> QED  BY <1>3, <1>4 DEF SessionType

LEMMA HeaderFieldTyped ==
    ASSUME NEW x \in SessionType, NEW side, NEW t \in Times
    PROVE  headerField(x, side, t) \in SessionType
<1>1. CASE side = "client"
  <2> DEFINE q == x.requests
             m == [q[Len(q)] EXCEPT !.headers =
                      IF x.requestState = "field" THEN @ ELSE @ + 1]
  <2>1. q \in Seq(MessageType)
    BY DEF SessionType
  <2>2. q # <<>> => m \in MessageType
    BY <2>1, LastIsMessage, CountsTyped
  <2>3. [q EXCEPT ![Len(q)] = m] \in Seq(MessageType)
    <3> HIDE DEF q, m
    <3> QED  BY <2>1, <2>2, LastMessage
  <2>4. headerField(x, side, t) =
          [x EXCEPT !.requests = [q EXCEPT ![Len(q)] = m],
                    !.requestState = "field"]
    BY <1>1 DEF headerField
  <2> HIDE DEF q, m
  <2> QED  BY <2>3, <2>4 DEF SessionType, States
<1>2. CASE side # "client"
  <2> DEFINE y == IF x.responseState \notin {"field", "value"}
                  THEN NewResponse(x, t) ELSE x
             q == y.responses
             m == [q[Len(q)] EXCEPT !.headers =
                      IF y.responseState = "field" THEN @ ELSE @ + 1]
  <2>1. y \in SessionType
    BY NewMessageTyped
  <2> HIDE DEF y
  <2>2. q \in Seq(MessageType)
    BY <2>1 DEF SessionType
  <2>3. q # <<>> => m \in MessageType
    BY <2>2, LastIsMessage, CountsTyped
  <2>4. [q EXCEPT ![Len(q)] = m] \in Seq(MessageType)
    <3> HIDE DEF q, m
    <3> QED  BY <2>2, <2>3, LastMessage
  <2>5. headerField(x, side, t) =
          [y EXCEPT !.responses = [q EXCEPT ![Len(q)] = m],
                    !.responseState = "field"]
    BY <1>2 DEF headerField, y
  <2> HIDE DEF q, m
  <2> QED  BY <2>1, <2>4, <2>5 DEF SessionType, States
<1> QED  BY <1>1, <1>2

LEMMA HeadersCompleteTyped ==
    ASSUME NEW x \in SessionType, NEW side, NEW t \in Times,
           NEW keepAlive \in BOOLEAN
    PROVE  headersComplete(x, side, t, keepAlive) \in SessionType
<1>1. CASE side = "client"
  <2>1. Set(x, "version") \in SessionType
    BY SetTyped DEF Strings
  <2> QED  BY <1>1, <2>1 DEF headersComplete, SessionType, States
<1>2. CASE side # "client"
  <2> DEFINE y == IF x.responseState # "value" THEN NewResponse(x, t) ELSE x
             q == y.responses
             m == [q[Len(q)] EXCEPT !.statuses = @ + 1]
             state == IF keepAlive THEN "complete" ELSE y.responseState
  <2>1. y \in SessionType
    BY NewMessageTyped
  <2> HIDE DEF y
  <2>2. q \in Seq(MessageType) /\ state \in States
    BY <2>1 DEF SessionType, States
  <2>3. q # <<>> => m \in MessageType
    BY <2>2, LastIsMessage, CountsTyped
  <2>4. [q EXCEPT ![Len(q)] = m] \in Seq(MessageType)
    <3> HIDE DEF q, m
    <3> QED  BY <2>2, <2>3, LastMessage
  <2>5. headersComplete(x, side, t, keepAlive) =
          [y EXCEPT !.responses = [q EXCEPT ![Len(q)] = m],
                    !.responseState = state]
    BY <1>2 DEF headersComplete, y
  <2> HIDE DEF q, m, state
  <2> QED  BY <2>1, <2>2, <2>4, <2>5 DEF SessionType
<1> QED  BY <1>1, <1>2

(* Whatever the parser calls, a session stays one.                         *)
LEMMA CallbackTyped ==
    ASSUME NEW x \in SessionType, NEW call, NEW side, NEW t \in Times
    PROVE  Callback(x, call, side, t) \in SessionType
<1>1. url(x, t) \in SessionType
  <2> DEFINE y == IF x.requestState # "path" THEN NewRequest(x, t) ELSE x
  <2>1. Set(y, "method") \in SessionType
    <3>1. y \in SessionType
      BY NewMessageTyped
    <3> HIDE DEF y
    <3> QED  BY <3>1, SetTyped DEF Strings
  <2>2. url(x, t) = [Set(y, "method") EXCEPT !.requestState = "url"]
    BY DEF url
  <2> HIDE DEF y
  <2> QED  BY <2>1, <2>2 DEF SessionType, States
<1>2. path(x, t) \in SessionType
  <2> DEFINE y == IF x.requestState # "url" THEN NewRequest(x, t) ELSE x
  <2>1. Set(y, "path") \in SessionType
    <3>1. y \in SessionType
      BY NewMessageTyped
    <3> HIDE DEF y
    <3> QED  BY <3>1, SetTyped DEF Strings
  <2>2. path(x, t) = [Set(y, "path") EXCEPT !.requestState = "path"]
    BY DEF path
  <2> HIDE DEF y
  <2> QED  BY <2>1, <2>2 DEF SessionType, States
<1>3. queryString(x) \in SessionType /\ fragment(x) \in SessionType
  BY SetTyped DEF Strings, queryString, fragment
<1>4. headerField(x, side, t) \in SessionType
  BY HeaderFieldTyped
<1>5. headerValue(x, side) \in SessionType
  BY DEF headerValue, SessionType, States
<1>6. /\ headersComplete(x, side, t, TRUE) \in SessionType
      /\ headersComplete(x, side, t, FALSE) \in SessionType
  BY HeadersCompleteTyped
<1> QED  BY <1>1, <1>2, <1>3, <1>4, <1>5, <1>6 DEF Callback

LEMMA LeastOf ==
    ASSUME NEW S, S \subseteq Nat, S # {}
    PROVE  \E m \in S : \A k \in S : m <= k
<1> DEFINE R == OpToRel(<, Nat)
<1>1. IsWellFoundedOn(R, Nat)
  BY NatLessThanWellFounded
<1>2. \E m \in S : \A k \in S : ~ (<<k, m>> \in R)
  <2> HIDE DEF R
  <2> QED  BY <1>1, WFMin
<1>3. PICK m \in S : \A k \in S : ~ (k < m)
  BY <1>2 DEF OpToRel
<1>4. \A k \in S : m <= k
  BY <1>3
<1> QED  BY <1>4

LEMMA PacketTyped ==
    ASSUME NEW p \in Packets
    PROVE  Len(p.calls) \in Nat /\ p.to \in Places
<1> DEFINE Calls == {"url", "path", "queryString", "field", "value",
                     "complete", "closing"}
<1>1. CASE p \in Requests
  BY <1>1 DEF Requests, Segment, Places
<1>2. CASE p \in Responses
  BY <1>2 DEF Responses, Segment, Places
<1>3. CASE p \in {Junk(side) : side \in Sides}
  BY <1>3 DEF Junk, Segment, Places
<1>4. CASE p \in Broken
  BY <1>4 DEF Broken, Segment, Places
<1> QED  BY <1>1, <1>2, <1>3, <1>4 DEF Packets

(* The callbacks of a packet one after the other.                          *)
CalledUpTo(n, g, x, p, t) ==
    g = [k \in 0..n |-> IF k = 0 THEN x
                        ELSE Callback(g[k - 1], p.calls[k], p.side, t)]

LEMMA CalledExists ==
    ASSUME NEW x, NEW p, NEW t, NEW n \in Nat
    PROVE  \E g : CalledUpTo(n, g, x, p, t)
<1> DEFINE C == {m \in Nat : ~ \E g : CalledUpTo(m, g, x, p, t)}
<1>1. SUFFICES ASSUME C # {} PROVE FALSE
  OBVIOUS
<1>2. PICK m \in C : \A k \in C : m <= k
  <2> C \subseteq Nat
    OBVIOUS
  <2> HIDE DEF C
  <2> QED  BY <1>1, LeastOf
<1>3. CASE m = 0
  <2> DEFINE g == [k \in 0..0 |-> x]
  <2>1. g = [k \in 0..0 |-> IF k = 0 THEN x
                           ELSE Callback(g[k - 1], p.calls[k], p.side, t)]
    OBVIOUS
  <2> HIDE DEF g
  <2>2. CalledUpTo(m, g, x, p, t)
    BY <1>3, <2>1 DEF CalledUpTo
  <2> QED  BY <2>2
<1>4. CASE m # 0
  <2>1. m - 1 \in Nat /\ m - 1 \notin C
    BY <1>2, <1>4
  <2>2. PICK h : CalledUpTo(m - 1, h, x, p, t)
    BY <2>1
  <2>3. h = [k \in 0..(m - 1) |->
                IF k = 0 THEN x
                ELSE Callback(h[k - 1], p.calls[k], p.side, t)]
    BY <2>2 DEF CalledUpTo
  <2> DEFINE last == Callback(h[m - 1], p.calls[m], p.side, t)
             g == [k \in 0..m |-> IF k = m THEN last ELSE h[k]]
  <2>4. ASSUME NEW k \in 0..m
        PROVE  g[k] = IF k = 0 THEN x
                      ELSE Callback(g[k - 1], p.calls[k], p.side, t)
    <3>1. CASE k = m
      <4>1. m - 1 \in 0..m /\ m - 1 # m
        BY <1>4
      <4>2. g[m - 1] = h[m - 1]
        BY <4>1
      <4> QED  BY <1>4, <3>1, <4>2
    <3>2. CASE k # m /\ k # 0
      <4>1. k \in 0..(m - 1) /\ k - 1 \in 0..m /\ k - 1 # m
        BY <3>2
      <4>2. g[k] = h[k] /\ g[k - 1] = h[k - 1]
        BY <3>2, <4>1
      <4> HIDE DEF g
      <4> QED  BY <2>3, <3>2, <4>1, <4>2
    <3>3. CASE k # m /\ k = 0
      <4>1. 0 \in 0..(m - 1)
        BY <1>4
      <4> QED  BY <2>3, <3>3, <4>1
    <3> QED  BY <3>1, <3>2, <3>3
  <2>5. g = [k \in 0..m |-> g[k]]
    OBVIOUS
  <2> HIDE DEF g
  <2>6. CalledUpTo(m, g, x, p, t)
    BY <2>4, <2>5 DEF CalledUpTo
  <2> QED  BY <2>6
<1> QED  BY <1>3, <1>4

LEMMA CalledTyped ==
    ASSUME NEW x \in SessionType, NEW p, NEW t \in Times, NEW n \in Nat,
           NEW g, CalledUpTo(n, g, x, p, t)
    PROVE  g[n] \in SessionType
<1> DEFINE C == {m \in 0..n : g[m] \notin SessionType}
<1>1. SUFFICES ASSUME C # {} PROVE FALSE
  <2>1. n \notin C
    BY <1>1
  <2> QED  BY <2>1
<1>2. PICK m \in C : \A k \in C : m <= k
  <2> C \subseteq Nat
    OBVIOUS
  <2> HIDE DEF C
  <2> QED  BY <1>1, LeastOf
<1>3. g[m] = IF m = 0 THEN x
             ELSE Callback(g[m - 1], p.calls[m], p.side, t)
  BY DEF CalledUpTo
<1>4. m # 0
  BY <1>3
<1>5. m - 1 \in 0..n /\ m - 1 \notin C
  BY <1>2, <1>4
<1>6. g[m - 1] \in SessionType
  BY <1>5
<1> QED  BY <1>3, <1>4, <1>6, CallbackTyped

(* The parser leaves a session a session, whatever is in the packet.       *)
LEMMA ExecutedTyped ==
    ASSUME NEW x \in SessionType, NEW i \in 1..2, NEW p \in Packets,
           NEW t \in Times
    PROVE  Executed(x, i, p, t) \in SessionType
<1> DEFINE L == Len(p.calls)
           called == CHOOSE g : CalledUpTo(L, g, x, p, t)
<1>1. L \in Nat /\ p.to \in Places
  BY PacketTyped
<1>2. Executed(x, i, p, t) = IF x.parsers[i] # p.from THEN x
                             ELSE [called[L] EXCEPT !.parsers[i] = p.to]
  BY DEF Executed, CalledUpTo
<1>3. called[L] \in SessionType
  <2> HIDE DEF L
  <2>1. CalledUpTo(L, called, x, p, t)
    BY <1>1, CalledExists
  <2> HIDE DEF called
  <2> QED  BY <1>1, <2>1, CalledTyped
<1> DEFINE y == called[L]
<1>4. [y EXCEPT !.parsers[i] = p.to] \in SessionType
  <2> HIDE DEF y
  <2> QED  BY <1>1, <1>3 DEF SessionType, y
<1> HIDE DEF called, L
<1> QED  BY <1>2, <1>4

-----------------------------------------------------------------------------
(* Counting the messages in sessions.                                      *)
StoreInv ==
    /\ store \in [Sessions -> SessionType]
    /\ entries \in Int /\ consumed \in Int /\ discarded \in Int

LEMMA MessagesTyped ==
    ASSUME NEW x \in SessionType
    PROVE  Messages(x) \in Nat
<1> DEFINE a == Len(x.requests)
           b == Len(x.responses)
<1>1. x.requests \in Seq(MessageType) /\ x.responses \in Seq(MessageType)
  BY DEF SessionType
<1>2. a \in Nat /\ b \in Nat
  BY <1>1, LenProperties
<1>3. Messages(x) = a + b
  BY DEF Messages
<1> HIDE DEF a, b
<1> QED  BY <1>2, <1>3

LEMMA NewSessionIsEmpty ==
    ASSUME NEW t \in Times
    PROVE  Messages(NewSession(t)) = 0
BY DEF Messages, NewSession

LEMMA KeptTyped ==
    ASSUME NEW st \in [Sessions -> SessionType]
    PROVE  Kept(st) \in [Sessions -> SessionType]
<1>1. NewSession(0) \in SessionType
  BY HTTPAssumption, NewSessionTyped DEF HTTPAssumption, Times
<1> QED  BY <1>1 DEF Kept

(* What the parser leaves of the session that a packet is parsed into.     *)
LEMMA ParsedTyped ==
    ASSUME TypeOK, NEW x \in SessionType, NEW i \in 1..2, capPC # "idle"
    PROVE  Executed(x, i, packet.payload, packet.time) \in SessionType
<1>1. packet.payload \in Packets /\ packet.time \in Times
  BY DEF TypeOK
<1> QED  BY <1>1, ExecutedTyped

LEMMA NextStoreInv ==
    TypeOK /\ LockInv /\ TableInv /\ StoreInv /\ [Next]_vars => StoreInv'
<1> SUFFICES ASSUME TypeOK, LockInv, TableInv, StoreInv, [Next]_vars
             PROVE  StoreInv'
  OBVIOUS
<1>0. /\ store \in [Sessions -> SessionType]
      /\ entries \in Int /\ consumed \in Int /\ discarded \in Int
      /\ \A s \in Sessions : Messages(store[s]) \in Nat
      /\ table \in [Flows -> Sessions \cup {None}]
  BY MessagesTyped DEF StoreInv, TypeOK
<1>1. CASE UNCHANGED <<store, history>>
  BY <1>0, <1>1 DEF StoreInv, history
<1>2. ASSUME NEW f \in Flows, NEW i \in 1..2, Parse(f, i), table[f] # None,
             capPC # "idle"
      PROVE  StoreInv'
  <2> DEFINE s == table[f]
             x == store[s]
             y == Executed(x, i, packet.payload, packet.time)
  <2>1. s \in Sessions /\ x \in SessionType /\ y \in SessionType
    BY <1>0, <1>2, ParsedTyped
  <2>2. Messages(x) \in Nat /\ Messages(y) \in Nat
    BY <2>1, MessagesTyped
  <2>3. store' = Kept([store EXCEPT ![s] = y])
    BY <1>2 DEF Parse
  <2>4. /\ entries' = entries + Messages(y) - Messages(x)
        /\ discarded' = discarded + Messages(y) \/ discarded' = discarded
        /\ consumed' = consumed
    BY <1>2 DEF Parse
  <2> HIDE DEF s, x, y
  <2>5. store' \in [Sessions -> SessionType]
    BY <1>0, <2>1, <2>3, KeptTyped
  <2> QED  BY <1>0, <2>2, <2>4, <2>5 DEF StoreInv
<1>3. CASE LookUp
  BY <1>1, <1>2, <1>3 DEF LookUp, Miss, TypeOK
<1>4. CASE LookUpReverse
  BY <1>1, <1>2, <1>4, OppositeFlow DEF LookUpReverse, Miss, TypeOK
<1>5. ASSUME NEW s \in Sessions, Allocate(s) PROVE StoreInv'
  <2> DEFINE x == NewSession(packet.time)
             y == Executed(x, 1, packet.payload, packet.time)
  <2>1. x \in SessionType /\ y \in SessionType
    <3>1. packet.time \in Times /\ capPC # "idle"
      BY <1>5 DEF Allocate, TypeOK
    <3>2. x \in SessionType
      BY <3>1, NewSessionTyped
    <3> HIDE DEF x
    <3> QED  BY <3>1, <3>2, ParsedTyped
  <2>2. Messages(y) \in Nat
    BY <2>1, MessagesTyped
  <2>3. store' = Kept([store EXCEPT ![s] = y])
    BY <1>5 DEF Allocate
  <2>4. /\ entries' = entries + Messages(y)
        /\ discarded' = discarded \/ discarded' = discarded + Messages(y)
        /\ consumed' = consumed
    BY <1>5 DEF Allocate
  <2> HIDE DEF x, y
  <2>5. store' \in [Sessions -> SessionType]
    BY <1>0, <2>1, <2>3, KeptTyped
  <2> QED  BY <1>0, <2>2, <2>4, <2>5 DEF StoreInv
<1>6. CASE TableIsFull \/ Clear \/ \E s \in Sessions : Release(s)
  <2>1. store' = Kept(store) /\ UNCHANGED history
    BY <1>6 DEF TableIsFull, Clear, Release
  <2> QED  BY <1>0, <2>1, KeptTyped DEF StoreInv, history
<1>7. ASSUME NEW f \in Flows, ConsumeAndErase(f) PROVE StoreInv'
  <2>1. table[f] \in Sessions
    BY <1>0, <1>7 DEF ConsumeAndErase, LockInv
  <2>2. /\ store' = Kept(store)
        /\ UNCHANGED <<entries, discarded>>
        /\ \/ consumed' = consumed + Messages(store[table[f]])
           \/ consumed' = consumed
    BY <1>7 DEF ConsumeAndErase
  <2>3. store' \in [Sessions -> SessionType]
    BY <1>0, <2>2, KeptTyped
  <2> QED  BY <1>0, <2>1, <2>2, <2>3 DEF StoreInv
<1>8. CASE UNCHANGED vars
  BY <1>1, <1>8 DEF vars
<1> QED
  BY <1>1, <1>3, <1>4, <1>5, <1>6, <1>7, <1>8
     DEF Next, CaptureStep, FlushStep, Receive, Insert, FlushBegin, Scan,
         SweepUnlock, Tick

-----------------------------------------------------------------------------
AccountInv == IInv /\ StoreInv /\ MessagesAccounted

LEMMA AccountFacts ==
    ASSUME TypeOK, StoreInv
    PROVE  /\ LiveSessions \subseteq Sessions /\ IsFiniteSet(LiveSessions)
           /\ \A s \in Sessions : /\ MessageCounts[s] = Messages(store[s])
                                  /\ MessageCounts[s] \in Nat
           /\ SumFunctionOnSet(MessageCounts, LiveSessions) \in Nat
           /\ entries \in Int /\ consumed \in Int /\ discarded \in Int
<1>1. LiveSessions \subseteq Sessions
  BY DEF LiveSessions, TypeOK
<1>2. IsFiniteSet(LiveSessions)
  BY <1>1, HTTPAssumption, FS_Subset DEF HTTPAssumption
<1>3. \A s \in Sessions : /\ MessageCounts[s] = Messages(store[s])
                          /\ MessageCounts[s] \in Nat
  BY MessagesTyped DEF MessageCounts, StoreInv
<1>4. SumFunctionOnSet(MessageCounts, LiveSessions) \in Nat
  BY <1>1, <1>2, <1>3, SumIsNat
<1> QED  BY <1>1, <1>2, <1>3, <1>4 DEF StoreInv

(* The last pointer to a live session is not dropped.                      *)
LEMMA LiveAreKept ==
    ASSUME NEW st, store' = Kept(st), NEW s \in LiveSessions',
           s \in Sessions
    PROVE  store'[s] = st[s]
<1>1. Held(s)'
  BY DEF LiveSessions, Held
<1> QED  BY <1>1 DEF Kept

(* A step that leaves the live sessions alone; what it enters it loses.    *)
LEMMA QuietAccount ==
    ASSUME AccountInv, LiveSessions' = LiveSessions,
           NEW lost \in Nat, entries' = entries + lost,
           discarded' = discarded + lost, consumed' = consumed,
           \A s \in LiveSessions : store'[s] = store[s]
    PROVE  MessagesAccounted'
<1>1. /\ LiveSessions \subseteq Sessions /\ IsFiniteSet(LiveSessions)
  BY AccountFacts DEF AccountInv, IInv
<1>2. \A s \in LiveSessions : MessageCounts'[s] = MessageCounts[s]
  BY <1>1 DEF MessageCounts
<1>3. SumFunctionOnSet(MessageCounts', LiveSessions)
        = SumFunctionOnSet(MessageCounts, LiveSessions)
  BY <1>1, <1>2, SumSame
<1>4. /\ SumFunctionOnSet(MessageCounts, LiveSessions) \in Nat
      /\ entries \in Int /\ consumed \in Int /\ discarded \in Int
  BY AccountFacts DEF AccountInv, IInv
<1> QED  BY <1>3, <1>4 DEF AccountInv, MessagesAccounted

LEMMA StillAccount ==
    ASSUME AccountInv, LiveSessions' = LiveSessions, UNCHANGED history,
           \A s \in LiveSessions : store'[s] = store[s]
    PROVE  MessagesAccounted'
<1>1. entries \in Int /\ discarded \in Int
  BY AccountFacts DEF AccountInv, IInv
<1>2. /\ entries' = entries + 0 /\ discarded' = discarded + 0
      /\ consumed' = consumed
  BY <1>1 DEF history
<1> QED  BY <1>2, QuietAccount

(* A session leaves with its messages, those that its last packet added    *)
(* among them.                                                             *)
LEMMA LeaveAccount ==
    ASSUME AccountInv, NEW s \in LiveSessions, NEW added \in Int,
           LiveSessions' = LiveSessions \ {s},
           NEW st, store' = Kept(st),
           \A t \in LiveSessions \ {s} : st[t] = store[t],
           entries' = entries + added,
           consumed' + discarded' =
               consumed + discarded + Messages(store[s]) + added,
           consumed' \in Int, discarded' \in Int
    PROVE  MessagesAccounted'
<1> DEFINE S == LiveSessions
<1>1. /\ S \subseteq Sessions /\ IsFiniteSet(S)
      /\ \A t \in Sessions : /\ MessageCounts[t] = Messages(store[t])
                             /\ MessageCounts[t] \in Nat
      /\ entries \in Int /\ consumed \in Int /\ discarded \in Int
  BY AccountFacts DEF AccountInv, IInv
<1>2. IsFiniteSet(S \ {s})
  BY <1>1, FS_Subset
<1>3. \A t \in S \ {s} : MessageCounts'[t] = MessageCounts[t]
  <2> SUFFICES ASSUME NEW t \in S \ {s}
               PROVE  MessageCounts'[t] = MessageCounts[t]
    OBVIOUS
  <2>1. store'[t] = st[t] /\ t \in Sessions
    BY <1>1, LiveAreKept
  <2> QED  BY <2>1 DEF MessageCounts
<1> HIDE DEF S
<1>4. SumFunctionOnSet(MessageCounts', S \ {s})
        = SumFunctionOnSet(MessageCounts, S \ {s})
  BY <1>2, <1>3, SumSame
<1>5. SumFunctionOnSet(MessageCounts, S)
        = MessageCounts[s] + SumFunctionOnSet(MessageCounts, S \ {s})
  BY <1>1, SumRemove DEF S
<1>6. SumFunctionOnSet(MessageCounts, S \ {s}) \in Nat
  BY <1>1, <1>2, SumIsNat
<1>7. s \in Sessions
  BY <1>1 DEF S
<1>8. entries = SumFunctionOnSet(MessageCounts, S) + consumed + discarded
  BY DEF AccountInv, MessagesAccounted, S
<1>9. LiveSessions' = S \ {s}
  BY DEF S
<1>10. MessageCounts[s] = Messages(store[s]) /\ MessageCounts[s] \in Nat
  BY <1>1, <1>7
<1>11. entries' = SumFunctionOnSet(MessageCounts', S \ {s})
                  + consumed' + discarded'
  BY <1>1, <1>4, <1>5, <1>6, <1>8, <1>10
<1> QED  BY <1>9, <1>11 DEF MessagesAccounted

(* What a packet adds to a session is entered ...                          *)
LEMMA ParseAccounts ==
    ASSUME AccountInv, NEW f \in Flows, NEW i \in 1..2, Parse(f, i),
           table[f] # None, capPC \in {"forward", "reverse"}
    PROVE  MessagesAccounted'
<1> DEFINE s == table[f]
           x == store[s]
           y == Executed(x, i, packet.payload, packet.time)
           S == LiveSessions
<1>1. /\ TypeOK /\ TableInv /\ StoreInv
      /\ S \subseteq Sessions /\ IsFiniteSet(S)
      /\ \A t \in Sessions : /\ MessageCounts[t] = Messages(store[t])
                             /\ MessageCounts[t] \in Nat
      /\ SumFunctionOnSet(MessageCounts, S) \in Nat
      /\ entries \in Int /\ consumed \in Int /\ discarded \in Int
  BY AccountFacts DEF AccountInv, IInv
<1>2. s \in S /\ s \in Sessions
  BY <1>1 DEF LiveSessions, TypeOK
<1>3. capPC' = "idle" /\ consumed' = consumed
  BY DEF Parse, Goto
<1>4. CASE Accepts(x, i, packet.payload)
  <2>1. /\ table' = table /\ discarded' = discarded
        /\ entries' = entries + Messages(y) - Messages(x)
        /\ store' = Kept([store EXCEPT ![s] = y])
    BY <1>4 DEF Parse
  <2>2. LiveSessions' = S
    BY <1>3, <2>1 DEF LiveSessions
  <2>3. y \in SessionType
    BY <1>1, <1>2, ParsedTyped DEF StoreInv
  <2>4. Messages(y) \in Nat
    BY <2>3, MessagesTyped
  <2>5. MessageCounts'[s] = Messages(y)
    <3>1. store'[s] = [store EXCEPT ![s] = y][s]
      BY <1>2, <2>1, <2>2, LiveAreKept
    <3> QED  BY <1>1, <1>2, <3>1 DEF MessageCounts, StoreInv
  <2>6. \A t \in S : t # s => MessageCounts[t] = MessageCounts'[t]
    <3>1. ASSUME NEW t \in S, t # s PROVE store'[t] = store[t]
      <4>1. store'[t] = [store EXCEPT ![s] = y][t]
        BY <1>1, <2>1, <2>2, LiveAreKept
      <4> QED  BY <1>1, <3>1, <4>1 DEF StoreInv
    <3> QED  BY <1>1, <3>1 DEF MessageCounts
  <2>7. MessageCounts[s] = Messages(x)
    BY <1>1, <1>2
  <2> HIDE DEF s, x, y, S
  <2>8. \A t \in S : MessageCounts[t] \in Nat /\ MessageCounts'[t] \in Nat
    BY <1>1, <2>4, <2>5, <2>6
  <2>9. SumFunctionOnSet(MessageCounts', S)
          = (SumFunctionOnSet(MessageCounts, S) - MessageCounts[s])
             + MessageCounts'[s]
    BY <1>1, <1>2, <2>6, <2>8, SumChange
  <2>10. entries = SumFunctionOnSet(MessageCounts, S) + consumed + discarded
    BY DEF AccountInv, MessagesAccounted, S
  <2>11. MessageCounts[s] \in Nat
    BY <1>1, <1>2
  <2>12. entries' = SumFunctionOnSet(MessageCounts', S) + consumed' + discarded'
    BY <1>1, <1>3, <2>1, <2>4, <2>5, <2>7, <2>9, <2>10, <2>11
  <2> QED  BY <2>2, <2>12 DEF MessagesAccounted
<1>5. CASE ~Accepts(x, i, packet.payload)
  <2> DEFINE st == [store EXCEPT ![s] = y]
             added == Messages(y) - Messages(x)
  <2>1. /\ table' = [table EXCEPT ![f] = None]
        /\ discarded' = discarded + Messages(y)
        /\ entries' = entries + Messages(y) - Messages(x)
        /\ store' = Kept(st)
    BY <1>5 DEF Parse
  <2>2. LiveSessions' = S \ {s}
    <3>1. \A g \in Flows : table[g] = s => g = f
      BY <1>1 DEF TableInv
    <3> QED  BY <1>1, <1>3, <2>1, <3>1 DEF LiveSessions, TypeOK
  <2>3. y \in SessionType
    BY <1>1, <1>2, ParsedTyped DEF StoreInv
  <2>4. Messages(x) \in Nat /\ Messages(y) \in Nat
    BY <1>1, <1>2, <2>3, MessagesTyped
  <2>5. \A t \in S \ {s} : st[t] = store[t]
    BY <1>1 DEF StoreInv
  <2>6. x = store[s]
    OBVIOUS
  <2> HIDE DEF S, x, y, s, st
  <2>7. /\ added \in Int /\ entries' = entries + added
        /\ consumed' + discarded' =
               consumed + discarded + Messages(store[s]) + added
        /\ consumed' \in Int /\ discarded' \in Int
    BY <1>1, <1>3, <2>1, <2>4, <2>6
  <2> HIDE DEF added
  <2> QED  BY <1>2, <2>1, <2>2, <2>5, <2>7, LeaveAccount DEF S
<1> QED  BY <1>4, <1>5

(* ... and so is what it adds to a new one.                                *)
LEMMA AllocateAccounts ==
    ASSUME AccountInv, NEW s \in Sessions, Allocate(s)
    PROVE  MessagesAccounted'
<1> DEFINE x == NewSession(packet.time)
           y == Executed(x, 1, packet.payload, packet.time)
           S == LiveSessions
<1>1. /\ TypeOK /\ TableInv /\ StoreInv
      /\ S \subseteq Sessions /\ IsFiniteSet(S)
      /\ \A t \in Sessions : /\ MessageCounts[t] = Messages(store[t])
                             /\ MessageCounts[t] \in Nat
      /\ SumFunctionOnSet(MessageCounts, S) \in Nat
      /\ entries \in Int /\ consumed \in Int /\ discarded \in Int
      /\ None \notin Sessions
  BY AccountFacts, HTTPAssumption DEF AccountInv, IInv, HTTPAssumption
<1>2. capPC = "allocate" /\ ~Held(s) /\ session' = s /\ table' = table
  BY DEF Allocate
<1>3. s \notin S
  BY <1>2 DEF LiveSessions, Held
<1>4. CASE Accepts(x, 1, packet.payload)
  <2>1. /\ capPC' = "insert" /\ entries' = entries + Messages(y)
        /\ consumed' = consumed /\ discarded' = discarded
        /\ store' = Kept([store EXCEPT ![s] = y])
    BY <1>4 DEF Allocate, Goto
  <2>2. LiveSessions' = S \cup {s}
    BY <1>1, <1>2, <2>1 DEF LiveSessions
  <2>3. y \in SessionType
    <3>1. packet.time \in Times /\ capPC # "idle"
      BY <1>1, <1>2 DEF TypeOK
    <3>2. x \in SessionType
      BY <3>1, NewSessionTyped
    <3> HIDE DEF x
    <3> QED  BY <1>1, <3>1, <3>2, ParsedTyped
  <2>4. Messages(y) \in Nat
    BY <2>3, MessagesTyped
  <2>5. MessageCounts'[s] = Messages(y)
    <3>1. store'[s] = [store EXCEPT ![s] = y][s]
      BY <2>1, <2>2, LiveAreKept
    <3> QED  BY <1>1, <3>1 DEF MessageCounts, StoreInv
  <2>6. \A t \in S : MessageCounts'[t] = MessageCounts[t]
    <3>1. ASSUME NEW t \in S PROVE store'[t] = store[t]
      <4>1. store'[t] = [store EXCEPT ![s] = y][t]
        BY <1>1, <2>1, <2>2, LiveAreKept
      <4> QED  BY <1>1, <1>3, <4>1 DEF StoreInv
    <3> QED  BY <1>1, <3>1 DEF MessageCounts
  <2> HIDE DEF x, y, S
  <2>7. SumFunctionOnSet(MessageCounts', S) = SumFunctionOnSet(MessageCounts, S)
    BY <1>1, <2>6, SumSame
  <2>8. \A t \in S \cup {s} : MessageCounts'[t] \in Nat
    BY <1>1, <2>4, <2>5, <2>6
  <2>9. SumFunctionOnSet(MessageCounts', S \cup {s})
          = MessageCounts'[s] + SumFunctionOnSet(MessageCounts', S)
    BY <1>1, <1>3, <2>8, SumAdd
  <2>10. entries = SumFunctionOnSet(MessageCounts, S) + consumed + discarded
    BY DEF AccountInv, MessagesAccounted, S
  <2>11. entries' = SumFunctionOnSet(MessageCounts', S \cup {s})
                    + consumed' + discarded'
    BY <1>1, <2>1, <2>4, <2>5, <2>7, <2>9, <2>10
  <2> QED  BY <2>2, <2>11 DEF MessagesAccounted
<1>5. CASE ~Accepts(x, 1, packet.payload)
  <2>1. /\ capPC' = "idle" /\ consumed' = consumed
        /\ entries' = entries + Messages(y)
        /\ discarded' = discarded + Messages(y)
        /\ store' = Kept([store EXCEPT ![s] = y])
    BY <1>5 DEF Allocate, Goto
  <2>2. LiveSessions' = S
    BY <1>2, <2>1 DEF LiveSessions
  <2>3. Messages(y) \in Nat
    <3>1. packet.time \in Times /\ capPC # "idle"
      BY <1>1, <1>2 DEF TypeOK
    <3>2. x \in SessionType
      BY <3>1, NewSessionTyped
    <3> HIDE DEF x
    <3> QED  BY <1>1, <3>1, <3>2, ParsedTyped, MessagesTyped
  <2>4. ASSUME NEW t \in S PROVE store'[t] = store[t]
    <3>1. store'[t] = [store EXCEPT ![s] = y][t]
      BY <1>1, <2>1, <2>2, LiveAreKept
    <3> QED  BY <1>1, <1>3, <3>1 DEF StoreInv
  <2> QED  BY <1>1, <2>1, <2>2, <2>3, <2>4, QuietAccount
<1> QED  BY <1>4, <1>5

(* A session in the table takes the place of none.                         *)
LEMMA InsertAccounts == AccountInv /\ Insert => MessagesAccounted'
<1> SUFFICES ASSUME AccountInv, Insert PROVE MessagesAccounted'
  OBVIOUS
<1>1. TypeOK /\ TableInv
  BY DEF AccountInv, IInv
<1>2. /\ capPC = "insert" /\ capPC' = "idle"
      /\ table' = [table EXCEPT ![packet.flow] = session]
      /\ UNCHANGED <<store, session, history>>
  BY DEF Insert, Goto
<1>3. packet.flow \in Flows /\ table[packet.flow] = None
  BY <1>1, <1>2 DEF TypeOK, TableInv
<1>4. LiveSessions' = LiveSessions
  BY <1>1, <1>2, <1>3 DEF LiveSessions, TypeOK
<1> QED  BY <1>2, <1>4, StillAccount

(* flush() gives a session with messages to the consumers.                 *)
LEMMA ConsumeAccounts ==
    ASSUME AccountInv, NEW f \in Flows, ConsumeAndErase(f)
    PROVE  MessagesAccounted'
<1> DEFINE s == table[f]
<1>1. /\ TypeOK /\ LockInv /\ TableInv /\ StoreInv
      /\ consumed \in Int /\ discarded \in Int
      /\ \A t \in Sessions : Messages(store[t]) \in Nat
  BY AccountFacts DEF AccountInv, IInv
<1>2. /\ flPC = "bucket" /\ f \in flErase
      /\ table' = [table EXCEPT ![f] = None]
      /\ store' = Kept(store)
      /\ UNCHANGED <<capPC, session, entries, discarded>>
      /\ consumed' = IF Messages(store[s]) > 0
                     THEN consumed + Messages(store[s]) ELSE consumed
  BY DEF ConsumeAndErase, capVars
<1>3. s # None /\ s \in Sessions /\ s \in LiveSessions
  BY <1>1, <1>2 DEF LockInv, TypeOK, LiveSessions
<1>4. LiveSessions' = LiveSessions \ {s}
  <2>1. \A g \in Flows : table[g] = s => g = f
    BY <1>1, <1>3 DEF TableInv
  <2>2. capPC = "insert" => session # s
    BY <1>1 DEF TableInv
  <2> QED  BY <1>1, <1>2, <2>1, <2>2 DEF LiveSessions, TypeOK
<1>5. Messages(store[s]) \in Nat
  BY <1>1, <1>3
<1>6. entries \in Int
  BY <1>1 DEF StoreInv
<1> HIDE DEF s
<1>7. /\ entries' = entries + 0
      /\ consumed' + discarded' =
             consumed + discarded + Messages(store[s]) + 0
      /\ consumed' \in Int /\ discarded' \in Int
  BY <1>1, <1>2, <1>5, <1>6
<1> QED  BY <1>2, <1>3, <1>4, <1>7, LeaveAccount

LEMMA NextAccounts == AccountInv /\ [Next]_vars => MessagesAccounted'
<1> SUFFICES ASSUME AccountInv, [Next]_vars PROVE MessagesAccounted'
  OBVIOUS
<1>1. CASE UNCHANGED <<table, store, session, history>>
           /\ (capPC = "insert" <=> capPC' = "insert")
  <2>1. LiveSessions' = LiveSessions
    BY <1>1 DEF LiveSessions
  <2> QED  BY <1>1, <2>1, StillAccount
<1>2. CASE store' = Kept(store) /\ UNCHANGED <<table, history>>
           /\ capPC # "insert" /\ capPC' # "insert"
  <2>1. LiveSessions' = LiveSessions
    BY <1>2 DEF LiveSessions
  <2>2. ASSUME NEW s \in LiveSessions PROVE store'[s] = store[s]
    <3>1. s \in Sessions
      BY AccountFacts DEF AccountInv, IInv
    <3> QED  BY <1>2, <2>1, <3>1, LiveAreKept
  <2> QED  BY <1>2, <2>1, <2>2, StillAccount
<1>3. CASE LookUp
  <2>1. packet.flow \in Flows /\ capPC = "forward"
    BY <1>3 DEF LookUp, AccountInv, IInv, TypeOK
  <2>2. CASE table[packet.flow] # None
    BY <1>3, <2>1, <2>2, ParseAccounts DEF LookUp
  <2>3. CASE table[packet.flow] = None
    BY <1>1, <1>3, <2>1, <2>3 DEF LookUp, Miss, Goto
  <2> QED  BY <2>2, <2>3
<1>4. CASE LookUpReverse
  <2>1. Opposite(packet.flow) \in Flows /\ capPC = "reverse"
    BY <1>4, OppositeFlow DEF LookUpReverse, AccountInv, IInv, TypeOK
  <2>2. CASE table[Opposite(packet.flow)] # None
    BY <1>4, <2>1, <2>2, ParseAccounts DEF LookUpReverse
  <2>3. CASE table[Opposite(packet.flow)] = None
    BY <1>1, <1>4, <2>1, <2>3 DEF LookUpReverse, Miss, Goto
  <2> QED  BY <2>2, <2>3
<1>5. CASE TableIsFull
  BY <1>2, <1>5 DEF TableIsFull, Goto
<1>6. ASSUME NEW r \in Sessions, Release(r) PROVE MessagesAccounted'
  <2>1. store' = Kept(store) /\ UNCHANGED <<table, session, capPC, history>>
    BY <1>6 DEF Release, capVars
  <2>2. LiveSessions' = LiveSessions
    BY <2>1 DEF LiveSessions
  <2>3. ASSUME NEW s \in LiveSessions PROVE store'[s] = store[s]
    <3>1. s \in Sessions
      BY AccountFacts DEF AccountInv, IInv
    <3> QED  BY <2>1, <2>2, <3>1, LiveAreKept
  <2> QED  BY <2>1, <2>2, <2>3, StillAccount
<1>7. CASE Clear
  <2>1. store' = Kept(store) /\ UNCHANGED <<table, session, capPC, history>>
    BY <1>7 DEF Clear, capVars
  <2>2. LiveSessions' = LiveSessions
    BY <2>1 DEF LiveSessions
  <2>3. ASSUME NEW s \in LiveSessions PROVE store'[s] = store[s]
    <3>1. s \in Sessions
      BY AccountFacts DEF AccountInv, IInv
    <3> QED  BY <2>1, <2>2, <3>1, LiveAreKept
  <2> QED  BY <2>1, <2>2, <2>3, StillAccount
<1>8. CASE \/ \E f \in Flows, p \in Packets : Receive(f, p)
           \/ FlushBegin \/ Scan \/ SweepUnlock \/ Tick \/ UNCHANGED vars
  BY <1>1, <1>8 DEF Receive, FlushBegin, Scan, SweepUnlock, Tick, vars, capVars
<1> QED
  BY <1>3, <1>4, <1>5, <1>6, <1>7, <1>8, AllocateAccounts, InsertAccounts,
     ConsumeAccounts DEF Next, CaptureStep, FlushStep

(* MessagesAccounted of HTTP.tla: no message that the parser has entered   *)
(* in a session is lost or given out twice between the two lookups, the    *)
(* insertion, the sweep and an error of the parser.                        *)
THEOREM MessagesAreAccounted == Spec => []MessagesAccounted
<1>1. Init => AccountInv
  <2> SUFFICES ASSUME Init PROVE AccountInv
    OBVIOUS
  <2>1. IInv
    BY InitInv DEF IInv
  <2>2. StoreInv
    <3>1. NewSession(0) \in SessionType
      BY HTTPAssumption, NewSessionTyped DEF HTTPAssumption, Times
    <3> QED  BY <3>1 DEF Init, StoreInv
  <2>3. LiveSessions = {}
    BY DEF Init, LiveSessions
  <2>4. MessagesAccounted
    BY <2>3, SumEmpty DEF Init, MessagesAccounted
  <2> QED  BY <2>1, <2>2, <2>4 DEF AccountInv
<1>2. AccountInv /\ [Next]_vars => AccountInv'
  BY NextTypeOK, NextLockInv, NextTableInv, NextStoreInv, NextAccounts
     DEF AccountInv, IInv
<1>3. AccountInv => MessagesAccounted
  BY DEF AccountInv
<1> QED  BY <1>1, <1>2, <1>3, PTL DEF Spec

=============================================================================
