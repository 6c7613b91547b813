---------------------------- MODULE Storage_proofs ----------------------------
(***************************************************************************)
(* Theorems about a module's storage.  Writer.tla: for any set of flows,   *)
(* and any number of calls.  BerkeleyDB.tla: for any hours, files,         *)
(* timeout, numbers of writes and crashes, and any set of calls that may   *)
(* fail.  Archive.tla: for any commands of the tools, any deletions and    *)
(* any failures on top of that, and for any sessions and print jobs in the *)
(* records.                                                                *)
(***************************************************************************)
EXTENDS Writer, Archive, Sums_proofs, FiniteSetTheorems, SequenceTheorems,
        WellFoundedInduction, TLAPS

-----------------------------------------------------------------------------
(* Sequences: what the queue's operations do to attempted \o pending.      *)

(* Pushing on the queue extends the concatenation by the same element.     *)
LEMMA ConcatAppend ==
    ASSUME NEW S, NEW s \in Seq(S), NEW t \in Seq(S), NEW e \in S
    PROVE  s \o Append(t, e) = Append(s \o t, e)
<1>1. /\ Append(t, e) = t \o <<e>>
      /\ Append(s \o t, e) = (s \o t) \o <<e>>
  BY AppendIsConcat, ConcatProperties
<1>2. (s \o t) \o <<e>> = s \o (t \o <<e>>)
  BY ConcatAssociative
<1> QED  BY <1>1, <1>2

(* Moving the head of the queue to the end of the log changes nothing.     *)
LEMMA ConcatMoveHead ==
    ASSUME NEW S, NEW s \in Seq(S), NEW t \in Seq(S), t # <<>>
    PROVE  s \o t = Append(s, Head(t)) \o Tail(t)
<1>1. /\ Head(t) \in S
      /\ Tail(t) \in Seq(S)
      /\ t = <<Head(t)>> \o Tail(t)
  <2>1. Head(t) \in S /\ Tail(t) \in Seq(S)
    BY HeadTailProperties
  <2>2. t = <<Head(t)>> \o Tail(t)
    <3> DEFINE u == <<Head(t)>>
    <3>1. u \in Seq(S) /\ Len(u) = 1 /\ u[1] = Head(t)
      BY <2>1
    <3>2. Len(t) \in Nat \ {0} /\ Len(Tail(t)) = Len(t) - 1
      BY EmptySeq, HeadTailProperties
    <3>3. \A i \in 1..Len(Tail(t)) : Tail(t)[i] = t[i + 1]
      BY HeadTailProperties
    <3>4. Head(t) = t[1]
      BY <3>2
    <3> HIDE DEF u
    <3>5. /\ u \o Tail(t) \in Seq(S)
          /\ Len(u \o Tail(t)) = Len(u) + Len(Tail(t))
          /\ \A i \in 1..Len(u) + Len(Tail(t)) :
                (u \o Tail(t))[i] = IF i <= Len(u) THEN u[i]
                                   ELSE Tail(t)[i - Len(u)]
      BY <2>1, <3>1, ConcatProperties
    <3>6. Len(u \o Tail(t)) = Len(t)
      BY <3>1, <3>2, <3>5
    <3>7. \A i \in 1..Len(t) : t[i] = (u \o Tail(t))[i]
      BY <3>1, <3>2, <3>3, <3>4, <3>5
    <3>8. t = u \o Tail(t)
      BY <3>5, <3>6, <3>7, SeqEqual
    <3> QED  BY <3>8 DEF u
  <2> QED  BY <2>1, <2>2
<1>2. Append(s, Head(t)) = s \o <<Head(t)>>
  BY <1>1, AppendIsConcat
<1>3. (s \o <<Head(t)>>) \o Tail(t) = s \o (<<Head(t)>> \o Tail(t))
  BY <1>1, ConcatAssociative
<1> QED  BY <1>1, <1>2, <1>3

(* The tail of a non-empty queue does not notice a push.                   *)
LEMMA TailAppend ==
    ASSUME NEW S, NEW t \in Seq(S), NEW e \in S, t # <<>>
    PROVE  /\ Append(t, e) # <<>>
           /\ Head(Append(t, e)) = Head(t)
           /\ Tail(Append(t, e)) = Append(Tail(t), e)
OBVIOUS

-----------------------------------------------------------------------------
(* Every variable keeps its type, and what the queue's front is read for   *)
(* is still there when it is popped.                                       *)
TypeInv ==
    /\ WriterTypes
    /\ writerPC = "pop" => writeQueue # <<>>

LEMMA InitTypeInv == WriterInit => TypeInv
<1>1. <<>> \in Seq(Flows)
  BY EmptySeq
<1>2. 0 \in 0..MaxFlushes
  BY WriterAssumption DEF WriterAssumption
<1> SUFFICES ASSUME WriterInit PROVE TypeInv
  OBVIOUS
<1> USE DEF WriterInit
<1>3. writeQueue \in Seq(Flows) /\ stored \in Seq(Flows)
  BY <1>1
<1>4. submitted \in Seq(Flows) /\ attempted \in Seq(Flows)
  BY <1>1
<1>5. /\ flushes \in 0..MaxFlushes /\ flushedTo \in Nat
      /\ flushMark \in Nat /\ missed \in Nat
  BY <1>2
<1>6. writerPC \in WriterPCs \ {"pop"} /\ clientPC \in ClientPCs
  BY DEF WriterPCs, ClientPCs
<1>7. {status, _flush, _write, writeLock} \subseteq BOOLEAN
  OBVIOUS
<1> HIDE DEF WriterInit
<1> QED  BY <1>3, <1>4, <1>5, <1>6, <1>7 DEF TypeInv, WriterTypes

LEMMA NextTypeInv == TypeInv /\ [WriterNext]_writerVars => TypeInv'
<1> SUFFICES ASSUME TypeInv, [WriterNext]_writerVars PROVE TypeInv'
  OBVIOUS
<1> USE WriterAssumption DEF TypeInv, WriterTypes, WriterPCs, ClientPCs
<1>1. ASSUME NEW f \in Flows, Push(f) PROVE TypeInv'
  <2>1. /\ writeQueue' \in Seq(Flows)
        /\ writeQueue' # <<>>
        /\ submitted' \in Seq(Flows)
    <3>1. /\ writeQueue \in Seq(Flows) /\ submitted \in Seq(Flows)
          /\ writeQueue' = Append(writeQueue, f)
          /\ submitted' = Append(submitted, f)
      BY <1>1 DEF Push
    <3>2. writeQueue' \in Seq(Flows) /\ writeQueue' # <<>>
      <4>1. /\ Append(writeQueue, f) \in Seq(Flows)
            /\ Append(writeQueue, f) # <<>>
        <5> HIDE DEF TypeInv, WriterTypes
        <5> QED  BY <3>1, AppendProperties
      <4> QED  BY <3>1, <4>1
    <3>3. submitted' \in Seq(Flows)
      BY <3>1, AppendProperties
    <3> QED  BY <3>2, <3>3
  <2> QED  BY <1>1, <2>1 DEF Push, storeVars
<1>2. CASE Signal
  BY <1>2 DEF Signal, SignalIfIdle, Broadcast, storeVars
<1>3. CASE Flush
  BY <1>3 DEF Flush, storeVars
<1>4. CASE Finish
  BY <1>4 DEF Finish, storeVars
<1>5. CASE FinishSignal
  BY <1>5 DEF FinishSignal, SignalIfIdle, Broadcast, storeVars
<1>6. CASE Join
  BY <1>6 DEF Join, storeVars
<1>7. CASE LoopTest
  BY <1>7 DEF LoopTest, storeVars, clientUnchanged, clientVars
<1>8. CASE Wait
  BY <1>8 DEF Wait, storeVars, clientUnchanged, clientVars
<1>9. CASE SpuriousWakeup
  BY <1>9 DEF SpuriousWakeup, storeVars, clientUnchanged, clientVars
<1>10. CASE RaiseStatus
  BY <1>10 DEF RaiseStatus, storeVars, clientUnchanged, clientVars
<1>11. CASE WriteFront
  <2>1. Head(writeQueue) \in Flows
    BY <1>11, HeadTailProperties DEF WriteFront
  <2>2. /\ attempted' \in Seq(Flows)
        /\ stored' \in Seq(Flows)
    <3>1. /\ Append(attempted, Head(writeQueue)) \in Seq(Flows)
          /\ Append(stored, Head(writeQueue)) \in Seq(Flows)
      BY <2>1, AppendProperties
    <3> QED  BY <1>11, <3>1 DEF WriteFront
  <2> QED  BY <1>11, <2>2 DEF WriteFront, clientUnchanged, clientVars
<1>12. CASE Pop
  BY <1>12, HeadTailProperties DEF Pop, storeVars, clientUnchanged, clientVars
<1>13. CASE DrainEnds
  BY <1>13 DEF DrainEnds, storeVars, clientUnchanged, clientVars
<1>14. CASE LowerStatus
  BY <1>14 DEF LowerStatus, storeVars, clientUnchanged, clientVars
<1>15. CASE CheckFlush
  BY <1>15 DEF CheckFlush, storeVars, clientUnchanged, clientVars
<1>16. CASE DBFlush
  BY <1>16, LenProperties DEF DBFlush, clientUnchanged, clientVars
<1>17. CASE Unlock
  BY <1>17 DEF Unlock, storeVars, clientUnchanged, clientVars
<1>18. CASE UNCHANGED writerVars
  BY <1>18 DEF writerVars, storeVars, clientVars
<1> QED
  BY <1>1, <1>2, <1>3, <1>4, <1>5, <1>6, <1>7, <1>8, <1>9, <1>10, <1>11,
     <1>12, <1>13, <1>14, <1>15, <1>16, <1>17, <1>18
     DEF WriterNext, ClientStep, WriterStep

(* WriterTypes of Writer.tla is invariant.                                 *)
THEOREM WriterTypeOK == WriterSpec => []WriterTypes
<1>1. TypeInv => WriterTypes
  BY DEF TypeInv
<1> QED  BY InitTypeInv, NextTypeInv, <1>1, PTL DEF WriterSpec

-----------------------------------------------------------------------------
(* What each step does to the two sequences of RecordLog: only Push and    *)
(* WriteFront touch them; Pop hides what WriteFront has already counted.   *)

LEMMA PushIsSubmit ==
    ASSUME TypeInv, NEW f \in Flows, Push(f)
    PROVE  Log!Submit(f)
<1>1. writeQueue \in Seq(Flows) /\ (writerPC = "pop" => writeQueue # <<>>)
  BY DEF TypeInv, WriterTypes
<1>2. CASE writerPC = "pop"
  <2>1. Tail(Append(writeQueue, f)) = Append(Tail(writeQueue), f)
    BY <1>1, <1>2, TailAppend
  <2> QED  BY <1>2, <2>1 DEF Push, storeVars, Log!Submit, pendingFlows
<1>3. CASE writerPC # "pop"
  BY <1>3 DEF Push, storeVars, Log!Submit, pendingFlows
<1> QED  BY <1>2, <1>3

LEMMA WriteFrontIsAttempt ==
    ASSUME TypeInv, WriteFront
    PROVE  Log!Attempt
BY DEF WriteFront, Log!Attempt, pendingFlows

(* Every other step leaves both sequences as they are.                     *)
OtherStep ==
    \/ Signal \/ Flush \/ Finish \/ FinishSignal \/ Join
    \/ LoopTest \/ Wait \/ SpuriousWakeup \/ RaiseStatus \/ Pop \/ DrainEnds
    \/ LowerStatus \/ CheckFlush \/ DBFlush \/ Unlock
    \/ UNCHANGED writerVars

LEMMA NextCases ==
    ASSUME [WriterNext]_writerVars
    PROVE  (\E f \in Flows : Push(f)) \/ WriteFront \/ OtherStep
BY DEF WriterNext, ClientStep, WriterStep, OtherStep

LEMMA OtherStepStutters ==
    ASSUME TypeInv, OtherStep
    PROVE  UNCHANGED <<pendingFlows, attempted, submitted>>
<1>1. CASE Signal
  BY <1>1 DEF Signal, SignalIfIdle, Broadcast, storeVars, pendingFlows
<1>2. CASE Flush
  BY <1>2 DEF Flush, storeVars, pendingFlows
<1>3. CASE Finish
  BY <1>3 DEF Finish, storeVars, pendingFlows
<1>4. CASE FinishSignal
  BY <1>4 DEF FinishSignal, SignalIfIdle, Broadcast, storeVars, pendingFlows
<1>5. CASE Join
  BY <1>5 DEF Join, storeVars, pendingFlows
<1>6. CASE LoopTest \/ Wait \/ SpuriousWakeup \/ RaiseStatus \/ DrainEnds
  BY <1>6 DEF LoopTest, Wait, SpuriousWakeup, RaiseStatus, DrainEnds,
              storeVars, clientUnchanged, clientVars, pendingFlows
<1>7. CASE Pop
  BY <1>7 DEF Pop, storeVars, clientUnchanged, clientVars, pendingFlows
<1>8. CASE LowerStatus \/ CheckFlush \/ DBFlush \/ Unlock
  BY <1>8 DEF LowerStatus, CheckFlush, DBFlush, Unlock, storeVars,
              clientUnchanged, clientVars, pendingFlows
<1>9. CASE UNCHANGED writerVars
  BY <1>9 DEF writerVars, storeVars, clientVars, pendingFlows
<1> QED
  BY <1>1, <1>2, <1>3, <1>4, <1>5, <1>6, <1>7, <1>8, <1>9 DEF OtherStep

(* writer.hpp implements the record log: two threads and three locks look, *)
(* from outside, like one queue whose front is written exactly once.       *)
THEOREM WriterImplementsRecordLog == WriterSpec => ImplementsRecordLog
<1>1. WriterInit => Log!LogInit
  BY DEF WriterInit, Log!LogInit, pendingFlows
<1>2. TypeInv /\ [WriterNext]_writerVars => [Log!LogNext]_Log!logVars
  <2> SUFFICES ASSUME TypeInv, [WriterNext]_writerVars
               PROVE  [Log!LogNext]_Log!logVars
    OBVIOUS
  <2>1. CASE \E f \in Flows : Push(f)
    BY <2>1, PushIsSubmit DEF Log!LogNext
  <2>2. CASE WriteFront
    BY <2>2, WriteFrontIsAttempt DEF Log!LogNext
  <2>3. CASE OtherStep
    BY <2>3, OtherStepStutters DEF Log!logVars
  <2> QED  BY <2>1, <2>2, <2>3, NextCases
<1> QED
  BY InitTypeInv, NextTypeInv, <1>1, <1>2, PTL
     DEF WriterSpec, ImplementsRecordLog, Log!LogSpec

-----------------------------------------------------------------------------
(* ExactlyOnceInOrder of Writer.tla: every flow submitted is attempted     *)
(* once, in order, or still pending.                                       *)
THEOREM WriterExactlyOnce == WriterSpec => []ExactlyOnceInOrder
<1>1. WriterInit => ExactlyOnceInOrder
  BY DEF WriterInit, ExactlyOnceInOrder, pendingFlows
<1>2. TypeInv /\ ExactlyOnceInOrder /\ [WriterNext]_writerVars
      => ExactlyOnceInOrder'
  <2> SUFFICES ASSUME TypeInv, ExactlyOnceInOrder, [WriterNext]_writerVars
               PROVE  ExactlyOnceInOrder'
    OBVIOUS
  <2>1. pendingFlows \in Seq(Flows) /\ attempted \in Seq(Flows)
    BY HeadTailProperties DEF TypeInv, WriterTypes, pendingFlows
  <2>2. ASSUME NEW f \in Flows, Push(f) PROVE ExactlyOnceInOrder'
    <3>1. pendingFlows' = Append(pendingFlows, f) /\ UNCHANGED attempted
      BY <2>2, PushIsSubmit DEF Log!Submit
    <3>2. attempted \o Append(pendingFlows, f)
            = Append(attempted \o pendingFlows, f)
      BY <2>1, ConcatAppend
    <3>3. submitted' = Append(submitted, f)
      BY <2>2 DEF Push
    <3> QED  BY <3>1, <3>2, <3>3 DEF ExactlyOnceInOrder
  <2>3. CASE WriteFront
    <3>1. /\ pendingFlows # <<>>
          /\ attempted' = Append(attempted, Head(pendingFlows))
          /\ pendingFlows' = Tail(pendingFlows)
      BY <2>3, WriteFrontIsAttempt DEF Log!Attempt
    <3>2. attempted \o pendingFlows
            = Append(attempted, Head(pendingFlows)) \o Tail(pendingFlows)
      BY <2>1, <3>1, ConcatMoveHead
    <3>3. UNCHANGED submitted
      BY <2>3 DEF WriteFront, clientUnchanged, clientVars
    <3> QED  BY <3>1, <3>2, <3>3 DEF ExactlyOnceInOrder
  <2>4. CASE OtherStep
    BY <2>4, OtherStepStutters DEF ExactlyOnceInOrder
  <2> QED  BY <2>2, <2>3, <2>4, NextCases
<1> QED  BY InitTypeInv, NextTypeInv, <1>1, <1>2, PTL DEF WriterSpec

-----------------------------------------------------------------------------
(* OnlyFinishEndsTheThread of Writer.tla.  Together with the types it is   *)
(* inductive: writeLock follows the thread's place in the loop.            *)
THEOREM WriterThreadLives == WriterSpec => []OnlyFinishEndsTheThread
<1>1. WriterInit => OnlyFinishEndsTheThread
  BY DEF WriterInit, OnlyFinishEndsTheThread
<1>2. TypeInv /\ OnlyFinishEndsTheThread /\ [WriterNext]_writerVars
        => OnlyFinishEndsTheThread'
  <2> SUFFICES ASSUME TypeInv, OnlyFinishEndsTheThread, [WriterNext]_writerVars
               PROVE  OnlyFinishEndsTheThread'
    OBVIOUS
  <2> USE DEF TypeInv, WriterTypes, OnlyFinishEndsTheThread
  <2>1. ASSUME NEW f \in Flows, Push(f) PROVE OnlyFinishEndsTheThread'
    BY <2>1 DEF Push, storeVars
  <2>2. CASE Signal
    BY <2>2 DEF Signal, SignalIfIdle, Broadcast, storeVars
  <2>3. CASE Flush
    BY <2>3 DEF Flush, storeVars
  <2>4. CASE Finish
    BY <2>4 DEF Finish, storeVars
  <2>5. CASE FinishSignal
    BY <2>5 DEF FinishSignal, SignalIfIdle, Broadcast, storeVars
  <2>6. CASE Join
    BY <2>6 DEF Join, storeVars
  <2>7. CASE LoopTest
    BY <2>7 DEF LoopTest, storeVars, clientUnchanged, clientVars
  <2>8. CASE Wait
    BY <2>8 DEF Wait, storeVars, clientUnchanged, clientVars
  <2>9. CASE SpuriousWakeup
    BY <2>9 DEF SpuriousWakeup, storeVars, clientUnchanged, clientVars
  <2>10. CASE RaiseStatus
    BY <2>10 DEF RaiseStatus, storeVars, clientUnchanged, clientVars
  <2>11. CASE WriteFront
    BY <2>11 DEF WriteFront, clientUnchanged, clientVars
  <2>12. CASE Pop
    BY <2>12 DEF Pop, storeVars, clientUnchanged, clientVars
  <2>13. CASE DrainEnds
    BY <2>13 DEF DrainEnds, storeVars, clientUnchanged, clientVars
  <2>14. CASE LowerStatus
    BY <2>14 DEF LowerStatus, storeVars, clientUnchanged, clientVars
  <2>15. CASE CheckFlush
    BY <2>15 DEF CheckFlush, storeVars, clientUnchanged, clientVars
  <2>16. CASE DBFlush
    BY <2>16 DEF DBFlush, clientUnchanged, clientVars
  <2>17. CASE Unlock
    BY <2>17 DEF Unlock, storeVars, clientUnchanged, clientVars
  <2>18. CASE UNCHANGED writerVars
    BY <2>18 DEF writerVars, storeVars, clientVars
  <2> QED
    BY <2>1, <2>2, <2>3, <2>4, <2>5, <2>6, <2>7, <2>8, <2>9,
       <2>10, <2>11, <2>12, <2>13, <2>14, <2>15, <2>16, <2>17, <2>18
       DEF WriterNext, ClientStep, WriterStep
<1> QED  BY InitTypeInv, NextTypeInv, <1>1, <1>2, PTL DEF WriterSpec

(* FlushNotForgotten is inductive once the two marks are known not to run  *)
(* ahead of the database.                                                  *)
FlushInv ==
    /\ FlushNotForgotten
    /\ flushMark <= Len(stored)
    /\ flushedTo <= Len(stored)

LEMMA NextFlushInv ==
    ASSUME TypeInv, FlushInv, [WriterNext]_writerVars
    PROVE  FlushInv'
<1> DEFINE n == Len(stored)
<1>1. n \in Nat /\ flushMark \in Nat /\ flushedTo \in Nat
  BY LenProperties DEF TypeInv, WriterTypes
<1>2. n' \in Nat /\ n <= n'
  <2>1. CASE WriteFront
    <3>1. stored \in Seq(Flows) /\ Head(writeQueue) \in Flows
      BY <2>1, HeadTailProperties DEF TypeInv, WriterTypes, WriteFront
    <3>2. Len(Append(stored, Head(writeQueue))) = n + 1
      BY <3>1, AppendProperties
    <3> QED  BY <1>1, <2>1, <3>2 DEF WriteFront
  <2>2. CASE ~WriteFront
    <3>1. UNCHANGED stored
      BY <2>2 DEF WriterNext, ClientStep, WriterStep, Push, Signal, Flush,
         Finish, FinishSignal, Join, LoopTest, Wait, SpuriousWakeup,
         RaiseStatus, Pop,
         DrainEnds, LowerStatus, CheckFlush, DBFlush, Unlock, storeVars,
         writerVars
    <3> QED  BY <1>1, <3>1
  <2> QED  BY <2>1, <2>2
<1> HIDE DEF n
<1>3. /\ FlushInv <=> /\ FlushNotForgotten /\ flushMark <= n /\ flushedTo <= n
      /\ FlushInv' <=> /\ FlushNotForgotten' /\ flushMark' <= n'
                       /\ flushedTo' <= n'
  BY DEF FlushInv, n
<1>4. (Flush => flushMark' = n) /\ (DBFlush => flushedTo' = n)
  BY DEF Flush, DBFlush, n
<1> USE <1>1, <1>2, <1>3, <1>4 DEF FlushNotForgotten
<1>5. ASSUME NEW f \in Flows, Push(f) PROVE FlushInv'
  BY <1>5 DEF Push, storeVars
<1>6. CASE Signal
  BY <1>6 DEF Signal, SignalIfIdle, Broadcast, storeVars
<1>7. CASE Flush
  BY <1>7 DEF Flush, storeVars
<1>8. CASE Finish
  BY <1>8 DEF Finish, storeVars
<1>9. CASE FinishSignal
  BY <1>9 DEF FinishSignal, SignalIfIdle, Broadcast, storeVars
<1>10. CASE Join
  BY <1>10 DEF Join, storeVars
<1>11. CASE LoopTest
  BY <1>11 DEF LoopTest, storeVars, clientUnchanged, clientVars
<1>12. CASE Wait
  BY <1>12 DEF Wait, storeVars, clientUnchanged, clientVars
<1>13. CASE SpuriousWakeup
  BY <1>13 DEF SpuriousWakeup, storeVars, clientUnchanged, clientVars
<1>14. CASE RaiseStatus
  BY <1>14 DEF RaiseStatus, storeVars, clientUnchanged, clientVars
<1>15. CASE WriteFront
  BY <1>15 DEF WriteFront, clientUnchanged, clientVars
<1>16. CASE Pop
  BY <1>16 DEF Pop, storeVars, clientUnchanged, clientVars
<1>17. CASE DrainEnds
  BY <1>17 DEF DrainEnds, storeVars, clientUnchanged, clientVars
<1>18. CASE LowerStatus
  BY <1>18 DEF LowerStatus, storeVars, clientUnchanged, clientVars
<1>19. CASE CheckFlush
  BY <1>19 DEF CheckFlush, storeVars, clientUnchanged, clientVars
<1>20. CASE DBFlush
  BY <1>20 DEF DBFlush, clientUnchanged, clientVars
<1>21. CASE Unlock
  BY <1>21 DEF Unlock, storeVars, clientUnchanged, clientVars
<1>22. CASE UNCHANGED writerVars
  BY <1>22 DEF writerVars, storeVars, clientVars
<1> QED
  BY <1>5, <1>6, <1>7, <1>8, <1>9, <1>10, <1>11, <1>12, <1>13,
     <1>14, <1>15, <1>16, <1>17, <1>18, <1>19, <1>20, <1>21, <1>22
     DEF WriterNext, ClientStep, WriterStep

(* FlushNotForgotten of Writer.tla: no flush() call is lost.               *)
THEOREM WriterFlushNotForgotten == WriterSpec => []FlushNotForgotten
<1>1. WriterInit => FlushInv
  BY EmptySeq DEF WriterInit, FlushInv, FlushNotForgotten
<1>2. FlushInv => FlushNotForgotten
  BY DEF FlushInv
<1> QED  BY InitTypeInv, NextTypeInv, NextFlushInv, <1>1, <1>2, PTL
         DEF WriterSpec

-----------------------------------------------------------------------------
(* BerkeleyDB.tla.                                                         *)

(* Where the thread is, and what that says of the entries: outside flush() *)
(* there is nothing to visit or to erase, flush() visits only entries, and *)
(* find() has looked for the entry of write().                             *)
ControlInv ==
    /\ pc \in {"idle", "create", "put"} => toSync = {} /\ erase = {}
    /\ toSync \cap erase = {}
    /\ \A h \in toSync : handle[h] # "absent"
    /\ pc = "create" => handle[hour] = "absent"
    /\ pc = "put" => handle[hour] # "absent"
    /\ pc \in {"create", "put"} => writes \in Records

(* Until a call fails every entry is open, but for those that flush() has  *)
(* closed and is about to erase.                                           *)
HandleInv ==
    /\ ~failed =>
           /\ pc # "undefined"
           /\ \A h \in Hours : \/ handle[h] \in {"absent", "open"}
                               \/ handle[h] = "closed" /\ h \in erase
    /\ \A h \in Hours : handle[h] = "unnumbered" => h \in misnumbered

(* The numbers below k are those in use.                                   *)
Numbered(v, k) == \A n \in Numbers : v[n] # NoRecord <=> n < k

(* There is no gap on disk, and none in what an open handle sees.          *)
NumberInv ==
    \A h \in Hours : Orderly(h) =>
        /\ \E k \in Nat : Numbered(disk[File[h]], k)
        /\ Usable(h) => Numbered(view[h], recordNumber[h])

(* Record e is at its place.                                               *)
OnDisk(e) == disk[File[e[1]]][e[2]] = e[3]
InView(e) == view[e[1]][e[2]] = e[3]

(* What flush() has covered is on disk.  What it has not is there if no    *)
(* handle can bring it there any more, and once the flush() under way has  *)
(* visited its entry.  A handle sees both.                                 *)
KeptInv ==
    /\ \A e \in flushed : Orderly(e[1]) =>
           OnDisk(e) /\ (Usable(e[1]) => InView(e))
    /\ \A e \in pending : Orderly(e[1]) =>
           /\ Usable(e[1]) => InView(e)
           /\ ~Usable(e[1]) => OnDisk(e)
           /\ pc = "sync" /\ e[1] \notin toSync => OnDisk(e)

-----------------------------------------------------------------------------
(* A set of numbers has a last one.                                        *)
LEMMA LastOf ==
    ASSUME NEW B \in Nat, NEW S, S \subseteq 0..B, S # {}
    PROVE  Max(S) \in S /\ \A k \in S : k <= Max(S)
<1> DEFINE T == {B - n : n \in S}
           R == OpToRel(<, Nat)
<1>1. T \subseteq Nat /\ T # {}
  <2>1. PICK s \in S : TRUE
    OBVIOUS
  <2>2. B - s \in T
    OBVIOUS
  <2>3. \A n \in S : n \in 0..B
    OBVIOUS
  <2>4. \A n \in S : B - n \in Nat
    BY <2>3
  <2> QED  BY <2>2, <2>4
<1>2. \E x \in T : \A y \in T : ~ (<<y, x>> \in R)
  <2> HIDE DEF T, R
  <2>1. IsWellFoundedOn(R, Nat)
    BY NatLessThanWellFounded DEF R
  <2> QED  BY <1>1, <2>1, WFMin
<1>3. PICK x \in T : \A y \in T : ~ (y < x)
  BY <1>1, <1>2 DEF OpToRel
<1>4. PICK m \in S : x = B - m
  OBVIOUS
<1>5. ASSUME NEW k \in S
      PROVE  m >= k
  <2>1. B - k \in T
    OBVIOUS
  <2>2. ~ (B - k < B - m)
    BY <1>3, <1>4, <2>1
  <2>3. k \in 0..B /\ m \in 0..B
    OBVIOUS
  <2> QED  BY <2>2, <2>3
<1> QED  BY <1>5 DEF Max

(* DB_LAST: the last number in use, or 0.                                  *)
LEMMA LastNumberIsLast ==
    ASSUME NEW v \in [Numbers -> {NoRecord} \cup Records]
    PROVE  /\ LastNumber(v) \in Nat
           /\ \/ LastNumber(v) = 0
              \/ LastNumber(v) \in Numbers /\ v[LastNumber(v)] # NoRecord
           /\ \A n \in Numbers : v[n] # NoRecord => n <= LastNumber(v)
<1> DEFINE S == {0} \cup {n \in Numbers : v[n] # NoRecord}
<1>1. 2 * MaxWrites \in Nat
  BY BerkeleyDBAssumption DEF BerkeleyDBAssumption
<1>2. S \subseteq 0..(2 * MaxWrites) /\ S # {}
  BY <1>1 DEF Numbers
<1>3. Max(S) \in S /\ \A k \in S : k <= Max(S)
  <2> HIDE DEF S
  <2> QED  BY <1>1, <1>2, LastOf
<1>4. LastNumber(v) = Max(S)
  BY DEF LastNumber
<1>5. \A n \in Numbers : n \in Nat
  BY <1>1 DEF Numbers
<1>6. \/ LastNumber(v) = 0
      \/ LastNumber(v) \in Numbers /\ v[LastNumber(v)] # NoRecord
  <2>1. \A m \in S : m = 0 \/ (m \in Numbers /\ v[m] # NoRecord)
    OBVIOUS
  <2> HIDE DEF S
  <2> QED  BY <1>3, <1>4, <2>1
<1>7. ASSUME NEW n \in Numbers, v[n] # NoRecord
      PROVE  n <= LastNumber(v)
  <2>1. n \in S
    BY <1>7
  <2> HIDE DEF S
  <2> QED  BY <1>3, <1>4, <2>1
<1>8. LastNumber(v) \in Nat
  BY <1>5, <1>6
<1> QED  BY <1>6, <1>7, <1>8

(* create() goes on where the file ends.                                   *)
LEMMA CreateIsNumbered ==
    ASSUME NEW v \in [Numbers -> {NoRecord} \cup Records],
           NEW k \in Nat, Numbered(v, k)
    PROVE  Numbered(v, LastNumber(v) + 1)
<1> SUFFICES ASSUME NEW n \in Numbers
             PROVE  v[n] # NoRecord <=> n < LastNumber(v) + 1
  BY DEF Numbered
<1> QED
  BY BerkeleyDBAssumption, LastNumberIsLast DEF BerkeleyDBAssumption,
     Numbered, Numbers

-----------------------------------------------------------------------------
LEMMA InitInv ==
    Init => TypeOK /\ ControlInv /\ HandleInv /\ NumberInv /\ KeptInv
<1> SUFFICES ASSUME Init
             PROVE  TypeOK /\ ControlInv /\ HandleInv /\ NumberInv /\ KeptInv
  OBVIOUS
<1> USE BerkeleyDBAssumption DEF BerkeleyDBAssumption, Init
<1>1. TypeOK
  <2>1. 0 \in Hours /\ 0 \in 0..MaxWrites /\ 0 \in 0..MaxCrashes
    BY DEF Hours
  <2>2. Empty \in [Numbers -> {NoRecord} \cup Records]
    BY DEF Empty
  <2> HIDE DEF BerkeleyDBAssumption
  <2> QED  BY <2>1, <2>2 DEF TypeOK, HandleStates, PCs
<1>2. ControlInv /\ HandleInv /\ KeptInv
  BY DEF ControlInv, HandleInv, KeptInv
<1>3. NumberInv
  <2>1. \A f \in Files : Numbered(disk[f], 0)
    BY DEF Numbered, Empty, Numbers
  <2>2. \A h \in Hours : ~Usable(h)
    BY DEF Usable
  <2> QED  BY <2>1, <2>2 DEF NumberInv
<1> QED  BY <1>1, <1>2, <1>3

LEMMA NextTypeOK ==
    TypeOK /\ ControlInv /\ [Next]_vars
        => TypeOK'
<1> SUFFICES ASSUME TypeOK, ControlInv,
                    [Next]_vars
             PROVE  TypeOK'
  OBVIOUS
<1> USE BerkeleyDBAssumption
    DEF BerkeleyDBAssumption, TypeOK, HandleStates, PCs, Stopped, Fails, Gone,
        Synced, dbVars, writeVars, flushVars, history
<1>1. ASSUME NEW h \in Hours, Find(h)
       PROVE  TypeOK'
  BY <1>1 DEF Find, Hours, Records
<1>2. CASE Create
  <2>1. hour \in Hours /\ File[hour] \in Files
    OBVIOUS
  <2>2. LastNumber(disk[File[hour]]) + 1 \in Nat
    <3>1. disk[File[hour]] \in [Numbers -> {NoRecord} \cup Records]
      BY <2>1
    <3>2. LastNumber(disk[File[hour]]) \in Nat
      BY <3>1, LastNumberIsLast
    <3> QED  BY <3>2
  <2> QED  BY <1>2, <2>1, <2>2 DEF Create
<1>3. CASE DirectoryFails
  BY <1>3 DEF DirectoryFails
<1>4. CASE OpenFails
  BY <1>4 DEF OpenFails
<1>5. CASE CursorFails
  BY <1>5 DEF CursorFails, Records
<1>6. CASE GetFails
  BY <1>6 DEF GetFails
<1>7. CASE Put
  <2>1. writes \in Records
    BY <1>7 DEF Put, ControlInv
  <2>2. view' \in [Hours -> [Numbers -> {NoRecord} \cup Records]]
    BY <1>7, <2>1 DEF Put
  <2>3. pending' \subseteq Hours \X Numbers \X Records
    BY <1>7, <2>1 DEF Put
  <2> QED  BY <1>7, <2>2, <2>3 DEF Put
<1>8. CASE PutFails
  BY <1>8 DEF PutFails
<1>9. CASE PutUndefined
  BY <1>9 DEF PutUndefined
<1>10. CASE FlushBegin
  BY <1>10 DEF FlushBegin
<1>11. ASSUME NEW h \in Hours, Sync(h)
       PROVE  TypeOK'
  BY <1>11 DEF Sync
<1>12. ASSUME NEW h \in Hours, SyncFails(h)
       PROVE  TypeOK'
  BY <1>12 DEF SyncFails
<1>13. ASSUME NEW h \in Hours, CloseFails(h)
       PROVE  TypeOK'
  BY <1>13 DEF CloseFails
<1>14. ASSUME NEW h \in Hours, SyncUndefined(h)
       PROVE  TypeOK'
  BY <1>14 DEF SyncUndefined
<1>15. CASE FlushEnd
  BY <1>15 DEF FlushEnd, Empty
<1>16. ASSUME NEW h \in Hours, Evict(h)
       PROVE  TypeOK'
  BY <1>16 DEF Evict
<1>17. CASE Crash
  BY <1>17 DEF Crash, Restart, Empty
<1>18. CASE Exit
  BY <1>18 DEF Exit, Restart, Empty
<1>19. CASE ExitUndefined \/ ExitOvertakes
  BY <1>19 DEF ExitUndefined, ExitOvertakes
<1>20. CASE Tick
  BY <1>20 DEF Tick, Hours
<1>21. CASE UNCHANGED vars
  BY <1>21 DEF vars
<1> QED
  BY <1>1, <1>2, <1>3, <1>4, <1>5, <1>6, <1>7, <1>8, <1>9, <1>10,
     <1>11, <1>12, <1>13, <1>14, <1>15, <1>16, <1>17, <1>18, <1>19, <1>20,
     <1>21 DEF Next, WriteStep,
     FlushStep, Environment

LEMMA NextControl ==
    TypeOK /\ ControlInv /\ HandleInv /\ [Next]_vars
        => ControlInv' /\ HandleInv'
<1> SUFFICES ASSUME TypeOK, ControlInv, HandleInv,
                    [Next]_vars
             PROVE  ControlInv' /\ HandleInv'
  OBVIOUS
<1> USE BerkeleyDBAssumption
    DEF BerkeleyDBAssumption, TypeOK, ControlInv, HandleInv, HandleStates,
        PCs, Stopped, Fails, Gone, Usable, dbVars, writeVars, flushVars,
        history
<1>1. ASSUME NEW h \in Hours, Find(h)
       PROVE  ControlInv' /\ HandleInv'
  BY <1>1 DEF Find, Records
<1>2. CASE Create
  BY <1>2 DEF Create
<1>3. CASE DirectoryFails
  BY <1>3 DEF DirectoryFails
<1>4. CASE OpenFails
  BY <1>4 DEF OpenFails
<1>5. CASE CursorFails
  BY <1>5 DEF CursorFails
<1>6. CASE GetFails
  BY <1>6 DEF GetFails
<1>7. CASE Put
  BY <1>7 DEF Put
<1>8. CASE PutFails
  BY <1>8 DEF PutFails
<1>9. CASE PutUndefined
  BY <1>9 DEF PutUndefined
<1>10. CASE FlushBegin
  BY <1>10 DEF FlushBegin
<1>11. ASSUME NEW h \in Hours, Sync(h)
       PROVE  ControlInv' /\ HandleInv'
  BY <1>11 DEF Sync
<1>12. ASSUME NEW h \in Hours, SyncFails(h)
       PROVE  ControlInv' /\ HandleInv'
  BY <1>12 DEF SyncFails
<1>13. ASSUME NEW h \in Hours, CloseFails(h)
       PROVE  ControlInv' /\ HandleInv'
  BY <1>13 DEF CloseFails
<1>14. ASSUME NEW h \in Hours, SyncUndefined(h)
       PROVE  ControlInv' /\ HandleInv'
  BY <1>14 DEF SyncUndefined
<1>15. CASE FlushEnd
  BY <1>15 DEF FlushEnd
<1>16. ASSUME NEW h \in Hours, Evict(h)
       PROVE  ControlInv' /\ HandleInv'
  BY <1>16 DEF Evict
<1>17. CASE Crash
  BY <1>17 DEF Crash, Restart
<1>18. CASE Exit
  BY <1>18 DEF Exit, Restart
<1>19. CASE ExitUndefined \/ ExitOvertakes
  BY <1>19 DEF ExitUndefined, ExitOvertakes
<1>20. CASE Tick
  BY <1>20 DEF Tick
<1>21. CASE UNCHANGED vars
  BY <1>21 DEF vars
<1> QED
  BY <1>1, <1>2, <1>3, <1>4, <1>5, <1>6, <1>7, <1>8, <1>9, <1>10,
     <1>11, <1>12, <1>13, <1>14, <1>15, <1>16, <1>17, <1>18, <1>19, <1>20,
     <1>21 DEF Next, WriteStep,
     FlushStep, Environment

LEMMA NextNumbers ==
    TypeOK /\ ControlInv /\ HandleInv /\ NumberInv /\ [Next]_vars
        => NumberInv'
<1> SUFFICES ASSUME TypeOK, ControlInv, HandleInv, NumberInv,
                    [Next]_vars
             PROVE  NumberInv'
  OBVIOUS
<1> USE BerkeleyDBAssumption
    DEF BerkeleyDBAssumption, TypeOK, NumberInv, Orderly, Fails, Gone, Synced,
        Usable, dbVars, writeVars, flushVars, history
<1>1. ASSUME NEW h \in Hours, Find(h)
       PROVE  NumberInv'
  BY <1>1 DEF Find
<1>2. CASE Create
  <2>1. hour \in Hours /\ File[hour] \in Files
    OBVIOUS
  <2>2. ASSUME NEW k \in Nat, Numbered(disk[File[hour]], k)
        PROVE  Numbered(disk[File[hour]], LastNumber(disk[File[hour]]) + 1)
    BY <2>1, <2>2, CreateIsNumbered
  <2>3. \A h \in Hours : Orderly(h)' <=> Orderly(h)
    BY <1>2 DEF Create
  <2> QED  BY <1>2, <2>1, <2>2 DEF Create
<1>3. CASE DirectoryFails
  BY <1>3 DEF DirectoryFails
<1>4. CASE OpenFails
  BY <1>4 DEF OpenFails
<1>5. CASE CursorFails
  BY <1>5 DEF CursorFails, HandleInv
<1>6. CASE GetFails
  BY <1>6 DEF GetFails
<1>7. CASE Put
  <2>1. writes \in Records /\ writes # NoRecord
    BY <1>7 DEF Put, ControlInv, Records, NoRecord
  <2>2. ASSUME Numbered(view[hour], recordNumber[hour])
        PROVE  Numbered(view'[hour], recordNumber'[hour])
    BY <1>7, <2>1, <2>2 DEF Put, Numbered, Numbers
  <2> QED  BY <1>7, <2>2 DEF Put
<1>8. CASE PutFails
  BY <1>8 DEF PutFails
<1>9. CASE PutUndefined
  BY <1>9 DEF PutUndefined
<1>10. CASE FlushBegin
  BY <1>10 DEF FlushBegin
<1>11. ASSUME NEW h \in Hours, Sync(h)
       PROVE  NumberInv'
  BY <1>11 DEF Sync
<1>12. ASSUME NEW h \in Hours, SyncFails(h)
       PROVE  NumberInv'
  BY <1>12 DEF SyncFails
<1>13. ASSUME NEW h \in Hours, CloseFails(h)
       PROVE  NumberInv'
  BY <1>13 DEF CloseFails
<1>14. ASSUME NEW h \in Hours, SyncUndefined(h)
       PROVE  NumberInv'
  BY <1>14 DEF SyncUndefined
<1>15. CASE FlushEnd
  BY <1>15 DEF FlushEnd
<1>16. ASSUME NEW h \in Hours, Evict(h)
       PROVE  NumberInv'
  BY <1>16 DEF Evict
<1>17. CASE Crash
  BY <1>17 DEF Crash, Restart
<1>18. CASE Exit
  BY <1>18 DEF Exit, Restart
<1>19. CASE ExitUndefined \/ ExitOvertakes
  BY <1>19 DEF ExitUndefined, ExitOvertakes
<1>20. CASE Tick
  BY <1>20 DEF Tick
<1>21. CASE UNCHANGED vars
  BY <1>21 DEF vars
<1> QED
  BY <1>1, <1>2, <1>3, <1>4, <1>5, <1>6, <1>7, <1>8, <1>9, <1>10,
     <1>11, <1>12, <1>13, <1>14, <1>15, <1>16, <1>17, <1>18, <1>19, <1>20,
     <1>21 DEF Next, WriteStep,
     FlushStep, Environment

LEMMA NextKept ==
    TypeOK /\ ControlInv /\ HandleInv /\ NumberInv /\ KeptInv /\ [Next]_vars
        => KeptInv'
<1> SUFFICES ASSUME TypeOK, ControlInv, HandleInv, NumberInv, KeptInv,
                    [Next]_vars
             PROVE  KeptInv'
  OBVIOUS
<1> USE BerkeleyDBAssumption
    DEF BerkeleyDBAssumption, TypeOK, KeptInv, ControlInv, OnDisk, InView,
        Orderly, Fails, Gone, Synced, Usable, dbVars, writeVars, flushVars,
        history
<1>1. ASSUME NEW h \in Hours, Find(h)
       PROVE  KeptInv'
  BY <1>1 DEF Find
<1>2. CASE Create
  BY <1>2 DEF Create
<1>3. CASE DirectoryFails
  BY <1>3 DEF DirectoryFails
<1>4. CASE OpenFails
  BY <1>4 DEF OpenFails
<1>5. CASE CursorFails
  BY <1>5 DEF CursorFails, HandleInv
<1>6. CASE GetFails
  BY <1>6 DEF GetFails
<1>7. CASE Put
  <2>1. writes \in Records
    BY <1>7 DEF Put
  <2>2. ASSUME NEW e \in pending \cup flushed, e[1] = hour, Orderly(e[1])
        PROVE  InView(e)' /\ e[2] # recordNumber[hour]
    <3>1. e[2] \in Numbers /\ e[3] \in Records /\ InView(e)
      BY <1>7, <2>2 DEF Put
    <3>2. view[hour][e[2]] # NoRecord
      BY <2>2, <3>1 DEF Records, NoRecord
    <3>3. e[2] < recordNumber[hour]
      BY <1>7, <2>2, <3>1, <3>2 DEF Put, NumberInv, Numbered
    <3> QED  BY <1>7, <2>2, <3>1, <3>3 DEF Put, Numbers
  <2> QED  BY <1>7, <2>1, <2>2 DEF Put
<1>8. CASE PutFails
  BY <1>8 DEF PutFails
<1>9. CASE PutUndefined
  BY <1>9 DEF PutUndefined
<1>10. CASE FlushBegin
  BY <1>10 DEF FlushBegin
<1>11. ASSUME NEW h \in Hours, Sync(h)
       PROVE  KeptInv'
  BY <1>11 DEF Sync
<1>12. ASSUME NEW h \in Hours, SyncFails(h)
       PROVE  KeptInv'
  BY <1>12 DEF SyncFails
<1>13. ASSUME NEW h \in Hours, CloseFails(h)
       PROVE  KeptInv'
  BY <1>13 DEF CloseFails
<1>14. ASSUME NEW h \in Hours, SyncUndefined(h)
       PROVE  KeptInv'
  BY <1>14 DEF SyncUndefined
<1>15. CASE FlushEnd
  BY <1>15 DEF FlushEnd
<1>16. ASSUME NEW h \in Hours, Evict(h)
       PROVE  KeptInv'
  BY <1>16 DEF Evict
<1>17. CASE Crash
  BY <1>17 DEF Crash, Restart
<1>18. CASE Exit
  <2>1. pending' = {} /\ flushed' = flushed /\ misnumbered' = misnumbered
    BY <1>18 DEF Exit, Restart
  <2>2. \A h \in Hours : ~Usable(h)'
    BY <1>18 DEF Exit, Restart
  <2>3. ASSUME NEW e \in flushed, Orderly(e[1])
        PROVE  OnDisk(e)'
    <3>1. e[1] \in Hours /\ File[e[1]] \in Files
      OBVIOUS
    <3>2. \/ disk'[File[e[1]]] = disk[File[e[1]]]
          \/ \E h \in Hours : /\ Usable(h) /\ File[h] = File[e[1]]
                              /\ disk'[File[e[1]]] = view[h]
      BY <1>18, <3>1 DEF Exit
    <3> QED  BY <2>3, <3>1, <3>2
  <2> QED  BY <2>1, <2>2, <2>3
<1>19. CASE ExitUndefined \/ ExitOvertakes
  BY <1>19 DEF ExitUndefined, ExitOvertakes
<1>20. CASE Tick
  BY <1>20 DEF Tick
<1>21. CASE UNCHANGED vars
  BY <1>21 DEF vars
<1> QED
  BY <1>1, <1>2, <1>3, <1>4, <1>5, <1>6, <1>7, <1>8, <1>9, <1>10,
     <1>11, <1>12, <1>13, <1>14, <1>15, <1>16, <1>17, <1>18, <1>19, <1>20,
     <1>21 DEF Next, WriteStep,
     FlushStep, Environment

IInv == TypeOK /\ ControlInv /\ HandleInv /\ NumberInv /\ KeptInv

LEMMA InvariantIInv == Spec => []IInv
<1>1. IInv /\ [Next]_vars => IInv'
  BY NextTypeOK, NextControl, NextNumbers, NextKept DEF IInv
<1> QED  BY InitInv, <1>1, PTL DEF Spec, IInv

-----------------------------------------------------------------------------
(* The variables keep their types, whatever calls fail.                    *)
THEOREM BerkeleyDBTypeOK == Spec => []TypeOK
BY InvariantIInv, PTL DEF IInv

(* While the thread is the only one to use the databases, nothing goes     *)
(* through a handle that is not open unless a call has failed              *)
(* (berkeleyDB.cpp flush(): close() and then erase(), in one call).  The   *)
(* end of the sensor that overtakes the thread, ExitOvertakes, is not      *)
(* among these uses.                                                       *)
THEOREM NoDeadHandles == Spec => []DeadHandlesNeedAFailure
<1>1. IInv => DeadHandlesNeedAFailure
  BY DEF IInv, HandleInv, DeadHandlesNeedAFailure
<1> QED  BY <1>1, InvariantIInv, PTL

(* The records of an open database are numbered without gaps (create() of  *)
(* berkeleyDB.cpp), whatever was lost in crashes or refused by put().      *)
THEOREM NoGaps == Spec => []NumberedWithoutGaps
<1>1. IInv => NumberedWithoutGaps
  BY DEF IInv, NumberInv, Numbered, Usable, NumberedWithoutGaps
<1> QED  BY <1>1, InvariantIInv, PTL

(* What flush() of berkeleyDB.cpp has covered stays on disk through any    *)
(* crashes, failed calls and databases opened anew.                        *)
THEOREM Durable == Spec => []FlushedStaysOnDisk
<1>1. IInv => FlushedStaysOnDisk
  BY DEF IInv, KeptInv, OnDisk, FlushedStaysOnDisk
<1> QED  BY <1>1, InvariantIInv, PTL

(* What write() of berkeleyDB.cpp has stored is lost in a crash and in no  *)
(* other way.                                                              *)
THEOREM OnlyCrashesLose == Spec => []StoredIsKept
<1>1. IInv => StoredIsKept
  BY DEF IInv, KeptInv, OnDisk, InView, StoredIsKept
<1> QED  BY <1>1, InvariantIInv, PTL

-----------------------------------------------------------------------------
(* The tools and the databases.                                            *)

(* The sensor's invariant holds until it stops for good; from then on it   *)
(* has no entry and no history that the tools could make wrong.            *)
StorageInv ==
    IF stage = "sensor" THEN IInv
    ELSE /\ pc = "idle" /\ pending = {} /\ flushed = {}
         /\ \A h \in Hours : handle[h] = "absent"

LEMMA InvariantStorageInv == ArchiveSpec => []StorageInv
<1>1. ArchiveInit => StorageInv
  BY InitInv DEF ArchiveInit, StorageInv, IInv
<1>2. StorageInv /\ [ArchiveNext]_<<vars, readerVars, stage>> => StorageInv'
  <2> SUFFICES ASSUME StorageInv, [ArchiveNext]_<<vars, readerVars, stage>>
               PROVE  StorageInv'
    OBVIOUS
  <2>1. CASE stage = "sensor" /\ [Next]_vars /\ UNCHANGED stage
    BY <2>1, NextTypeOK, NextControl, NextNumbers, NextKept
       DEF StorageInv, IInv
  <2>2. CASE SensorEnds
    BY <2>2 DEF SensorEnds, StorageInv
  <2>3. CASE stage # "sensor" /\ UNCHANGED <<sensorVars, stage>>
    BY <2>3 DEF sensorVars, history, StorageInv
  <2>4. CASE stage = "tools" /\ stage' = "deleted" /\ UNCHANGED sensorVars
    BY <2>4 DEF sensorVars, history, StorageInv
  <2> QED
    BY <2>1, <2>2, <2>3, <2>4
       DEF ArchiveNext, Delete, vars, dbVars, sensorVars
<1> QED  BY <1>1, <1>2, PTL DEF ArchiveSpec

(* The four theorems above, of the databases with the tools that read them *)
(* and delete from them once the sensor is gone.                           *)
THEOREM StorageWithTools ==
    ArchiveSpec => [](/\ DeadHandlesNeedAFailure /\ NumberedWithoutGaps
                      /\ FlushedStaysOnDisk /\ StoredIsKept)
<1>1. StorageInv => /\ DeadHandlesNeedAFailure /\ NumberedWithoutGaps
                    /\ FlushedStaysOnDisk /\ StoredIsKept
  <2>1. IInv => /\ DeadHandlesNeedAFailure /\ NumberedWithoutGaps
                /\ FlushedStaysOnDisk /\ StoredIsKept
    BY DEF IInv, HandleInv, NumberInv, Numbered, KeptInv, OnDisk, InView,
           Usable, DeadHandlesNeedAFailure, NumberedWithoutGaps,
           FlushedStaysOnDisk, StoredIsKept
  <2> QED
    BY <2>1 DEF StorageInv, DeadHandlesNeedAFailure, NumberedWithoutGaps,
                FlushedStaysOnDisk, StoredIsKept
<1> QED  BY <1>1, InvariantStorageInv, PTL

-----------------------------------------------------------------------------
(* Archive.tla: what the tools read.                                       *)

(* The file that is being read, and the records up to the cursor.          *)
At == Len(accepted) - Len(files)
ReadSoFar ==
    {q \in Readable : q[1] < At \/ (q[1] = At /\ q[2] <= cursor[2])}

(* The files still to be read are the last of those that were accepted.    *)
FilesInv ==
    /\ \E S : accepted \in Seq(S)
    /\ \E S : files \in Seq(S)
    /\ Len(files) <= Len(accepted)
    /\ \A i \in 1..Len(files) : files[i] = accepted[At + i]

(* Nothing has been read yet.                                              *)
UnreadInv ==
    /\ state \in {"idle", "options", "files"} =>
           /\ returned = <<>> /\ files = <<>> /\ cursor = <<>>
           /\ newDatabase = FALSE
    /\ state = "idle" => accepted = <<>>

(* Where the cursor is.                                                    *)
CursorInv ==
    /\ state \in {"open", "print"} => cursor # <<>>
    /\ state = "read" /\ cursor = <<>> => faults # {}
    /\ state \in {"read", "open", "print"} /\ cursor # <<>> =>
           /\ At \in 1..Len(accepted)
           /\ cursor[2] \in Nat
           /\ cursor = <<accepted[At], cursor[2]>>
           /\ file = accepted[At]
           /\ newDatabase = (At > 1 /\ ~\E q \in ReadSoFar : q[1] = At)
           /\ "c_get" \notin faults =>
                  /\ Len(returned) = Cardinality(ReadSoFar)
                  /\ state = "open" =>
                         \A q \in Readable : q[1] = At => q \in ReadSoFar

(* What is true at the end, and of countPJL before it sorts.               *)
EndInv ==
    /\ state \in {"sort", "exit 0"} /\ faults \subseteq {"access"} => ReadAll
    /\ state = "sort" => program = "countPJL"
    /\ state = "undefined" =>
           \/ faults # {}
           \/ program = "countPJL" /\ \A c \in DOMAIN computers : computers[c] = 0

ToolInv ==
    /\ \E S : returned \in Seq(S)
    /\ FilesInv /\ UnreadInv /\ CursorInv /\ EndInv
    /\ "c_get" \notin faults => ReadInOrder
    /\ stage = "sensor" => state = "idle"

-----------------------------------------------------------------------------
LEMMA NumbersArePositive == Numbers \subseteq Nat \ {0} /\ IsFiniteSet(Numbers)
<1>1. 2 * MaxWrites \in Nat
  BY BerkeleyDBAssumption DEF BerkeleyDBAssumption
<1>2. IsFiniteSet(1..(2 * MaxWrites))
  BY <1>1, FS_Interval
<1> QED  BY <1>1, <1>2 DEF Numbers

(* There are finitely many records to read.                                *)
LEMMA ReadableIsFinite ==
    ASSUME \E S : accepted \in Seq(S)
    PROVE  /\ IsFiniteSet(Readable)
           /\ \A T : T \subseteq Readable =>
                  /\ IsFiniteSet(T)
                  /\ Cardinality(T) \in Nat
                  /\ Cardinality(T) <= Cardinality(Readable)
           /\ \A q \in Readable : /\ q[1] \in 1..Len(accepted)
                                  /\ q[2] \in Nat \ {0}
                                  /\ q = <<q[1], q[2]>>
<1>1. DOMAIN accepted = 1..Len(accepted) /\ Len(accepted) \in Nat
  OBVIOUS
<1>2. IsFiniteSet(DOMAIN accepted)
  BY <1>1, FS_Interval
<1>3. IsFiniteSet((DOMAIN accepted) \X Numbers)
  BY <1>2, NumbersArePositive, FS_Product
<1>4. Readable \in SUBSET ((DOMAIN accepted) \X Numbers)
  BY DEF Readable
<1>5. IsFiniteSet(Readable)
  BY <1>3, <1>4, FS_Subset
<1>6. \A T : T \subseteq Readable =>
         IsFiniteSet(T) /\ Cardinality(T) <= Cardinality(Readable)
  BY <1>5, FS_Subset
<1>7. \A T : T \subseteq Readable => Cardinality(T) \in Nat
  BY <1>6, FS_CardinalityType
<1>8. ASSUME NEW q \in Readable
      PROVE  /\ q[1] \in 1..Len(accepted)
             /\ q[2] \in Nat \ {0} /\ q = <<q[1], q[2]>>
  <2>1. q \in (DOMAIN accepted) \X Numbers
    BY DEF Readable
  <2>2. q[1] \in DOMAIN accepted /\ q[2] \in Numbers /\ q = <<q[1], q[2]>>
    BY <2>1
  <2> QED  BY <1>1, <2>2, NumbersArePositive
<1> QED  BY <1>5, <1>6, <1>7, <1>8

(* With nothing returned, the order is right.                              *)
LEMMA NothingReadIsInOrder ==
    returned = <<>> /\ (\E S : accepted \in Seq(S)) => ReadInOrder
<1> SUFFICES ASSUME returned = <<>>, \E S : accepted \in Seq(S)
             PROVE  ReadInOrder
  OBVIOUS
<1>1. Len(returned) = 0
  OBVIOUS
<1>2. \A p \in Readable : Rank(p) \in Nat /\ Rank(p) >= 1
  <2> TAKE p \in Readable
  <2>1. {q \in Readable : Before(q, p)} \subseteq Readable
    OBVIOUS
  <2>2. Cardinality({q \in Readable : Before(q, p)}) \in Nat
    BY <2>1, ReadableIsFinite
  <2> QED  BY <2>2 DEF Rank
<1>3. Cardinality(Readable) \in Nat
  BY ReadableIsFinite
<1> QED  BY <1>1, <1>2, <1>3 DEF ReadInOrder

(* What there is to read does not change while a tool runs.                *)
LEMMA SameFiles ==
    ASSUME UNCHANGED <<disk, accepted>>
    PROVE  /\ Readable' = Readable
           /\ \A p : Rank(p)' = Rank(p) /\ Answer(p)' = Answer(p)
<1>1. Readable' = Readable
  BY DEF Readable
<1> QED  BY <1>1 DEF Rank, Answer, Before
(* ReadInOrder is about the files and what was returned of them.           *)
LEMMA SameOrder ==
    ASSUME UNCHANGED <<disk, accepted, returned>>
    PROVE  /\ ReadInOrder' = ReadInOrder
           /\ ReadAll' = ReadAll
<1>1. /\ Readable' = Readable
      /\ \A p : Rank(p)' = Rank(p) /\ Answer(p)' = Answer(p)
  BY SameFiles
<1>2. ReadAll' = ReadAll
  BY <1>1 DEF ReadAll
<1>3. ReadInOrder' = ReadInOrder
  BY <1>1 DEF ReadInOrder
<1> QED  BY <1>2, <1>3

LEMMA InitToolInv == ArchiveInit => ToolInv
<1> SUFFICES ASSUME ArchiveInit
             PROVE  ToolInv
  OBVIOUS
<1>1. /\ state = "idle" /\ files = <<>> /\ cursor = <<>>
      /\ newDatabase = FALSE /\ accepted = <<>> /\ returned = <<>>
      /\ program = "" /\ faults = {}
  BY DEF ArchiveInit, Tool!Init
<1>2. /\ \E S : accepted \in Seq(S)
      /\ \E S : returned \in Seq(S)
      /\ \E S : files \in Seq(S)
  <2>1. <<>> \in Seq(Nat)
    OBVIOUS
  <2> QED  BY <1>1, <2>1
<1>3. FilesInv
  <2>1. Len(files) = 0 /\ Len(accepted) = 0
    BY <1>1
  <2> QED  BY <1>2, <2>1 DEF FilesInv
<1>4. ReadInOrder
  BY <1>1, <1>2, NothingReadIsInOrder
<1>5. UnreadInv /\ CursorInv /\ EndInv
  BY <1>1 DEF UnreadInv, CursorInv, EndInv
<1> QED  BY <1>1, <1>2, <1>3, <1>4, <1>5 DEF ToolInv

(* While no tool runs, the files may change.                               *)
LEMMA IdleToolInv ==
    ASSUME ToolInv, state = "idle", UNCHANGED readerVars,
           stage' = "sensor" => stage = "sensor"
    PROVE  ToolInv'
<1>1. /\ state' = "idle" /\ files' = <<>> /\ cursor' = <<>>
      /\ newDatabase' = FALSE /\ accepted' = <<>> /\ returned' = <<>>
  BY DEF ToolInv, UnreadInv, readerVars
<1>2. /\ \E S : accepted' \in Seq(S)
      /\ \E S : returned' \in Seq(S)
      /\ \E S : files' \in Seq(S)
  <2>1. <<>> \in Seq(Nat)
    OBVIOUS
  <2> QED  BY <1>1, <2>1
<1>3. FilesInv'
  BY <1>1, <1>2 DEF FilesInv
<1>4. ReadInOrder'
  <2>1. (returned = <<>> /\ (\E S : accepted \in Seq(S)))'
    BY <1>1, <1>2
  <2> QED  BY <2>1, NothingReadIsInOrder, PTL
<1>5. UnreadInv' /\ CursorInv' /\ EndInv'
  BY <1>1 DEF UnreadInv, CursorInv, EndInv
<1> QED  BY <1>1, <1>2, <1>3, <1>4, <1>5 DEF ToolInv

(* The options and the list of files: nothing is read.                     *)
LEMMA ListToolInv ==
    ASSUME ToolInv, UNCHANGED stage, stage # "sensor",
           \/ \E command \in Commands : Tool!Run(command)
           \/ Tool!OptionRefused \/ Tool!Option \/ Tool!OptionsEnd
           \/ Tool!Access \/ Tool!NoFiles
    PROVE  ToolInv'
<1>1. /\ state \in {"idle", "options", "files"}
      /\ state' \in {"options", "files", "exit 1"}
      /\ UNCHANGED <<files, cursor, newDatabase, returned>>
      /\ \/ UNCHANGED accepted
         \/ \E name : accepted' = Append(accepted, name)
  BY DEF Tool!Run, Tool!OptionRefused, Tool!Option, Tool!OptionsEnd,
         Tool!Access, Tool!NoFiles
<1>2. /\ files' = <<>> /\ cursor' = <<>> /\ newDatabase' = FALSE
      /\ returned' = <<>>
  BY <1>1 DEF ToolInv, UnreadInv
<1>3. \E S : accepted' \in Seq(S)
  <2>1. PICK S : accepted \in Seq(S)
    BY DEF ToolInv, FilesInv
  <2>2. CASE UNCHANGED accepted
    BY <2>1, <2>2
  <2>3. CASE \E name : accepted' = Append(accepted, name)
    <3>1. PICK name : accepted' = Append(accepted, name)
      BY <2>3
    <3>2. accepted \in Seq(S \cup {name})
      BY <2>1
    <3>3. accepted' \in Seq(S \cup {name})
      BY <3>1, <3>2
    <3> QED  BY <3>3
  <2> QED  BY <1>1, <2>2, <2>3
<1>4. /\ \E S : returned' \in Seq(S)
      /\ \E S : files' \in Seq(S)
  <2>1. <<>> \in Seq(Nat)
    OBVIOUS
  <2> QED  BY <1>2, <2>1
<1>5. FilesInv'
  <2>1. Len(files') = 0 /\ Len(accepted') \in Nat
    BY <1>2, <1>3
  <2> QED  BY <1>3, <1>4, <2>1 DEF FilesInv
<1>6. ReadInOrder'
  <2>1. (returned = <<>> /\ (\E S : accepted \in Seq(S)))'
    BY <1>2, <1>3
  <2> QED  BY <2>1, NothingReadIsInOrder, PTL
<1>7. UnreadInv' /\ CursorInv' /\ EndInv'
  BY <1>1, <1>2 DEF UnreadInv, CursorInv, EndInv
<1> QED  BY <1>3, <1>4, <1>5, <1>6, <1>7 DEF ToolInv
(* Opening the first file.                                                 *)
LEMMA AddToolInv ==
    ASSUME ToolInv, UNCHANGED stage, stage # "sensor", Tool!Add
    PROVE  ToolInv'
<1>1. /\ state = "files" /\ state' = "read" /\ accepted # <<>>
      /\ UNCHANGED <<disk, accepted, returned, newDatabase>>
  BY DEF Tool!Add
<1>2. /\ returned' = <<>> /\ newDatabase' = FALSE /\ returned = <<>>
      /\ cursor = <<>>
  BY <1>1 DEF ToolInv, UnreadInv
<1>3. PICK S : accepted \in Seq(S)
  BY DEF ToolInv, FilesInv
<1>4. Len(accepted) \in Nat \ {0} /\ Len(returned') = 0
  BY <1>1, <1>2, <1>3
<1>5. ReadInOrder'
  BY <1>1, SameOrder, <1>2, <1>3, NothingReadIsInOrder
<1>6. Readable' = Readable
  BY <1>1, SameFiles
<1>7. EndInv'
  BY <1>1, <1>2 DEF EndInv
<1>8. UnreadInv'
  BY <1>1 DEF UnreadInv
<1>9. CASE Tool!Opened(accepted)
  <2>1. /\ cursor' = <<accepted[1], 0>> /\ file' = accepted[1]
        /\ files' = Tail(accepted)
    BY <1>4, <1>9 DEF Tool!Opened
  <2>2. /\ files' \in Seq(S) /\ Len(files') = Len(accepted) - 1
        /\ \A i \in 1..Len(files') : files'[i] = accepted[1 + i]
    BY <1>3, <1>4, <2>1
  <2>3. At' = 1
    BY <1>1, <1>4, <2>2 DEF At
  <2>4. FilesInv'
    BY <1>1, <1>3, <1>4, <2>2, <2>3 DEF FilesInv
  <2>5. ReadSoFar' = {}
    BY <1>3, <1>6, <2>1, <2>3, ReadableIsFinite DEF ReadSoFar
  <2>6. Cardinality(ReadSoFar') = 0
    BY <2>5, FS_EmptySet
  <2>7. CursorInv'
    <3>1. cursor' # <<>> /\ cursor'[2] = 0
      BY <2>1
    <3>2. newDatabase' = (At > 1 /\ ~\E q \in ReadSoFar : q[1] = At)'
      <4>1. ~(At > 1)'
        BY <2>3
      <4> QED  BY <1>2, <4>1
    <3> QED  BY <1>1, <1>4, <2>1, <2>3, <2>6, <3>1, <3>2 DEF CursorInv
  <2> QED  BY <1>1, <1>2, <1>5, <1>7, <1>8, <2>4, <2>7 DEF ToolInv
<1>10. CASE \E call \in Tool!OpenCalls :
               /\ Tool!Fails(call) /\ files' = accepted
               /\ UNCHANGED <<cursor, file>>
  <2>1. files' = accepted /\ cursor' = <<>> /\ faults' # {}
    BY <1>2, <1>10 DEF Tool!Fails
  <2>2. At' = 0
    BY <1>1, <1>4, <2>1 DEF At
  <2>3. FilesInv'
    BY <1>1, <1>3, <1>4, <2>1, <2>2 DEF FilesInv
  <2>4. CursorInv'
    BY <1>1, <2>1 DEF CursorInv
  <2> QED  BY <1>1, <1>2, <1>5, <1>7, <1>8, <2>3, <2>4 DEF ToolInv
<1> QED  BY <1>9, <1>10 DEF Tool!Add

(* One more record.                                                        *)
LEMMA GetToolInv ==
    ASSUME ToolInv, UNCHANGED stage, stage # "sensor", Tool!Get
    PROVE  ToolInv'
<1>1. /\ state = "read" /\ state' = "print" /\ cursor # <<>>
      /\ UNCHANGED <<disk, accepted, files, file, faults, program, computers>>
      /\ newDatabase' = FALSE
  BY DEF Tool!Get
<1>2. PICK n \in Tool!Following :
         /\ \A m \in Tool!Following : n <= m
         /\ cursor' = <<cursor[1], n>>
         /\ record' = disk[cursor[1]][n]
  BY DEF Tool!Get
<1>3. returned' = Append(returned, <<file, record', newDatabase>>)
  BY DEF Tool!Get
<1>4. /\ At \in 1..Len(accepted)
      /\ cursor[2] \in Nat
      /\ cursor = <<accepted[At], cursor[2]>>
      /\ file = accepted[At]
      /\ newDatabase = (At > 1 /\ ~\E q \in ReadSoFar : q[1] = At)
      /\ "c_get" \notin faults => Len(returned) = Cardinality(ReadSoFar)
  BY <1>1 DEF ToolInv, CursorInv
<1>5. PICK S : accepted \in Seq(S)
  BY DEF ToolInv, FilesInv
<1>6. /\ n \in Numbers /\ n \in Nat /\ n > cursor[2]
      /\ disk[accepted[At]][n] # NoRecord
  <2>1. cursor[1] = accepted[At]
    BY <1>4
  <2>2. n \in Numbers /\ n > cursor[2] /\ disk[cursor[1]][n] # NoRecord
    BY DEF Tool!Following
  <2> QED  BY <2>1, <2>2, NumbersArePositive
<1> DEFINE p == <<At, n>>
<1>7. p \in Readable /\ p[1] = At /\ p[2] = n /\ p \notin ReadSoFar
  BY <1>4, <1>5, <1>6 DEF Readable, ReadSoFar
<1>8. \A q \in Readable : /\ q[1] \in 1..Len(accepted)
                          /\ q[2] \in Nat \ {0} /\ q = <<q[1], q[2]>>
  BY <1>5, ReadableIsFinite
<1>9. ASSUME NEW q \in Readable, q[1] = At, q[2] > cursor[2]
      PROVE  q[2] >= n
  <2>1. q[2] \in Tool!Following
    BY <1>4, <1>9 DEF Readable, Tool!Following
  <2> QED  BY <1>2, <2>1
<1>10. {q \in Readable : Before(q, p)} = ReadSoFar
  <2>1. ASSUME NEW q \in Readable
        PROVE  Before(q, p) <=> q \in ReadSoFar
    BY <1>4, <1>6, <1>7, <1>8, <1>9 DEF Before, ReadSoFar, At
  <2> QED  BY <2>1 DEF ReadSoFar
<1>11. /\ Readable' = Readable
       /\ At' = At
       /\ \A q : Rank(q)' = Rank(q) /\ Answer(q)' = Answer(q)
  BY <1>1, SameFiles DEF At
<1>12. ReadSoFar' = ReadSoFar \cup {p}
  <2>1. ReadSoFar' = {q \in Readable : q[1] < At \/ (q[1] = At /\ q[2] <= n)}
    BY <1>2, <1>11 DEF ReadSoFar
  <2>2. ASSUME NEW q \in Readable
        PROVE  q[1] < At \/ (q[1] = At /\ q[2] <= n)
                   <=> q \in ReadSoFar \/ q = p
    <3>1. q \in ReadSoFar <=> q[1] < At \/ (q[1] = At /\ q[2] <= cursor[2])
      BY DEF ReadSoFar
    <3> QED  BY <1>4, <1>6, <1>7, <1>8, <1>9, <3>1
  <2>3. ReadSoFar \subseteq Readable
    BY DEF ReadSoFar
  <2> HIDE DEF p
  <2> QED  BY <1>7, <2>1, <2>2, <2>3
<1>13. /\ ReadSoFar \subseteq Readable /\ ReadSoFar' \subseteq Readable
       /\ IsFiniteSet(ReadSoFar)
       /\ Cardinality(ReadSoFar) \in Nat
       /\ Cardinality(ReadSoFar') = Cardinality(ReadSoFar) + 1
       /\ Cardinality(ReadSoFar') <= Cardinality(Readable)
  <2>1. ReadSoFar \subseteq Readable /\ ReadSoFar' \subseteq Readable
    BY <1>7, <1>12 DEF ReadSoFar
  <2>2. IsFiniteSet(ReadSoFar) /\ Cardinality(ReadSoFar) \in Nat
    BY <1>5, <2>1, ReadableIsFinite
  <2>3. Cardinality(ReadSoFar') <= Cardinality(Readable)
    BY <1>5, <2>1, ReadableIsFinite
  <2>4. Cardinality(ReadSoFar') = Cardinality(ReadSoFar) + 1
    BY <1>7, <1>12, <2>2, FS_AddElement
  <2> QED  BY <2>1, <2>2, <2>3, <2>4
<1>14. Answer(p) = <<file, record', newDatabase>>
  <2>1. newDatabase =
            (At > 1 /\ ~\E q \in Readable : q[1] = At /\ Before(q, p))
    BY <1>4, <1>10
  <2>2. Answer(p) = <<accepted[At], disk[accepted[At]][n],
                      At > 1 /\ ~\E q \in Readable :
                                     q[1] = At /\ Before(q, p)>>
    BY DEF Answer
  <2> QED  BY <1>2, <1>4, <2>1, <2>2
<1>15. /\ \E T : returned' \in Seq(T)
       /\ Len(returned) \in Nat
       /\ Len(returned') = Len(returned) + 1
       /\ returned'[Len(returned) + 1] = Answer(p)
       /\ \A i \in 1..Len(returned) : returned'[i] = returned[i]
  <2>1. PICK T : returned \in Seq(T)
    BY DEF ToolInv
  <2>2. returned \in Seq(T \cup {Answer(p)})
    BY <2>1
  <2>3. returned' = Append(returned, Answer(p))
    BY <1>3, <1>14
  <2> HIDE DEF p
  <2>4. returned' \in Seq(T \cup {Answer(p)})
    BY <2>2, <2>3
  <2> QED  BY <2>2, <2>3, <2>4
<1>16. "c_get" \notin faults' => ReadInOrder'
  <2> SUFFICES ASSUME "c_get" \notin faults
               PROVE  ReadInOrder'
    BY <1>1
  <2>1. ReadInOrder /\ Len(returned) = Cardinality(ReadSoFar)
    BY <1>4 DEF ToolInv
  <2>2. Rank(p) = Len(returned) + 1
    <3>1. Rank(p) = 1 + Cardinality({q \in Readable : Before(q, p)})
      BY DEF Rank
    <3> HIDE DEF p
    <3>2. Rank(p) = 1 + Cardinality(ReadSoFar)
      BY <1>10, <3>1
    <3> QED  BY <1>13, <2>1, <3>2
  <2>3. Len(returned') <= Cardinality(Readable')
    BY <1>11, <1>13, <1>15, <2>1
  <2>4. ASSUME NEW q \in Readable, Rank(q) <= Len(returned')
        PROVE  returned'[Rank(q)] = Answer(q)
    <3>1. Rank(q) \in Nat \ {0}
      <4>1. {r \in Readable : Before(r, q)} \subseteq Readable
        OBVIOUS
      <4>2. Cardinality({r \in Readable : Before(r, q)}) \in Nat
        BY <1>5, <4>1, ReadableIsFinite
      <4> QED  BY <4>2 DEF Rank
    <3>2. CASE Rank(q) <= Len(returned)
      BY <1>15, <2>1, <3>1, <3>2 DEF ReadInOrder
    <3>3. CASE Rank(q) = Len(returned) + 1
      <4>1. q = p
        <5>1. CASE Before(p, q)
          <6>1. ReadSoFar' \subseteq {r \in Readable : Before(r, q)}
            <7>1. ASSUME NEW r \in ReadSoFar
                  PROVE  r \in Readable /\ Before(r, q)
              <8>1. r \in Readable /\ Before(r, p)
                BY <1>10, <7>1
              <8> QED
                BY <1>4, <1>6, <1>7, <1>8, <5>1, <8>1 DEF Before, At
            <7> QED  BY <1>7, <1>12, <5>1, <7>1
          <6>2. IsFiniteSet({r \in Readable : Before(r, q)})
            BY <1>5, ReadableIsFinite
          <6>3. Cardinality(ReadSoFar')
                    <= Cardinality({r \in Readable : Before(r, q)})
            BY <6>1, <6>2, FS_Subset
          <6>4. Cardinality({r \in Readable : Before(r, q)}) \in Nat
            BY <6>2, FS_CardinalityType
          <6> QED  BY <1>13, <2>1, <3>3, <6>3, <6>4 DEF Rank
        <5>2. CASE Before(q, p)
          <6>1. {r \in Readable : Before(r, q)} \cup {q} \subseteq ReadSoFar
            <7>1. q \in ReadSoFar
              BY <1>10, <5>2
            <7>2. ASSUME NEW r \in Readable, Before(r, q)
                  PROVE  r \in ReadSoFar
              <8>1. Before(r, p)
                BY <1>4, <1>6, <1>7, <1>8, <5>2, <7>2 DEF Before, At
              <8> QED  BY <1>10, <8>1
            <7> QED  BY <7>1, <7>2
          <6>2. q \notin {r \in Readable : Before(r, q)}
            BY <1>8 DEF Before
          <6>3. IsFiniteSet({r \in Readable : Before(r, q)})
            BY <1>5, ReadableIsFinite
          <6>4. Cardinality({r \in Readable : Before(r, q)} \cup {q})
                    = Cardinality({r \in Readable : Before(r, q)}) + 1
            BY <6>2, <6>3, FS_AddElement
          <6>5. Cardinality({r \in Readable : Before(r, q)} \cup {q})
                    <= Cardinality(ReadSoFar)
            BY <1>13, <6>1, FS_Subset
          <6>6. Cardinality({r \in Readable : Before(r, q)}) \in Nat
            BY <6>3, FS_CardinalityType
          <6> QED  BY <1>13, <2>1, <3>3, <6>4, <6>5, <6>6 DEF Rank
        <5>3. q = <<q[1], q[2]>> /\ q[1] \in Nat /\ q[2] \in Nat /\ At \in Nat
          BY <1>4, <1>8
        <5> QED  BY <1>6, <5>1, <5>2, <5>3 DEF Before
      <4> QED  BY <1>15, <3>3, <4>1
    <3> QED  BY <1>15, <2>4, <3>1, <3>2, <3>3
  <2> QED  BY <1>11, <2>3, <2>4 DEF ReadInOrder
<1>17. CursorInv'
  <2>1. /\ cursor' # <<>> /\ cursor'[2] = n
        /\ cursor' = <<accepted[At], n>>
    BY <1>2, <1>4
  <2>2. newDatabase' = (At > 1 /\ ~\E q \in ReadSoFar : q[1] = At)'
    BY <1>1, <1>7, <1>11, <1>12
  <2>3. "c_get" \notin faults' => Len(returned') = Cardinality(ReadSoFar')
    BY <1>1, <1>4, <1>13, <1>15
  <2> QED
    BY <1>1, <1>4, <1>6, <1>11, <2>1, <2>2, <2>3 DEF CursorInv
<1>18. FilesInv' /\ UnreadInv' /\ EndInv'
  BY <1>1, <1>11 DEF ToolInv, FilesInv, UnreadInv, EndInv
<1> QED  BY <1>1, <1>15, <1>16, <1>17, <1>18 DEF ToolInv
(* A step that reads nothing and opens nothing.                            *)
LEMMA SamePlace ==
    ASSUME ToolInv, UNCHANGED <<disk, accepted, returned>>,
           faults \subseteq faults'
    PROVE  /\ Readable' = Readable
           /\ \E S : returned' \in Seq(S)
           /\ "c_get" \notin faults' => "c_get" \notin faults /\ ReadInOrder'
           /\ ReadAll' = ReadAll
           /\ UNCHANGED files => FilesInv' /\ At' = At
           /\ UNCHANGED <<files, cursor>> => ReadSoFar' = ReadSoFar
<1>1. Readable' = Readable
  BY SameFiles
<1>2. ReadInOrder' = ReadInOrder /\ ReadAll' = ReadAll
  BY SameOrder
<1>3. \E S : returned' \in Seq(S)
  BY DEF ToolInv
<1>4. UNCHANGED files => At' = At
  BY DEF At
<1>5. UNCHANGED files => FilesInv'
  BY <1>4 DEF ToolInv, FilesInv
<1>6. UNCHANGED <<files, cursor>> => ReadSoFar' = ReadSoFar
  BY <1>1, <1>4 DEF ReadSoFar
<1>7. "c_get" \notin faults' => "c_get" \notin faults /\ ReadInOrder'
  BY <1>2 DEF ToolInv
<1> QED  BY <1>1, <1>2, <1>3, <1>4, <1>5, <1>6, <1>7

LEMMA DatabaseEndsToolInv ==
    ASSUME ToolInv, UNCHANGED stage, stage # "sensor", Tool!DatabaseEnds
    PROVE  ToolInv'
<1>1. /\ state = "read" /\ state' = "open" /\ cursor # <<>>
      /\ UNCHANGED <<disk, accepted, returned, files, cursor, file,
                     newDatabase, program, computers>>
      /\ faults \subseteq faults'
      /\ "c_get" \notin faults' => Tool!Following = {}
  BY DEF Tool!DatabaseEnds, Tool!Fails
<1>2. /\ Readable' = Readable
      /\ \E S : returned' \in Seq(S)
      /\ "c_get" \notin faults' => "c_get" \notin faults /\ ReadInOrder'
      /\ FilesInv' /\ At' = At /\ ReadSoFar' = ReadSoFar
  BY <1>1, SamePlace
<1>3. ASSUME Tool!Following = {}, NEW q \in Readable, q[1] = At
      PROVE  q \in ReadSoFar
  <2>1. cursor[1] = accepted[At] /\ cursor[2] \in Nat
    BY <1>1 DEF ToolInv, CursorInv
  <2>2. q[2] \in Numbers /\ q[2] \in Nat /\ disk[accepted[At]][q[2]] # NoRecord
    BY <1>3, NumbersArePositive DEF Readable
  <2>3. ~(q[2] > cursor[2])
    BY <1>3, <2>1, <2>2 DEF Tool!Following
  <2> QED  BY <1>3, <2>1, <2>2, <2>3 DEF ReadSoFar
<1>4. CursorInv'
  BY <1>1, <1>2, <1>3 DEF ToolInv, CursorInv
<1>5. UnreadInv' /\ EndInv'
  BY <1>1, <1>2 DEF ToolInv, UnreadInv, EndInv
<1> QED  BY <1>1, <1>2, <1>4, <1>5 DEF ToolInv

(* The next file: its number is one higher, and nothing of it is read.     *)
LEMMA NextDatabaseToolInv ==
    ASSUME ToolInv, UNCHANGED stage, stage # "sensor", Tool!NextDatabase
    PROVE  ToolInv'
<1>1. /\ state = "open" /\ state' = "read" /\ files # <<>>
      /\ UNCHANGED <<disk, accepted, returned, program, computers, faults>>
      /\ cursor' = <<Head(files), 0>> /\ file' = Head(files)
      /\ files' = Tail(files) /\ newDatabase' = TRUE
  BY DEF Tool!NextDatabase, Tool!Opened
<1>2. /\ Readable' = Readable
      /\ \E S : returned' \in Seq(S)
      /\ "c_get" \notin faults' => "c_get" \notin faults /\ ReadInOrder'
  BY <1>1, SamePlace
<1>3. PICK S : accepted \in Seq(S)
  BY DEF ToolInv, FilesInv
<1>4. PICK T : files \in Seq(T)
  BY DEF ToolInv, FilesInv
<1>5. /\ Len(accepted) \in Nat /\ Len(files) \in Nat /\ Len(files) > 0
      /\ Len(files) <= Len(accepted)
      /\ \A i \in 1..Len(files) : files[i] = accepted[At + i]
  BY <1>1, <1>3, <1>4 DEF ToolInv, FilesInv
<1>6. /\ files' \in Seq(T) /\ Len(files') = Len(files) - 1
      /\ \A i \in 1..Len(files') : files'[i] = files[1 + i]
      /\ Head(files) = files[1]
  BY <1>1, <1>4, <1>5
<1>7. At \in 1..Len(accepted) /\ cursor # <<>> /\ At' = At + 1
  <2>1. At \in 1..Len(accepted) /\ cursor # <<>>
    BY <1>1 DEF ToolInv, CursorInv
  <2> QED  BY <1>1, <1>5, <1>6, <2>1 DEF At
<1>8. At' \in 1..Len(accepted) /\ Head(files) = accepted[At']
  <2>1. At + 1 <= Len(accepted)
    BY <1>5 DEF At
  <2> QED  BY <1>5, <1>6, <1>7, <2>1
<1>9. FilesInv'
  <2>1. ASSUME NEW i \in 1..Len(files')
        PROVE  files'[i] = accepted'[At' + i]
    <3>1. 1 + i \in 1..Len(files) /\ At + (1 + i) = At' + i
      BY <1>5, <1>6, <1>7
    <3> QED  BY <1>1, <1>5, <1>6, <3>1
  <2> QED  BY <1>1, <1>3, <1>5, <1>6, <2>1 DEF FilesInv
<1>10. \A q \in Readable : /\ q[1] \in 1..Len(accepted)
                           /\ q[2] \in Nat \ {0} /\ q = <<q[1], q[2]>>
  BY <1>3, ReadableIsFinite
<1>11. ReadSoFar' = {q \in Readable : q[1] <= At}
  <2>1. ReadSoFar' = {q \in Readable : q[1] < At' \/ (q[1] = At' /\ q[2] <= 0)}
    BY <1>1, <1>2 DEF ReadSoFar
  <2>2. ASSUME NEW q \in Readable
        PROVE  q[1] < At' \/ (q[1] = At' /\ q[2] <= 0) <=> q[1] <= At
    BY <1>7, <1>10
  <2> QED  BY <2>1, <2>2
<1>12. "c_get" \notin faults' => ReadSoFar' = ReadSoFar
  <2> SUFFICES ASSUME "c_get" \notin faults
               PROVE  ReadSoFar' = ReadSoFar
    BY <1>1
  <2>1. \A q \in Readable : q[1] = At => q \in ReadSoFar
    BY <1>1, <1>7 DEF ToolInv, CursorInv
  <2>2. ASSUME NEW q \in Readable
        PROVE  q \in ReadSoFar <=> q[1] <= At
    BY <1>7, <1>10, <2>1 DEF ReadSoFar
  <2>3. ReadSoFar \subseteq Readable
    BY DEF ReadSoFar
  <2> QED  BY <1>11, <2>2, <2>3
<1>13. CursorInv'
  <2>1. cursor' # <<>> /\ cursor'[2] = 0 /\ cursor' = <<accepted[At'], 0>>
    BY <1>1, <1>8
  <2>2. newDatabase' = (At > 1 /\ ~\E q \in ReadSoFar : q[1] = At)'
    <3>1. (At > 1)'
      BY <1>7
    <3>2. ~\E q \in ReadSoFar' : q[1] = At'
      BY <1>7, <1>10, <1>11
    <3>3. (At > 1 /\ ~\E q \in ReadSoFar : q[1] = At)'
      BY <3>1, <3>2
    <3> QED  BY <1>1, <3>3
  <2>3. "c_get" \notin faults' => Len(returned') = Cardinality(ReadSoFar')
    BY <1>1, <1>7, <1>12 DEF ToolInv, CursorInv
  <2> QED  BY <1>1, <1>8, <2>1, <2>2, <2>3 DEF CursorInv
<1>14. UnreadInv' /\ EndInv'
  BY <1>1, <1>2 DEF ToolInv, UnreadInv, EndInv
<1> QED  BY <1>1, <1>2, <1>9, <1>13, <1>14 DEF ToolInv

(* The end: of the last file, or because it cannot be opened.              *)
LEMMA ReadDoneToolInv ==
    ASSUME ToolInv, UNCHANGED stage, stage # "sensor", Tool!ReadDone
    PROVE  ToolInv'
<1>1. /\ state = "open"
      /\ state' = IF program = "countPJL" THEN "sort" ELSE "exit 0"
      /\ UNCHANGED <<disk, accepted, returned, files, newDatabase, program,
                     computers>>
      /\ faults \subseteq faults'
      /\ faults' \subseteq {"access"} => files = <<>>
  BY DEF Tool!ReadDone, Tool!Fails, Tool!CloseCalls, Tool!OpenCalls
<1>2. /\ Readable' = Readable
      /\ \E S : returned' \in Seq(S)
      /\ "c_get" \notin faults' => "c_get" \notin faults /\ ReadInOrder'
      /\ ReadAll' = ReadAll
      /\ FilesInv'
  BY <1>1, SamePlace
<1>3. faults' \subseteq {"access"} => ReadAll'
  <2> SUFFICES ASSUME faults' \subseteq {"access"}
               PROVE  ReadAll
    BY <1>2
  <2>1. files = <<>> /\ "c_get" \notin faults
    BY <1>1
  <2>2. cursor # <<>>
    BY <1>1 DEF ToolInv, CursorInv
  <2>3. /\ Len(returned) = Cardinality(ReadSoFar)
        /\ \A q \in Readable : q[1] = At => q \in ReadSoFar
    BY <1>1, <2>1, <2>2 DEF ToolInv, CursorInv
  <2>4. PICK S : accepted \in Seq(S)
    BY DEF ToolInv, FilesInv
  <2>5. At = Len(accepted)
    <3>1. Len(files) = 0 /\ Len(accepted) \in Nat
      BY <2>1, <2>4
    <3> QED  BY <3>1 DEF At
  <2>6. ASSUME NEW q \in Readable
        PROVE  q \in ReadSoFar
    <3>1. q[1] \in 1..Len(accepted) /\ Len(accepted) \in Nat
      BY <2>4, ReadableIsFinite
    <3>2. q[1] < At \/ q[1] = At
      BY <2>5, <3>1
    <3> QED  BY <2>3, <3>2 DEF ReadSoFar
  <2>7. ReadSoFar = Readable
    BY <2>6 DEF ReadSoFar
  <2> QED  BY <2>3, <2>7 DEF ReadAll
<1>4. UnreadInv' /\ CursorInv'
  BY <1>1 DEF UnreadInv, CursorInv
<1>5. EndInv'
  BY <1>1, <1>3 DEF EndInv
<1> QED  BY <1>1, <1>2, <1>4, <1>5 DEF ToolInv

LEMMA ReadUndefinedToolInv ==
    ASSUME ToolInv, UNCHANGED stage, stage # "sensor", Tool!ReadUndefined
    PROVE  ToolInv'
<1>1. /\ state = "read" /\ state' = "undefined" /\ cursor = <<>>
      /\ UNCHANGED <<disk, accepted, returned, files, faults>>
  BY DEF Tool!ReadUndefined
<1>2. /\ \E S : returned' \in Seq(S)
      /\ "c_get" \notin faults' => ReadInOrder'
      /\ FilesInv'
  BY <1>1, SamePlace
<1>3. UnreadInv' /\ CursorInv' /\ EndInv'
  BY <1>1 DEF ToolInv, UnreadInv, CursorInv, EndInv
<1> QED  BY <1>1, <1>2, <1>3 DEF ToolInv

LEMMA PrintToolInv ==
    ASSUME ToolInv, UNCHANGED stage, stage # "sensor", Tool!PrintRecord
    PROVE  ToolInv'
<1>1. /\ state = "print" /\ state' = "read"
      /\ UNCHANGED <<disk, accepted, returned, files, cursor, file,
                     newDatabase, program, faults>>
  BY DEF Tool!PrintRecord
<1>2. /\ Readable' = Readable
      /\ \E S : returned' \in Seq(S)
      /\ "c_get" \notin faults' => ReadInOrder'
      /\ FilesInv' /\ At' = At /\ ReadSoFar' = ReadSoFar
  BY <1>1, SamePlace
<1>3. UnreadInv' /\ CursorInv' /\ EndInv'
  BY <1>1, <1>2 DEF ToolInv, UnreadInv, CursorInv, EndInv
<1> QED  BY <1>1, <1>2, <1>3 DEF ToolInv

LEMMA SortToolInv ==
    ASSUME ToolInv, UNCHANGED stage, stage # "sensor", Tool!Sort
    PROVE  ToolInv'
<1>1. /\ state = "sort"
      /\ \/ state' = "exit 0"
         \/ /\ state' = "undefined"
            /\ \A c \in DOMAIN computers : computers[c] = 0
      /\ UNCHANGED <<disk, accepted, returned, files, program, computers,
                     faults>>
  BY DEF Tool!Sort
<1>2. /\ Readable' = Readable
      /\ \E S : returned' \in Seq(S)
      /\ "c_get" \notin faults' => ReadInOrder'
      /\ ReadAll' = ReadAll
      /\ FilesInv'
  BY <1>1, SamePlace
<1>3. /\ program = "countPJL"
      /\ faults \subseteq {"access"} => ReadAll
  BY <1>1 DEF ToolInv, EndInv
<1>4. UnreadInv' /\ CursorInv'
  BY <1>1 DEF UnreadInv, CursorInv
<1>5. EndInv'
  BY <1>1, <1>2, <1>3 DEF EndInv
<1> QED  BY <1>1, <1>2, <1>4, <1>5 DEF ToolInv

LEMMA NextToolInv ==
    ToolInv /\ [ArchiveNext]_<<vars, readerVars, stage>> => ToolInv'
<1> SUFFICES ASSUME ToolInv, [ArchiveNext]_<<vars, readerVars, stage>>
             PROVE  ToolInv'
  OBVIOUS
<1>1. CASE stage = "sensor" /\ UNCHANGED <<readerVars, stage>>
  BY <1>1, IdleToolInv DEF ToolInv
<1>2. CASE SensorEnds
  BY <1>2, IdleToolInv DEF ToolInv, SensorEnds
<1>3. ASSUME NEW d \in Deletions, Delete(d[1], d[2])
      PROVE  ToolInv'
  BY <1>3, IdleToolInv DEF Delete
<1>4. CASE stage # "sensor" /\ Tool!Next /\ UNCHANGED stage
  <2>1. \/ \/ \E command \in Commands : Tool!Run(command)
           \/ Tool!OptionRefused \/ Tool!Option \/ Tool!OptionsEnd
           \/ Tool!Access \/ Tool!NoFiles
        \/ Tool!Add \/ Tool!Get \/ Tool!DatabaseEnds \/ Tool!NextDatabase
        \/ Tool!ReadDone \/ Tool!ReadUndefined
        \/ Tool!PrintRecord \/ Tool!Sort
    BY <1>4 DEF Tool!Next
  <2> QED
    BY <1>4, <2>1, ListToolInv, AddToolInv, GetToolInv, DatabaseEndsToolInv,
       NextDatabaseToolInv, ReadDoneToolInv, ReadUndefinedToolInv,
       PrintToolInv, SortToolInv
<1>5. CASE UNCHANGED <<vars, readerVars, stage>>
  <2>1. /\ UNCHANGED <<disk, accepted, returned, faults, files, cursor, state,
                       program, computers, newDatabase, file, stage>>
    BY <1>5 DEF vars, dbVars, readerVars
  <2>2. /\ Readable' = Readable
        /\ \E S : returned' \in Seq(S)
        /\ "c_get" \notin faults' => ReadInOrder'
        /\ ReadAll' = ReadAll
        /\ FilesInv' /\ At' = At /\ ReadSoFar' = ReadSoFar
    BY <2>1, SamePlace
  <2>3. UnreadInv' /\ CursorInv' /\ EndInv'
    BY <2>1, <2>2 DEF ToolInv, UnreadInv, CursorInv, EndInv
  <2> QED  BY <2>1, <2>2, <2>3 DEF ToolInv
<1> QED  BY <1>1, <1>2, <1>3, <1>4, <1>5 DEF ArchiveNext

(* The tools read every record: in order and once each, as long as no      *)
(* c_get() fails, for any list of files, any records in them, any options  *)
(* and any failures; and if nothing fails, to the end.                     *)
THEOREM ToolsReadEveryRecord == ArchiveSpec => []ReadsEveryRecord
<1>1. ToolInv => ReadsEveryRecord
  BY DEF ToolInv, EndInv, ReadsEveryRecord
<1> QED  BY <1>1, InitToolInv, NextToolInv, PTL DEF ArchiveSpec

-----------------------------------------------------------------------------
(* Records.tla and PJLJob.tla: what a reader finds of what was written,    *)
(* and how a job is put together.  First, functions over an interval and   *)
(* sequences of sequences.                                                 *)

(* The first of some numbers.                                              *)
LEMMA LeastOf ==
    ASSUME NEW C, C \subseteq Nat, C # {}
    PROVE  Min(C) \in C /\ \A n \in C : Min(C) <= n
<1> DEFINE R == OpToRel(<, Nat)
<1>1. IsWellFoundedOn(R, Nat)
  BY NatLessThanWellFounded
<1>2. \E x \in C : \A y \in C : ~ (<<y, x>> \in R)
  <2> HIDE DEF R
  <2> QED  BY <1>1, WFMin
<1>3. PICK x \in C : \A y \in C : ~ (y < x)
  BY <1>2 DEF OpToRel
<1>4. x \in Nat /\ \A y \in C : y \in Nat /\ x <= y
  BY <1>3
<1> QED  BY <1>4 DEF Min

(* Two functions of numbers that begin with the same value, and of which   *)
(* the next value is the same if the one before is, are the same.          *)
LEMMA SameFromTheFirst ==
    ASSUME NEW N \in Nat, NEW f, NEW g, f[0] = g[0],
           \A n \in 1..N : f[n - 1] = g[n - 1] => f[n] = g[n]
    PROVE  \A n \in 0..N : f[n] = g[n]
<1> DEFINE C == {n \in 0..N : f[n] # g[n]}
<1>1. SUFFICES ASSUME C # {} PROVE FALSE
  OBVIOUS
<1>2. C \subseteq Nat
  OBVIOUS
<1>3. PICK n \in C : \A m \in C : n <= m
  <2> HIDE DEF C
  <2> QED  BY <1>1, <1>2, LeastOf
<1>4. n \in 1..N /\ n - 1 \in 0..N /\ n - 1 \notin C
  BY <1>3
<1>5. f[n - 1] = g[n - 1]
  BY <1>4
<1> QED  BY <1>4, <1>5

(* f gives b and, one after the other, what op makes of the value before.  *)
Course(b, op, N, f) ==
    f = [n \in 0..N |-> IF n = 0 THEN b ELSE op[<<f[n - 1], n>>]]

(* There is such an f if op has a value everywhere in S.                   *)
LEMMA CourseExists ==
    ASSUME NEW S, NEW b \in S, NEW N \in Nat,
           NEW op \in [S \X (1..N) -> S]
    PROVE  \E f \in [0..N -> S] : Course(b, op, N, f)
<1> DEFINE D(n) == \E f \in [0..n -> S] : Course(b, op, n, f)
           C == {n \in 0..N : ~D(n)}
<1>1. SUFFICES ASSUME C # {} PROVE FALSE
  BY DEF C
<1>2. C \subseteq Nat
  OBVIOUS
<1>3. PICK n \in C : \A m \in C : n <= m
  <2> HIDE DEF C
  <2> QED  BY <1>1, <1>2, LeastOf
<1>4. CASE n = 0
  <2> DEFINE f == [m \in 0..0 |-> b]
  <2>1. f \in [0..0 -> S] /\ Course(b, op, 0, f)
    BY DEF Course
  <2> HIDE DEF f
  <2>2. D(0)
    BY <2>1
  <2> QED  BY <1>3, <1>4, <2>2
<1>5. CASE n # 0
  <2>1. n - 1 \in 0..N /\ n - 1 \notin C /\ n \in 1..N
    BY <1>3, <1>5
  <2>2. PICK f \in [0..(n - 1) -> S] : Course(b, op, n - 1, f)
    BY <2>1
  <2> DEFINE k == n - 1
             v == op[<<f[k], n>>]
             g == [m \in 0..n |-> IF m = n THEN v ELSE f[m]]
  <2>3. k \in Nat /\ n = k + 1
    BY <2>1
  <2>4. v \in S
    <3>1. f[k] \in S
      BY <2>3
    <3>2. <<f[k], n>> \in S \X (1..N)
      BY <2>1, <3>1
    <3> QED  BY <3>2
  <2>5. g \in [0..n -> S]
    <3> HIDE DEF v
    <3> QED  BY <2>3, <2>4
  <2>6. \A m \in 0..k : f[m] = IF m = 0 THEN b ELSE op[<<f[m - 1], m>>]
    BY <2>2 DEF Course
  <2>7. \A m \in 0..k : g[m] = f[m]
    BY <2>3
  <2>8. ASSUME NEW m \in 0..n
        PROVE  g[m] = IF m = 0 THEN b ELSE op[<<g[m - 1], m>>]
    <3>1. CASE m = n
      <4>1. g[n] = v /\ m # 0 /\ g[m - 1] = f[k]
        BY <2>3, <2>7, <3>1
      <4> QED  BY <3>1, <4>1
    <3>2. CASE m # n
      <4>1. m \in 0..k /\ (m # 0 => m - 1 \in 0..k)
        BY <2>3, <3>2
      <4>2. g[m] = f[m] /\ (m # 0 => g[m - 1] = f[m - 1])
        BY <2>7, <4>1
      <4> HIDE DEF g, v
      <4> QED  BY <2>6, <4>1, <4>2
    <3> QED  BY <3>1, <3>2
  <2>9. Course(b, op, n, g)
    <3>1. g = [m \in 0..n |-> g[m]]
      OBVIOUS
    <3> HIDE DEF g
    <3> QED  BY <2>8, <3>1 DEF Course
  <2> HIDE DEF g
  <2> QED  BY <1>3, <2>5, <2>9
<1> QED  BY <1>4, <1>5

-----------------------------------------------------------------------------
(* What FlattenSeq adds up to, one sequence after the other.               *)
LEMMA Flattening ==
    ASSUME NEW T, NEW s \in Seq(Seq(T))
    PROVE  \E f \in [0..Len(s) -> Seq(T)] :
              /\ f[0] = <<>>
              /\ \A n \in 1..Len(s) : f[n] = f[n - 1] \o s[n]
              /\ FlattenSeq(s) = f[Len(s)]
<1> DEFINE N == Len(s)
           S == Seq(T)
           op == [p \in S \X (1..N) |-> p[1] \o s[p[2]]]
<1>1. N \in Nat /\ <<>> \in S /\ \A n \in 1..N : s[n] \in S
  BY EmptySeq, LenProperties, ElementOfSeq
<1>2. op \in [S \X (1..N) -> S]
  <2>1. ASSUME NEW p \in S \X (1..N)
        PROVE  p[1] \o s[p[2]] \in S
    <3>1. p[1] \in S /\ s[p[2]] \in S
      BY <1>1
    <3> QED  BY <3>1, ConcatProperties
  <2> QED  BY <2>1
<1>3. PICK f \in [0..N -> S] : Course(<<>>, op, N, f)
  <2> HIDE DEF N, S, op
  <2> QED  BY <1>1, <1>2, CourseExists
<1>4. f[0] = <<>> /\ \A n \in 1..N : f[n - 1] \in S
  <2>1. 0 \in 0..N /\ \A n \in 1..N : n - 1 \in 0..N
    BY <1>1
  <2> QED  BY <1>3, <2>1 DEF Course
<1>5. ASSUME NEW n \in 1..N
      PROVE  f[n] = f[n - 1] \o s[n]
  <2>1. n \in 0..N /\ n # 0
    BY <1>1
  <2>2. f[n] = op[<<f[n - 1], n>>]
    <3> HIDE DEF op
    <3> QED  BY <1>3, <2>1 DEF Course
  <2>3. <<f[n - 1], n>> \in S \X (1..N)
    BY <1>4
  <2> QED  BY <2>2, <2>3
<1>6. FlattenSeq(s) = f[N]
  <2>1. CASE N = 0
    <3>1. s = <<>>
      BY <2>1, EmptySeq
    <3> QED  BY <1>4, <2>1, <3>1 DEF FlattenSeq
  <2>2. CASE N # 0
    <3> DEFINE Is(g) == g = [i \in 1..N |-> IF i = 1 THEN s[i]
                                            ELSE g[i - 1] \o s[i]]
               h == [i \in 1..N |-> f[i]]
               g == CHOOSE k : Is(k)
    <3>1. Is(h)
      <4>1. ASSUME NEW i \in 1..N
            PROVE  f[i] = IF i = 1 THEN s[i] ELSE h[i - 1] \o s[i]
        <5>1. CASE i = 1
          <6>1. f[i] = f[i - 1] \o s[i] /\ f[i - 1] = <<>>
            <7>1. i - 1 = 0
              BY <5>1
            <7> QED  BY <1>4, <1>5, <7>1
          <6>2. s[i] \in S
            BY <1>1
          <6> QED  BY <5>1, <6>1, <6>2, ConcatEmptySeq
        <5>2. CASE i # 1
          <6>1. i - 1 \in 1..N
            BY <1>1, <5>2
          <6> QED  BY <1>5, <5>2, <6>1
        <5> QED  BY <5>1, <5>2
      <4> QED  BY <4>1
    <3>2. Is(g)
      <4> HIDE DEF h, Is
      <4> QED  BY <3>1
    <3>3. FlattenSeq(s) = g[N]
      BY <2>2 DEF FlattenSeq
    <3> HIDE DEF g
    <3>4. \A i \in 1..N : g[i] = IF i = 1 THEN s[i] ELSE g[i - 1] \o s[i]
      BY <3>2
    <3> DEFINE e == [i \in 0..N |-> IF i = 0 THEN <<>> ELSE g[i]]
    <3>5. e[0] = f[0] /\ e[N] = g[N]
      BY <1>1, <1>4, <2>2
    <3>6. ASSUME NEW n \in 1..N, e[n - 1] = f[n - 1]
          PROVE  e[n] = f[n]
      <4>1. CASE n = 1
        <5>1. s[n] \in S /\ n - 1 = 0
          BY <1>1, <4>1
        <5>2. f[n] = <<>> \o s[n]
          BY <1>4, <1>5, <5>1
        <5>3. f[n] = s[n]
          BY <5>1, <5>2, ConcatEmptySeq
        <5> QED  BY <3>4, <4>1, <5>3
      <4>2. CASE n # 1
        <5>1. n - 1 \in 0..N /\ n - 1 # 0 /\ n \in 0..N /\ n # 0
          BY <1>1, <4>2
        <5>2. e[n - 1] = g[n - 1] /\ e[n] = g[n]
          BY <5>1
        <5>3. g[n] = g[n - 1] \o s[n]
          BY <3>4, <4>2
        <5> QED  BY <1>5, <3>6, <5>2, <5>3
      <4> QED  BY <4>1, <4>2
    <3> HIDE DEF e, N
    <3>7. \A n \in 1..N : e[n - 1] = f[n - 1] => e[n] = f[n]
      BY <3>6
    <3>8. N \in Nat
      BY <1>1
    <3>9. \A i \in 0..N : e[i] = f[i]
      <4> HIDE DEF S, op, Is, h
      <4>1. e[0] = f[0]
        BY <3>5
      <4> QED  BY <3>7, <3>8, <4>1, SameFromTheFirst, ZenonT(30)
    <3> QED  BY <3>3, <3>5, <3>8, <3>9
  <2> QED  BY <2>1, <2>2
<1> QED  BY <1>4, <1>5, <1>6

-----------------------------------------------------------------------------
(* Reading a record.  x is in the data, after p bytes.                     *)
Holds(data, p, x) ==
    p + Len(x) <= Len(data) /\ \A i \in 1..Len(x) : data[p + i] = x[i]

(* What is made of several parts has each of them.                         *)
LEMMA HoldsBoth ==
    ASSUME NEW T, NEW x \in Seq(T), NEW y \in Seq(T), NEW p \in Nat,
           NEW data, Len(data) \in Nat, Holds(data, p, x \o y)
    PROVE  /\ Holds(data, p, x) /\ Holds(data, p + Len(x), y)
           /\ Len(x \o y) = Len(x) + Len(y) /\ x \o y \in Seq(T)
<1>1. /\ x \o y \in Seq(T) /\ Len(x \o y) = Len(x) + Len(y)
      /\ \A i \in 1..(Len(x) + Len(y)) :
            (x \o y)[i] = IF i <= Len(x) THEN x[i] ELSE y[i - Len(x)]
  BY ConcatProperties
<1>2. Len(x) \in Nat /\ Len(y) \in Nat
  BY LenProperties
<1> DEFINE z == x \o y
<1>3. /\ p + Len(z) <= Len(data) /\ Len(z) = Len(x) + Len(y)
      /\ \A i \in 1..Len(z) : data[p + i] = z[i]
      /\ \A i \in 1..Len(z) :
            z[i] = IF i <= Len(x) THEN x[i] ELSE y[i - Len(x)]
  BY <1>1 DEF Holds
<1> HIDE DEF z
<1>4. Holds(data, p, x)
  <2>1. \A i \in 1..Len(x) : i \in 1..Len(z) /\ i <= Len(x)
    BY <1>2, <1>3
  <2>2. \A i \in 1..Len(x) : data[p + i] = x[i]
    BY <1>3, <2>1
  <2>3. p + Len(x) <= Len(data)
    BY <1>2, <1>3
  <2> QED  BY <2>2, <2>3 DEF Holds
<1>5. ASSUME NEW i \in 1..Len(y)
      PROVE  data[p + Len(x) + i] = y[i]
  <2>1. Len(x) + i \in 1..Len(z) /\ ~(Len(x) + i <= Len(x))
        /\ (Len(x) + i) - Len(x) = i /\ p + Len(x) + i = p + (Len(x) + i)
    BY <1>2, <1>3
  <2>2. data[p + (Len(x) + i)] = y[(Len(x) + i) - Len(x)]
    BY <1>3, <2>1
  <2> QED  BY <2>1, <2>2
<1>6. Holds(data, p + Len(x), y)
  BY <1>2, <1>3, <1>5 DEF Holds
<1> QED  BY <1>1, <1>4, <1>6

(* And it is what its slice is.                                            *)
LEMMA SliceHeld ==
    ASSUME NEW T, NEW x \in Seq(T), NEW p \in Nat,
           NEW data, Len(data) \in Nat, Holds(data, p, x)
    PROVE  Slice(data, p, Len(x)) = x
<1> DEFINE n == Len(x)
           y == SubSeq(data, p + 1, p + n)
<1>1. n \in Nat /\ x \in [1..n -> T]
  BY LenProperties
<1>2. \A i \in (p + 1)..(p + n) : data[i] \in T
  <2>1. ASSUME NEW i \in (p + 1)..(p + n)
        PROVE  data[i] \in T
    <3>1. i - p \in 1..n /\ i = p + (i - p)
      BY <1>1
    <3>2. data[p + (i - p)] = x[i - p]
      BY <3>1 DEF Holds
    <3> QED  BY <1>1, <3>1, <3>2
  <2> QED  BY <2>1
<1>3. /\ y \in Seq(T)
      /\ Len(y) = IF p + 1 <= p + n THEN p + n - (p + 1) + 1 ELSE 0
      /\ \A i \in 1..(p + n - (p + 1) + 1) : y[i] = data[p + 1 + i - 1]
  <2>1. p + 1 \in Int /\ p + n \in Int
    BY <1>1
  <2> QED  BY <1>2, <2>1, SubSeqProperties
<1> HIDE DEF y
<1>4. Len(y) = n
  BY <1>1, <1>3
<1>5. ASSUME NEW i \in 1..n
      PROVE  y[i] = x[i]
  <2>1. i \in 1..(p + n - (p + 1) + 1) /\ p + 1 + i - 1 = p + i
    BY <1>1
  <2>2. y[i] = data[p + i]
    BY <1>3, <2>1
  <2> QED  BY <2>2 DEF Holds
<1>6. y = x
  <2>1. \A i \in 1..Len(y) : y[i] = x[i]
    BY <1>4, <1>5
  <2> HIDE DEF n
  <2> QED  BY <1>3, <1>4, <2>1, SeqEqual DEF n
<1> QED  BY <1>6 DEF Slice, y

(* The bytes that a record consists of.                                    *)
Byte == [number : Nat, width : Nat, byte : Nat] \cup [mac : MACs, byte : Nat]
            \cup [text : Characters]

(* n of them.                                                              *)
Block(x, n) == x \in Seq(Byte) /\ Len(x) = n

(* Blocks one after the other.                                             *)
LEMMA BlockOfBoth ==
    ASSUME NEW x, NEW y, NEW n, NEW m, Block(x, n), Block(y, m)
    PROVE  Block(x \o y, n + m) /\ n \in Nat /\ m \in Nat
<1>1. x \in Seq(Byte) /\ y \in Seq(Byte) /\ Len(x) = n /\ Len(y) = m
  BY DEF Block
<1>2. x \o y \in Seq(Byte) /\ Len(x \o y) = n + m
  BY <1>1, ConcatProperties
<1> QED  BY <1>1, <1>2, LenProperties DEF Block

(* Data that has both of them has each.                                    *)
LEMMA EachHeld ==
    ASSUME NEW x, NEW y, NEW n, NEW m, Block(x, n), Block(y, m),
           NEW p \in Nat, NEW data, Len(data) \in Nat,
           Holds(data, p, x \o y)
    PROVE  Holds(data, p, x) /\ Holds(data, p + n, y) /\ p + n \in Nat
<1>1. x \in Seq(Byte) /\ y \in Seq(Byte) /\ Len(x) = n
  BY DEF Block
<1>2. Holds(data, p, x) /\ Holds(data, p + Len(x), y) /\ Len(x) \in Nat
  BY <1>1, HoldsBoth, LenProperties
<1> QED  BY <1>1, <1>2

(* The parts of a record.                                                  *)
LEMMA BytesAre ==
    ASSUME NEW n \in Nat, NEW w \in Nat
    PROVE  Block(Bytes(n, w), w)
<1>1. Bytes(n, w) \in [1..w -> Byte]
  BY DEF Bytes, Byte
<1>2. Bytes(n, w) \in Seq(Byte)
  BY <1>1
<1> QED  BY <1>2 DEF Bytes, Block

(* An Ethernet address is six bytes.                                       *)
LEMMA EthernetAre ==
    ASSUME NEW mac \in MACs
    PROVE  Block(Ethernet(mac), 6)
<1>1. Ethernet(mac) \in [1..6 -> Byte]
  BY DEF Ethernet, Byte
<1>2. Ethernet(mac) \in Seq(Byte)
  <2>1. 6 \in Nat
    OBVIOUS
  <2> QED  BY <1>1, <2>1, SeqDef
<1> QED  BY <1>2 DEF Ethernet, Block

(* Of a string, each character is one.                                     *)
LEMMA TextIs ==
    ASSUME NEW string \in Words
    PROVE  Block(Text(string), Len(string))
<1>1. Len(string) \in Nat /\ string \in [1..Len(string) -> Characters]
      /\ DOMAIN string = 1..Len(string)
  BY LenProperties DEF Words
<1>2. Text(string) \in [1..Len(string) -> Byte]
  BY <1>1 DEF Text, Byte
<1>3. Text(string) \in Seq(Byte)
  BY <1>1, <1>2
<1> QED  BY <1>1, <1>2, <1>3 DEF Block

(* A number, an address and a string are read as what was written.         *)
LEMMA NumberHeld ==
    ASSUME NEW n \in Nat, NEW w \in Nat \ {0}, NEW p \in Nat,
           NEW data, Len(data) \in Nat, Holds(data, p, Bytes(n, w))
    PROVE  Number(data, p, w) = n
<1> DEFINE x == Bytes(n, w)
<1>1. x \in Seq(Byte) /\ Len(x) = w
  BY BytesAre DEF Block
<1>2. x # <<>> /\ x[1] = [number |-> n, width |-> w, byte |-> 1]
  <2>1. x # <<>>
    <3>1. Len(<<>>) = 0 /\ w # 0
      BY EmptySeq
    <3> HIDE DEF x
    <3> QED  BY <1>1, <3>1, Zenon
  <2>2. 1 \in 1..w
    OBVIOUS
  <2> QED  BY <2>1, <2>2 DEF Bytes
<1>3. Slice(data, p, w) = x
  <2> HIDE DEF x
  <2>1. Holds(data, p, x)
    BY DEF x
  <2> QED  BY <1>1, <2>1, SliceHeld
<1>4. "number" \in DOMAIN x[1] /\ x[1].number = n
  BY <1>2
<1> HIDE DEF x
<1>5. x = Bytes(x[1].number, w)
  BY <1>4 DEF x
<1> QED  BY <1>2, <1>3, <1>4, <1>5 DEF Number

(* An address that the bytes hold is read.                                 *)
LEMMA MACHeld ==
    ASSUME NEW mac \in MACs, NEW p \in Nat,
           NEW data, Len(data) \in Nat, Holds(data, p, Ethernet(mac))
    PROVE  MAC(data, p) = mac
<1> DEFINE x == Ethernet(mac)
<1>1. x \in Seq(Byte) /\ Len(x) = 6
  BY EthernetAre DEF Block
<1>2. x # <<>> /\ x[1] = [mac |-> mac, byte |-> 1]
  <2>1. x # <<>>
    <3>1. Len(<<>>) = 0 /\ 6 # 0
      BY EmptySeq
    <3> HIDE DEF x
    <3> QED  BY <1>1, <3>1, Zenon
  <2> QED  BY <2>1 DEF Ethernet
<1>3. Slice(data, p, 6) = x
  <2> HIDE DEF x
  <2>1. Holds(data, p, x)
    BY DEF x
  <2> QED  BY <1>1, <2>1, SliceHeld
<1>4. "mac" \in DOMAIN x[1] /\ x[1].mac = mac
  BY <1>2
<1> HIDE DEF x
<1>5. x = Ethernet(x[1].mac)
  BY <1>4 DEF x
<1> QED  BY <1>2, <1>3, <1>4, <1>5 DEF MAC

(* And so is a string.                                                     *)
LEMMA StringHeld ==
    ASSUME NEW string \in Words, NEW p \in Nat,
           NEW data, Len(data) \in Nat, Holds(data, p, Text(string))
    PROVE  String(data, p, Len(string)) = string
<1> DEFINE x == Text(string)
           n == Len(string)
<1>1. x \in Seq(Byte) /\ Len(x) = n
  BY TextIs DEF Block
<1>2. n \in Nat /\ string \in [1..n -> Characters] /\ DOMAIN string = 1..n
  BY LenProperties DEF Words
<1>3. Slice(data, p, n) = x
  <2> HIDE DEF x, n
  <2>1. Holds(data, p, x)
    BY DEF x
  <2> QED  BY <1>1, <2>1, SliceHeld
<1>4. \A i \in 1..n : "text" \in DOMAIN x[i] /\ x[i].text = string[i]
  BY <1>2 DEF Text
<1>5. String(data, p, n) = [i \in 1..n |-> string[i]]
  <2> HIDE DEF x, n
  <2> QED  BY <1>1, <1>3, <1>4 DEF String
<1>6. string = [i \in 1..n |-> string[i]]
  BY <1>2
<1> QED  BY <1>5, <1>6

-----------------------------------------------------------------------------

(* What holds of a number if it does of the one before, or of the next.    *)
LEMMA FromTheFirst ==
    ASSUME NEW N \in Nat, NEW C, 0 \in C,
           \A n \in 1..N : n - 1 \in C => n \in C
    PROVE  0..N \subseteq C
<1> DEFINE D == (0..N) \ C
<1>1. SUFFICES ASSUME D # {} PROVE FALSE
  OBVIOUS
<1>2. D \subseteq Nat
  OBVIOUS
<1>3. PICK n \in D : \A m \in D : n <= m
  <2> HIDE DEF D
  <2> QED  BY <1>1, <1>2, LeastOf
<1>4. n \in 1..N /\ n - 1 \in 0..N /\ n - 1 \notin D
  BY <1>3
<1> QED  BY <1>3, <1>4

(* What passes from each number to the next holds to the last.             *)
LEMMA FromTheLast ==
    ASSUME NEW N \in Nat, NEW C, N \in C,
           \A n \in 1..N : n \in C => n - 1 \in C
    PROVE  0..N \subseteq C
<1> DEFINE D == {n \in 0..N : N - n \in C}
<1>1. 0 \in D
  OBVIOUS
<1>2. ASSUME NEW n \in 1..N, n - 1 \in D
      PROVE  n \in D
  <2>1. N - (n - 1) \in 1..N /\ N - (n - 1) \in C
        /\ (N - (n - 1)) - 1 = N - n /\ n \in 0..N
    BY <1>2
  <2> QED  BY <2>1
<1>3. 0..N \subseteq D
  <2> HIDE DEF D
  <2> QED  BY <1>1, <1>2, FromTheFirst
<1>4. ASSUME NEW n \in 0..N
      PROVE  n \in C
  <2>1. N - n \in D /\ N - (N - n) = n
    BY <1>3
  <2> QED  BY <2>1
<1> QED  BY <1>4

-----------------------------------------------------------------------------
(* at are the places of x, one block after the other.                      *)
Places(data, x, at) ==
    /\ at \in [0..Len(x) -> Nat]
    /\ \A i \in 1..Len(x) : /\ at[i] = at[i - 1] + Len(x[i])
                            /\ Holds(data, at[i - 1], x[i])

(* A list of blocks is held where the blocks are.                          *)
LEMMA AllHeld ==
    ASSUME NEW x \in Seq(Seq(Byte)), NEW p \in Nat,
           NEW data, Len(data) \in Nat, Holds(data, p, FlattenSeq(x))
    PROVE  \E at : /\ Places(data, x, at) /\ at[0] = p
                   /\ at[Len(x)] = p + Len(FlattenSeq(x))
<1> DEFINE N == Len(x)
<1>1. N \in Nat /\ \A i \in 1..N : x[i] \in Seq(Byte)
  BY LenProperties, ElementOfSeq
<1>2. PICK f \in [0..N -> Seq(Byte)] :
         /\ f[0] = <<>>
         /\ \A n \in 1..N : f[n] = f[n - 1] \o x[n]
         /\ FlattenSeq(x) = f[N]
  BY Flattening
<1> DEFINE C == {n \in 0..N : Holds(data, p, f[n])}
<1>3. \A n \in 1..N : n - 1 \in 0..N /\ n \in 0..N
  BY <1>1
<1>4. ASSUME NEW n \in 1..N
      PROVE  /\ f[n - 1] \in Seq(Byte) /\ x[n] \in Seq(Byte)
             /\ f[n] = f[n - 1] \o x[n]
  BY <1>1, <1>2, <1>3
<1>5. ASSUME NEW n \in 1..N, Holds(data, p, f[n])
      PROVE  /\ Holds(data, p, f[n - 1])
             /\ Holds(data, p + Len(f[n - 1]), x[n])
             /\ Len(f[n]) = Len(f[n - 1]) + Len(x[n])
  <2> DEFINE y == f[n - 1]
             z == x[n]
  <2>1. y \in Seq(Byte) /\ z \in Seq(Byte) /\ f[n] = y \o z
    BY <1>4
  <2>2. Holds(data, p, y \o z)
    BY <1>5, <2>1
  <2>3. Holds(data, p, y) /\ Holds(data, p + Len(y), z)
        /\ Len(y \o z) = Len(y) + Len(z)
    <3> HIDE DEF y, z
    <3> QED  BY <2>1, <2>2, HoldsBoth
  <2> QED  BY <2>1, <2>3
<1>6. 0..N \subseteq C
  <2>1. N \in C
    BY <1>1, <1>2
  <2>2. \A n \in 1..N : n \in C => n - 1 \in C
    BY <1>3, <1>5
  <2> HIDE DEF C, N
  <2> QED  BY <1>1, <2>1, <2>2, FromTheLast
<1> DEFINE at == [n \in 0..N |-> p + Len(f[n])]
<1>7. at \in [0..N -> Nat]
  <2>1. \A n \in 0..N : Len(f[n]) \in Nat
    BY <1>2, LenProperties
  <2> QED  BY <2>1
<1>8. ASSUME NEW i \in 1..N
      PROVE  at[i] = at[i - 1] + Len(x[i]) /\ Holds(data, at[i - 1], x[i])
  <2>1. i \in 0..N /\ i - 1 \in 0..N
    BY <1>3
  <2>2. Holds(data, p, f[i])
    BY <1>6, <2>1
  <2>3. /\ at[i] = p + Len(f[i]) /\ at[i - 1] = p + Len(f[i - 1])
        /\ Len(f[i]) = Len(f[i - 1]) + Len(x[i])
        /\ Holds(data, p + Len(f[i - 1]), x[i])
    BY <1>5, <2>1, <2>2
  <2>4. Len(f[i - 1]) \in Nat /\ Len(x[i]) \in Nat
    BY <1>4, LenProperties
  <2> HIDE DEF at
  <2>5. at[i] = at[i - 1] + Len(x[i])
    <3> DEFINE a == Len(f[i - 1])
               b == Len(x[i])
    <3>1. at[i] = p + (a + b) /\ at[i - 1] = p + a
      BY <2>3
    <3>2. a \in Nat /\ b \in Nat
      BY <2>4
    <3> HIDE DEF a, b
    <3>3. p + (a + b) = (p + a) + b
      BY <3>2
    <3>4. at[i] = at[i - 1] + b
      BY <3>1, <3>3
    <3> QED  BY <3>4 DEF b
  <2>6. Holds(data, at[i - 1], x[i])
    BY <2>3
  <2> QED  BY <2>5, <2>6
<1>9. at[0] = p /\ at[N] = p + Len(FlattenSeq(x))
  <2>1. Len(<<>>) = 0 /\ 0 \in 0..N /\ N \in 0..N
    BY <1>1, EmptySeq
  <2> QED  BY <1>2, <2>1
<1> HIDE DEF at
<1> QED  BY <1>7, <1>8, <1>9 DEF Places

-----------------------------------------------------------------------------
(* A string is read as it was written.                                     *)
Fits(string, width) == width = 4 \/ (width = 2 /\ Len(string) < 65536)

(* A string after its length is read.                                      *)
LEMMA SizedHeld ==
    ASSUME NEW string \in Words, NEW w, Fits(string, w)
    PROVE  /\ Block(Sized(string, w), w + Len(string))
           /\ \A p \in Nat : \A data :
                 Len(data) \in Nat /\ Holds(data, p, Sized(string, w)) =>
                    /\ Number(data, p, w) = Len(string)
                    /\ String(data, p + w, Len(string)) = string
<1>1. Len(string) \in Nat /\ w \in Nat \ {0}
  BY LenProperties DEF Words, Fits
<1>2. Sized(string, w) = Bytes(Len(string), w) \o Text(string)
  <2>1. w = 2 => Len(string) % 65536 = Len(string)
    BY <1>1 DEF Fits
  <2> QED  BY <2>1 DEF Sized
<1>3. Block(Bytes(Len(string), w), w) /\ Block(Text(string), Len(string))
  BY <1>1, BytesAre, TextIs
<1>4. ASSUME NEW p \in Nat, NEW data, Len(data) \in Nat,
             Holds(data, p, Sized(string, w))
      PROVE  /\ Number(data, p, w) = Len(string)
             /\ String(data, p + w, Len(string)) = string
  <2>1. /\ Holds(data, p, Bytes(Len(string), w))
        /\ Holds(data, p + w, Text(string)) /\ p + w \in Nat
    BY <1>2, <1>3, <1>4, EachHeld
  <2>2. Number(data, p, w) = Len(string)
    BY <1>1, <1>4, <2>1, NumberHeld
  <2>3. String(data, p + w, Len(string)) = string
    BY <1>4, <2>1, StringHeld
  <2> QED  BY <2>2, <2>3
<1> QED  BY <1>2, <1>3, <1>4, BlockOfBoth

(* And so is one after the other.                                          *)
LEMMA StringsRead ==
    ASSUME NEW strings \in Seq(Words), NEW w,
           \A i \in 1..Len(strings) : Fits(strings[i], w),
           NEW data, Len(data) \in Nat, NEW at,
           Places(data, [i \in DOMAIN strings |-> Sized(strings[i], w)], at)
    PROVE  Strings(data, at[0], Len(strings), w) =
              [position |-> at[Len(strings)], strings |-> strings]
<1> DEFINE N == Len(strings)
           p == at[0]
           first(i) == SubSeq(strings, 1, i)
           g == [i \in 0..N |-> [position |-> at[i], strings |-> first(i)]]
           Behind(r) == LET start == r.position + w
                            length == Number(data, r.position, w)
                        IN  [position |-> start + length,
                             strings |-> Append(r.strings,
                                                String(data, start, length))]
           Is(read) == read = [i \in 0..N |->
                          IF i = 0 THEN [position |-> p, strings |-> <<>>]
                          ELSE Behind(read[i - 1])]
<1>1. /\ N \in Nat /\ DOMAIN strings = 1..N
      /\ \A i \in 1..N : strings[i] \in Words
  BY LenProperties, ElementOfSeq
<1>2. /\ at \in [0..N -> Nat]
      /\ \A i \in 1..N : /\ at[i] = at[i - 1] + Len(Sized(strings[i], w))
                         /\ Holds(data, at[i - 1], Sized(strings[i], w))
  <2> DEFINE x == [i \in DOMAIN strings |-> Sized(strings[i], w)]
  <2>1. Len(x) = N /\ \A i \in 1..N : x[i] = Sized(strings[i], w)
    BY <1>1
  <2> HIDE DEF x
  <2> QED  BY <2>1 DEF Places, x
<1>3. ASSUME NEW i \in 1..N
      PROVE  /\ Number(data, at[i - 1], w) = Len(strings[i])
             /\ String(data, at[i - 1] + w, Len(strings[i])) = strings[i]
             /\ at[i] = at[i - 1] + w + Len(strings[i])
  <2>1. /\ i - 1 \in 0..N /\ at[i - 1] \in Nat /\ strings[i] \in Words
        /\ Fits(strings[i], w)
    BY <1>1, <1>2
  <2>2. /\ Block(Sized(strings[i], w), w + Len(strings[i]))
        /\ \A q \in Nat : \A d :
              Len(d) \in Nat /\ Holds(d, q, Sized(strings[i], w)) =>
                 /\ Number(d, q, w) = Len(strings[i])
                 /\ String(d, q + w, Len(strings[i])) = strings[i]
    BY <2>1, SizedHeld
  <2>3. Holds(data, at[i - 1], Sized(strings[i], w))
    BY <1>2
  <2>4. /\ Number(data, at[i - 1], w) = Len(strings[i])
        /\ String(data, at[i - 1] + w, Len(strings[i])) = strings[i]
    BY <2>1, <2>2, <2>3
  <2>5. Len(strings[i]) \in Nat /\ w \in Nat
    BY <2>1, LenProperties DEF Words, Fits
  <2>6. at[i] = at[i - 1] + (w + Len(strings[i]))
    BY <1>2, <2>2 DEF Block
  <2> QED  BY <2>1, <2>4, <2>5, <2>6
<1>4. first(0) = <<>> /\ first(N) = strings
      /\ \A i \in 1..N : first(i) = Append(first(i - 1), strings[i])
  <2>1. first(0) = <<>>
    BY SubSeqEmpty
  <2>2. first(N) = strings
    BY SubSeqFull
  <2>3. ASSUME NEW i \in 1..N
        PROVE  first(i) = Append(first(i - 1), strings[i])
    <3>1. 1 \in 1..N /\ i \in 1..N
      BY <1>1
    <3>2. first(i) = first(i - 1) \o <<strings[i]>>
      BY <3>1, SubSeqRecursiveSecond
    <3>3. first(i - 1) \in Seq(Words)
      <4>1. \A j \in 1..(i - 1) : strings[j] \in Words
        BY <1>1
      <4> QED  BY <1>1, <4>1, SubSeqProperties
    <3> HIDE DEF first
    <3> QED  BY <1>1, <3>2, <3>3, AppendIsConcat
  <2> QED  BY <2>1, <2>2, <2>3
<1>5. Is(g)
  <2>1. ASSUME NEW i \in 0..N
        PROVE  g[i] = IF i = 0 THEN [position |-> p, strings |-> <<>>]
                      ELSE Behind(g[i - 1])
    <3>1. CASE i = 0
      <4> HIDE DEF first
      <4> QED  BY <1>4, <3>1
    <3>2. CASE i # 0
      <4>1. i \in 1..N /\ i - 1 \in 0..N
        BY <1>1, <3>2
      <4>2. g[i - 1].position = at[i - 1] /\ g[i - 1].strings = first(i - 1)
        <5> HIDE DEF first
        <5> QED  BY <4>1
      <4>3. /\ Number(data, at[i - 1], w) = Len(strings[i])
            /\ String(data, at[i - 1] + w, Len(strings[i])) = strings[i]
            /\ at[i] = at[i - 1] + w + Len(strings[i])
            /\ first(i) = Append(first(i - 1), strings[i])
        BY <1>3, <1>4, <4>1
      <4>4. g[i] = [position |-> at[i], strings |-> first(i)]
        <5> HIDE DEF first
        <5> QED  BY <4>1
      <4> HIDE DEF first, g
      <4> QED  BY <3>2, <4>2, <4>3, <4>4
    <3> QED  BY <3>1, <3>2
  <2>2. g = [i \in 0..N |-> g[i]]
    <3> HIDE DEF first
    <3> QED  OBVIOUS
  <2> HIDE DEF g, Behind
  <2> QED  BY <2>1, <2>2
<1> DEFINE read == CHOOSE r : Is(r)
<1>6. Is(read)
  <2> HIDE DEF Is, g
  <2> QED  BY <1>5
<1>7. Strings(data, p, N, w) = read[N]
  BY DEF Strings
<1> HIDE DEF read
<1>8. \A i \in 0..N : read[i] = g[i]
  <2>1. read[0] = g[0]
    <3>1. 0 \in 0..N
      BY <1>1
    <3> HIDE DEF Behind, g
    <3> QED  BY <1>5, <1>6, <3>1
  <2>2. ASSUME NEW i \in 1..N, read[i - 1] = g[i - 1]
        PROVE  read[i] = g[i]
    <3>1. i \in 0..N /\ i # 0
      BY <1>1
    <3>2. read[i] = Behind(read[i - 1]) /\ g[i] = Behind(g[i - 1])
      <4> HIDE DEF Behind, g
      <4> QED  BY <1>5, <1>6, <3>1
    <3> HIDE DEF Behind, g
    <3> QED  BY <2>2, <3>2
  <2>3. \A i \in 1..N : read[i - 1] = g[i - 1] => read[i] = g[i]
    BY <2>2
  <2>4. N \in Nat
    BY <1>1
  <2> HIDE DEF g, N, Is, p, first, Behind
  <2> QED  BY <2>1, <2>3, <2>4, SameFromTheFirst, ZenonT(30)
<1>9. read[N] = [position |-> at[N], strings |-> strings]
  <2>1. N \in 0..N
    BY <1>1
  <2>2. read[N] = g[N] /\ g[N] = [position |-> at[N], strings |-> first(N)]
    <3> HIDE DEF first
    <3> QED  BY <1>8, <2>1
  <2> HIDE DEF g, first
  <2> QED  BY <1>4, <2>2
<1> QED  BY <1>7, <1>9

-----------------------------------------------------------------------------
(* The parts of a record that are the same in both formats.                *)
Connection ==
    [clientMAC : MACs, serverMAC : MACs, clientIP : Nat, serverIP : Nat,
     clientPort : Nat, serverPort : Nat]

(* The client and the server are read.                                     *)
LEMMA EndpointsHeld ==
    ASSUME NEW s, EndpointsOf(s) \in Connection
    PROVE  /\ Block(Endpoints(s), 24)
           /\ \A p \in Nat : \A data :
                 Len(data) \in Nat /\ Holds(data, p, Endpoints(s)) =>
                    EndpointsAt(data, p) = EndpointsOf(s)
<1> DEFINE a == Ethernet(s.clientMAC)
           b == Ethernet(s.serverMAC)
           c == Bytes(s.clientIP, 4)
           d == Bytes(s.serverIP, 4)
           e == Bytes(s.clientPort, 2)
           f == Bytes(s.serverPort, 2)
           ab == a \o b
           abc == ab \o c
           abcd == abc \o d
           abcde == abcd \o e
<1>1. /\ s.clientMAC \in MACs /\ s.serverMAC \in MACs
      /\ s.clientIP \in Nat /\ s.serverIP \in Nat
      /\ s.clientPort \in Nat /\ s.serverPort \in Nat
  <2> DEFINE k == EndpointsOf(s)
  <2>1. /\ k.clientMAC \in MACs /\ k.serverMAC \in MACs
        /\ k.clientIP \in Nat /\ k.serverIP \in Nat
        /\ k.clientPort \in Nat /\ k.serverPort \in Nat
    BY DEF Connection
  <2>2. /\ k.clientMAC = s.clientMAC /\ k.serverMAC = s.serverMAC
        /\ k.clientIP = s.clientIP /\ k.serverIP = s.serverIP
        /\ k.clientPort = s.clientPort /\ k.serverPort = s.serverPort
    BY DEF EndpointsOf
  <2> HIDE DEF k
  <2> QED  BY <2>1, <2>2
<1>2. /\ Block(a, 6) /\ Block(b, 6) /\ Block(c, 4) /\ Block(d, 4)
      /\ Block(e, 2) /\ Block(f, 2)
  <2>1. 4 \in Nat /\ 2 \in Nat
    OBVIOUS
  <2> QED  BY <1>1, <2>1, BytesAre, EthernetAre
<1>3. Endpoints(s) = abcde \o f
  BY DEF Endpoints
<1> HIDE DEF a, b, c, d, e, f
<1>4. Block(ab, 6 + 6)
  BY <1>2, BlockOfBoth
<1> HIDE DEF ab
<1>5. Block(abc, 6 + 6 + 4)
  BY <1>2, <1>4, BlockOfBoth DEF abc
<1> HIDE DEF abc
<1>6. Block(abcd, 6 + 6 + 4 + 4)
  BY <1>2, <1>5, BlockOfBoth DEF abcd
<1> HIDE DEF abcd
<1>7. Block(abcde, 6 + 6 + 4 + 4 + 2)
  BY <1>2, <1>6, BlockOfBoth DEF abcde
<1> HIDE DEF abcde
<1>8. Block(Endpoints(s), 6 + 6 + 4 + 4 + 2 + 2)
  BY <1>2, <1>3, <1>7, BlockOfBoth
<1>9. ASSUME NEW p \in Nat, NEW data, Len(data) \in Nat,
             Holds(data, p, Endpoints(s))
      PROVE  EndpointsAt(data, p) = EndpointsOf(s)
  <2>1. Holds(data, p, abcde) /\ Holds(data, p + (6 + 6 + 4 + 4 + 2), f)
    BY <1>2, <1>3, <1>7, <1>9, EachHeld
  <2>2. Holds(data, p, abcd) /\ Holds(data, p + (6 + 6 + 4 + 4), e)
    BY <1>2, <1>6, <1>9, <2>1, EachHeld DEF abcde
  <2>3. Holds(data, p, abc) /\ Holds(data, p + (6 + 6 + 4), d)
    BY <1>2, <1>5, <1>9, <2>2, EachHeld DEF abcd
  <2>4. Holds(data, p, ab) /\ Holds(data, p + (6 + 6), c)
    BY <1>2, <1>4, <1>9, <2>3, EachHeld DEF abc
  <2>5. Holds(data, p, a) /\ Holds(data, p + 6, b)
    BY <1>2, <1>9, <2>4, EachHeld DEF ab
  <2>6. /\ Holds(data, p + 12, c) /\ Holds(data, p + 16, d)
        /\ Holds(data, p + 20, e) /\ Holds(data, p + 22, f)
    BY <2>1, <2>2, <2>3, <2>4
  <2>7. /\ p + 6 \in Nat /\ p + 12 \in Nat /\ p + 16 \in Nat
        /\ p + 20 \in Nat /\ p + 22 \in Nat
        /\ 2 \in Nat \ {0} /\ 4 \in Nat \ {0}
    OBVIOUS
  <2>8. MAC(data, p) = s.clientMAC /\ MAC(data, p + 6) = s.serverMAC
    BY <1>1, <1>9, <2>5, <2>7, MACHeld DEF a, b
  <2>9. Number(data, p + 12, 4) = s.clientIP
    BY <1>1, <1>9, <2>6, <2>7, NumberHeld DEF c
  <2>10. Number(data, p + 16, 4) = s.serverIP
    BY <1>1, <1>9, <2>6, <2>7, NumberHeld DEF d
  <2>11. Number(data, p + 20, 2) = s.clientPort
    BY <1>1, <1>9, <2>6, <2>7, NumberHeld DEF e
  <2>12. Number(data, p + 22, 2) = s.serverPort
    BY <1>1, <1>9, <2>6, <2>7, NumberHeld DEF f
  <2> QED  BY <2>8, <2>9, <2>10, <2>11, <2>12 DEF EndpointsAt, EndpointsOf
<1> QED  BY <1>8, <1>9

-----------------------------------------------------------------------------
(* dumpPJL prints the job that the PJL module made a record of.            *)
Storable(s) ==
    /\ EndpointsOf(s) \in Connection
    /\ s.time \in Nat \X Nat
    /\ s.computer \in Words /\ Len(s.computer) < 65536
    /\ s.user \in Words /\ Len(s.user) < 65536
    /\ s.title \in Words /\ Len(s.title) < 65536
    /\ s.size \in Nat /\ s.pages \in Nat

(* Where the parts of a job are in its record.                             *)
LEMMA JobHeld ==
    ASSUME NEW s, Storable(s)
    PROVE  /\ Len(PJLRecord(s)) \in Nat
           /\ LET p == 33 + (2 + Len(s.computer)) + (2 + Len(s.user))
                       + (2 + Len(s.title))
                  data == PJLRecord(s)
              IN  /\ Len(data) = p + 7
                  /\ Number(data, 1, 4) = s.time[1]
                  /\ Number(data, 5, 4) = s.time[2]
                  /\ EndpointsAt(data, 9) = EndpointsOf(s)
                  /\ Strings(data, 33, 3, 2) =
                        [position |-> p,
                         strings |-> <<s.computer, s.user, s.title>>]
                  /\ Strings(data, 33, 1, 2) =
                        [position |-> 35 + Len(s.computer),
                         strings |-> <<s.computer>>]
                  /\ Number(data, p, 4) = s.size
                  /\ Number(data, p + 4, 2) = s.pages
<1> DEFINE c == Len(s.computer)
           u == Len(s.user)
           t == Len(s.title)
           x1 == Bytes(1, 1)
           x2 == Bytes(s.time[1], 4)
           x3 == Bytes(s.time[2], 4)
           x4 == Endpoints(s)
           x5 == Sized(s.computer, 2)
           x6 == Sized(s.user, 2)
           x7 == Sized(s.title, 2)
           x8 == Bytes(s.size, 4)
           x9 == Bytes(s.pages, 2)
           x0 == Bytes(0, 1)
           y2 == x1 \o x2
           y3 == y2 \o x3
           y4 == y3 \o x4
           y5 == y4 \o x5
           y6 == y5 \o x6
           y7 == y6 \o x7
           y8 == y7 \o x8
           y9 == y8 \o x9
           data == y9 \o x0
           p == 33 + (2 + c) + (2 + u) + (2 + t)
<1>1. PJLRecord(s) = data
  BY DEF PJLRecord
<1>2. /\ s.time[1] \in Nat /\ s.time[2] \in Nat
      /\ s.size \in Nat /\ s.pages \in Nat
      /\ 0 \in Nat /\ 1 \in Nat /\ 4 \in Nat /\ 2 \in Nat
      /\ 2 \in Nat \ {0} /\ 4 \in Nat \ {0}
  BY DEF Storable
<1>3. /\ s.computer \in Words /\ s.user \in Words /\ s.title \in Words
      /\ Fits(s.computer, 2) /\ Fits(s.user, 2) /\ Fits(s.title, 2)
      /\ c \in Nat /\ u \in Nat /\ t \in Nat
  BY LenProperties DEF Storable, Fits, Words
<1>4. /\ Block(x1, 1) /\ Block(x2, 4) /\ Block(x3, 4)
      /\ Block(x8, 4) /\ Block(x9, 2) /\ Block(x0, 1)
  BY <1>2, BytesAre
<1>5. Block(x4, 24)
  BY EndpointsHeld DEF Storable
<1>6. Block(x5, 2 + c) /\ Block(x6, 2 + u) /\ Block(x7, 2 + t)
  BY <1>3, SizedHeld
<1> HIDE DEF x1, x2, x3, x4, x5, x6, x7, x8, x9, x0, c, u, t
<1>7. Block(y2, 5)
  <2>1. Block(y2, 1 + 4)
    BY <1>4, BlockOfBoth
  <2> HIDE DEF y2
  <2> QED  BY <2>1
<1> HIDE DEF y2
<1>8. Block(y3, 9)
  BY <1>4, <1>7, BlockOfBoth DEF y3
<1> HIDE DEF y3
<1>9. Block(y4, 33)
  <2>1. Block(y4, 9 + 24)
    BY <1>5, <1>8, BlockOfBoth
  <2> HIDE DEF y4
  <2> QED  BY <2>1
<1> HIDE DEF y4
<1>10. Block(y5, 33 + (2 + c))
  BY <1>6, <1>9, BlockOfBoth DEF y5
<1> HIDE DEF y5
<1>11. Block(y6, 33 + (2 + c) + (2 + u))
  BY <1>6, <1>10, BlockOfBoth DEF y6
<1> HIDE DEF y6
<1>12. Block(y7, p)
  BY <1>6, <1>11, BlockOfBoth DEF y7
<1> HIDE DEF y7
<1>13. Block(y8, p + 4)
  <2> HIDE DEF p
  <2> QED  BY <1>4, <1>12, BlockOfBoth DEF y8
<1> HIDE DEF y8
<1>14. Block(y9, p + 4 + 2)
  <2> HIDE DEF p
  <2> QED  BY <1>4, <1>13, BlockOfBoth DEF y9
<1> HIDE DEF y9
<1>15. Block(data, p + 4 + 2 + 1)
  <2> HIDE DEF p
  <2> QED  BY <1>4, <1>14, BlockOfBoth DEF data
<1>16. p \in Nat
  BY <1>3
<1>17. Len(data) = p + 7 /\ Len(data) \in Nat /\ 0 \in Nat
  <2> HIDE DEF p, data
  <2> QED  BY <1>15, <1>16 DEF Block
<1>18. Holds(data, 0, y9 \o x0)
  <2> HIDE DEF p
  <2>1. Holds(data, 0, data)
    <3> HIDE DEF data
    <3> QED  BY <1>17 DEF Holds
  <2> QED  BY <2>1
<1> HIDE DEF data
<1>19. Holds(data, 0, y9)
  <2> HIDE DEF p
  <2> QED  BY <1>4, <1>14, <1>17, <1>18, EachHeld
<1>20. Holds(data, 0, y8) /\ Holds(data, 0 + (p + 4), x9)
  <2> HIDE DEF p
  <2> QED  BY <1>4, <1>13, <1>17, <1>19, EachHeld DEF y9
<1>21. Holds(data, 0, y7) /\ Holds(data, 0 + p, x8)
  <2> HIDE DEF p
  <2> QED  BY <1>4, <1>12, <1>17, <1>20, EachHeld DEF y8
<1>22. Holds(data, 0, y6) /\ Holds(data, 0 + (33 + (2 + c) + (2 + u)), x7)
  BY <1>6, <1>11, <1>17, <1>21, EachHeld DEF y7
<1>23. Holds(data, 0, y5) /\ Holds(data, 0 + (33 + (2 + c)), x6)
  BY <1>6, <1>10, <1>17, <1>22, EachHeld DEF y6
<1>24. Holds(data, 0, y4) /\ Holds(data, 0 + 33, x5)
  BY <1>6, <1>9, <1>17, <1>23, EachHeld DEF y5
<1>25. Holds(data, 0, y3) /\ Holds(data, 0 + 9, x4)
  BY <1>5, <1>8, <1>17, <1>24, EachHeld DEF y4
<1>26. Holds(data, 0, y2) /\ Holds(data, 0 + 5, x3)
  BY <1>4, <1>7, <1>17, <1>25, EachHeld DEF y3
<1>27. Holds(data, 0 + 1, x2)
  BY <1>4, <1>17, <1>26, EachHeld DEF y2
<1>28. /\ Holds(data, 1, x2) /\ Holds(data, 5, x3) /\ Holds(data, 9, x4)
       /\ Holds(data, p, x8) /\ Holds(data, p + 4, x9)
       /\ 1 \in Nat /\ 5 \in Nat /\ 9 \in Nat /\ p + 4 \in Nat
  <2> HIDE DEF p
  <2> QED  BY <1>16, <1>20, <1>21, <1>25, <1>26, <1>27
<1>29. Number(data, 1, 4) = s.time[1] /\ Number(data, 5, 4) = s.time[2]
  BY <1>2, <1>17, <1>28, NumberHeld DEF x2, x3
<1>30. EndpointsAt(data, 9) = EndpointsOf(s)
  BY <1>17, <1>28, EndpointsHeld DEF x4, Storable
<1>31. Number(data, p, 4) = s.size
  <2> HIDE DEF p
  <2> QED  BY <1>2, <1>16, <1>17, <1>28, NumberHeld DEF x8
<1>32. Number(data, p + 4, 2) = s.pages
  <2> HIDE DEF p
  <2> QED  BY <1>2, <1>17, <1>28, NumberHeld DEF x9
<1>33. Strings(data, 33, 3, 2) =
          [position |-> p, strings |-> <<s.computer, s.user, s.title>>]
  <2> DEFINE strings == <<s.computer, s.user, s.title>>
             at == [i \in 0..3 |-> IF i = 0 THEN 33
                                   ELSE IF i = 1 THEN 33 + (2 + c)
                                   ELSE IF i = 2 THEN 33 + (2 + c) + (2 + u)
                                   ELSE p]
             x == [i \in DOMAIN strings |-> Sized(strings[i], 2)]
  <2>1. /\ strings \in Seq(Words) /\ Len(strings) = 3
        /\ DOMAIN strings = 1..3
        /\ strings[1] = s.computer /\ strings[2] = s.user
        /\ strings[3] = s.title
    BY <1>3
  <2>2. /\ at \in [0..3 -> Nat] /\ at[0] = 33 /\ at[1] = 33 + (2 + c)
        /\ at[2] = 33 + (2 + c) + (2 + u) /\ at[3] = p
    BY <1>3
  <2>3. \A i \in 1..Len(strings) : Fits(strings[i], 2)
    <3> HIDE DEF strings
    <3> QED  BY <1>3, <2>1
  <2>4. Len(x) = 3 /\ x[1] = x5 /\ x[2] = x6 /\ x[3] = x7
    <3> HIDE DEF strings
    <3> QED  BY <2>1 DEF x5, x6, x7
  <2>5. Len(x5) = 2 + c /\ Len(x6) = 2 + u /\ Len(x7) = 2 + t
    BY <1>6 DEF Block
  <2>6. ASSUME NEW i \in 1..3
        PROVE  at[i] = at[i - 1] + Len(x[i]) /\ Holds(data, at[i - 1], x[i])
    <3>1. /\ Holds(data, 33, x5) /\ Holds(data, 33 + (2 + c), x6)
          /\ Holds(data, 33 + (2 + c) + (2 + u), x7)
      BY <1>3, <1>22, <1>23, <1>24
    <3> HIDE DEF at, x, strings
    <3>2. CASE i = 1
      <4>1. i - 1 = 0
        BY <3>2
      <4> QED  BY <2>2, <2>4, <2>5, <3>1, <3>2, <4>1
    <3>3. CASE i = 2
      <4>1. i - 1 = 1
        BY <3>3
      <4> QED  BY <2>2, <2>4, <2>5, <3>1, <3>3, <4>1
    <3>4. CASE i = 3
      <4>1. i - 1 = 2
        BY <3>4
      <4> QED  BY <2>2, <2>4, <2>5, <3>1, <3>4, <4>1
    <3> QED  BY <3>2, <3>3, <3>4
  <2> HIDE DEF at, x, strings, p
  <2>7. Places(data, x, at)
    BY <2>2, <2>4, <2>6 DEF Places
  <2>8. Strings(data, at[0], Len(strings), 2) =
           [position |-> at[Len(strings)], strings |-> strings]
    BY <1>17, <2>1, <2>3, <2>7, StringsRead DEF x
  <2> QED  BY <2>1, <2>2, <2>8 DEF strings
<1>34. Strings(data, 33, 1, 2) =
          [position |-> 35 + c, strings |-> <<s.computer>>]
  <2> DEFINE strings == <<s.computer>>
             at == [i \in 0..1 |-> IF i = 0 THEN 33 ELSE 35 + c]
             x == [i \in DOMAIN strings |-> Sized(strings[i], 2)]
  <2>1. /\ strings \in Seq(Words) /\ Len(strings) = 1
        /\ DOMAIN strings = 1..1 /\ strings[1] = s.computer
    BY <1>3
  <2>2. at \in [0..1 -> Nat] /\ at[0] = 33 /\ at[1] = 35 + c
    BY <1>3
  <2>3. \A i \in 1..Len(strings) : Fits(strings[i], 2)
    <3> HIDE DEF strings
    <3> QED  BY <1>3, <2>1
  <2>4. Len(x) = 1 /\ x[1] = x5 /\ Len(x5) = 2 + c
    <3> HIDE DEF strings
    <3> QED  BY <1>6, <2>1 DEF x5, Block
  <2>5. ASSUME NEW i \in 1..1
        PROVE  at[i] = at[i - 1] + Len(x[i]) /\ Holds(data, at[i - 1], x[i])
    <3>1. i = 1 /\ i - 1 = 0 /\ Holds(data, 33, x5)
      BY <1>24
    <3> HIDE DEF at, x, strings
    <3> QED  BY <1>3, <2>2, <2>4, <3>1
  <2> HIDE DEF at, x, strings, p
  <2>6. Places(data, x, at)
    BY <2>2, <2>4, <2>5 DEF Places
  <2>7. Strings(data, at[0], Len(strings), 2) =
           [position |-> at[Len(strings)], strings |-> strings]
    BY <1>17, <2>1, <2>3, <2>6, StringsRead DEF x
  <2> QED  BY <2>1, <2>2, <2>7 DEF strings
<1> HIDE DEF p
<1>35. /\ Len(data) \in Nat /\ Len(data) = p + 7
       /\ Number(data, 1, 4) = s.time[1] /\ Number(data, 5, 4) = s.time[2]
       /\ EndpointsAt(data, 9) = EndpointsOf(s)
       /\ Strings(data, 33, 3, 2) =
             [position |-> p, strings |-> <<s.computer, s.user, s.title>>]
       /\ Strings(data, 33, 1, 2) =
             [position |-> 35 + c, strings |-> <<s.computer>>]
       /\ Number(data, p, 4) = s.size /\ Number(data, p + 4, 2) = s.pages
  BY <1>17, <1>29, <1>30, <1>31, <1>32, <1>33, <1>34
<1> QED  BY <1>1, <1>35 DEF p, c, u, t

(* What a job is printed as.                                               *)
LEMMA JobPrinted ==
    ASSUME NEW s, Storable(s)
    PROVE  printPJL(PJLRecord(s)) =
              [time |-> s.time, endpoints |-> EndpointsOf(s),
               computer |-> s.computer, user |-> s.user, title |-> s.title,
               size |-> s.size, pages |-> s.pages]
<1> DEFINE data == PJLRecord(s)
           p == 33 + (2 + Len(s.computer)) + (2 + Len(s.user))
                + (2 + Len(s.title))
<1>1. /\ Number(data, 1, 4) = s.time[1]
      /\ Number(data, 5, 4) = s.time[2]
      /\ EndpointsAt(data, 9) = EndpointsOf(s)
      /\ Strings(data, 33, 3, 2) =
            [position |-> p, strings |-> <<s.computer, s.user, s.title>>]
      /\ Number(data, p, 4) = s.size
      /\ Number(data, p + 4, 2) = s.pages
  BY JobHeld
<1>2. s.time = <<s.time[1], s.time[2]>>
  BY DEF Storable
<1> HIDE DEF data, p
<1> QED  BY <1>1, <1>2 DEF printPJL, data

(* So many pages more for a computer, in 16 bits.                          *)
Counted(known, name, n) ==
    [c \in DOMAIN known \cup {name} |->
        ((IF c \in DOMAIN known THEN known[c] ELSE 0)
             + (IF c = name THEN n ELSE 0)) % 65536]

(* And how it is counted.                                                  *)
LEMMA JobCounted ==
    ASSUME NEW s, Storable(s), NEW known
    PROVE  count(known, PJLRecord(s)) = Counted(known, s.computer, s.pages)
<1> DEFINE data == PJLRecord(s)
           p == 33 + (2 + Len(s.computer)) + (2 + Len(s.user))
                + (2 + Len(s.title))
<1>1. /\ Len(data) \in Nat /\ Len(data) = p + 7
      /\ Strings(data, 33, 1, 2) =
            [position |-> 35 + Len(s.computer), strings |-> <<s.computer>>]
      /\ Number(data, p + 4, 2) = s.pages
  BY JobHeld
<1>2. p \in Nat
  <2>1. /\ Len(s.computer) \in Nat /\ Len(s.user) \in Nat
        /\ Len(s.title) \in Nat
    <3>1. /\ s.computer \in Seq(Characters) /\ s.user \in Seq(Characters)
          /\ s.title \in Seq(Characters)
      BY DEF Storable, Words
    <3> QED  BY <3>1, LenProperties
  <2> DEFINE c == Len(s.computer)
             u == Len(s.user)
             t == Len(s.title)
  <2>2. p = 33 + (2 + c) + (2 + u) + (2 + t)
    OBVIOUS
  <2>3. c \in Nat /\ u \in Nat /\ t \in Nat
    BY <2>1
  <2> HIDE DEF c, u, t, p
  <2> QED  BY <2>2, <2>3
<1> HIDE DEF data, p
<1>3. Len(data) - 3 = p + 4
  BY <1>1, <1>2
<1>4. /\ Strings(data, 33, 1, 2).strings[1] = s.computer
      /\ Number(data, Len(data) - 3, 2) = s.pages
  BY <1>1, <1>3
<1> QED  BY <1>4 DEF count, Counted, data

-----------------------------------------------------------------------------

(* What a list of blocks makes is a block.                                 *)
LEMMA FlatIsSeq ==
    ASSUME NEW T, NEW x \in Seq(Seq(T))
    PROVE  FlattenSeq(x) \in Seq(T) /\ Len(FlattenSeq(x)) \in Nat
<1>1. PICK f \in [0..Len(x) -> Seq(T)] : FlattenSeq(x) = f[Len(x)]
  BY Flattening
<1>2. Len(x) \in 0..Len(x)
  BY LenProperties
<1> QED  BY <1>1, <1>2, LenProperties

-----------------------------------------------------------------------------
(* The strings of the headers, names and values.                           *)
Flat(headers) ==
    [j \in 1..(2 * Len(headers)) |->
        headers[(j + 1) \div 2][IF j % 2 = 1 THEN 1 ELSE 2]]

HeaderBytes(headers) ==
    [i \in DOMAIN headers |->
        Sized(headers[i][1], 4) \o Sized(headers[i][2], 4)]

(* The headers are pairs of strings, one after the other.                  *)
LEMMA HeadersRead ==
    ASSUME NEW headers \in Seq(Words \X Words),
           NEW data, Len(data) \in Nat, NEW at,
           Places(data, HeaderBytes(headers), at)
    PROVE  Strings(data, at[0], 2 * Len(headers), 4) =
              [position |-> at[Len(headers)], strings |-> Flat(headers)]
<1> DEFINE N == Len(headers)
           x == HeaderBytes(headers)
           strings == Flat(headers)
           y == [j \in DOMAIN strings |-> Sized(strings[j], 4)]
           half(i) == at[i - 1] + Len(Sized(headers[i][1], 4))
           to == [j \in 0..(2 * N) |->
                     IF j % 2 = 0 THEN at[j \div 2] ELSE half((j + 1) \div 2)]
<1>1. /\ N \in Nat /\ DOMAIN headers = 1..N
      /\ \A i \in 1..N : headers[i] \in Words \X Words
  BY LenProperties, ElementOfSeq
<1>2. Len(x) = N /\ \A i \in 1..N :
         x[i] = Sized(headers[i][1], 4) \o Sized(headers[i][2], 4)
  BY <1>1 DEF HeaderBytes
<1>3. /\ at \in [0..N -> Nat]
      /\ \A i \in 1..N : at[i] = at[i - 1] + Len(x[i])
                         /\ Holds(data, at[i - 1], x[i])
  <2> HIDE DEF x
  <2> QED  BY <1>2 DEF Places, x
<1>4. /\ strings \in Seq(Words) /\ Len(strings) = 2 * N
      /\ DOMAIN strings = 1..(2 * N)
      /\ \A i \in 1..N : /\ strings[2 * i - 1] = headers[i][1]
                         /\ strings[2 * i] = headers[i][2]
  <2>1. \A j \in 1..(2 * N) : (j + 1) \div 2 \in 1..N
    BY <1>1
  <2>2. ASSUME NEW j \in 1..(2 * N)
        PROVE  headers[(j + 1) \div 2][IF j % 2 = 1 THEN 1 ELSE 2] \in Words
    <3> DEFINE h == headers[(j + 1) \div 2]
    <3>1. h \in Words \X Words
      BY <1>1, <2>1
    <3>2. h[1] \in Words /\ h[2] \in Words
      BY <3>1
    <3> QED  BY <3>2
  <2>3. strings \in [1..(2 * N) -> Words] /\ 2 * N \in Nat
    BY <1>1, <2>2 DEF Flat
  <2>4. ASSUME NEW i \in 1..N
        PROVE  /\ strings[2 * i - 1] = headers[i][1]
               /\ strings[2 * i] = headers[i][2]
    <3>0. i \in Nat /\ 1 <= i /\ i <= N /\ N \in Nat
      BY <1>1
    <3>2. 2 * i - 1 \in 1..(2 * N) /\ 2 * i \in 1..(2 * N)
      BY <3>0
    <3>3. ((2 * i - 1) + 1) \div 2 = i /\ (2 * i + 1) \div 2 = i
      BY <3>0
    <3>4. (2 * i - 1) % 2 = 1 /\ (2 * i) % 2 = 0
      BY <3>0
    <3>1. /\ 2 * i - 1 \in 1..(2 * N) /\ 2 * i \in 1..(2 * N)
          /\ ((2 * i - 1) + 1) \div 2 = i /\ (2 * i + 1) \div 2 = i
          /\ (2 * i - 1) % 2 = 1 /\ (2 * i) % 2 = 0
      BY <3>2, <3>3, <3>4
    <3> QED  BY <3>1 DEF Flat
  <2>5. strings \in Seq(Words) /\ Len(strings) = 2 * N
        /\ DOMAIN strings = 1..(2 * N)
    <3> DEFINE M == 2 * N
    <3>1. strings \in [1..M -> Words] /\ M \in Nat
      BY <2>3
    <3> HIDE DEF strings, M
    <3>2. strings \in Seq(Words) /\ Len(strings) = M
          /\ DOMAIN strings = 1..M
      BY <3>1
    <3> QED  BY <3>2 DEF M
  <2> HIDE DEF strings
  <2> QED  BY <2>4, <2>5
<1>5. ASSUME NEW i \in 1..N
      PROVE  /\ half(i) \in Nat
             /\ half(i) = at[i - 1] + Len(Sized(headers[i][1], 4))
             /\ at[i] = half(i) + Len(Sized(headers[i][2], 4))
             /\ Holds(data, at[i - 1], Sized(headers[i][1], 4))
             /\ Holds(data, half(i), Sized(headers[i][2], 4))
  <2> DEFINE a == Sized(headers[i][1], 4)
             b == Sized(headers[i][2], 4)
             n == 4 + Len(headers[i][1])
             m == 4 + Len(headers[i][2])
  <2>1. headers[i][1] \in Words /\ headers[i][2] \in Words
    BY <1>1
  <2>2. Block(a, n) /\ Block(b, m)
    BY <2>1, SizedHeld DEF Fits
  <2>3. x[i] = a \o b
    BY <1>2
  <2> HIDE DEF a, b, n, m
  <2>4. Block(a \o b, n + m) /\ n \in Nat /\ m \in Nat
    BY <2>2, BlockOfBoth
  <2>5. i - 1 \in 0..N /\ i \in 0..N
    BY <1>1
  <2>6. /\ at[i - 1] \in Nat /\ Holds(data, at[i - 1], a \o b)
        /\ at[i] = at[i - 1] + (n + m)
    <3>1. Len(x[i]) = n + m
      BY <2>3, <2>4 DEF Block
    <3> HIDE DEF x
    <3> QED  BY <1>3, <2>3, <2>5, <3>1
  <2>7. Holds(data, at[i - 1], a) /\ Holds(data, at[i - 1] + n, b)
    BY <2>2, <2>6, EachHeld
  <2>8. Len(a) = n /\ Len(b) = m
    BY <2>2 DEF Block
  <2>9. half(i) = at[i - 1] + n
    BY <2>8 DEF a
  <2>10. at[i] = (at[i - 1] + n) + m /\ at[i - 1] + n \in Nat
    BY <2>4, <2>6
  <2> HIDE DEF half
  <2> QED  BY <2>7, <2>8, <2>9, <2>10 DEF a, b
<1>6. ASSUME NEW j \in 1..(2 * N)
      PROVE  to[j] = to[j - 1] + Len(y[j]) /\ Holds(data, to[j - 1], y[j])
  <2> DEFINE i == (j + 1) \div 2
  <2>1. i \in 1..N /\ j \in 0..(2 * N) /\ j - 1 \in 0..(2 * N)
    BY <1>1
  <2>2. y[j] = Sized(strings[j], 4)
    <3> HIDE DEF strings
    <3> QED  BY <1>4
  <2>3. /\ half(i) = at[i - 1] + Len(Sized(headers[i][1], 4))
        /\ at[i] = half(i) + Len(Sized(headers[i][2], 4))
        /\ Holds(data, at[i - 1], Sized(headers[i][1], 4))
        /\ Holds(data, half(i), Sized(headers[i][2], 4))
    <3> HIDE DEF i, half
    <3> QED  BY <1>5, <2>1
  <2>4. CASE j % 2 = 1
    <3>1. j = 2 * i - 1 /\ j % 2 # 0 /\ (j - 1) % 2 = 0
          /\ (j - 1) \div 2 = i - 1
      BY <2>4
    <3>2. to[j] = half(i) /\ to[j - 1] = at[i - 1]
      <4> HIDE DEF half
      <4> QED  BY <2>1, <3>1
    <3>3. strings[j] = headers[i][1]
      <4> HIDE DEF i, strings
      <4> QED  BY <1>4, <2>1, <3>1
    <3> HIDE DEF to, half, y, strings, i
    <3> QED  BY <2>2, <2>3, <3>2, <3>3
  <2>5. CASE j % 2 # 1
    <3>1. j = 2 * i /\ j % 2 = 0 /\ (j - 1) % 2 # 0 /\ j \div 2 = i
          /\ ((j - 1) + 1) \div 2 = i
      BY <2>5
    <3>2. to[j] = at[i] /\ to[j - 1] = half(i)
      <4> HIDE DEF half
      <4> QED  BY <2>1, <3>1
    <3>3. strings[j] = headers[i][2]
      <4> HIDE DEF i, strings
      <4> QED  BY <1>4, <2>1, <3>1
    <3> HIDE DEF to, half, y, strings, i
    <3> QED  BY <2>2, <2>3, <3>2, <3>3
  <2> QED  BY <2>4, <2>5
<1>7. to \in [0..(2 * N) -> Nat]
  <2>1. ASSUME NEW j \in 0..(2 * N)
        PROVE  (IF j % 2 = 0 THEN at[j \div 2] ELSE half((j + 1) \div 2))
                  \in Nat
    <3>1. CASE j % 2 = 0
      <4>1. j \div 2 \in 0..N
        BY <1>1
      <4> QED  BY <1>3, <3>1, <4>1
    <3>2. CASE j % 2 # 0
      <4>1. (j + 1) \div 2 \in 1..N
        <5>1. j \in Nat /\ j <= 2 * N /\ N \in Nat /\ j % 2 = 1
          BY <1>1, <3>2
        <5> HIDE DEF N
        <5> QED  BY <5>1
      <4>2. half((j + 1) \div 2) \in Nat
        <5> HIDE DEF half
        <5> QED  BY <1>5, <4>1
      <4> QED  BY <3>2, <4>2
    <3> QED  BY <3>1, <3>2
  <2> HIDE DEF half
  <2> QED  BY <2>1
<1>8. to[0] = at[0] /\ to[2 * N] = at[N]
  <2>1. /\ 0 \in 0..(2 * N) /\ 0 % 2 = 0 /\ 0 \div 2 = 0
        /\ 2 * N \in 0..(2 * N) /\ (2 * N) % 2 = 0 /\ (2 * N) \div 2 = N
    <3> HIDE DEF N
    <3> QED  BY <1>1
  <2> HIDE DEF half
  <2> QED  BY <2>1
<1> HIDE DEF to, strings, half
<1>9. Len(y) = 2 * N
  BY <1>1, <1>4
<1>10. Places(data, y, to)
  <2> HIDE DEF y
  <2> QED  BY <1>6, <1>7, <1>9 DEF Places
<1>11. \A j \in 1..Len(strings) : Fits(strings[j], 4)
  BY DEF Fits
<1>12. Strings(data, to[0], Len(strings), 4) =
          [position |-> to[Len(strings)], strings |-> strings]
  <2>1. strings \in Seq(Words) /\ Len(data) \in Nat
    BY <1>4
  <2> HIDE DEF y
  <2> QED  BY <1>10, <1>11, <2>1, StringsRead DEF y
<1> QED  BY <1>4, <1>8, <1>12 DEF strings

-----------------------------------------------------------------------------
(* A message is read as it was written.                                    *)
LEMMA MessageHeld ==
    ASSUME NEW m \in HTTPMessage
    PROVE  /\ MessageBytes(m) \in Seq(Byte)
           /\ \A p \in Nat : \A data :
                 Len(data) \in Nat /\ Holds(data, p, MessageBytes(m)) =>
                    MessageAt(data, p) =
                       [position |-> p + Len(MessageBytes(m)), message |-> m]
<1> DEFINE s5 == [i \in DOMAIN m.message |-> Sized(m.message[i], 4)]
           s7 == HeaderBytes(m.headers)
           x1 == Bytes(m.type, 1)
           x2 == Bytes(m.time[1], 4)
           x3 == Bytes(m.time[2], 4)
           x4 == Bytes(Len(m.message), 4)
           x5 == FlattenSeq(s5)
           x6 == Bytes(Len(m.headers), 4)
           x7 == FlattenSeq(s7)
           y2 == x1 \o x2
           y3 == y2 \o x3
           y4 == y3 \o x4
           y5 == y4 \o x5
           y6 == y5 \o x6
           n == Len(x5)
           k == Len(x7)
<1>1. MessageBytes(m) = y6 \o x7
  BY DEF MessageBytes, HeaderBytes
<1>2. /\ m.type \in Nat /\ m.time \in Nat \X Nat
      /\ m.message \in Seq(Words) /\ m.headers \in Seq(Words \X Words)
      /\ m = [type |-> m.type, time |-> m.time, message |-> m.message,
              headers |-> m.headers]
  BY DEF HTTPMessage, REQUEST, RESPONSE
<1>3. /\ m.time[1] \in Nat /\ m.time[2] \in Nat
      /\ m.time = <<m.time[1], m.time[2]>>
      /\ Len(m.message) \in Nat /\ DOMAIN m.message = 1..Len(m.message)
      /\ Len(m.headers) \in Nat /\ DOMAIN m.headers = 1..Len(m.headers)
      /\ 1 \in Nat /\ 4 \in Nat /\ 1 \in Nat \ {0} /\ 4 \in Nat \ {0}
  BY <1>2, LenProperties
<1>4. s5 \in Seq(Seq(Byte)) /\ Len(s5) = Len(m.message)
  <2>1. ASSUME NEW i \in 1..Len(m.message)
        PROVE  Sized(m.message[i], 4) \in Seq(Byte)
    <3>1. m.message[i] \in Words
      BY <1>2, ElementOfSeq
    <3> QED  BY <3>1, SizedHeld DEF Fits, Block
  <2> QED  BY <1>3, <2>1
<1>5. s7 \in Seq(Seq(Byte)) /\ Len(s7) = Len(m.headers)
  <2>1. ASSUME NEW i \in 1..Len(m.headers)
        PROVE  Sized(m.headers[i][1], 4) \o Sized(m.headers[i][2], 4)
                  \in Seq(Byte)
    <3>1. m.headers[i] \in Words \X Words
      BY <1>2, ElementOfSeq
    <3>2. m.headers[i][1] \in Words /\ m.headers[i][2] \in Words
      BY <3>1
    <3>3. /\ Sized(m.headers[i][1], 4) \in Seq(Byte)
          /\ Sized(m.headers[i][2], 4) \in Seq(Byte)
      BY <3>2, SizedHeld DEF Fits, Block
    <3> QED  BY <3>3, ConcatProperties
  <2> QED  BY <1>3, <2>1 DEF HeaderBytes
<1> HIDE DEF s5, s7
<1>6. /\ Block(x1, 1) /\ Block(x2, 4) /\ Block(x3, 4) /\ Block(x4, 4)
      /\ Block(x6, 4)
  BY <1>2, <1>3, BytesAre
<1>7. Block(x5, n) /\ Block(x7, k) /\ n \in Nat /\ k \in Nat
  BY <1>4, <1>5, FlatIsSeq DEF Block
<1> HIDE DEF x1, x2, x3, x4, x5, x6, x7, n, k
<1>8. Block(y2, 5)
  <2>1. Block(y2, 1 + 4)
    BY <1>6, BlockOfBoth
  <2> HIDE DEF y2
  <2> QED  BY <2>1
<1> HIDE DEF y2
<1>9. Block(y3, 9)
  <2>1. Block(y3, 5 + 4)
    BY <1>6, <1>8, BlockOfBoth
  <2> HIDE DEF y3
  <2> QED  BY <2>1
<1> HIDE DEF y3
<1>10. Block(y4, 13)
  <2>1. Block(y4, 9 + 4)
    BY <1>6, <1>9, BlockOfBoth
  <2> HIDE DEF y4
  <2> QED  BY <2>1
<1> HIDE DEF y4
<1>11. Block(y5, 13 + n)
  BY <1>7, <1>10, BlockOfBoth
<1> HIDE DEF y5
<1>12. Block(y6, 13 + n + 4)
  BY <1>6, <1>11, BlockOfBoth
<1> HIDE DEF y6
<1>13. Block(MessageBytes(m), 13 + n + 4 + k)
  BY <1>1, <1>7, <1>12, BlockOfBoth
<1>14. ASSUME NEW p \in Nat, NEW data, Len(data) \in Nat,
              Holds(data, p, MessageBytes(m))
       PROVE  MessageAt(data, p) =
                 [position |-> p + Len(MessageBytes(m)), message |-> m]
  <2>1. Holds(data, p, y6) /\ Holds(data, p + (13 + n + 4), x7)
    <3>1. Holds(data, p, y6 \o x7)
      BY <1>1, <1>14
    <3> QED  BY <1>7, <1>12, <1>14, <3>1, EachHeld
  <2>2. Holds(data, p, y5) /\ Holds(data, p + (13 + n), x6)
    BY <1>6, <1>11, <1>14, <2>1, EachHeld DEF y6
  <2>3. Holds(data, p, y4) /\ Holds(data, p + 13, x5)
    BY <1>7, <1>10, <1>14, <2>2, EachHeld DEF y5
  <2>4. Holds(data, p, y3) /\ Holds(data, p + 9, x4)
    BY <1>6, <1>9, <1>14, <2>3, EachHeld DEF y4
  <2>5. Holds(data, p, y2) /\ Holds(data, p + 5, x3)
    BY <1>6, <1>8, <1>14, <2>4, EachHeld DEF y3
  <2>6. Holds(data, p, x1) /\ Holds(data, p + 1, x2)
    BY <1>6, <1>14, <2>5, EachHeld DEF y2
  <2> DEFINE q == (p + 13) + n
             z == (q + 4) + k
  <2>7. /\ p + 1 \in Nat /\ p + 5 \in Nat /\ p + 9 \in Nat /\ p + 13 \in Nat
        /\ q \in Nat /\ q + 4 \in Nat
        /\ p + (13 + n) = q /\ p + (13 + n + 4) = q + 4
        /\ p + (13 + n + 4 + k) = z
    BY <1>7
  <2>8. Number(data, p, 1) = m.type
    BY <1>2, <1>3, <1>14, <2>6, NumberHeld DEF x1
  <2>9. Number(data, p + 1, 4) = m.time[1]
    <3> DEFINE a == m.time[1]
               l == p + 1
    <3>1. Holds(data, l, Bytes(a, 4)) /\ a \in Nat /\ l \in Nat
      BY <1>3, <2>6, <2>7 DEF x2
    <3> HIDE DEF a, l
    <3>2. Number(data, l, 4) = a
      BY <1>14, <3>1, NumberHeld
    <3> QED  BY <3>2 DEF a, l
  <2>10. Number(data, p + 5, 4) = m.time[2]
    <3> DEFINE a == m.time[2]
               l == p + 5
    <3>1. Holds(data, l, Bytes(a, 4)) /\ a \in Nat /\ l \in Nat
      BY <1>3, <2>5, <2>7 DEF x3
    <3> HIDE DEF a, l
    <3>2. Number(data, l, 4) = a
      BY <1>14, <3>1, NumberHeld
    <3> QED  BY <3>2 DEF a, l
  <2>11. Number(data, p + 9, 4) = Len(m.message)
    BY <1>3, <1>14, <2>4, <2>7, NumberHeld DEF x4
  <2>12. Number(data, q, 4) = Len(m.headers)
    <3> HIDE DEF q
    <3> QED  BY <1>3, <1>14, <2>2, <2>7, NumberHeld DEF x6
  <2>13. Strings(data, p + 13, Len(m.message), 4) =
            [position |-> q, strings |-> m.message]
    <3>1. PICK at : Places(data, s5, at) /\ at[0] = p + 13
                    /\ at[Len(s5)] = (p + 13) + n
      BY <1>4, <1>14, <2>3, <2>7, AllHeld DEF x5, n
    <3>2. \A i \in 1..Len(m.message) : Fits(m.message[i], 4)
      BY DEF Fits
    <3>3. Strings(data, at[0], Len(m.message), 4) =
             [position |-> at[Len(m.message)], strings |-> m.message]
      BY <1>2, <1>14, <3>1, <3>2, StringsRead DEF s5
    <3> QED  BY <1>4, <3>1, <3>3
  <2>14. Strings(data, q + 4, 2 * Len(m.headers), 4) =
            [position |-> z, strings |-> Flat(m.headers)]
    <3>1. Holds(data, q + 4, x7)
      <4> HIDE DEF q
      <4> QED  BY <2>1, <2>7
    <3>2. PICK at : Places(data, s7, at) /\ at[0] = q + 4
                    /\ at[Len(s7)] = (q + 4) + k
      <4> HIDE DEF q
      <4> QED  BY <1>5, <1>14, <2>7, <3>1, AllHeld DEF x7, k
    <3>3. Strings(data, at[0], 2 * Len(m.headers), 4) =
             [position |-> at[Len(m.headers)], strings |-> Flat(m.headers)]
      <4> HIDE DEF q
      <4> QED  BY <1>2, <1>14, <3>2, HeadersRead DEF s7
    <3> HIDE DEF q
    <3> QED  BY <1>5, <3>2, <3>3
  <2>15. [i \in 1..Len(m.headers) |-> <<Flat(m.headers)[2 * i - 1],
                                        Flat(m.headers)[2 * i]>>] = m.headers
    <3> DEFINE h == m.headers
               N == Len(h)
    <3>1. ASSUME NEW i \in 1..N
          PROVE  <<Flat(h)[2 * i - 1], Flat(h)[2 * i]>> = h[i]
      <4>1. h[i] \in Words \X Words /\ N \in Nat
        BY <1>2, <1>3, ElementOfSeq
      <4>2. h[i] = <<h[i][1], h[i][2]>>
        BY <4>1
      <4> HIDE DEF h
      <4>3. /\ 2 * i - 1 \in 1..(2 * N) /\ 2 * i \in 1..(2 * N)
            /\ ((2 * i - 1) + 1) \div 2 = i /\ (2 * i + 1) \div 2 = i
            /\ (2 * i - 1) % 2 = 1 /\ (2 * i) % 2 # 1
        <5> HIDE DEF N
        <5> QED  BY <4>1
      <4>4. Flat(h)[2 * i - 1] = h[i][1] /\ Flat(h)[2 * i] = h[i][2]
        BY <4>3 DEF Flat
      <4> QED  BY <4>2, <4>4
    <3>2. h = [i \in 1..N |-> h[i]]
      BY <1>2, <1>3
    <3> HIDE DEF h, N
    <3>3. [i \in 1..N |-> <<Flat(h)[2 * i - 1], Flat(h)[2 * i]>>]
             = [i \in 1..N |-> h[i]]
      BY <3>1
    <3> QED  BY <3>2, <3>3 DEF h, N
  <2>16. Len(MessageBytes(m)) = 13 + n + 4 + k
    BY <1>13 DEF Block
  <2>17. p + Len(MessageBytes(m)) = z
    BY <2>7, <2>16
  <2> HIDE DEF q, z
  <2>18. MessageAt(data, p) =
            [position |-> z,
             message |-> [type |-> m.type,
                          time |-> <<m.time[1], m.time[2]>>,
                          message |-> m.message,
                          headers |-> [i \in 1..Len(m.headers) |->
                                          <<Flat(m.headers)[2 * i - 1],
                                            Flat(m.headers)[2 * i]>>]]]
    <3> DEFINE H(h, total) ==
                  [i \in 1..total |-> <<h[2 * i - 1], h[2 * i]>>]
               first == Strings(data, p + 13, Number(data, p + 9, 4), 4)
               total == Number(data, first.position, 4)
               rest == Strings(data, first.position + 4, 2 * total, 4)
    <3>1. MessageAt(data, p) =
             [position |-> rest.position,
              message |-> [type |-> Number(data, p, 1),
                           time |-> <<Number(data, p + 1, 4),
                                      Number(data, p + 5, 4)>>,
                           message |-> first.strings,
                           headers |-> H(rest.strings, total)]]
      BY DEF MessageAt
    <3>2. H(Flat(m.headers), Len(m.headers)) =
             [i \in 1..Len(m.headers) |-> <<Flat(m.headers)[2 * i - 1],
                                            Flat(m.headers)[2 * i]>>]
      OBVIOUS
    <3> HIDE DEF H
    <3>3. first = [position |-> q, strings |-> m.message]
      BY <2>11, <2>13
    <3> HIDE DEF first
    <3>4. total = Len(m.headers)
      BY <2>12, <3>3
    <3> HIDE DEF total
    <3>5. rest = [position |-> z, strings |-> Flat(m.headers)]
      BY <2>14, <3>3, <3>4
    <3> HIDE DEF rest
    <3>6. /\ first.strings = m.message /\ rest.position = z
          /\ H(rest.strings, total) = H(Flat(m.headers), Len(m.headers))
      BY <3>3, <3>4, <3>5
    <3> QED  BY <2>8, <2>9, <2>10, <3>1, <3>2, <3>6
  <2>19. MessageAt(data, p) =
            [position |-> z,
             message |-> [type |-> m.type, time |-> m.time,
                          message |-> m.message, headers |-> m.headers]]
    BY <1>3, <2>15, <2>18
  <2> QED  BY <1>2, <2>17, <2>19
<1> QED  BY <1>13, <1>14 DEF Block

-----------------------------------------------------------------------------

(* What a list of empty lists makes is empty.                              *)
LEMMA FlatOfNothing ==
    ASSUME NEW T, NEW x \in Seq(Seq(T)), \A i \in 1..Len(x) : x[i] = <<>>
    PROVE  FlattenSeq(x) = <<>>
<1> DEFINE N == Len(x)
<1>1. PICK f \in [0..N -> Seq(T)] :
         /\ f[0] = <<>>
         /\ \A n \in 1..N : f[n] = f[n - 1] \o x[n]
         /\ FlattenSeq(x) = f[N]
  BY Flattening
<1> DEFINE C == {n \in 0..N : f[n] = <<>>}
<1>2. N \in Nat
  BY LenProperties
<1>3. 0 \in C
  BY <1>1, <1>2
<1>4. ASSUME NEW n \in 1..N, n - 1 \in C
      PROVE  n \in C
  <2>1. f[n] = <<>> \o <<>> /\ n \in 0..N
    <3>1. n \in 1..N /\ n \in 0..N
      BY <1>2
    <3>2. f[n - 1] = <<>> /\ x[n] = <<>> /\ f[n] = f[n - 1] \o x[n]
      BY <1>1, <1>4, <3>1
    <3> HIDE DEF N, C
    <3> QED  BY <3>1, <3>2
  <2>2. <<>> \o <<>> = <<>>
    BY EmptySeq, ConcatEmptySeq
  <2> QED  BY <2>1, <2>2
<1>5. 0..N \subseteq C
  <2> HIDE DEF C, N
  <2> QED  BY <1>2, <1>3, <1>4, FromTheFirst
<1> QED  BY <1>1, <1>2, <1>5

(* One more list comes behind.                                             *)
LEMMA FlatOfOneMore ==
    ASSUME NEW T, NEW x \in Seq(Seq(T)), NEW y \in Seq(T)
    PROVE  FlattenSeq(Append(x, y)) = FlattenSeq(x) \o y
<1> DEFINE N == Len(x)
           z == Append(x, y)
<1>1. /\ z \in Seq(Seq(T)) /\ Len(z) = N + 1 /\ N \in Nat
      /\ \A n \in 1..N : z[n] = x[n]
      /\ z[N + 1] = y
  BY AppendProperties, LenProperties
<1>2. PICK f \in [0..N -> Seq(T)] :
         /\ f[0] = <<>>
         /\ \A n \in 1..N : f[n] = f[n - 1] \o x[n]
         /\ FlattenSeq(x) = f[N]
  BY Flattening
<1> HIDE DEF z
<1>3. PICK g \in [0..Len(z) -> Seq(T)] :
         /\ g[0] = <<>>
         /\ \A n \in 1..Len(z) : g[n] = g[n - 1] \o z[n]
         /\ FlattenSeq(z) = g[Len(z)]
  BY <1>1, Flattening
<1>4. ASSUME NEW n \in 1..N, g[n - 1] = f[n - 1]
      PROVE  g[n] = f[n]
  <2>1. n \in 1..Len(z)
    BY <1>1
  <2> QED  BY <1>1, <1>2, <1>3, <1>4, <2>1
<1>5. \A n \in 0..N : g[n] = f[n]
  <2>1. N \in Nat /\ g[0] = f[0]
    BY <1>1, <1>2, <1>3
  <2> DEFINE C == {n \in 0..N : g[n] = f[n]}
  <2>2. 0 \in C /\ \A n \in 1..N : n - 1 \in C => n \in C
    <3> HIDE DEF N
    <3> QED  BY <1>4, <2>1
  <2>3. 0..N \subseteq C
    <3> HIDE DEF N, C
    <3> QED  BY <2>1, <2>2, FromTheFirst
  <2> QED  BY <2>3
<1>6. N + 1 \in 1..Len(z) /\ (N + 1) - 1 = N /\ N \in 0..N
  BY <1>1
<1>7. g[N + 1] = g[N] \o y
  BY <1>1, <1>3, <1>6
<1> QED  BY <1>1, <1>2, <1>3, <1>5, <1>6, <1>7 DEF z

-----------------------------------------------------------------------------
(* The messages of a record are read one after the other.                  *)
LEMMA MessagesRead ==
    ASSUME NEW all \in Seq(HTTPMessage), NEW data, Len(data) \in Nat,
           Number(data, 26, 4) = Len(all), NEW at, at[0] = 30,
           Places(data, [i \in DOMAIN all |-> MessageBytes(all[i])], at)
    PROVE  Messages(data) = all
<1> DEFINE N == Len(all)
           first(i) == SubSeq(all, 1, i)
           g == [i \in 0..N |-> [position |-> at[i], messages |-> first(i)]]
           Behind(r) == LET next == MessageAt(data, r.position)
                        IN  [position |-> next.position,
                             messages |-> Append(r.messages, next.message)]
           IsOf(read, k) == read = [i \in 0..k |->
                          IF i = 0 THEN [position |-> 30, messages |-> <<>>]
                          ELSE Behind(read[i - 1])]
           Is(read) == IsOf(read, N)
<1>1. N \in Nat /\ DOMAIN all = 1..N /\ \A i \in 1..N : all[i] \in HTTPMessage
  BY LenProperties, ElementOfSeq
<1>2. /\ at \in [0..N -> Nat]
      /\ \A i \in 1..N : /\ at[i] = at[i - 1] + Len(MessageBytes(all[i]))
                         /\ Holds(data, at[i - 1], MessageBytes(all[i]))
  <2> DEFINE x == [i \in DOMAIN all |-> MessageBytes(all[i])]
  <2>1. Len(x) = N /\ \A i \in 1..N : x[i] = MessageBytes(all[i])
    BY <1>1
  <2> HIDE DEF x
  <2> QED  BY <2>1 DEF Places, x
<1>3. ASSUME NEW i \in 1..N
      PROVE  MessageAt(data, at[i - 1]) =
                [position |-> at[i], message |-> all[i]]
  <2>1. i - 1 \in 0..N /\ at[i - 1] \in Nat /\ all[i] \in HTTPMessage
    <3>1. i - 1 \in 0..N
      <4> HIDE DEF N
      <4> QED  BY <1>1
    <3> HIDE DEF N
    <3> QED  BY <1>1, <1>2, <3>1
  <2>2. \A q \in Nat : \A d :
           Len(d) \in Nat /\ Holds(d, q, MessageBytes(all[i])) =>
              MessageAt(d, q) = [position |-> q + Len(MessageBytes(all[i])),
                                 message |-> all[i]]
    BY <2>1, MessageHeld
  <2>3. MessageAt(data, at[i - 1]) =
           [position |-> at[i - 1] + Len(MessageBytes(all[i])),
            message |-> all[i]]
    BY <1>2, <2>1, <2>2
  <2> QED  BY <1>2, <2>3
<1>4. first(0) = <<>> /\ first(N) = all
      /\ \A i \in 1..N : first(i) = Append(first(i - 1), all[i])
  <2>1. first(0) = <<>>
    BY SubSeqEmpty
  <2>2. first(N) = all
    BY SubSeqFull
  <2>3. ASSUME NEW i \in 1..N
        PROVE  first(i) = Append(first(i - 1), all[i])
    <3>1. 1 \in 1..N /\ i \in 1..N
      BY <1>1
    <3>2. first(i) = first(i - 1) \o <<all[i]>>
      BY <3>1, SubSeqRecursiveSecond
    <3>3. first(i - 1) \in Seq(HTTPMessage)
      <4>1. \A j \in 1..(i - 1) : all[j] \in HTTPMessage
        BY <1>1
      <4> QED  BY <1>1, <4>1, SubSeqProperties
    <3> HIDE DEF first
    <3> QED  BY <1>1, <3>2, <3>3, AppendIsConcat
  <2> QED  BY <2>1, <2>2, <2>3
<1>5. Is(g)
  <2>1. ASSUME NEW i \in 0..N
        PROVE  g[i] = IF i = 0 THEN [position |-> 30, messages |-> <<>>]
                      ELSE Behind(g[i - 1])
    <3>1. CASE i = 0
      <4> HIDE DEF first
      <4> QED  BY <1>4, <3>1
    <3>2. CASE i # 0
      <4>1. i \in 1..N /\ i - 1 \in 0..N
        BY <1>1, <3>2
      <4>2. g[i - 1].position = at[i - 1] /\ g[i - 1].messages = first(i - 1)
        <5> HIDE DEF first
        <5> QED  BY <4>1
      <4>3. /\ MessageAt(data, at[i - 1]) =
                  [position |-> at[i], message |-> all[i]]
            /\ first(i) = Append(first(i - 1), all[i])
        BY <1>3, <1>4, <4>1
      <4>4. g[i] = [position |-> at[i], messages |-> first(i)]
        <5> HIDE DEF first
        <5> QED  BY <4>1
      <4> HIDE DEF first, g
      <4> QED  BY <3>2, <4>2, <4>3, <4>4
    <3> QED  BY <3>1, <3>2
  <2>2. g = [i \in 0..N |-> g[i]]
    <3> HIDE DEF first
    <3> QED  OBVIOUS
  <2> HIDE DEF g, Behind
  <2> QED  BY <2>1, <2>2
<1> DEFINE k == Number(data, 26, 4)
           chosen == CHOOSE r : IsOf(r, k)
           read == CHOOSE r : Is(r)
<1>6. Messages(data) = chosen[k].messages
  BY DEF Messages
<1>7. k = N /\ chosen = read
  <2>1. k = N
    OBVIOUS
  <2> HIDE DEF k, IsOf
  <2> QED  BY <2>1
<1>8. Is(read)
  <2> HIDE DEF Is, g
  <2> QED  BY <1>5
<1> HIDE DEF read, k, chosen
<1>9. \A i \in 0..N : read[i] = g[i]
  <2>1. read[0] = g[0]
    <3>1. 0 \in 0..N
      BY <1>1
    <3> HIDE DEF Behind, g
    <3> QED  BY <1>5, <1>8, <3>1
  <2>2. ASSUME NEW i \in 1..N, read[i - 1] = g[i - 1]
        PROVE  read[i] = g[i]
    <3>1. i \in 0..N /\ i # 0
      BY <1>1
    <3>2. read[i] = Behind(read[i - 1]) /\ g[i] = Behind(g[i - 1])
      <4> HIDE DEF Behind, g
      <4> QED  BY <1>5, <1>8, <3>1
    <3> HIDE DEF Behind, g
    <3> QED  BY <2>2, <3>2
  <2> DEFINE C == {i \in 0..N : read[i] = g[i]}
  <2>3. N \in Nat
    BY <1>1
  <2> HIDE DEF N, g, Is, IsOf, first, Behind
  <2>4. 0 \in C /\ \A i \in 1..N : i - 1 \in C => i \in C
    BY <2>1, <2>2, <2>3
  <2>5. 0..N \subseteq C
    <3> HIDE DEF C
    <3> QED  BY <2>3, <2>4, FromTheFirst
  <2> QED  BY <2>5
<1>10. read[N].messages = all
  <2>1. N \in 0..N
    BY <1>1
  <2>2. read[N] = g[N] /\ g[N] = [position |-> at[N], messages |-> first(N)]
    <3> HIDE DEF first
    <3> QED  BY <1>9, <2>1
  <2> HIDE DEF g, first
  <2> QED  BY <1>4, <2>2
<1> HIDE DEF N
<1> QED  BY <1>6, <1>7, <1>10

(* The tools read of a record of the HTTP log module what its session was. *)
LEMMA SessionHeld ==
    ASSUME NEW s \in HTTPSession
    PROVE  /\ EndpointsAt(HTTPRecord(s), 1) = EndpointsOf(s)
           /\ Messages(HTTPRecord(s)) = s.requests \o s.responses
<1> DEFINE req == s.requests
           res == s.responses
           s5 == [i \in DOMAIN req |-> MessageBytes(req[i])]
           s6 == [i \in DOMAIN res |-> MessageBytes(res[i])]
           x1 == Bytes(1, 1)
           x2 == Endpoints(s)
           x3 == Bytes(0, 1)
           x4 == Bytes(Len(req) + Len(res), 4)
           x5 == FlattenSeq(s5)
           x6 == FlattenSeq(s6)
           y2 == x1 \o x2
           y3 == y2 \o x3
           y4 == y3 \o x4
           y5 == y4 \o x5
           data == y5 \o x6
           n == Len(x5)
           k == Len(x6)
<1>1. HTTPRecord(s) = data
  BY DEF HTTPRecord
<1>2. /\ EndpointsOf(s) \in Connection
      /\ req \in Seq(HTTPMessage) /\ res \in Seq(HTTPMessage)
  BY DEF HTTPSession, EndpointsOf, Connection
<1>3. /\ Len(req) \in Nat /\ DOMAIN req = 1..Len(req)
      /\ Len(res) \in Nat /\ DOMAIN res = 1..Len(res)
      /\ \A i \in 1..Len(req) : req[i] \in HTTPMessage
      /\ \A i \in 1..Len(res) : res[i] \in HTTPMessage
  BY <1>2, LenProperties, ElementOfSeq
<1> HIDE DEF req, res
<1>4. /\ Len(req) + Len(res) \in Nat
      /\ 0 \in Nat /\ 1 \in Nat /\ 4 \in Nat \ {0} /\ 4 \in Nat
  BY <1>3
<1>5. s5 \in Seq(Seq(Byte)) /\ Len(s5) = Len(req)
      /\ \A i \in 1..Len(req) : s5[i] = MessageBytes(req[i])
  <2>1. \A i \in 1..Len(req) : MessageBytes(req[i]) \in Seq(Byte)
    BY <1>3, MessageHeld
  <2> QED  BY <1>3, <2>1
<1>6. s6 \in Seq(Seq(Byte)) /\ Len(s6) = Len(res)
      /\ \A i \in 1..Len(res) : s6[i] = MessageBytes(res[i])
  <2>1. \A i \in 1..Len(res) : MessageBytes(res[i]) \in Seq(Byte)
    BY <1>3, MessageHeld
  <2> QED  BY <1>3, <2>1
<1> HIDE DEF s5, s6
<1>7. Block(x1, 1) /\ Block(x3, 1) /\ Block(x4, 4) /\ Block(x2, 24)
  BY <1>2, <1>4, BytesAre, EndpointsHeld
<1>8. Block(x5, n) /\ Block(x6, k) /\ n \in Nat /\ k \in Nat
  BY <1>5, <1>6, FlatIsSeq DEF Block
<1> HIDE DEF x1, x2, x3, x4, x5, x6, n, k
<1>9. Block(y2, 25)
  <2>1. Block(y2, 1 + 24)
    BY <1>7, BlockOfBoth
  <2> HIDE DEF y2
  <2> QED  BY <2>1
<1> HIDE DEF y2
<1>10. Block(y3, 26)
  <2>1. Block(y3, 25 + 1)
    BY <1>7, <1>9, BlockOfBoth
  <2> HIDE DEF y3
  <2> QED  BY <2>1
<1> HIDE DEF y3
<1>11. Block(y4, 30)
  <2>1. Block(y4, 26 + 4)
    BY <1>7, <1>10, BlockOfBoth
  <2> HIDE DEF y4
  <2> QED  BY <2>1
<1> HIDE DEF y4
<1>12. Block(y5, 30 + n)
  BY <1>8, <1>11, BlockOfBoth
<1> HIDE DEF y5
<1>13. Block(data, 30 + n + k)
  BY <1>8, <1>12, BlockOfBoth
<1>14. Len(data) = 30 + n + k /\ Len(data) \in Nat
  <2> HIDE DEF data
  <2> QED  BY <1>8, <1>13 DEF Block
<1>15. Holds(data, 0, y5 \o x6)
  <2>1. Holds(data, 0, data)
    <3> HIDE DEF data
    <3> QED  BY <1>14 DEF Holds
  <2> QED  BY <2>1
<1> HIDE DEF data
<1>16. Holds(data, 0, y5) /\ Holds(data, 0 + (30 + n), x6)
  BY <1>4, <1>8, <1>12, <1>14, <1>15, EachHeld
<1>17. Holds(data, 0, y4) /\ Holds(data, 0 + 30, x5)
  BY <1>4, <1>8, <1>11, <1>14, <1>16, EachHeld DEF y5
<1>18. Holds(data, 0, y3) /\ Holds(data, 0 + 26, x4)
  BY <1>4, <1>7, <1>10, <1>14, <1>17, EachHeld DEF y4
<1>19. Holds(data, 0, y2)
  BY <1>4, <1>7, <1>9, <1>14, <1>18, EachHeld DEF y3
<1>20. Holds(data, 0 + 1, x2)
  BY <1>4, <1>7, <1>14, <1>19, EachHeld DEF y2
<1>21. /\ Holds(data, 1, x2) /\ Holds(data, 26, x4) /\ Holds(data, 30, x5)
       /\ Holds(data, 30 + n, x6)
       /\ 26 \in Nat /\ 30 \in Nat /\ 30 + n \in Nat
  BY <1>8, <1>16, <1>17, <1>18, <1>20
<1>22. EndpointsAt(data, 1) = EndpointsOf(s)
  BY <1>2, <1>4, <1>14, <1>21, EndpointsHeld DEF x2
<1>23. Number(data, 26, 4) = Len(req) + Len(res)
  BY <1>4, <1>14, <1>21, NumberHeld DEF x4
<1>24. PICK a : Places(data, s5, a) /\ a[0] = 30 /\ a[Len(s5)] = 30 + n
  BY <1>5, <1>14, <1>21, AllHeld DEF x5, n
<1>25. PICK b : Places(data, s6, b) /\ b[0] = 30 + n
                /\ b[Len(s6)] = 30 + n + k
  BY <1>6, <1>14, <1>21, AllHeld DEF x6, k
<1> DEFINE N == Len(req)
           M == Len(res)
           all == req \o res
           at == [i \in 0..(N + M) |-> IF i <= N THEN a[i] ELSE b[i - N]]
           x == [i \in DOMAIN all |-> MessageBytes(all[i])]
<1>26. /\ a \in [0..N -> Nat] /\ a[0] = 30 /\ a[N] = 30 + n
       /\ \A i \in 1..N : /\ a[i] = a[i - 1] + Len(MessageBytes(req[i]))
                          /\ Holds(data, a[i - 1], MessageBytes(req[i]))
  BY <1>5, <1>24 DEF Places
<1>27. /\ b \in [0..M -> Nat] /\ b[0] = 30 + n
       /\ \A i \in 1..M : /\ b[i] = b[i - 1] + Len(MessageBytes(res[i]))
                          /\ Holds(data, b[i - 1], MessageBytes(res[i]))
  BY <1>6, <1>25 DEF Places
<1>28. /\ all \in Seq(HTTPMessage) /\ Len(all) = N + M
       /\ \A i \in 1..(N + M) : all[i] = IF i <= N THEN req[i] ELSE res[i - N]
       /\ DOMAIN all = 1..(N + M)
  <2>1. /\ all \in Seq(HTTPMessage) /\ Len(all) = N + M
        /\ \A i \in 1..(N + M) :
              all[i] = IF i <= N THEN req[i] ELSE res[i - N]
    BY <1>2, ConcatProperties DEF req, res
  <2> HIDE DEF all
  <2>2. DOMAIN all = 1..Len(all)
    BY <2>1, LenProperties
  <2> QED  BY <2>1, <2>2
<1> HIDE DEF all
<1>29. N \in Nat /\ M \in Nat
  BY <1>3
<1> HIDE DEF N, M
<1>30. at \in [0..(N + M) -> Nat] /\ at[0] = 30
  <2>1. ASSUME NEW i \in 0..(N + M)
        PROVE  (IF i <= N THEN a[i] ELSE b[i - N]) \in Nat
    <3>1. (i <= N => i \in 0..N) /\ (~(i <= N) => i - N \in 0..M)
      BY <1>29
    <3> QED  BY <1>26, <1>27, <3>1
  <2>2. 0 \in 0..(N + M) /\ 0 <= N
    BY <1>29
  <2> QED  BY <1>26, <2>1, <2>2
<1>31. ASSUME NEW i \in 1..(N + M)
       PROVE  at[i] = at[i - 1] + Len(x[i]) /\ Holds(data, at[i - 1], x[i])
  <2>1. i \in 0..(N + M) /\ i - 1 \in 0..(N + M)
    BY <1>29
  <2>2. x[i] = MessageBytes(all[i])
    BY <1>28
  <2>3. CASE i <= N
    <3>1. i \in 1..N /\ i - 1 <= N
      BY <1>29, <2>3
    <3>2. at[i] = a[i] /\ at[i - 1] = a[i - 1] /\ all[i] = req[i]
      BY <1>28, <2>1, <2>3, <3>1
    <3> HIDE DEF at, x
    <3> QED  BY <1>26, <2>2, <3>1, <3>2
  <2>4. CASE ~(i <= N)
    <3>1. i - N \in 1..M /\ (i - 1) - N = (i - N) - 1
      BY <1>29, <2>4
    <3>2. at[i] = b[i - N] /\ all[i] = res[i - N]
      BY <1>28, <2>1, <2>4
    <3>3. at[i - 1] = b[(i - N) - 1]
      <4>1. CASE i - 1 <= N
        <5>1. i - 1 = N /\ (i - N) - 1 = 0
          BY <1>29, <2>4, <4>1
        <5>2. at[i - 1] = a[N]
          BY <2>1, <4>1, <5>1
        <5> QED  BY <1>26, <1>27, <5>1, <5>2
      <4>2. CASE ~(i - 1 <= N)
        BY <2>1, <3>1, <4>2
      <4> QED  BY <4>1, <4>2
    <3> HIDE DEF at, x
    <3> QED  BY <1>27, <2>2, <3>1, <3>2, <3>3
  <2> QED  BY <2>3, <2>4
<1>32. Len(x) = N + M
  BY <1>28, <1>29
<1> HIDE DEF at, x
<1>33. Places(data, x, at)
  BY <1>30, <1>31, <1>32 DEF Places
<1>34. Messages(data) = all
  <2>1. Number(data, 26, 4) = Len(all)
    BY <1>23, <1>28 DEF N, M
  <2> QED  BY <1>14, <1>28, <1>30, <1>33, <2>1, MessagesRead DEF x
<1> QED  BY <1>1, <1>22, <1>34 DEF all, req, res

(* And dumpHTTP prints those of its messages that it should.               *)
LEMMA SessionPrinted ==
    ASSUME NEW s \in HTTPSession, NEW sought, NEW wanted,
           \A m \in ToSet(s.requests \o s.responses) :
              <<s, m>> \in wanted <=> /\ SessionWanted(EndpointsOf(s), sought)
                                      /\ MessageWanted(m, sought)
    PROVE  LET all == s.requests \o s.responses
               printed == [i \in DOMAIN all |->
                              IF <<s, all[i]>> \in wanted
                              THEN <<<<EndpointsOf(s), all[i]>>>> ELSE <<>>]
           IN  /\ printHTTP(HTTPRecord(s), sought) = FlattenSeq(printed)
               /\ printed \in Seq(Seq({EndpointsOf(s)} \X HTTPMessage))
<1> DEFINE all == s.requests \o s.responses
           e == EndpointsOf(s)
           T == {e} \X HTTPMessage
           printed == [i \in DOMAIN all |-> IF <<s, all[i]>> \in wanted
                                            THEN <<<<e, all[i]>>>> ELSE <<>>]
           given == [i \in DOMAIN all |-> IF MessageWanted(all[i], sought)
                                          THEN <<<<e, all[i]>>>> ELSE <<>>]
<1>1. /\ EndpointsAt(HTTPRecord(s), 1) = e
      /\ Messages(HTTPRecord(s)) = all
  BY SessionHeld
<1>2. printHTTP(HTTPRecord(s), sought) =
         IF ~SessionWanted(e, sought) THEN <<>> ELSE FlattenSeq(given)
  <2> DEFINE Shown(k, a) ==
                IF ~SessionWanted(k, sought) THEN <<>>
                ELSE FlattenSeq([i \in DOMAIN a |->
                                    IF MessageWanted(a[i], sought)
                                    THEN <<<<k, a[i]>>>> ELSE <<>>])
  <2>1. printHTTP(HTTPRecord(s), sought) =
           Shown(EndpointsAt(HTTPRecord(s), 1), Messages(HTTPRecord(s)))
    BY DEF printHTTP
  <2>2. Shown(e, all) =
           IF ~SessionWanted(e, sought) THEN <<>> ELSE FlattenSeq(given)
    OBVIOUS
  <2> HIDE DEF Shown, all, e, given
  <2> QED  BY <1>1, <2>1, <2>2
<1>3. /\ all \in Seq(HTTPMessage) /\ Len(all) \in Nat
      /\ DOMAIN all = 1..Len(all)
      /\ \A i \in 1..Len(all) : all[i] \in HTTPMessage
  <2>1. s.requests \in Seq(HTTPMessage) /\ s.responses \in Seq(HTTPMessage)
    BY DEF HTTPSession
  <2>2. all \in Seq(HTTPMessage)
    BY <2>1, ConcatProperties
  <2> HIDE DEF all
  <2> QED  BY <2>2, LenProperties, ElementOfSeq
<1>4. \A i \in DOMAIN all :
         <<s, all[i]>> \in wanted <=> /\ SessionWanted(e, sought)
                                      /\ MessageWanted(all[i], sought)
  BY DEF ToSet
<1> HIDE DEF all, e
<1>5. printed \in Seq(Seq(T)) /\ Len(printed) = Len(all)
  <2>1. ASSUME NEW i \in 1..Len(all)
        PROVE  (IF <<s, all[i]>> \in wanted
                THEN <<<<e, all[i]>>>> ELSE <<>>) \in Seq(T)
    <3>1. <<e, all[i]>> \in T
      BY <1>3
    <3>2. <<<<e, all[i]>>>> \in Seq(T) /\ <<>> \in Seq(T)
      BY <3>1
    <3> QED  BY <3>2
  <2> HIDE DEF T
  <2> QED  BY <1>3, <2>1
<1>6. CASE SessionWanted(e, sought)
  <2>1. \A i \in DOMAIN all :
           <<s, all[i]>> \in wanted <=> MessageWanted(all[i], sought)
    BY <1>4, <1>6
  <2>2. printed = given
    BY <2>1
  <2> HIDE DEF printed, given, T
  <2> QED  BY <1>2, <1>5, <1>6, <2>2 DEF printed, all, e, T
<1>7. CASE ~SessionWanted(e, sought)
  <2>1. \A i \in 1..Len(printed) : printed[i] = <<>>
    BY <1>3, <1>4, <1>5, <1>7
  <2> HIDE DEF printed, given, T
  <2>2. FlattenSeq(printed) = <<>>
    BY <1>5, <2>1, FlatOfNothing
  <2> QED  BY <1>2, <1>5, <1>7, <2>2 DEF printed, all, e, T
<1> QED  BY <1>6, <1>7

-----------------------------------------------------------------------------
(* The places of a symbol, and where a line begins.                        *)
LEMMA LineStartIs ==
    ASSUME NEW T, NEW text \in Seq(T), NEW e \in Nat \ {0}
    PROVE  /\ LineStart(text, e) \in {0} \cup Positions(text, "\n")
           /\ LineStart(text, e) \in Nat /\ LineStart(text, e) < e
           /\ \A d \in Positions(text, "\n") :
                 d < e => d <= LineStart(text, e)
           /\ Positions(text, "\n") \subseteq 1..Len(text)
           /\ IsFiniteSet(Positions(text, "\n"))
           /\ Len(text) \in Nat
<1> DEFINE P == Positions(text, "\n")
           S == {0} \cup {d \in P : d < e}
<1>1. Len(text) \in Nat /\ P \subseteq 1..Len(text)
  BY LenProperties DEF Positions
<1>2. IsFiniteSet(P)
  <2>1. IsFiniteSet(1..Len(text))
    BY <1>1, FS_Interval
  <2> HIDE DEF P
  <2> QED  BY <1>1, <2>1, FS_Subset
<1> HIDE DEF P
<1>3. S \subseteq 0..(e - 1) /\ S # {} /\ e - 1 \in Nat
  <2>1. \A d \in P : d \in Nat
    BY <1>1
  <2>2. ASSUME NEW d \in S
        PROVE  d \in 0..(e - 1)
    BY <2>1
  <2>3. 0 \in S
    OBVIOUS
  <2> HIDE DEF S
  <2> QED  BY <2>2, <2>3
<1>4. Max(S) \in S /\ \A d \in S : d <= Max(S)
  <2> HIDE DEF S
  <2> QED  BY <1>3, LastOf
<1>5. LineStart(text, e) = Max(S)
  BY DEF LineStart, P
<1>6. Max(S) \in {0} \cup P /\ Max(S) \in Nat /\ Max(S) < e
      /\ \A d \in P : d < e => d <= Max(S)
  <2> DEFINE m == Max(S)
  <2>1. m \in S /\ \A d \in S : d <= m
    BY <1>4
  <2> HIDE DEF m
  <2>2. m \in 0..(e - 1)
    <3> HIDE DEF S
    <3> QED  BY <1>3, <2>1
  <2>3. \A d \in P : d < e => d \in S
    OBVIOUS
  <2>4. m \in {0} \cup P
    BY <2>1
  <2> HIDE DEF S
  <2>5. m \in Nat /\ m < e
    BY <2>2
  <2>6. \A d \in P : d < e => d <= m
    BY <2>1, <2>3
  <2> QED  BY <2>4, <2>5, <2>6 DEF m
<1> HIDE DEF S
<1> QED  BY <1>1, <1>2, <1>5, <1>6 DEF P

(* It is there and nowhere else.                                           *)
LEMMA LineStartOnly ==
    ASSUME NEW T, NEW text \in Seq(T), NEW e \in Nat \ {0},
           NEW s \in {0} \cup Positions(text, "\n"), s < e,
           \A d \in Positions(text, "\n") : ~(s < d /\ d < e)
    PROVE  LineStart(text, e) = s
<1> DEFINE l == LineStart(text, e)
           P == Positions(text, "\n")
<1>1. /\ l \in {0} \cup P /\ l \in Nat /\ l < e
      /\ \A d \in P : d < e => d <= l
      /\ P \subseteq 1..Len(text) /\ Len(text) \in Nat
  BY LineStartIs
<1>2. s \in {0} \cup P /\ \A d \in P : ~(s < d /\ d < e)
  OBVIOUS
<1> HIDE DEF l, P
<1>3. s \in Nat /\ \A d \in P : d \in Nat /\ d > 0
  BY <1>1, <1>2
<1>4. s <= l
  BY <1>1, <1>2, <1>3
<1>5. ~(s < l)
  BY <1>1, <1>2, <1>3
<1> QED  BY <1>1, <1>3, <1>4, <1>5 DEF l

-----------------------------------------------------------------------------
(* What a line gives to a job.                                             *)
Gives(line) ==
    [computer |-> variable(line, "PCNAME"),
     user |-> variable(line, "USERNAME"), title |-> titleOf(line)]

(* A line gives one thing at most.                                         *)
LEMMA LineGivesOne ==
    ASSUME NEW line
    PROVE  LET g == Gives(line)
           IN  /\ g.computer # <<>> => /\ g.user = <<>> /\ g.title = <<>>
                                       /\ ~Begins(line, "%%Title:")
                                       /\ ~Begins(line, "%%Page:")
               /\ g.user # <<>> => /\ g.title = <<>>
                                   /\ ~Begins(line, "%%Title:")
                                   /\ ~Begins(line, "%%Page:")
               /\ Begins(line, "%%Title:") => ~Begins(line, "%%Page:")
               /\ g.title = IF Begins(line, "%%Title:")
                            THEN SubSeq(line, 3, Len(line)) ELSE <<>>
<1> DEFINE c == variable(line, "PCNAME")
           u == variable(line, "USERNAME")
           Search(name) == <<"@PJL SET ", name, "=", "\"">>
<1>1. ASSUME NEW name, IsPrefix(Search(name), line)
      PROVE  line[1] = "@PJL SET " /\ line[2] = name
  <2> DEFINE s == Search(name)
             a == SubSeq(s, 1, Len(s))
             b == SubSeq(line, 1, Len(s))
  <2>1. Len(s) = 4 /\ s[1] = "@PJL SET " /\ s[2] = name
    OBVIOUS
  <2>2. a = b
    BY <1>1 DEF IsPrefix
  <2> HIDE DEF s
  <2>3. /\ a[1] = s[1] /\ a[2] = s[2] /\ b[1] = line[1] /\ b[2] = line[2]
    <3> DEFINE U == {s[i] : i \in 1..4} \cup {line[i] : i \in 1..4}
    <3>1. \A i \in 1..4 : s[i] \in U /\ line[i] \in U
      OBVIOUS
    <3> HIDE DEF U
    <3>2. /\ \A i \in 1..(4 - 1 + 1) : SubSeq(s, 1, 4)[i] = s[1 + i - 1]
          /\ \A i \in 1..(4 - 1 + 1) : SubSeq(line, 1, 4)[i] = line[1 + i - 1]
      BY <3>1, SubSeqProperties
    <3>3. a = SubSeq(s, 1, 4) /\ b = SubSeq(line, 1, 4)
      BY <2>1
    <3>4. 1 \in 1..(4 - 1 + 1) /\ 1 + 1 - 1 = 1
          /\ 2 \in 1..(4 - 1 + 1) /\ 1 + 2 - 1 = 2
      OBVIOUS
    <3> HIDE DEF a, b
    <3> QED  BY <3>2, <3>3, <3>4
  <2> HIDE DEF a, b
  <2> QED  BY <2>1, <2>2, <2>3
<1>2. c # <<>> => line[1] = "@PJL SET " /\ line[2] = "PCNAME"
  BY <1>1 DEF variable
<1>3. u # <<>> => line[1] = "@PJL SET " /\ line[2] = "USERNAME"
  BY <1>1 DEF variable
<1> HIDE DEF c, u
<1>4. /\ Gives(line).computer = c /\ Gives(line).user = u
      /\ Gives(line).title = titleOf(line)
  BY DEF Gives, c, u
<1> QED  BY <1>2, <1>3, <1>4 DEF Begins, titleOf

(* The words a line gives are words.                                       *)
LEMMA GivenAreWords ==
    ASSUME NEW line \in Words
    PROVE  Gives(line) \in [computer : Words, user : Words, title : Words]
<1>1. Len(line) \in Nat /\ \A i \in 1..Len(line) : line[i] \in Characters
      /\ DOMAIN line = 1..Len(line)
  BY LenProperties, ElementOfSeq DEF Words
<1>2. ASSUME NEW a \in Nat \ {0}, NEW b \in Int, b <= Len(line)
      PROVE  SubSeq(line, a, b) \in Words
  <2>1. \A i \in a..b : line[i] \in Characters
    BY <1>1, <1>2
  <2> QED  BY <2>1, SubSeqProperties DEF Words
<1>3. ASSUME NEW name
      PROVE  variable(line, name) \in Words
  <2> DEFINE quote == "\""
             search == <<"@PJL SET ", name, "=", quote>>
             Q == Positions(line, quote)
             end == Max(Q)
  <2>0. variable(line, name) =
           IF ~IsPrefix(search, line) THEN <<>>
           ELSE IF end = Len(search)
                THEN SubSeq(line, Len(search) + 1, Len(line))
                ELSE SubSeq(line, Len(search) + 1, end - 1)
    BY DEF variable
  <2> HIDE DEF quote
  <2>1. Len(search) = 4 /\ search[4] = quote
    OBVIOUS
  <2>2. CASE ~IsPrefix(search, line)
    <3>1. variable(line, name) = <<>>
      BY <2>0, <2>2
    <3> QED  BY <3>1, EmptySeq DEF Words
  <2>3. CASE IsPrefix(search, line)
    <3>1. Len(search) <= Len(line)
          /\ SubSeq(search, 1, Len(search)) = SubSeq(line, 1, Len(search))
      BY <2>3 DEF IsPrefix
    <3>2. line[4] = quote /\ 4 \in 1..Len(line)
      <4> DEFINE a == SubSeq(search, 1, Len(search))
                 b == SubSeq(line, 1, Len(search))
      <4> HIDE DEF search
      <4>1. a[4] = search[4] /\ b[4] = line[4]
        <5> DEFINE U == {search[i] : i \in 1..4} \cup {line[i] : i \in 1..4}
        <5>1. \A i \in 1..4 : search[i] \in U /\ line[i] \in U
          OBVIOUS
        <5> HIDE DEF U
        <5>2. /\ \A i \in 1..(4 - 1 + 1) :
                    SubSeq(search, 1, 4)[i] = search[1 + i - 1]
              /\ \A i \in 1..(4 - 1 + 1) :
                    SubSeq(line, 1, 4)[i] = line[1 + i - 1]
          BY <5>1, SubSeqProperties
        <5>3. a = SubSeq(search, 1, 4) /\ b = SubSeq(line, 1, 4)
          BY <2>1
        <5>4. 4 \in 1..(4 - 1 + 1) /\ 1 + 4 - 1 = 4
          OBVIOUS
        <5> HIDE DEF a, b
        <5> QED  BY <5>2, <5>3, <5>4
      <4>2. 4 \in 1..Len(line)
        <5>1. 4 <= Len(line)
          BY <2>1, <3>1
        <5> QED  BY <1>1, <5>1
      <4> HIDE DEF a, b
      <4> QED  BY <2>1, <3>1, <4>1, <4>2 DEF a, b
    <3>3. Q # {} /\ Q \subseteq 0..Len(line)
      <4>1. \A i : i \in Q <=> i \in 1..Len(line) /\ line[i] = quote
        BY <1>1 DEF Positions
      <4> HIDE DEF Q
      <4>2. 4 \in Q
        BY <3>2, <4>1
      <4>3. \A i \in Q : i \in 0..Len(line)
        <5>1. \A i \in 1..Len(line) : i \in 0..Len(line)
          BY <1>1
        <5> QED  BY <4>1, <5>1
      <4> QED  BY <4>2, <4>3
    <3>4. end \in Q /\ end \in 0..Len(line)
      <4> HIDE DEF Q
      <4> QED  BY <1>1, <3>3, LastOf
    <3>5. variable(line, name) =
             IF end = 4 THEN SubSeq(line, 5, Len(line))
             ELSE SubSeq(line, 5, end - 1)
      <4>1. variable(line, name) =
               IF end = Len(search)
               THEN SubSeq(line, Len(search) + 1, Len(line))
               ELSE SubSeq(line, Len(search) + 1, end - 1)
        BY <2>0, <2>3
      <4>2. Len(search) + 1 = 5
        BY <2>1
      <4> HIDE DEF search, end
      <4> QED  BY <2>1, <4>1, <4>2
    <3> HIDE DEF Q, end
    <3>6. end - 1 \in Int /\ end - 1 <= Len(line) /\ Len(line) \in Int
          /\ 5 \in Nat \ {0}
      BY <1>1, <3>4
    <3>7. SubSeq(line, 5, Len(line)) \in Words
      BY <1>1, <1>2, <3>6
    <3>8. SubSeq(line, 5, end - 1) \in Words
      BY <1>2, <3>6
    <3> QED  BY <3>5, <3>7, <3>8
  <2> QED  BY <2>2, <2>3
<1>4. titleOf(line) \in Words
  <2>1. SubSeq(line, 3, Len(line)) \in Words
    BY <1>1, <1>2
  <2>2. <<>> \in Words
    BY EmptySeq DEF Words
  <2> QED  BY <2>1, <2>2 DEF titleOf
<1> QED  BY <1>3, <1>4 DEF Gives

-----------------------------------------------------------------------------

(* What the lines that end at E give to a job: of each kind the first, and *)
(* the number of pages.                                                    *)
Names == {"computer", "user", "title"}

GivenIn(text, E, name) == {e \in E : Gives(Line(text, e))[name] # <<>>}

FirstOf(text, E, name) ==
    IF GivenIn(text, E, name) = {} THEN <<>>
    ELSE Gives(Line(text, Min(GivenIn(text, E, name))))[name]

PagesIn(text, E) == Cardinality({e \in E : Begins(Line(text, e), "%%Page:")})

(* One line more, after the others.                                        *)
Follows(e, E) == E \subseteq Nat /\ e \in Nat /\ \A d \in E : d < e

(* One line more: the first value stays, if there is one.                  *)
LEMMA FirstOfOneMore ==
    ASSUME NEW text, NEW E, NEW e, Follows(e, E), NEW name
    PROVE  FirstOf(text, E \cup {e}, name) =
              IF FirstOf(text, E, name) # <<>> THEN FirstOf(text, E, name)
              ELSE Gives(Line(text, e))[name]
<1> DEFINE v(d) == Gives(Line(text, d))[name]
           G == {d \in E : v(d) # <<>>}
           F == E \cup {e}
           H == {d \in F : v(d) # <<>>}
<1>1. /\ FirstOf(text, E, name) = IF G = {} THEN <<>> ELSE v(Min(G))
      /\ FirstOf(text, F, name) = IF H = {} THEN <<>> ELSE v(Min(H))
  BY DEF FirstOf, GivenIn
<1>2. H = IF v(e) # <<>> THEN G \cup {e} ELSE G
  OBVIOUS
<1>3. G \subseteq Nat /\ H \subseteq Nat /\ (\A d \in G : d < e /\ v(d) # <<>>)
      /\ e \in Nat
  BY DEF Follows
<1> HIDE DEF v, G, H
<1>4. CASE G = {}
  <2>1. CASE v(e) # <<>>
    <3>1. H = {e}
      BY <1>2, <1>4, <2>1
    <3>2. Min(H) \in H
      BY <1>3, <3>1, LeastOf
    <3> QED  BY <1>1, <1>4, <3>1, <3>2 DEF v
  <2>2. CASE v(e) = <<>>
    BY <1>1, <1>2, <1>4, <2>2 DEF v
  <2> QED  BY <2>1, <2>2
<1>5. CASE G # {}
  <2>1. Min(G) \in G /\ \A d \in G : Min(G) <= d
    BY <1>3, <1>5, LeastOf
  <2>2. H # {}
    BY <1>2, <1>5
  <2>3. Min(H) \in H /\ \A d \in H : Min(H) <= d
    BY <1>3, <2>2, LeastOf
  <2> DEFINE m == Min(G)
             k == Min(H)
  <2>4. m \in G /\ m \in Nat /\ (\A d \in G : m <= d) /\ m < e /\ m \in H
    BY <1>2, <1>3, <2>1
  <2>5. k \in H /\ k \in Nat /\ (\A d \in H : k <= d)
    BY <1>3, <2>3
  <2> HIDE DEF m, k
  <2>6. k <= m
    BY <2>4, <2>5
  <2>7. k # e
    BY <1>3, <2>4, <2>5, <2>6
  <2>8. k \in G
    BY <1>2, <2>5, <2>7
  <2>9. k = m
    BY <2>4, <2>5, <2>6, <2>8
  <2>10. v(m) # <<>>
    BY <1>3, <2>4
  <2>11. FirstOf(text, E, name) = v(m) /\ FirstOf(text, F, name) = v(m)
    BY <1>1, <1>5, <2>2, <2>9 DEF m, k
  <2> QED  BY <2>10, <2>11
<1> QED  BY <1>4, <1>5

(* And there is one page more, if it is a page.                            *)
LEMMA PagesInOneMore ==
    ASSUME NEW text, NEW E, IsFiniteSet(E), NEW e, e \notin E
    PROVE  /\ PagesIn(text, E) \in Nat
           /\ PagesIn(text, E \cup {e}) =
                 PagesIn(text, E)
                 + (IF Begins(Line(text, e), "%%Page:") THEN 1 ELSE 0)
<1> DEFINE b(d) == Begins(Line(text, d), "%%Page:")
           G == {d \in E : b(d)}
           F == E \cup {e}
           H == {d \in F : b(d)}
<1>1. PagesIn(text, E) = Cardinality(G) /\ PagesIn(text, F) = Cardinality(H)
  BY DEF PagesIn
<1>2. H = IF b(e) THEN G \cup {e} ELSE G
  OBVIOUS
<1>3. G \subseteq E /\ e \notin G
  OBVIOUS
<1> HIDE DEF G, H, b
<1>4. IsFiniteSet(G)
  BY <1>3, FS_Subset
<1>5. Cardinality(G) \in Nat /\ Cardinality(G \cup {e}) = Cardinality(G) + 1
  BY <1>3, <1>4, FS_CardinalityType, FS_AddElement
<1> QED  BY <1>1, <1>2, <1>5 DEF b

-----------------------------------------------------------------------------
(* A session that the lines that end at E have been parsed for.            *)
JobFrom(text, E, line, size) ==
    [line |-> line, computer |-> FirstOf(text, E, "computer"),
     user |-> FirstOf(text, E, "user"), title |-> FirstOf(text, E, "title"),
     pages |-> PagesIn(text, E) % 65536, size |-> size]

(* parse() goes on with the next.                                          *)
LEMMA LineParsed ==
    ASSUME NEW text, NEW E, IsFiniteSet(E), NEW e, Follows(e, E),
           NEW line, NEW rest,
           line \o rest = Line(text, e), NEW size
    PROVE  LineEnds(JobFrom(text, E, line, size), rest) =
              JobFrom(text, E \cup {e}, <<>>, size)
<1> DEFINE l == Line(text, e)
           g == Gives(l)
           F == E \cup {e}
           n == PagesIn(text, E)
           c == FirstOf(text, E, "computer")
           u == FirstOf(text, E, "user")
           t == FirstOf(text, E, "title")
           job == [line |-> l, computer |-> c, user |-> u, title |-> t,
                   pages |-> n % 65536, size |-> size]
           page == Begins(l, "%%Page:")
           head == Begins(l, "%%Title:")
<1>1. [JobFrom(text, E, line, size) EXCEPT !.line = @ \o rest] = job
  <2> DEFINE p == n % 65536
  <2>1. JobFrom(text, E, line, size) =
           [line |-> line, computer |-> c, user |-> u, title |-> t,
            pages |-> p, size |-> size]
    BY DEF JobFrom
  <2> HIDE DEF c, u, t, p
  <2>2. line \o rest = l
    OBVIOUS
  <2> HIDE DEF l
  <2>3. [JobFrom(text, E, line, size) EXCEPT !.line = @ \o rest] =
           [line |-> l, computer |-> c, user |-> u, title |-> t,
            pages |-> p, size |-> size]
    <3> DEFINE j == [line |-> line, computer |-> c, user |-> u, title |-> t,
                     pages |-> p, size |-> size]
    <3>1. j.line \o rest = l
      BY <2>2
    <3>2. [j EXCEPT !.line = l] =
             [line |-> l, computer |-> c, user |-> u, title |-> t,
              pages |-> p, size |-> size]
      OBVIOUS
    <3>3. JobFrom(text, E, line, size) = j
      BY <2>1
    <3> HIDE DEF j
    <3> QED  BY <3>1, <3>2, <3>3
  <2> QED  BY <2>3 DEF p
<1>2. e \notin E
  <2>1. e \in Nat /\ \A d \in E : d \in Nat /\ d < e
    BY DEF Follows
  <2> QED  BY <2>1
<1>3. /\ FirstOf(text, F, "computer") = IF c # <<>> THEN c ELSE g.computer
      /\ FirstOf(text, F, "user") = IF u # <<>> THEN u ELSE g.user
      /\ FirstOf(text, F, "title") = IF t # <<>> THEN t ELSE g.title
  <2>1. ASSUME NEW name
        PROVE  FirstOf(text, E \cup {e}, name) =
                  IF FirstOf(text, E, name) # <<>> THEN FirstOf(text, E, name)
                  ELSE Gives(Line(text, e))[name]
    BY FirstOfOneMore
  <2> QED  BY <2>1
<1>4. n \in Nat /\ PagesIn(text, F) = n + (IF page THEN 1 ELSE 0)
  BY <1>2, PagesInOneMore
<1>5. /\ g.computer = variable(l, "PCNAME")
      /\ g.user = variable(l, "USERNAME") /\ g.title = titleOf(l)
  BY DEF Gives
<1>6. /\ g.computer # <<>> => /\ g.user = <<>> /\ g.title = <<>>
                              /\ ~head /\ ~page
      /\ g.user # <<>> => g.title = <<>> /\ ~head /\ ~page
      /\ head => ~page
      /\ g.title = IF head THEN SubSeq(l, 3, Len(l)) ELSE <<>>
  BY LineGivesOne
<1>7. LineEnds(JobFrom(text, E, line, size), rest) =
         [parse(job) EXCEPT !.line = <<>>]
  <2> DEFINE j == JobFrom(text, E, line, size)
             k == [j EXCEPT !.line = @ \o rest]
  <2>1. LineEnds(j, rest) = [parse(k) EXCEPT !.line = <<>>]
    BY DEF LineEnds
  <2>2. k = job
    BY <1>1
  <2> HIDE DEF j, k, job
  <2> QED  BY <2>1, <2>2 DEF j
<1>8. JobFrom(text, F, <<>>, size) =
         [line |-> <<>>,
          computer |-> IF c # <<>> THEN c ELSE g.computer,
          user |-> IF u # <<>> THEN u ELSE g.user,
          title |-> IF t # <<>> THEN t ELSE g.title,
          pages |-> (n + (IF page THEN 1 ELSE 0)) % 65536, size |-> size]
  BY <1>3, <1>4 DEF JobFrom
<1>9. parse(job) =
         IF c = <<>> /\ g.computer # <<>>
         THEN [job EXCEPT !.computer = g.computer]
         ELSE IF u = <<>> /\ g.user # <<>>
              THEN [job EXCEPT !.user = g.user]
         ELSE IF t = <<>> /\ head
              THEN [job EXCEPT !.title = SubSeq(l, 3, Len(l))]
         ELSE IF page THEN [job EXCEPT !.pages = (@ + 1) % 65536]
         ELSE job
  BY <1>5 DEF parse
<1>10. ((n % 65536) + 1) % 65536 = (n + 1) % 65536 /\ n + 0 = n
  BY <1>4
<1> DEFINE J(ln, co, us, ti, pa) ==
              [line |-> ln, computer |-> co, user |-> us, title |-> ti,
               pages |-> pa, size |-> size]
           c1 == IF c # <<>> THEN c ELSE g.computer
           u1 == IF u # <<>> THEN u ELSE g.user
           t1 == IF t # <<>> THEN t ELSE g.title
           p0 == n % 65536
           p1 == (n + (IF page THEN 1 ELSE 0)) % 65536
           v == SubSeq(l, 3, Len(l))
<1>11. job = J(l, c, u, t, p0) /\ JobFrom(text, F, <<>>, size) =
                                     J(<<>>, c1, u1, t1, p1)
  <2> HIDE DEF l, g, n, c, u, t, page, head
  <2> QED  BY <1>8
<1>12. p1 = IF page THEN (p0 + 1) % 65536 ELSE p0
  <2> HIDE DEF l, g, n, c, u, t, page, head
  <2> QED  BY <1>10
<1> HIDE DEF l, g, n, c, u, t, page, head, job, p0, p1, v
<1>13. [parse(job) EXCEPT !.line = <<>>] = J(<<>>, c1, u1, t1, p1)
  <2>1. CASE c = <<>> /\ g.computer # <<>>
    <3>1. c1 = g.computer /\ u1 = u /\ t1 = t /\ p1 = p0
      BY <1>6, <1>12, <2>1
    <3>2. parse(job) = [job EXCEPT !.computer = g.computer]
      BY <1>9, <2>1
    <3> HIDE DEF c1, u1, t1
    <3>3. parse(job) = J(l, c1, u1, t1, p1)
      BY <1>11, <3>1, <3>2
    <3> QED  BY <3>3
  <2>2. CASE ~(c = <<>> /\ g.computer # <<>>) /\ u = <<>> /\ g.user # <<>>
    <3>1. c1 = c /\ u1 = g.user /\ t1 = t /\ p1 = p0
      BY <1>6, <1>12, <2>2
    <3>2. parse(job) = [job EXCEPT !.user = g.user]
      BY <1>9, <2>2
    <3> HIDE DEF c1, u1, t1
    <3>3. parse(job) = J(l, c1, u1, t1, p1)
      BY <1>11, <3>1, <3>2
    <3> QED  BY <3>3
  <2>3. CASE /\ ~(c = <<>> /\ g.computer # <<>>)
             /\ ~(u = <<>> /\ g.user # <<>>) /\ t = <<>> /\ head
    <3>1. c1 = c /\ u1 = u /\ t1 = v /\ p1 = p0
      BY <1>6, <1>12, <2>3 DEF v
    <3>2. parse(job) = [job EXCEPT !.title = v]
      BY <1>9, <2>3 DEF v
    <3> HIDE DEF c1, u1, t1
    <3>3. parse(job) = J(l, c1, u1, t1, p1)
      BY <1>11, <3>1, <3>2
    <3> QED  BY <3>3
  <2>4. CASE /\ ~(c = <<>> /\ g.computer # <<>>)
             /\ ~(u = <<>> /\ g.user # <<>>) /\ ~(t = <<>> /\ head)
    <3>1. c1 = c /\ u1 = u /\ t1 = t
      BY <1>6, <2>4
    <3>2. parse(job) = IF page THEN [job EXCEPT !.pages = (@ + 1) % 65536]
                               ELSE job
      BY <1>9, <2>4
    <3> HIDE DEF c1, u1, t1
    <3>3. CASE page
      <4>1. p1 = (p0 + 1) % 65536 /\ job.pages = p0
        BY <1>11, <1>12, <3>3
      <4>2. parse(job) = [job EXCEPT !.pages = p1]
        BY <3>2, <3>3, <4>1
      <4>3. parse(job) = J(l, c1, u1, t1, p1)
        BY <1>11, <3>1, <4>2
      <4> QED  BY <4>3
    <3>4. CASE ~page
      <4>1. p1 = p0 /\ parse(job) = job
        BY <1>12, <3>2, <3>4
      <4>2. parse(job) = J(l, c1, u1, t1, p1)
        BY <1>11, <3>1, <4>1
      <4> QED  BY <4>2
    <3> QED  BY <3>3, <3>4
  <2> QED  BY <2>1, <2>2, <2>3, <2>4
<1> HIDE DEF J, c1, u1, t1
<1> QED  BY <1>7, <1>11, <1>13

-----------------------------------------------------------------------------

(* A part of a text, between two places of it.                             *)
LEMMA PartIs ==
    ASSUME NEW T, NEW text \in Seq(T), NEW a \in 0..Len(text),
           NEW b \in a..Len(text)
    PROVE  LET part == SubSeq(text, a + 1, b)
           IN  /\ part \in Seq(T) /\ Len(part) = b - a
               /\ \A i \in Nat :
                     i \in Positions(part, "\n") <=>
                        i \in 1..(b - a) /\ a + i \in Positions(text, "\n")
               /\ \A c \in 0..(b - a) : \A d \in c..(b - a) :
                     SubSeq(part, c + 1, d) = SubSeq(text, a + c + 1, a + d)
<1> DEFINE part == SubSeq(text, a + 1, b)
           n == b - a
<1>1. /\ Len(text) \in Nat /\ DOMAIN text = 1..Len(text)
      /\ \A i \in 1..Len(text) : text[i] \in T
      /\ a \in Nat /\ b \in Nat /\ a <= b /\ b <= Len(text) /\ n \in Nat
  BY LenProperties, ElementOfSeq
<1>2. ASSUME NEW c \in Nat, NEW d \in Nat, d <= Len(text)
      PROVE  /\ SubSeq(text, c + 1, d) \in Seq(T)
             /\ Len(SubSeq(text, c + 1, d)) = IF c <= d THEN d - c ELSE 0
             /\ \A i \in 1..(d - c) : SubSeq(text, c + 1, d)[i] = text[c + i]
  <2>1. c + 1 \in Int /\ d \in Int /\ \A i \in (c + 1)..d : text[i] \in T
    BY <1>1, <1>2
  <2>2. /\ SubSeq(text, c + 1, d) \in Seq(T)
        /\ Len(SubSeq(text, c + 1, d)) =
              IF c + 1 <= d THEN d - (c + 1) + 1 ELSE 0
        /\ \A i \in 1..(d - (c + 1) + 1) :
              SubSeq(text, c + 1, d)[i] = text[c + 1 + i - 1]
    BY <2>1, SubSeqProperties
  <2>3. (IF c + 1 <= d THEN d - (c + 1) + 1 ELSE 0)
           = (IF c <= d THEN d - c ELSE 0)
    OBVIOUS
  <2>4. ASSUME NEW i \in 1..(d - c)
        PROVE  SubSeq(text, c + 1, d)[i] = text[c + i]
    <3>1. i \in 1..(d - (c + 1) + 1) /\ c + 1 + i - 1 = c + i
      OBVIOUS
    <3> QED  BY <2>2, <3>1
  <2> QED  BY <2>2, <2>3, <2>4
<1>3. /\ part \in Seq(T) /\ Len(part) = n
      /\ \A i \in 1..n : part[i] = text[a + i]
  BY <1>1, <1>2
<1> HIDE DEF part
<1>4. DOMAIN part = 1..n
  BY <1>3, LenProperties
<1> HIDE DEF n
<1>5. ASSUME NEW i \in Nat
      PROVE  i \in Positions(part, "\n") <=>
                i \in 1..n /\ a + i \in Positions(text, "\n")
  <2> DEFINE newline == "\n"
  <2> HIDE DEF newline
  <2>1. i \in Positions(part, newline) <=> i \in 1..n /\ part[i] = newline
    BY <1>4 DEF Positions
  <2>2. a + i \in Positions(text, newline) <=>
           a + i \in 1..Len(text) /\ text[a + i] = newline
    BY <1>1 DEF Positions
  <2>3. i \in 1..n => a + i \in 1..Len(text)
    BY <1>1 DEF n
  <2>4. i \in 1..n => part[i] = text[a + i]
    BY <1>3
  <2>5. i \in Positions(part, newline) <=>
           i \in 1..n /\ a + i \in Positions(text, newline)
    BY <2>1, <2>2, <2>3, <2>4
  <2> QED  BY <2>5 DEF newline
<1>6. ASSUME NEW c \in 0..n, NEW d \in c..n
      PROVE  SubSeq(part, c + 1, d) = SubSeq(text, a + c + 1, a + d)
  <2> DEFINE x == SubSeq(part, c + 1, d)
             y == SubSeq(text, (a + c) + 1, a + d)
  <2>1. /\ c \in Nat /\ d \in Nat /\ c <= d /\ d <= n /\ n \in Nat
        /\ a + c \in Nat /\ a + d \in Nat /\ a + d <= Len(text)
    BY <1>1 DEF n
  <2>2. /\ x \in Seq(T) /\ Len(x) = d - c
        /\ \A i \in 1..(d - c) : x[i] = part[c + i]
    <3>1. /\ c + 1 \in Int /\ d \in Int /\ \A i \in (c + 1)..d : part[i] \in T
      <4>1. \A i \in (c + 1)..d : i \in 1..Len(part)
        BY <1>3, <2>1
      <4> QED  BY <1>3, <2>1, <4>1, ElementOfSeq
    <3>2. /\ SubSeq(part, c + 1, d) \in Seq(T)
          /\ Len(SubSeq(part, c + 1, d)) =
                IF c + 1 <= d THEN d - (c + 1) + 1 ELSE 0
          /\ \A i \in 1..(d - (c + 1) + 1) :
                SubSeq(part, c + 1, d)[i] = part[c + 1 + i - 1]
      BY <3>1, SubSeqProperties
    <3>3. (IF c + 1 <= d THEN d - (c + 1) + 1 ELSE 0) = d - c
      BY <2>1
    <3>4. ASSUME NEW i \in 1..(d - c)
          PROVE  SubSeq(part, c + 1, d)[i] = part[c + i]
      <4>1. i \in 1..(d - (c + 1) + 1) /\ c + 1 + i - 1 = c + i
        BY <2>1
      <4> QED  BY <3>2, <4>1
    <3> QED  BY <3>2, <3>3, <3>4
  <2>3. /\ y \in Seq(T) /\ Len(y) = d - c
        /\ \A i \in 1..(d - c) : y[i] = text[(a + c) + i]
    <3>1. /\ y \in Seq(T)
          /\ Len(y) = IF a + c <= a + d THEN (a + d) - (a + c) ELSE 0
          /\ \A i \in 1..((a + d) - (a + c)) : y[i] = text[(a + c) + i]
      BY <1>2, <2>1
    <3>2. (a + d) - (a + c) = d - c /\ a + c <= a + d
      BY <1>1, <2>1
    <3> HIDE DEF y
    <3> QED  BY <3>1, <3>2
  <2> HIDE DEF x, y
  <2>4. ASSUME NEW i \in 1..Len(x)
        PROVE  x[i] = y[i]
    <3>1. c + i \in 1..n /\ a + (c + i) = (a + c) + i /\ i \in 1..(d - c)
      BY <1>1, <2>1, <2>2
    <3>2. x[i] = part[c + i] /\ y[i] = text[(a + c) + i]
      BY <2>2, <2>3, <3>1
    <3>3. part[c + i] = text[a + (c + i)]
      BY <1>3, <3>1
    <3> QED  BY <3>1, <3>2, <3>3
  <2>5. x = y
    BY <2>2, <2>3, <2>4, SeqEqual
  <2> QED  BY <2>5 DEF x, y
<1> QED  BY <1>3, <1>5, <1>6 DEF part, n

-----------------------------------------------------------------------------
(* A session that the first k symbols of a text have come to, and size     *)
(* bytes.                                                                  *)
Upto(text, k) == {d \in Positions(text, "\n") : d <= k}

JobAt(text, k, size) ==
    JobFrom(text, Upto(text, k), SubSeq(text, LineStart(text, k + 1) + 1, k),
            size)

(* What a packet has of a line is put behind what there is of it.          *)
LEMMA LineGoesOn ==
    ASSUME NEW T, NEW text \in Seq(T), NEW a \in 0..Len(text),
           NEW b \in a..Len(text), NEW e \in 1..(b - a + 1)
    PROVE  LET part == SubSeq(text, a + 1, b)
               d == LineStart(part, e)
               s == LineStart(text, a + e)
           IN  /\ d \in {0} \cup Positions(part, "\n") /\ d \in 0..(e - 1)
               /\ s = LineStart(text, a + d + 1) /\ s \in 0..(a + d)
               /\ SubSeq(text, s + 1, a + d) \o Line(part, e) =
                     SubSeq(text, s + 1, a + e - 1)
               /\ Upto(text, a + d) = Upto(text, a + e - 1)
<1> DEFINE part == SubSeq(text, a + 1, b)
           n == b - a
           d == LineStart(part, e)
           P == Positions(text, "\n")
           Q == Positions(part, "\n")
           l == LineStart(text, a + d + 1)
<1>1. /\ part \in Seq(T) /\ Len(part) = n
      /\ \A i \in Nat : i \in Q <=> i \in 1..n /\ a + i \in P
      /\ \A c \in 0..n : \A f \in c..n :
            SubSeq(part, c + 1, f) = SubSeq(text, a + c + 1, a + f)
  BY PartIs
<1>2. /\ Len(text) \in Nat /\ a \in Nat /\ b \in Nat /\ n \in Nat
      /\ e \in Nat \ {0} /\ e <= n + 1 /\ a + n = b /\ b <= Len(text)
  BY LenProperties
<1> HIDE DEF part, n
<1>3. /\ d \in {0} \cup Q /\ d \in Nat /\ d < e
      /\ \A q \in Q : q < e => q <= d
  BY <1>1, <1>2, LineStartIs
<1> HIDE DEF d
<1>4. /\ l \in {0} \cup P /\ l \in Nat /\ l < a + d + 1
      /\ (\A q \in P : q < a + d + 1 => q <= l)
      /\ P \subseteq 1..Len(text)
  <2>1. a + d + 1 \in Nat \ {0}
    BY <1>2, <1>3
  <2> QED  BY <2>1, LineStartIs
<1> HIDE DEF l, P, Q
<1>5. ASSUME NEW q \in P, a + d < q, q < a + e
      PROVE  FALSE
  <2>1. q \in Nat /\ q - a \in Nat /\ q - a \in 1..n /\ a + (q - a) = q
    BY <1>2, <1>3, <1>4, <1>5
  <2>2. q - a \in Q
    BY <1>1, <2>1
  <2>3. q - a <= d
    BY <1>2, <1>3, <1>5, <2>1, <2>2
  <2> QED  BY <1>2, <1>3, <1>5, <2>1, <2>3
<1>6. \A q \in P : q \in Nat
  BY <1>2, <1>4
<1>7. LineStart(text, a + e) = l
  <2>1. a + e \in Nat \ {0} /\ l < a + e
    BY <1>2, <1>3, <1>4
  <2>2. ASSUME NEW q \in P
        PROVE  ~(l < q /\ q < a + e)
    <3>1. CASE q <= a + d
      BY <1>2, <1>3, <1>4, <1>6, <3>1
    <3>2. CASE ~(q <= a + d)
      BY <1>2, <1>3, <1>5, <1>6, <3>2
    <3> QED  BY <3>1, <3>2
  <2> QED  BY <1>4, <2>1, <2>2, LineStartOnly DEF P
<1>8. SubSeq(text, l + 1, a + d) \o Line(part, e) =
         SubSeq(text, l + 1, a + e - 1)
  <2>1. /\ d \in 0..n /\ e - 1 \in d..n
    BY <1>2, <1>3
  <2>2. Line(part, e) = SubSeq(part, d + 1, e - 1)
    BY DEF Line, d
  <2>3. SubSeq(part, d + 1, e - 1) = SubSeq(text, a + d + 1, a + (e - 1))
    BY <1>1, <2>1
  <2>4. /\ l + 1 \in 1..(Len(text) + 1)
        /\ a + d \in ((l + 1) - 1)..Len(text)
        /\ a + e - 1 \in (a + d)..Len(text)
        /\ a + (e - 1) = a + e - 1
    BY <1>2, <1>3, <1>4
  <2>5. SubSeq(text, l + 1, a + d) \o SubSeq(text, a + d + 1, a + e - 1) =
           SubSeq(text, l + 1, a + e - 1)
    BY <2>4, ConcatAdjacentSubSeq
  <2> QED  BY <2>2, <2>3, <2>4, <2>5
<1>9. Upto(text, a + d) = Upto(text, a + e - 1)
  <2>1. ASSUME NEW q \in P
        PROVE  q <= a + d <=> q <= a + e - 1
    BY <1>2, <1>3, <1>5, <1>6
  <2> QED  BY <2>1 DEF Upto, P
<1>10. d \in 0..(e - 1) /\ l \in 0..(a + d)
  BY <1>2, <1>3, <1>4
<1> QED  BY <1>3, <1>7, <1>8, <1>9, <1>10 DEF part, d, l, Q

-----------------------------------------------------------------------------

(* A newline of a packet: the line it ends is parsed.                      *)
LEMMA NewlineRead ==
    ASSUME NEW T, NEW text \in Seq(T), NEW a \in 0..Len(text),
           NEW b \in a..Len(text),
           NEW e \in Positions(SubSeq(text, a + 1, b), "\n"), NEW size
    PROVE  LET part == SubSeq(text, a + 1, b)
           IN  LineEnds(JobAt(text, a + LineStart(part, e), size),
                        Line(part, e)) = JobAt(text, a + e, size)
<1> DEFINE part == SubSeq(text, a + 1, b)
           n == b - a
           d == LineStart(part, e)
           P == Positions(text, "\n")
           s == LineStart(text, a + e)
           k == a + d
           E == Upto(text, k)
           line == SubSeq(text, LineStart(text, k + 1) + 1, k)
           rest == Line(part, e)
<1>1. /\ Len(text) \in Nat /\ a \in Nat /\ b \in Nat /\ n \in Nat
      /\ a + n = b /\ b <= Len(text)
  BY LenProperties
<1>2. e \in Nat /\ e \in 1..n /\ a + e \in P
  <2>1. Len(part) = n /\ part \in Seq(T)
        /\ \A i \in Nat : i \in Positions(part, "\n") <=>
                          i \in 1..n /\ a + i \in P
    BY PartIs
  <2>2. Positions(part, "\n") \subseteq DOMAIN part /\ DOMAIN part = 1..n
    BY <2>1, LenProperties DEF Positions
  <2>3. e \in 1..n
    BY <2>2
  <2> HIDE DEF part, P
  <2> QED  BY <1>1, <2>1, <2>3 DEF part
<1>3. /\ d \in Nat /\ d <= e - 1 /\ s \in Nat /\ s <= k
      /\ s = LineStart(text, k + 1)
      /\ SubSeq(text, s + 1, k) \o rest = SubSeq(text, s + 1, a + e - 1)
      /\ E = Upto(text, a + e - 1)
  <2>1. e \in 1..(n + 1)
    BY <1>2
  <2>2. /\ d \in {0} \cup Positions(part, "\n") /\ d \in 0..(e - 1)
        /\ s = LineStart(text, a + d + 1) /\ s \in 0..(a + d)
        /\ SubSeq(text, s + 1, a + d) \o Line(part, e) =
              SubSeq(text, s + 1, a + e - 1)
        /\ Upto(text, a + d) = Upto(text, a + e - 1)
    BY <2>1, LineGoesOn
  <2> HIDE DEF d, s, part
  <2>3. d \in Nat /\ d <= e - 1 /\ s \in Nat /\ s <= a + d
    BY <1>1, <1>2, <2>2
  <2> QED  BY <2>2, <2>3
<1> HIDE DEF d
<1>4. /\ a + e \in Nat /\ a + e \in Nat \ {0} /\ k \in Nat /\ k < a + e
  BY <1>1, <1>2, <1>3
<1>5. /\ P \subseteq 1..Len(text) /\ IsFiniteSet(P)
  BY <1>4, LineStartIs
<1> HIDE DEF d, s, k, P, n
<1>6. IsFiniteSet(E) /\ Follows(a + e, E)
  <2>1. E \subseteq P /\ \A q \in E : q <= k
    BY DEF E, Upto, P
  <2>2. IsFiniteSet(E)
    <3> HIDE DEF E
    <3> QED  BY <1>5, <2>1, FS_Subset
  <2>3. \A q \in E : q \in Nat /\ q < a + e
    <3> HIDE DEF E
    <3> QED  BY <1>1, <1>4, <1>5, <2>1
  <2> HIDE DEF E
  <2> QED  BY <1>4, <2>2, <2>3 DEF Follows
<1>7. line \o rest = Line(text, a + e)
  <2>1. Line(text, a + e) = SubSeq(text, s + 1, a + e - 1)
    <3>1. (a + e) - 1 = a + e - 1
      BY <1>1, <1>2
    <3> QED  BY <3>1 DEF Line, s
  <2>2. line = SubSeq(text, s + 1, k)
    BY <1>3
  <2> HIDE DEF line, rest
  <2> QED  BY <1>3, <2>1, <2>2 DEF rest
<1>8. JobAt(text, k, size) = JobFrom(text, E, line, size)
  BY DEF JobAt
<1>9. E \cup {a + e} = Upto(text, a + e)
  <2>1. ASSUME NEW q \in P
        PROVE  q <= a + e - 1 \/ q = a + e <=> q <= a + e
    BY <1>1, <1>2, <1>5
  <2> QED  BY <1>2, <1>3, <1>4, <2>1 DEF Upto, P
<1>10. /\ LineStart(text, a + e + 1) = a + e
       /\ SubSeq(text, LineStart(text, a + e + 1) + 1, a + e) = <<>>
  <2> DEFINE m == a + e
  <2>1. m \in Nat /\ m \in P
    BY <1>2, <1>4
  <2> HIDE DEF m
  <2>2. m + 1 \in Nat \ {0} /\ m < m + 1
    BY <2>1
  <2>3. \A q \in P : q \in Nat
    BY <1>5, <1>1
  <2>4. \A q \in P : ~(m < q /\ q < m + 1)
    BY <2>1, <2>3
  <2>5. m \in {0} \cup Positions(text, "\n")
    BY <2>1 DEF P
  <2>6. LineStart(text, m + 1) = m
    BY <2>2, <2>4, <2>5, LineStartOnly DEF P
  <2>7. SubSeq(text, m + 1, m) = <<>>
    BY <2>1, SubSeqEmpty
  <2> QED  BY <2>6, <2>7 DEF m
<1> HIDE DEF E, line, rest
<1>11. LineEnds(JobFrom(text, E, line, size), rest) =
          JobFrom(text, E \cup {a + e}, <<>>, size)
  <2> DEFINE m == a + e
  <2>1. IsFiniteSet(E) /\ Follows(m, E) /\ line \o rest = Line(text, m)
    BY <1>6, <1>7
  <2> HIDE DEF m
  <2>2. LineEnds(JobFrom(text, E, line, size), rest) =
           JobFrom(text, E \cup {m}, <<>>, size)
    BY <2>1, LineParsed
  <2> QED  BY <2>2 DEF m
<1>12. JobAt(text, a + e, size) = JobFrom(text, Upto(text, a + e), <<>>, size)
  BY <1>10 DEF JobAt
<1> QED  BY <1>8, <1>9, <1>11, <1>12 DEF k, d, part, rest

(* A packet brings a session to its end in the text, wherever the packet   *)
(* begins and ends.                                                        *)
LEMMA PayloadRead ==
    ASSUME NEW T, NEW text \in Seq(T), NEW a \in 0..Len(text),
           NEW b \in a..Len(text), NEW z \in Nat
    PROVE  processPayload(JobAt(text, a, z), SubSeq(text, a + 1, b)) =
              JobAt(text, b, z + (b - a))
<1> DEFINE part == SubSeq(text, a + 1, b)
           m == b - a
           Q == Positions(part, "\n")
           D == {0} \cup Q
           job == JobAt(text, a, z)
           size == z + m
           n == Len(part)
           first == [job EXCEPT !.size = @ + n]
           then(x, e) == LineEnds(x, Line(part, e))
           last(e) == LineStart(part, e)
           g == [e \in D |-> JobAt(text, a + e, size)]
           Is(read) == read = [e \in D |->
                                  IF e = 0 THEN first
                                  ELSE then(read[last(e)], e)]
           read == CHOOSE r : Is(r)
           tail == Line(part, n + 1)
<1>1. /\ Len(text) \in Nat /\ a \in Nat /\ b \in Nat /\ m \in Nat
      /\ a + m = b /\ b <= Len(text) /\ size \in Nat
  BY LenProperties
<1>2. /\ part \in Seq(T) /\ n = m
      /\ \A i \in Q : i \in 1..m
  <2>1. part \in Seq(T) /\ n = m
    BY PartIs
  <2>2. Q \subseteq DOMAIN part /\ DOMAIN part = 1..n
    <3>1. DOMAIN part = 1..n
      BY <2>1, LenProperties
    <3> QED  BY <3>1 DEF Positions
  <2> HIDE DEF part, n, m, Q
  <2> QED  BY <2>1, <2>2
<1>3. ASSUME NEW e \in Nat \ {0}
      PROVE  last(e) \in D /\ last(e) \in Nat /\ last(e) < e
  <2> HIDE DEF part
  <2> QED  BY <1>2, LineStartIs
<1>4. processPayload(job, part) = [read[last(n + 1)] EXCEPT !.line = @ \o tail]
  BY DEF processPayload
<1>5. first = g[0]
  <2>1. g[0] = JobAt(text, a, size)
    <3>1. a + 0 = a /\ 0 \in D
      BY <1>1
    <3> HIDE DEF size, D
    <3> QED  BY <3>1
  <2> DEFINE E == Upto(text, a)
             l == SubSeq(text, LineStart(text, a + 1) + 1, a)
             c == FirstOf(text, E, "computer")
             u == FirstOf(text, E, "user")
             t == FirstOf(text, E, "title")
             p == PagesIn(text, E) % 65536
             J(y) == [line |-> l, computer |-> c, user |-> u, title |-> t,
                      pages |-> p, size |-> y]
  <2>2. \A y : JobAt(text, a, y) = J(y)
    BY DEF JobAt, JobFrom
  <2> HIDE DEF l, c, u, t, p, E
  <2>3. [J(z) EXCEPT !.size = size] = J(size)
    OBVIOUS
  <2>4. job = J(z) /\ J(z).size = z /\ z + n = size
    BY <1>2, <2>2
  <2> HIDE DEF J, g, size, job, n
  <2>5. job.size + n = size
    BY <2>4
  <2>6. [job EXCEPT !.size = @ + n] = J(size)
    BY <2>3, <2>4, <2>5
  <2> QED  BY <2>1, <2>2, <2>6
<1>6. ASSUME NEW e \in Q
      PROVE  then(g[last(e)], e) = g[e]
  <2>1. e \in Nat \ {0} /\ e \in D
    BY <1>1, <1>2
  <2>2. last(e) \in D
    BY <1>3, <2>1
  <2>3. g[last(e)] = JobAt(text, a + last(e), size)
        /\ g[e] = JobAt(text, a + e, size)
    <3> HIDE DEF D, last, size
    <3> QED  BY <2>1, <2>2
  <2>4. LineEnds(JobAt(text, a + LineStart(part, e), size), Line(part, e)) =
           JobAt(text, a + e, size)
    <3> HIDE DEF size
    <3> QED  BY NewlineRead
  <2> HIDE DEF g, D, Q, size, part
  <2> QED  BY <2>3, <2>4
<1> HIDE DEF first, then, Q, part
<1>7. Is(g)
  <2>1. ASSUME NEW e \in D
        PROVE  g[e] = IF e = 0 THEN first ELSE then(g[last(e)], e)
    <3>1. CASE e = 0
      <4> HIDE DEF g
      <4> QED  BY <1>5, <3>1
    <3>2. CASE e # 0
      <4>1. e \in Q
        BY <3>2
      <4> HIDE DEF g, last
      <4> QED  BY <1>6, <3>2, <4>1
    <3> QED  BY <3>1, <3>2
  <2>2. g = [e \in D |-> g[e]]
    <3> HIDE DEF D
    <3> QED  OBVIOUS
  <2> HIDE DEF g, D, last
  <2> QED  BY <2>1, <2>2
<1>8. Is(read)
  <2> HIDE DEF Is, g
  <2> QED  BY <1>7
<1> HIDE DEF read
<1>9. ASSUME NEW e \in D
      PROVE  read[e] = g[e]
  <2> DEFINE C == {k \in D : read[k] # g[k]}
  <2>1. SUFFICES ASSUME C # {} PROVE FALSE
    BY <1>9
  <2>2. C \subseteq D /\ C \subseteq Nat
    <3>1. D \subseteq Nat
      BY <1>1, <1>2
    <3> QED  BY <3>1
  <2>3. PICK k \in C : \A j \in C : k <= j
    <3> HIDE DEF C
    <3> QED  BY <2>1, <2>2, LeastOf
  <2>4. k \in D /\ read[k] # g[k] /\ k \in Nat
    BY <2>2, <2>3
  <2>5. /\ read[k] = IF k = 0 THEN first ELSE then(read[last(k)], k)
        /\ g[k] = IF k = 0 THEN first ELSE then(g[last(k)], k)
    <3> HIDE DEF g, D, last
    <3> QED  BY <1>7, <1>8, <2>4
  <2>6. k # 0
    BY <2>4, <2>5
  <2>7. last(k) \in D /\ last(k) \in Nat /\ last(k) < k
    <3>1. k \in Nat \ {0}
      BY <2>4, <2>6
    <3> HIDE DEF last, D
    <3> QED  BY <1>3, <3>1
  <2> HIDE DEF last, g, D
  <2>8. last(k) \notin C
    <3> HIDE DEF C
    <3> QED  BY <2>3, <2>4, <2>7
  <2>9. read[last(k)] = g[last(k)]
    BY <2>7, <2>8
  <2> QED  BY <2>4, <2>5, <2>6, <2>9
<1> DEFINE d == last(n + 1)
           s == LineStart(text, b + 1)
<1>10. /\ d \in D
       /\ s = LineStart(text, (a + d) + 1)
       /\ SubSeq(text, s + 1, a + d) \o tail = SubSeq(text, s + 1, b)
       /\ Upto(text, a + d) = Upto(text, b)
  <2> DEFINE e == n + 1
  <2>1. e \in 1..(b - a + 1) /\ a + e = b + 1 /\ (a + e) - 1 = b
        /\ a + e - 1 = b /\ e \in Nat \ {0}
    BY <1>1, <1>2
  <2> HIDE DEF e
  <2>2. /\ LineStart(part, e) \in D
    BY <1>3, <2>1
  <2>3. /\ LineStart(text, a + e) = LineStart(text, a + LineStart(part, e) + 1)
        /\ SubSeq(text, LineStart(text, a + e) + 1, a + LineStart(part, e))
              \o Line(part, e) =
           SubSeq(text, LineStart(text, a + e) + 1, a + e - 1)
        /\ Upto(text, a + LineStart(part, e)) = Upto(text, a + e - 1)
    <3> DEFINE f == LineStart(part, e)
               q == LineStart(text, a + e)
    <3>1. /\ f \in {0} \cup Positions(part, "\n") /\ f \in 0..(e - 1)
          /\ q = LineStart(text, a + f + 1) /\ q \in 0..(a + f)
          /\ SubSeq(text, q + 1, a + f) \o Line(part, e) =
                SubSeq(text, q + 1, a + e - 1)
          /\ Upto(text, a + f) = Upto(text, a + e - 1)
      <4>1. e \in 1..(b - a + 1)
        BY <2>1
      <4> QED  BY <4>1, LineGoesOn DEF part
    <3> HIDE DEF f, q
    <3>2. /\ q = LineStart(text, a + f + 1)
          /\ SubSeq(text, q + 1, a + f) \o Line(part, e) =
                SubSeq(text, q + 1, a + e - 1)
          /\ Upto(text, a + f) = Upto(text, a + e - 1)
      BY <3>1
    <3> QED  BY <3>2 DEF f, q
  <2> QED  BY <2>1, <2>2, <2>3 DEF e
<1>11. read[d] = JobAt(text, a + d, size)
  <2> HIDE DEF D, d, size
  <2> QED  BY <1>9, <1>10
<1>12. [JobAt(text, a + d, size) EXCEPT !.line = @ \o tail] =
          JobAt(text, b, size)
  <2> DEFINE k == a + d
             E == Upto(text, b)
             l == SubSeq(text, s + 1, k)
             h == SubSeq(text, s + 1, b)
             c == FirstOf(text, E, "computer")
             u == FirstOf(text, E, "user")
             t == FirstOf(text, E, "title")
             p == PagesIn(text, E) % 65536
             J(y) == [line |-> y, computer |-> c, user |-> u, title |-> t,
                      pages |-> p, size |-> size]
  <2>1. Upto(text, k) = E /\ LineStart(text, k + 1) = s /\ l \o tail = h
    <3> HIDE DEF d, s, tail
    <3> QED  BY <1>10
  <2> HIDE DEF k, s, tail, size
  <2>2. JobAt(text, k, size) = J(l)
    <3>1. JobAt(text, k, size) = JobFrom(text, E, l, size)
      <4>1. SubSeq(text, LineStart(text, k + 1) + 1, k) = l
        BY <2>1
      <4> HIDE DEF l, E
      <4> QED  BY <2>1, <4>1 DEF JobAt
    <3> QED  BY <3>1 DEF JobFrom
  <2>3. JobAt(text, b, size) = J(h)
    BY DEF JobAt, JobFrom, s
  <2> HIDE DEF l, h, c, u, t, p, E
  <2>4. J(l).line \o tail = h
    BY <2>1
  <2>5. [J(l) EXCEPT !.line = h] = J(h)
    OBVIOUS
  <2> HIDE DEF J
  <2>6. [J(l) EXCEPT !.line = @ \o tail] = J(h)
    BY <2>4, <2>5
  <2>7. [JobAt(text, k, size) EXCEPT !.line = @ \o tail] =
           JobAt(text, b, size)
    BY <2>2, <2>3, <2>6
  <2> QED  BY <2>7 DEF k
<1>13. processPayload(job, part) = JobAt(text, b, size)
  <2> HIDE DEF job, d, tail, size
  <2>1. processPayload(job, part) = [read[d] EXCEPT !.line = @ \o tail]
    BY <1>4 DEF d
  <2> QED  BY <1>11, <1>12, <2>1
<1> QED  BY <1>13 DEF part

-----------------------------------------------------------------------------

(* Before the first packet nothing is known.                               *)
LEMMA NothingRead ==
    ASSUME NEW T, NEW text \in Seq(T)
    PROVE  NewJob = JobAt(text, 0, 0)
<1>1. Upto(text, 0) = {}
  <2>1. \A d \in Positions(text, "\n") : d \in Nat /\ d > 0
    <3>1. Positions(text, "\n") \subseteq 1..Len(text)
      BY LenProperties DEF Positions
    <3> DEFINE P == Positions(text, "\n")
    <3>2. P \subseteq 1..Len(text) /\ Len(text) \in Nat
      BY <3>1, LenProperties
    <3> HIDE DEF P
    <3>3. \A d \in P : d \in Nat /\ d > 0
      BY <3>2
    <3> QED  BY <3>3 DEF P
  <2> DEFINE P == Positions(text, "\n")
  <2>2. \A d \in P : ~(d <= 0)
    <3> HIDE DEF P
    <3>1. \A d \in P : d \in Nat /\ d > 0
      BY <2>1 DEF P
    <3> QED  BY <3>1
  <2>3. Upto(text, 0) = {d \in P : d <= 0}
    BY DEF Upto
  <2> HIDE DEF P
  <2> QED  BY <2>2, <2>3
<1>2. \A name : FirstOf(text, {}, name) = <<>>
  BY DEF FirstOf, GivenIn
<1>3. PagesIn(text, {}) = 0
  <2>1. {e \in {} : Begins(Line(text, e), "%%Page:")} = {}
    OBVIOUS
  <2> QED  BY <2>1, FS_EmptySet DEF PagesIn
<1>4. SubSeq(text, LineStart(text, 0 + 1) + 1, 0) = <<>>
  <2> DEFINE s == LineStart(text, 1)
  <2>1. s \in Nat /\ s < 1
    BY LineStartIs
  <2> HIDE DEF s
  <2>2. s = 0 /\ 0 + 1 = 1
    BY <2>1
  <2>3. SubSeq(text, 0 + 1, 0) = <<>>
    BY SubSeqEmpty
  <2>4. LineStart(text, 0 + 1) = 0
    BY <2>2 DEF s
  <2> QED  BY <2>3, <2>4
<1>5. JobAt(text, 0, 0) = JobFrom(text, {}, <<>>, 0)
  BY <1>1, <1>4 DEF JobAt
<1>6. 0 % 65536 = 0
  OBVIOUS
<1> QED  BY <1>2, <1>3, <1>5, <1>6 DEF JobFrom, NewJob

(* A text may be cut anywhere, and packets may be empty.                   *)
Cut(text, N, cut) ==
    /\ N \in Nat /\ cut \in [0..N -> 0..Len(text)]
    /\ cut[0] = 0 /\ cut[N] = Len(text)
    /\ \A i \in 1..N : cut[i - 1] <= cut[i]

PacketsOf(text, N, cut) ==
    [i \in 1..N |-> SubSeq(text, cut[i - 1] + 1, cut[i])]

(* After all of them everything is.                                        *)
LEMMA PacketsRead ==
    ASSUME NEW T, NEW text \in Seq(T), NEW N, NEW cut, Cut(text, N, cut)
    PROVE  Received(PacketsOf(text, N, cut)) =
              JobAt(text, Len(text), Len(text))
<1> DEFINE packets == PacketsOf(text, N, cut)
           then(x, i) == processPayload(x, packets[i])
           g == [i \in 0..N |-> JobAt(text, cut[i], cut[i])]
           Is(read) == read = [i \in 0..N |->
                                  IF i = 0 THEN NewJob
                                  ELSE then(read[i - 1], i)]
           read == CHOOSE r : Is(r)
<1>1. /\ N \in Nat /\ cut \in [0..N -> 0..Len(text)] /\ Len(text) \in Nat
      /\ cut[0] = 0 /\ cut[N] = Len(text)
      /\ \A i \in 1..N : cut[i - 1] <= cut[i]
  BY LenProperties DEF Cut
<1>2. Len(packets) = N
      /\ \A i \in 1..N : packets[i] = SubSeq(text, cut[i - 1] + 1, cut[i])
  <2> DEFINE f(i) == SubSeq(text, cut[i - 1] + 1, cut[i])
  <2>1. packets = [i \in 1..N |-> f(i)]
    BY DEF PacketsOf
  <2> HIDE DEF f, packets
  <2>2. Len(packets) = N /\ \A i \in 1..N : packets[i] = f(i)
    BY <1>1, <2>1
  <2> QED  BY <2>2 DEF f
<1> HIDE DEF packets
<1>3. Received(packets) = read[N]
  BY <1>2 DEF Received
<1>4. g[0] = NewJob
  <2>1. 0 \in 0..N
    BY <1>1
  <2> QED  BY <1>1, <2>1, NothingRead
<1>5. ASSUME NEW i \in 1..N
      PROVE  g[i] = then(g[i - 1], i)
  <2> DEFINE a == cut[i - 1]
             b == cut[i]
  <2>1. /\ i \in 0..N /\ i - 1 \in 0..N
    BY <1>1
  <2>2. g[i] = JobAt(text, b, b) /\ g[i - 1] = JobAt(text, a, a)
    BY <2>1
  <2>3. /\ a \in 0..Len(text) /\ b \in 0..Len(text) /\ a <= b
        /\ packets[i] = SubSeq(text, a + 1, b)
    BY <1>1, <1>2, <2>1
  <2> HIDE DEF a, b, g
  <2>4. b \in a..Len(text) /\ a \in Nat /\ a + (b - a) = b
    BY <1>1, <2>3
  <2>5. processPayload(JobAt(text, a, a), SubSeq(text, a + 1, b)) =
           JobAt(text, b, a + (b - a))
    BY <2>3, <2>4, PayloadRead
  <2> QED  BY <2>2, <2>3, <2>4, <2>5
<1> HIDE DEF then
<1>6. Is(g)
  <2>1. ASSUME NEW i \in 0..N
        PROVE  g[i] = IF i = 0 THEN NewJob ELSE then(g[i - 1], i)
    <3>1. i # 0 => i \in 1..N
      BY <1>1
    <3> HIDE DEF g
    <3> QED  BY <1>4, <1>5, <3>1
  <2>2. g = [i \in 0..N |-> g[i]]
    OBVIOUS
  <2> HIDE DEF g
  <2> QED  BY <2>1, <2>2
<1>7. Is(read)
  <2> HIDE DEF Is, g
  <2> QED  BY <1>6
<1> HIDE DEF read
<1>8. N \in {i \in 0..N : read[i] = g[i]}
  <2> DEFINE C == {i \in 0..N : read[i] = g[i]}
  <2>1. 0 \in C
    <3>1. 0 \in 0..N
      BY <1>1
    <3> HIDE DEF g
    <3> QED  BY <1>6, <1>7, <3>1
  <2>2. ASSUME NEW i \in 1..N, i - 1 \in C
        PROVE  i \in C
    <3>1. i \in 0..N /\ i # 0
      BY <1>1
    <3>2. read[i] = then(read[i - 1], i) /\ g[i] = then(g[i - 1], i)
      <4> HIDE DEF g
      <4> QED  BY <1>6, <1>7, <3>1
    <3>3. read[i - 1] = g[i - 1]
      BY <2>2
    <3> HIDE DEF g
    <3> QED  BY <3>1, <3>2, <3>3
  <2>3. N \in 0..N
    BY <1>1
  <2>4. 0..N \subseteq C
    <3> HIDE DEF C
    <3> QED  BY <1>1, <2>1, <2>2, FromTheFirst
  <2> QED  BY <2>3, <2>4
<1>9. g[N] = JobAt(text, Len(text), Len(text))
  <2>1. N \in 0..N
    BY <1>1
  <2> QED  BY <1>1, <2>1
<1> HIDE DEF g
<1> QED  BY <1>3, <1>8, <1>9 DEF packets

(* What a job says of itself is what its lines give.                       *)
LEMMA SaidIs ==
    ASSUME NEW text
    PROVE  /\ Said(text).computer = FirstOf(text, LineEnd(text), "computer")
           /\ Said(text).user = FirstOf(text, LineEnd(text), "user")
           /\ Said(text).title = FirstOf(text, LineEnd(text), "title")
           /\ Said(text).pages = PagesIn(text, LineEnd(text))
           /\ Said(text).size = Len(text)
<1>1. \A d : /\ Gives(Line(text, d))["computer"] =
                     variable(Line(text, d), "PCNAME")
               /\ Gives(Line(text, d))["user"] =
                     variable(Line(text, d), "USERNAME")
               /\ Gives(Line(text, d))["title"] = titleOf(Line(text, d))
  BY DEF Gives
<1>2. Said(text).computer = FirstOf(text, LineEnd(text), "computer")
  BY <1>1 DEF Said, FirstGiven, FirstOf, GivenIn
<1>3. Said(text).user = FirstOf(text, LineEnd(text), "user")
  BY <1>1 DEF Said, FirstGiven, FirstOf, GivenIn
<1>4. Said(text).title = FirstOf(text, LineEnd(text), "title")
  BY <1>1 DEF Said, FirstGiven, FirstOf, GivenIn
<1>5. Said(text).pages = PagesIn(text, LineEnd(text))
  BY DEF Said, PagesIn
<1>6. Said(text).size = Len(text)
  BY DEF Said
<1> QED  BY <1>2, <1>3, <1>4, <1>5, <1>6

(* Whatever packets a print job comes in, the session says of it what the  *)
(* job says of itself.                                                     *)
THEOREM PacketsDoNotMatter ==
    ASSUME NEW T, NEW text \in Seq(T), NEW N, NEW cut, Cut(text, N, cut)
    PROVE  Assembled(PacketsOf(text, N, cut)) =
              [line |-> <<>>, computer |-> Said(text).computer,
               user |-> Said(text).user, title |-> Said(text).title,
               pages |-> Said(text).pages % 65536, size |-> Said(text).size]
<1> DEFINE n == Len(text)
           E == Upto(text, n)
           P == Positions(text, "\n")
           line == SubSeq(text, LineStart(text, n + 1) + 1, n)
<1>1. Assembled(PacketsOf(text, N, cut)) = LineEnds(JobAt(text, n, n), <<>>)
  BY PacketsRead DEF Assembled
<1>2. JobAt(text, n, n) = JobFrom(text, E, line, n)
  BY DEF JobAt
<1>3. n \in Nat /\ P \subseteq 1..n /\ IsFiniteSet(P)
  <2>1. n \in Nat
    BY LenProperties
  <2> QED  BY <2>1, LineStartIs
<1>4. E = P
  <2>1. \A d \in P : d <= n
    <3> HIDE DEF P, n
    <3> QED  BY <1>3
  <2> QED  BY <2>1 DEF Upto
<1>5. Follows(n + 1, E)
  <2> HIDE DEF E, P, n
  <2>1. \A d \in E : d \in Nat /\ d < n + 1
    BY <1>3, <1>4
  <2> QED  BY <1>3, <2>1 DEF Follows
<1>6. line \o <<>> = Line(text, n + 1)
  <2> DEFINE s == LineStart(text, n + 1)
  <2>1. line \in Seq(T)
    <3>1. s \in Nat
      <4>1. n + 1 \in Nat \ {0}
        <5> HIDE DEF n
        <5> QED  BY <1>3
      <4> QED  BY <4>1, LineStartIs
    <3>2. \A i \in (s + 1)..n : text[i] \in T
      <4>1. \A i \in 1..n : text[i] \in T
        BY ElementOfSeq
      <4> HIDE DEF s, n
      <4> QED  BY <1>3, <3>1, <4>1
    <3>3. SubSeq(text, s + 1, n) \in Seq(T)
      <4>1. s + 1 \in Int /\ n \in Int
        <5> HIDE DEF s, n
        <5> QED  BY <1>3, <3>1
      <4> HIDE DEF s, n
      <4> QED  BY <3>2, <4>1, SubSeqProperties
    <3> QED  BY <3>3
  <2>2. (n + 1) - 1 = n
    <3> HIDE DEF n
    <3> QED  BY <1>3
  <2>3. Line(text, n + 1) = line
    <3> HIDE DEF n
    <3> QED  BY <2>2 DEF Line
  <2> HIDE DEF line
  <2> QED  BY <2>1, <2>3, ConcatEmptySeq
<1>7. E \cup {n + 1} = LineEnd(text)
  BY <1>4 DEF LineEnd
<1> HIDE DEF E, line, n, P
<1>8. LineEnds(JobFrom(text, E, line, n), <<>>) =
         JobFrom(text, LineEnd(text), <<>>, n)
  <2> DEFINE e == n + 1
             rest == <<>>
  <2>1. IsFiniteSet(E) /\ Follows(e, E) /\ line \o rest = Line(text, e)
        /\ E \cup {e} = LineEnd(text)
    BY <1>3, <1>4, <1>5, <1>6, <1>7
  <2> HIDE DEF e, rest
  <2>2. LineEnds(JobFrom(text, E, line, n), rest) =
           JobFrom(text, E \cup {e}, <<>>, n)
    BY <2>1, LineParsed
  <2> QED  BY <2>1, <2>2 DEF rest
<1>9. /\ Said(text).computer = FirstOf(text, LineEnd(text), "computer")
      /\ Said(text).user = FirstOf(text, LineEnd(text), "user")
      /\ Said(text).title = FirstOf(text, LineEnd(text), "title")
      /\ Said(text).pages = PagesIn(text, LineEnd(text))
      /\ Said(text).size = n
  BY SaidIs DEF n
<1> QED  BY <1>1, <1>2, <1>8, <1>9 DEF JobFrom

-----------------------------------------------------------------------------

(* The tools read with the operators of Records.tla.                       *)
LEMMA ToolReads ==
    /\ \A data, p, w : Tool!Number(data, p, w) = Number(data, p, w)
    /\ \A data, p : Tool!MAC(data, p) = MAC(data, p)
    /\ \A data, p, n, w : Tool!Strings(data, p, n, w) = Strings(data, p, n, w)
    /\ \A data, p : Tool!EndpointsAt(data, p) = EndpointsAt(data, p)
<1> USE DEF Tool!Nonsense, Nonsense, Tool!Slice, Slice, Tool!Bytes, Bytes,
            Tool!Ethernet, Ethernet, Tool!Number, Number, Tool!MAC, MAC,
            Tool!String, String
<1>1. \A data, p, w : Tool!Number(data, p, w) = Number(data, p, w)
  OBVIOUS
<1>2. \A data, p : Tool!MAC(data, p) = MAC(data, p)
  OBVIOUS
<1>3. \A data, p, n, w : Tool!Strings(data, p, n, w) = Strings(data, p, n, w)
  BY DEF Tool!Strings, Strings
<1> HIDE DEF Tool!Number, Number, Tool!MAC, MAC
<1>4. \A data, p : Tool!EndpointsAt(data, p) = EndpointsAt(data, p)
  BY <1>1, <1>2 DEF Tool!EndpointsAt, EndpointsAt
<1> QED  BY <1>1, <1>2, <1>3, <1>4

(* A tool reads the messages as Records.tla does.                          *)
LEMMA ToolReadsMessages ==
    ASSUME NEW data
    PROVE  Tool!Messages(data) = Messages(data)
<1> DEFINE n == Number(data, 26, 4)
           Then(r, next) == [position |-> next.position,
                            messages |-> Append(r.messages, next.message)]
           One == [position |-> 30, messages |-> <<>>]
           A(r, i) == IF i = 0 THEN One
                      ELSE Then(r[i - 1],
                                Tool!MessageAt(data, r[i - 1].position))
           B(r, i) == IF i = 0 THEN One
                      ELSE Then(r[i - 1], MessageAt(data, r[i - 1].position))
           IsA(r) == r = [i \in 0..n |-> A(r, i)]
           IsB(r) == r = [i \in 0..n |-> B(r, i)]
<1>1. \A p : Tool!MessageAt(data, p) = MessageAt(data, p)
  BY ToolReads DEF Tool!MessageAt, MessageAt
<1>2. Tool!Number(data, 26, 4) = n
  BY ToolReads
<1>3. /\ Tool!Messages(data) = (CHOOSE r : IsA(r))[n].messages
      /\ Messages(data) = (CHOOSE r : IsB(r))[n].messages
  <2> HIDE DEF n
  <2>1. Tool!Messages(data) = (CHOOSE r : IsA(r))[n].messages
    BY <1>2 DEF Tool!Messages
  <2>2. Messages(data) = (CHOOSE r : IsB(r))[n].messages
    BY DEF Messages, n
  <2> QED  BY <2>1, <2>2
<1>4. \A r : IsA(r) <=> IsB(r)
  <2>1. \A r, i : A(r, i) = B(r, i)
    <3> HIDE DEF Then, One
    <3> QED  BY <1>1
  <2> HIDE DEF A, B
  <2> QED  BY <2>1
<1> HIDE DEF IsA, IsB, n
<1>5. (CHOOSE r : IsA(r)) = (CHOOSE r : IsB(r))
  BY <1>4
<1> QED  BY <1>3, <1>5

(* And it prints what Records.tla says.                                    *)
LEMMA ToolPrints ==
    /\ \A data, f : Tool!printHTTP(data, f) = printHTTP(data, f)
    /\ \A data : Tool!printPJL(data) = printPJL(data)
    /\ \A c, data : Tool!count(c, data) = count(c, data)
<1>1. ASSUME NEW data, NEW f
      PROVE  Tool!printHTTP(data, f) = printHTTP(data, f)
  <2>1. \A e : Tool!SessionWanted(e, f) = SessionWanted(e, f)
    BY DEF Tool!SessionWanted, SessionWanted, Tool!Among, Among,
           Tool!InRange, InRange
  <2>2. \A m : Tool!MessageWanted(m, f) = MessageWanted(m, f)
    BY DEF Tool!MessageWanted, MessageWanted, Tool!Matches, Matches,
           Tool!REQUEST, REQUEST, Tool!RESPONSE, RESPONSE
  <2>3. Tool!EndpointsAt(data, 1) = EndpointsAt(data, 1)
        /\ Tool!Messages(data) = Messages(data)
    BY ToolReads, ToolReadsMessages
  <2> DEFINE ends == EndpointsAt(data, 1)
             all == Messages(data)
             Pair(m) == <<<<ends, m>>>>
  <2>4. ASSUME NEW x
        PROVE  Tool!FlattenSeq(x) = FlattenSeq(x)
    BY DEF Tool!FlattenSeq, FlattenSeq
  <2>5. /\ Tool!printHTTP(data, f) =
              IF ~Tool!SessionWanted(ends, f) THEN <<>>
              ELSE Tool!FlattenSeq([i \in DOMAIN all |->
                       IF Tool!MessageWanted(all[i], f)
                       THEN Pair(all[i]) ELSE <<>>])
        /\ printHTTP(data, f) =
              IF ~SessionWanted(ends, f) THEN <<>>
              ELSE FlattenSeq([i \in DOMAIN all |->
                       IF MessageWanted(all[i], f)
                       THEN Pair(all[i]) ELSE <<>>])
    <3>1. printHTTP(data, f) =
              IF ~SessionWanted(ends, f) THEN <<>>
              ELSE FlattenSeq([i \in DOMAIN all |->
                       IF MessageWanted(all[i], f)
                       THEN Pair(all[i]) ELSE <<>>])
      BY DEF printHTTP
    <3>2. Tool!printHTTP(data, f) =
              IF ~Tool!SessionWanted(ends, f) THEN <<>>
              ELSE Tool!FlattenSeq([i \in DOMAIN all |->
                       IF Tool!MessageWanted(all[i], f)
                       THEN Pair(all[i]) ELSE <<>>])
      BY <2>3 DEF Tool!printHTTP
    <3> QED  BY <3>1, <3>2
  <2> HIDE DEF ends, all, Pair
  <2>6. [i \in DOMAIN all |-> IF Tool!MessageWanted(all[i], f)
                              THEN Pair(all[i]) ELSE <<>>] =
        [i \in DOMAIN all |-> IF MessageWanted(all[i], f)
                              THEN Pair(all[i]) ELSE <<>>]
    BY <2>2
  <2> QED  BY <2>1, <2>4, <2>5, <2>6
<1>2. ASSUME NEW data
      PROVE  Tool!printPJL(data) = printPJL(data)
  BY ToolReads DEF Tool!printPJL, printPJL
<1>3. ASSUME NEW c, NEW data
      PROVE  Tool!count(c, data) = count(c, data)
  BY ToolReads DEF Tool!count, count
<1> QED  BY <1>1, <1>2, <1>3

-----------------------------------------------------------------------------
(* What is in a record of Archive.tla, and how the tools print it.         *)

(* It says it in words.                                                    *)
LEMMA SaidInWords ==
    ASSUME NEW text \in Words
    PROVE  /\ Said(text).computer \in Words /\ Said(text).user \in Words
           /\ Said(text).title \in Words
           /\ Said(text).pages \in Nat /\ Said(text).size \in Nat
<1> DEFINE n == Len(text)
           E == LineEnd(text)
<1>1. text \in Seq(Characters)
  BY DEF Words
<1>2. /\ n \in Nat /\ E \subseteq 1..(n + 1) /\ IsFiniteSet(E)
      /\ \A i \in 1..n : text[i] \in Characters
  <2> DEFINE P == Positions(text, "\n")
  <2>1. n \in Nat /\ \A i \in 1..n : text[i] \in Characters
    BY <1>1, LenProperties, ElementOfSeq
  <2>2. P \subseteq 1..n /\ IsFiniteSet(P)
    <3>1. n + 1 \in Nat \ {0}
      BY <2>1
    <3> QED  BY <1>1, <3>1, LineStartIs
  <2>3. IsFiniteSet(P \cup {n + 1})
    <3> HIDE DEF P, n
    <3> QED  BY <2>2, FS_AddElement
  <2>4. E = P \cup {n + 1}
    BY DEF LineEnd
  <2> HIDE DEF P, n, E
  <2>5. E \subseteq 1..(n + 1)
    BY <2>1, <2>2, <2>4
  <2> QED  BY <2>1, <2>3, <2>4, <2>5 DEF n
<1> HIDE DEF n, E
<1>3. ASSUME NEW e \in E
      PROVE  Line(text, e) \in Words
  <2>1. e \in Nat \ {0} /\ e - 1 <= n /\ e - 1 \in Int
    BY <1>2
  <2> DEFINE s == LineStart(text, e)
  <2>2. s \in Nat
    BY <1>1, <2>1, LineStartIs
  <2> HIDE DEF s
  <2>3. \A i \in (s + 1)..(e - 1) : text[i] \in Characters
    BY <1>2, <2>1, <2>2
  <2>4. s + 1 \in Int
    BY <2>2
  <2>5. SubSeq(text, s + 1, e - 1) \in Seq(Characters)
    BY <2>1, <2>3, <2>4, SubSeqProperties
  <2> QED  BY <2>5 DEF Line, Words, s
<1>4. ASSUME NEW name \in Names
      PROVE  FirstOf(text, E, name) \in Words
  <2> DEFINE G == GivenIn(text, E, name)
  <2>1. <<>> \in Words
    BY EmptySeq DEF Words
  <2>2. CASE G = {}
    BY <2>1, <2>2 DEF FirstOf
  <2>3. CASE G # {}
    <3>1. G \subseteq E
      BY DEF GivenIn
    <3>2. G \subseteq Nat
      <4> HIDE DEF G
      <4> QED  BY <1>2, <3>1
    <3>3. Min(G) \in E
      <4>1. Min(G) \in G
        <5> HIDE DEF G
        <5> QED  BY <2>3, <3>2, LeastOf
      <4> HIDE DEF G
      <4> QED  BY <3>1, <4>1
    <3> DEFINE l == Line(text, Min(G))
    <3>4. l \in Words
      <4> HIDE DEF G
      <4> QED  BY <1>3, <3>3
    <3>5. FirstOf(text, E, name) = Gives(l)[name]
      BY <2>3 DEF FirstOf
    <3> HIDE DEF l
    <3>6. Gives(l) \in [computer : Words, user : Words, title : Words]
      BY <3>4, GivenAreWords
    <3>7. Gives(l)[name] \in Words
      BY <3>6 DEF Names
    <3> QED  BY <3>5, <3>7
  <2> QED  BY <2>2, <2>3
<1>5. PagesIn(text, E) \in Nat
  <2> DEFINE B == {e \in E : Begins(Line(text, e), "%%Page:")}
  <2>1. B \subseteq E
    OBVIOUS
  <2> HIDE DEF B
  <2>2. Cardinality(B) \in Nat
    BY <1>2, <2>1, FS_Subset, FS_CardinalityType
  <2> QED  BY <2>2 DEF PagesIn, B
<1>6. "computer" \in Names /\ "user" \in Names /\ "title" \in Names
  BY DEF Names
<1> QED  BY <1>2, <1>4, <1>5, <1>6, SaidIs DEF E, n

(* Three packets are packets.                                              *)
LEMMA AssembledSays ==
    ASSUME NEW T, NEW text \in Seq(T), NEW packets \in Packets(text)
    PROVE  Assembled(packets) =
              [line |-> <<>>, computer |-> Said(text).computer,
               user |-> Said(text).user, title |-> Said(text).title,
               pages |-> Said(text).pages % 65536, size |-> Said(text).size]
<1> DEFINE n == Len(text)
<1>1. n \in Nat
  BY LenProperties
<1>2. PICK a \in 0..n, b \in 0..n :
         /\ a <= b
         /\ packets = <<SubSeq(text, 1, a), SubSeq(text, a + 1, b),
                        SubSeq(text, b + 1, n)>>
  BY DEF Packets
<1> DEFINE cut == [i \in 0..3 |-> IF i = 0 THEN 0 ELSE IF i = 1 THEN a
                                  ELSE IF i = 2 THEN b ELSE n]
<1> HIDE DEF n
<1>3. /\ cut[0] = 0 /\ cut[1] = a /\ cut[2] = b /\ cut[3] = n
      /\ cut \in [0..3 -> 0..n]
  BY <1>1
<1> HIDE DEF cut
<1>4. Cut(text, 3, cut)
  <2>1. \A i \in 1..3 : cut[i - 1] <= cut[i]
    <3>1. \A i \in 1..3 : i = 1 \/ i = 2 \/ i = 3
      OBVIOUS
    <3>2. 1 - 1 = 0 /\ 2 - 1 = 1 /\ 3 - 1 = 2
      OBVIOUS
    <3>3. cut[0] <= cut[1] /\ cut[1] <= cut[2] /\ cut[2] <= cut[3]
      BY <1>1, <1>2, <1>3
    <3> QED  BY <3>1, <3>2, <3>3
  <2> QED  BY <1>1, <1>3, <2>1 DEF Cut, n
<1>5. packets = PacketsOf(text, 3, cut)
  <2> DEFINE f(i, j) == SubSeq(text, cut[i] + 1, cut[j])
  <2>1. PacketsOf(text, 3, cut) = [i \in 1..3 |-> f(i - 1, i)]
    BY DEF PacketsOf
  <2>2. packets = <<f(0, 1), f(1, 2), f(2, 3)>>
    <3>1. 0 + 1 = 1
      OBVIOUS
    <3> QED  BY <1>2, <1>3, <3>1
  <2> HIDE DEF f
  <2>3. [i \in 1..3 |-> f(i - 1, i)] = <<f(0, 1), f(1, 2), f(2, 3)>>
    OBVIOUS
  <2> QED  BY <2>1, <2>2, <2>3
<1> QED  BY <1>4, <1>5, PacketsDoNotMatter

(* The record of a job is printed as the job, and counted as it.           *)
LEMMA JobRead ==
    ASSUME NEW r \in Records, NEW prog, prog # "dumpHTTP",
           NEW data \in Contents(prog, r)
    PROVE  /\ printPJL(data) = JobOf(Jobs[r])
           /\ \A known : count(known, data) =
                 Counted(known, Said(Jobs[r].text).computer,
                         Said(Jobs[r].text).pages % 65536)
<1> DEFINE job == Jobs[r]
           text == job.text
           said == Said(text)
<1>1. PICK packets \in Packets(text) :
         data = PJLRecord(PJLSession(job, Assembled(packets)))
  BY DEF Contents
<1> DEFINE a == Assembled(packets)
           s == PJLSession(job, a)
<1>2. /\ text \in Words /\ job.time \in Nat \X Nat
      /\ EndpointsOf(job) \in Connection
      /\ Len(said.computer) < 65536 /\ Len(said.user) < 65536
      /\ Len(said.title) < 65536
  <2>1. job \in [clientMAC : MACs, serverMAC : MACs, clientIP : Nat,
                 serverIP : Nat, clientPort : Nat, serverPort : Nat,
                 time : Nat \X Nat, text : Words]
    BY CaptureAssumption DEF CaptureAssumption
  <2>2. \A name \in {"computer", "user", "title"} :
           Len(Said(Jobs[r].text)[name]) < 65536
    BY CaptureAssumption DEF CaptureAssumption
  <2>3. /\ Len(said.computer) < 65536 /\ Len(said.user) < 65536
        /\ Len(said.title) < 65536
    BY <2>2
  <2> HIDE DEF job
  <2>4. text \in Words /\ job.time \in Nat \X Nat
        /\ EndpointsOf(job) \in Connection
    BY <2>1 DEF EndpointsOf, Connection
  <2> QED  BY <2>3, <2>4
<1>3. /\ a.computer = said.computer /\ a.user = said.user
      /\ a.title = said.title /\ a.pages = said.pages % 65536
      /\ a.size = said.size
  <2>1. text \in Seq(Characters)
    BY <1>2 DEF Words
  <2> HIDE DEF text
  <2>2. a = [line |-> <<>>, computer |-> Said(text).computer,
             user |-> Said(text).user, title |-> Said(text).title,
             pages |-> Said(text).pages % 65536, size |-> Said(text).size]
    BY <2>1, AssembledSays
  <2> HIDE DEF a
  <2> QED  BY <2>2
<1>4. /\ said.computer \in Words /\ said.user \in Words
      /\ said.title \in Words /\ said.pages \in Nat /\ said.size \in Nat
  <2> HIDE DEF text
  <2> QED  BY <1>2, SaidInWords
<1> HIDE DEF a, said, job
<1>5. /\ EndpointsOf(s) = EndpointsOf(job) /\ s.time = job.time
      /\ s.computer = said.computer /\ s.user = said.user
      /\ s.title = said.title /\ s.pages = said.pages % 65536
      /\ s.size = said.size
  BY <1>3 DEF PJLSession, EndpointsOf
<1>6. said.pages % 65536 \in Nat
  BY <1>4
<1> HIDE DEF s
<1>7. Storable(s)
  BY <1>2, <1>4, <1>5, <1>6 DEF Storable
<1>8. printPJL(data) = JobOf(job)
  <2>1. printPJL(data) =
           [time |-> s.time, endpoints |-> EndpointsOf(s),
            computer |-> s.computer, user |-> s.user, title |-> s.title,
            size |-> s.size, pages |-> s.pages]
    BY <1>1, <1>7, JobPrinted DEF s, a
  <2>2. JobOf(job) =
           [time |-> job.time, endpoints |-> EndpointsOf(job),
            computer |-> said.computer, user |-> said.user,
            title |-> said.title, size |-> said.size,
            pages |-> said.pages % 65536]
    BY DEF JobOf, said
  <2> QED  BY <1>5, <2>1, <2>2
<1>9. ASSUME NEW known
      PROVE  count(known, data) =
                Counted(known, said.computer, said.pages % 65536)
  <2>1. count(known, PJLRecord(s)) =
           Counted(known, s.computer, s.pages)
    BY <1>7, JobCounted
  <2>2. data = PJLRecord(s)
    BY <1>1 DEF s, a
  <2> QED  BY <1>5, <2>1, <2>2
<1> QED  BY <1>8, <1>9 DEF said, job

(* The record of a session is printed as those of its messages that are    *)
(* wanted.                                                                 *)
LEMMA SessionRead ==
    ASSUME NEW r \in Records, NEW data \in Contents("dumpHTTP", r),
           NEW sought, NEW wanted,
           \A m \in ToSet(HTTPSessions[r].requests
                          \o HTTPSessions[r].responses) :
              <<HTTPSessions[r], m>> \in wanted <=>
                 /\ SessionWanted(EndpointsOf(HTTPSessions[r]), sought)
                 /\ MessageWanted(m, sought)
    PROVE  /\ printHTTP(data, sought) = MessagesOf(HTTPSessions[r], wanted)
           /\ MessagesOf(HTTPSessions[r], wanted)
                 \in Seq(Connection \X HTTPMessage)
<1> DEFINE s == HTTPSessions[r]
           all == s.requests \o s.responses
           printed == [i \in DOMAIN all |->
                          IF <<s, all[i]>> \in wanted
                          THEN <<<<EndpointsOf(s), all[i]>>>> ELSE <<>>]
<1>1. s \in HTTPSession
  BY CaptureAssumption DEF CaptureAssumption
<1>2. data = HTTPRecord(s)
  BY DEF Contents
<1>3. MessagesOf(s, wanted) = FlattenSeq(printed)
  BY DEF MessagesOf
<1>4. /\ printHTTP(HTTPRecord(s), sought) = FlattenSeq(printed)
      /\ printed \in Seq(Seq({EndpointsOf(s)} \X HTTPMessage))
  <2> HIDE DEF s
  <2>1. \A m \in ToSet(s.requests \o s.responses) :
           <<s, m>> \in wanted <=> /\ SessionWanted(EndpointsOf(s), sought)
                                   /\ MessageWanted(m, sought)
    BY DEF s
  <2> QED  BY <1>1, <2>1, SessionPrinted
<1>5. EndpointsOf(s) \in Connection
  <2> HIDE DEF s
  <2> QED  BY <1>1 DEF EndpointsOf, Connection, HTTPSession
<1>6. FlattenSeq(printed) \in Seq({EndpointsOf(s)} \X HTTPMessage)
  <2> HIDE DEF printed
  <2> QED  BY <1>4, FlatIsSeq
<1>7. Seq({EndpointsOf(s)} \X HTTPMessage)
         \subseteq Seq(Connection \X HTTPMessage)
  <2>1. {EndpointsOf(s)} \X HTTPMessage \subseteq Connection \X HTTPMessage
    BY <1>5
  <2> QED  BY <2>1
<1> HIDE DEF s, printed
<1> QED  BY <1>2, <1>3, <1>4, <1>6, <1>7 DEF s

-----------------------------------------------------------------------------
(* The options of dumpHTTP.                                                *)

(* The greatest of a set, when it is known.                                *)
LEMMA GreatestIs ==
    ASSUME NEW S, S \subseteq Nat, NEW i \in S, \A j \in S : j <= i
    PROVE  Max(S) = i
<1>1. \A x \in S : (\A y \in S : y <= x) => x = i
  <2>1. \A x \in S : x \in Nat
    OBVIOUS
  <2> QED  BY <2>1
<1>2. Max(S) = CHOOSE x \in S : \A y \in S : y <= x
  BY DEF Max
<1> QED  BY <1>1, <1>2

-----------------------------------------------------------------------------
(* dumpHTTP has read the options at V, and i is the next word.             *)
NextPlace(words, i) ==
    i + (IF words[i].option \in Tool!WithArgument THEN 2 ELSE 1)

Legal(words, i) ==
    /\ IsOption(words, i)
    /\ words[i].option \in Tool!Flags \cup Tool!WithArgument
    /\ words[i].option \in Tool!WithArgument => i < Len(words)

ClosedPlaces(words, S) ==
    1 \in S /\ \A i \in S : IsOption(words, i) => NextPlace(words, i) \in S

OptionsRead(words, i, V) ==
    /\ i \in 1..(Len(words) + 1)
    /\ \A j \in V : j \in 1..(i - 1) /\ Legal(words, j)
    /\ 1 \in V \cup {i} /\ \A j \in V : NextPlace(words, j) \in V \cup {i}
    /\ \A S \in SUBSET (1..(Len(words) + 2)) :
          ClosedPlaces(words, S) => V \cup {i} \subseteq S

(* One option more has been read.                                          *)
LEMMA OptionReadNext ==
    ASSUME NEW words, Len(words) \in Nat, NEW i, NEW V,
           OptionsRead(words, i, V), Legal(words, i)
    PROVE  OptionsRead(words, NextPlace(words, i), V \cup {i})
<1> DEFINE k == NextPlace(words, i)
           W == V \cup {i}
<1>1. /\ i \in 1..(Len(words) + 1)
      /\ \A j \in V : j \in 1..(i - 1) /\ Legal(words, j)
      /\ 1 \in W /\ \A j \in V : NextPlace(words, j) \in W
      /\ \A S \in SUBSET (1..(Len(words) + 2)) :
            ClosedPlaces(words, S) => W \subseteq S
  BY DEF OptionsRead
<1>2. k \in (i + 1)..(Len(words) + 1)
  BY <1>1 DEF Legal, NextPlace, IsOption
<1> HIDE DEF k
<1>3. \A j \in W : j \in 1..(k - 1) /\ Legal(words, j)
  BY <1>1, <1>2
<1>4. 1 \in W \cup {k} /\ \A j \in W : NextPlace(words, j) \in W \cup {k}
  BY <1>1 DEF k
<1>5. \A S \in SUBSET (1..(Len(words) + 2)) :
         ClosedPlaces(words, S) => W \cup {k} \subseteq S
  <2> SUFFICES ASSUME NEW S \in SUBSET (1..(Len(words) + 2)),
                      ClosedPlaces(words, S)
               PROVE  k \in S
    BY <1>1
  <2>1. i \in S /\ IsOption(words, i)
    BY <1>1 DEF Legal
  <2> QED  BY <2>1 DEF ClosedPlaces, k
<1>6. k \in 1..(Len(words) + 1)
  BY <1>1, <1>2
<1> HIDE DEF W
<1> QED  BY <1>3, <1>4, <1>5, <1>6 DEF OptionsRead, k, W

(* At the first word that is none, all of them have been.                  *)
LEMMA OptionsAreRead ==
    ASSUME NEW words, Len(words) \in Nat, DOMAIN words = 1..Len(words),
           NEW i, NEW V,
           OptionsRead(words, i, V), ~IsOption(words, i)
    PROVE  V = OptionPlaces(words) /\ Complete(words)
<1> DEFINE W == V \cup {i}
<1>1. /\ i \in 1..(Len(words) + 1)
      /\ \A j \in V : j \in 1..(i - 1) /\ Legal(words, j)
      /\ 1 \in W /\ \A j \in V : NextPlace(words, j) \in W
      /\ \A S \in SUBSET (1..(Len(words) + 2)) :
            ClosedPlaces(words, S) => W \subseteq S
  BY DEF OptionsRead
<1>2. W \in SUBSET (1..(Len(words) + 2)) /\ ClosedPlaces(words, W)
  <2>1. \A j \in W : j \in 1..(Len(words) + 2)
    BY <1>1
  <2>2. \A j \in W : IsOption(words, j) => NextPlace(words, j) \in W
    BY <1>1
  <2> QED  BY <1>1, <2>1, <2>2 DEF ClosedPlaces
<1>3. OptionPlaces(words) =
         {j \in DOMAIN words :
             /\ IsOption(words, j)
             /\ \A S \in SUBSET (1..(Len(words) + 2)) :
                   ClosedPlaces(words, S) => j \in S}
  BY DEF OptionPlaces, ClosedPlaces, NextPlace
<1>4. ASSUME NEW j \in V
      PROVE  j \in OptionPlaces(words)
  <2>1. j \in DOMAIN words /\ IsOption(words, j)
    BY <1>1 DEF Legal, IsOption
  <2>2. \A S \in SUBSET (1..(Len(words) + 2)) :
           ClosedPlaces(words, S) => j \in S
    BY <1>1
  <2> QED  BY <1>3, <2>1, <2>2
<1>5. ASSUME NEW j \in OptionPlaces(words)
      PROVE  j \in V
  <2>1. IsOption(words, j) /\ j \in W
    BY <1>2, <1>3
  <2> QED  BY <2>1
<1>6. V = OptionPlaces(words)
  BY <1>4, <1>5
<1>7. Complete(words)
  BY <1>1, <1>6 DEF Complete, Legal
<1> QED  BY <1>6, <1>7

-----------------------------------------------------------------------------
(* What the options at V make of the filter.                               *)
GivenAt(words, V, name) == {i \in V : words[i].option = name}

ValuesAt(words, V, name) ==
    {Tool!Argument(words[i + 1]) : i \in GivenAt(words, V, name)}

RangesAt(words, V, name) ==
    {Tool!cidrToIPs(a[1], a[2]) : a \in ValuesAt(words, V, name)}

PartsAt(words, V) ==
    {Tool!Regexes[name] :
        name \in {n \in DOMAIN Tool!Regexes : GivenAt(words, V, n) # {}}}

(* The option for a part of a request.                                     *)
ForPart(part) == CHOOSE n \in DOMAIN Tool!Regexes : Tool!Regexes[n] = part

PatternsAt(words, V) ==
    [part \in PartsAt(words, V) |->
        Tool!Argument(words[Max(GivenAt(words, V, ForPart(part))) + 1])]

FilterOf(words, V) ==
    [printRequests |-> GivenAt(words, V, "res") = {},
     printResponses |-> GivenAt(words, V, "req") = {},
     clientMACs |-> ValuesAt(words, V, "cE"),
     serverMACs |-> ValuesAt(words, V, "sE"),
     clientIPs |-> RangesAt(words, V, "cI"),
     serverIPs |-> RangesAt(words, V, "sI"),
     clientPorts |-> ValuesAt(words, V, "cP"),
     serverPorts |-> ValuesAt(words, V, "sP"),
     patterns |-> PatternsAt(words, V)]

(* Each part of a request has its own option.                              *)
LEMMA PartsDiffer ==
    /\ DOMAIN Tool!Regexes = {"rM", "p", "q", "f"}
    /\ \A n \in DOMAIN Tool!Regexes : ForPart(Tool!Regexes[n]) = n
<1>1. /\ DOMAIN Tool!Regexes = {"rM", "p", "q", "f"}
      /\ Tool!Regexes["rM"] = 1 /\ Tool!Regexes["p"] = 2
      /\ Tool!Regexes["q"] = 3 /\ Tool!Regexes["f"] = 4
  BY DEF Tool!Regexes
<1>2. \A n, k \in DOMAIN Tool!Regexes :
         Tool!Regexes[n] = Tool!Regexes[k] => n = k
  BY <1>1
<1>3. ASSUME NEW n \in DOMAIN Tool!Regexes
      PROVE  ForPart(Tool!Regexes[n]) = n
  BY <1>2 DEF ForPart
<1> QED  BY <1>1, <1>3

(* One option more, after the others.                                      *)
LEMMA GivenOneMore ==
    ASSUME NEW words, NEW V, NEW i, NEW name
    PROVE  /\ name = words[i].option =>
                 /\ GivenAt(words, V \cup {i}, name) =
                       GivenAt(words, V, name) \cup {i}
                 /\ ValuesAt(words, V \cup {i}, name) =
                       ValuesAt(words, V, name)
                       \cup {Tool!Argument(words[i + 1])}
                 /\ RangesAt(words, V \cup {i}, name) =
                       RangesAt(words, V, name)
                       \cup {Tool!cidrToIPs(Tool!Argument(words[i + 1])[1],
                                            Tool!Argument(words[i + 1])[2])}
           /\ name # words[i].option =>
                 /\ GivenAt(words, V \cup {i}, name) = GivenAt(words, V, name)
                 /\ ValuesAt(words, V \cup {i}, name) =
                       ValuesAt(words, V, name)
                 /\ RangesAt(words, V \cup {i}, name) =
                       RangesAt(words, V, name)
<1>1. CASE name = words[i].option
  <2>1. GivenAt(words, V \cup {i}, name) = GivenAt(words, V, name) \cup {i}
    BY <1>1 DEF GivenAt
  <2>2. ValuesAt(words, V \cup {i}, name) =
           ValuesAt(words, V, name) \cup {Tool!Argument(words[i + 1])}
    BY <2>1 DEF ValuesAt
  <2>3. RangesAt(words, V \cup {i}, name) =
           RangesAt(words, V, name)
           \cup {Tool!cidrToIPs(Tool!Argument(words[i + 1])[1],
                                Tool!Argument(words[i + 1])[2])}
    BY <2>2 DEF RangesAt
  <2> QED  BY <1>1, <2>1, <2>2, <2>3
<1>2. CASE name # words[i].option
  <2>1. GivenAt(words, V \cup {i}, name) = GivenAt(words, V, name)
    BY <1>2 DEF GivenAt
  <2> QED  BY <1>2, <2>1 DEF ValuesAt, RangesAt
<1> QED  BY <1>1, <1>2

(* A regular expression more, or another one for its part.                 *)
LEMMA PatternsOneMore ==
    ASSUME NEW words, NEW V, NEW i \in Nat, V \subseteq Nat,
           \A j \in V : j < i
    PROVE  /\ words[i].option \in DOMAIN Tool!Regexes =>
                 PatternsAt(words, V \cup {i}) =
                    Tool!With(PatternsAt(words, V),
                              Tool!Regexes[words[i].option],
                              Tool!Argument(words[i + 1]))
           /\ words[i].option \notin DOMAIN Tool!Regexes =>
                 PatternsAt(words, V \cup {i}) = PatternsAt(words, V)
<1> DEFINE W == V \cup {i}
           name == words[i].option
           value(U, part) ==
              Tool!Argument(words[Max(GivenAt(words, U, ForPart(part))) + 1])
<1>1. /\ PatternsAt(words, V) = [part \in PartsAt(words, V) |-> value(V, part)]
      /\ PatternsAt(words, W) = [part \in PartsAt(words, W) |-> value(W, part)]
  BY DEF PatternsAt
<1>2. \A n : /\ n = name =>
                   GivenAt(words, W, n) = GivenAt(words, V, n) \cup {i}
             /\ n # name => GivenAt(words, W, n) = GivenAt(words, V, n)
  BY DEF GivenAt
<1>3. /\ \A n \in DOMAIN Tool!Regexes : ForPart(Tool!Regexes[n]) = n
      /\ \A part \in PartsAt(words, V) \cup PartsAt(words, W) :
            /\ ForPart(part) \in DOMAIN Tool!Regexes
            /\ Tool!Regexes[ForPart(part)] = part
  <2>1. ASSUME NEW U, NEW part \in PartsAt(words, U)
        PROVE  /\ ForPart(part) \in DOMAIN Tool!Regexes
               /\ Tool!Regexes[ForPart(part)] = part
    <3>1. PICK n \in DOMAIN Tool!Regexes : part = Tool!Regexes[n]
      BY DEF PartsAt
    <3> QED  BY <3>1, PartsDiffer
  <2> QED  BY <2>1, PartsDiffer
<1> HIDE DEF W
<1>4. CASE name \in DOMAIN Tool!Regexes
  <2> DEFINE p == Tool!Regexes[name]
             a == Tool!Argument(words[i + 1])
  <2>1. PartsAt(words, W) = PartsAt(words, V) \cup {p}
    BY <1>2, <1>4 DEF PartsAt
  <2>2. value(W, p) = a
    <3> DEFINE S == GivenAt(words, W, name)
    <3>1. S = GivenAt(words, V, name) \cup {i}
      BY <1>2
    <3>2. S \subseteq Nat /\ i \in S /\ \A j \in S : j <= i
      <4>1. GivenAt(words, V, name) \subseteq V
        BY DEF GivenAt
      <4>2. ASSUME NEW j \in S
            PROVE  j \in Nat /\ j <= i
        <5>1. j \in V \/ j = i
          BY <3>1, <4>1
        <5>2. j \in V => j \in Nat /\ j < i
          OBVIOUS
        <5> QED  BY <5>1, <5>2
      <4>3. i \in S
        BY <3>1
      <4> HIDE DEF S
      <4> QED  BY <4>2, <4>3
    <3>3. Max(S) = i
      <4> HIDE DEF S
      <4> QED  BY <3>2, GreatestIs
    <3>4. ForPart(p) = name
      BY <1>3, <1>4
    <3> HIDE DEF p
    <3> QED  BY <3>3, <3>4
  <2>3. ASSUME NEW part \in PartsAt(words, V), part # p
        PROVE  value(W, part) = value(V, part)
    <3>1. ForPart(part) # name
      BY <1>3, <2>3
    <3> QED  BY <1>2, <3>1
  <2> HIDE DEF p, a, value
  <2>4. Tool!With(PatternsAt(words, V), p, a) =
           [part \in PartsAt(words, V) \cup {p} |->
               IF part = p THEN a ELSE value(V, part)]
    BY <1>1 DEF Tool!With
  <2>5. PatternsAt(words, W) = Tool!With(PatternsAt(words, V), p, a)
    BY <1>1, <2>1, <2>2, <2>3, <2>4
  <2> QED  BY <1>4, <2>5 DEF p, a, W
<1>5. CASE name \notin DOMAIN Tool!Regexes
  <2>1. \A n \in DOMAIN Tool!Regexes :
           GivenAt(words, W, n) = GivenAt(words, V, n)
    BY <1>2, <1>5
  <2>2. PartsAt(words, W) = PartsAt(words, V)
    BY <2>1 DEF PartsAt
  <2>3. \A part \in PartsAt(words, V) : value(W, part) = value(V, part)
    BY <1>3, <2>1
  <2> HIDE DEF value
  <2> QED  BY <1>1, <1>5, <2>2, <2>3 DEF W
<1> QED  BY <1>4, <1>5

(* The filter with one option more is what the option makes of it.         *)
LEMMA FilterOneMore ==
    ASSUME NEW V, NEW i \in Nat, V \subseteq Nat, \A j \in V : j < i,
           filter = FilterOf(argv, V), Legal(argv, i)
    PROVE  Tool!Narrowed(argv[i].option,
                         IF argv[i].option \in Tool!WithArgument
                         THEN Tool!Argument(argv[i + 1]) ELSE "") =
              FilterOf(argv, V \cup {i})
<1> DEFINE W == V \cup {i}
           name == argv[i].option
           a == Tool!Argument(argv[i + 1])
           q == IF name \in Tool!WithArgument THEN a ELSE ""
           F(pr, ps, cm, sm, ci, si, cp, sp, pt) ==
              [printRequests |-> pr, printResponses |-> ps,
               clientMACs |-> cm, serverMACs |-> sm, clientIPs |-> ci,
               serverIPs |-> si, clientPorts |-> cp, serverPorts |-> sp,
               patterns |-> pt]
           Of(U) == F(GivenAt(argv, U, "res") = {},
                      GivenAt(argv, U, "req") = {},
                      ValuesAt(argv, U, "cE"), ValuesAt(argv, U, "sE"),
                      RangesAt(argv, U, "cI"), RangesAt(argv, U, "sI"),
                      ValuesAt(argv, U, "cP"), ValuesAt(argv, U, "sP"),
                      PatternsAt(argv, U))
<1>1. \A U : FilterOf(argv, U) = Of(U)
  BY DEF FilterOf
<1>2. /\ DOMAIN Tool!Regexes = {"rM", "p", "q", "f"}
      /\ DOMAIN Tool!Lists = {"cE", "sE", "cI", "sI", "cP", "sP"}
      /\ Tool!Lists["cE"] = "clientMACs" /\ Tool!Lists["sE"] = "serverMACs"
      /\ Tool!Lists["cI"] = "clientIPs" /\ Tool!Lists["sI"] = "serverIPs"
      /\ Tool!Lists["cP"] = "clientPorts"
      /\ Tool!Lists["sP"] = "serverPorts"
      /\ Tool!Flags = {"req", "res"}
      /\ Tool!WithArgument = DOMAIN Tool!Regexes \cup DOMAIN Tool!Lists
  BY DEF Tool!Regexes, Tool!Lists, Tool!Flags, Tool!WithArgument
<1>3. name \in Tool!Flags \cup DOMAIN Tool!Regexes \cup DOMAIN Tool!Lists
  BY <1>2 DEF Legal
<1>4. \A n : n # name => /\ GivenAt(argv, W, n) = GivenAt(argv, V, n)
                         /\ ValuesAt(argv, W, n) = ValuesAt(argv, V, n)
                         /\ RangesAt(argv, W, n) = RangesAt(argv, V, n)
  <2> SUFFICES ASSUME NEW n, n # name
               PROVE  /\ GivenAt(argv, W, n) = GivenAt(argv, V, n)
                      /\ ValuesAt(argv, W, n) = ValuesAt(argv, V, n)
                      /\ RangesAt(argv, W, n) = RangesAt(argv, V, n)
    OBVIOUS
  <2>1. GivenAt(argv, W, n) = GivenAt(argv, V, n)
    BY DEF GivenAt
  <2> HIDE DEF W
  <2>2. ValuesAt(argv, W, n) = ValuesAt(argv, V, n)
    BY <2>1 DEF ValuesAt
  <2> QED  BY <2>1, <2>2 DEF RangesAt
<1>5. /\ GivenAt(argv, W, name) = GivenAt(argv, V, name) \cup {i}
      /\ ValuesAt(argv, W, name) = ValuesAt(argv, V, name) \cup {a}
      /\ RangesAt(argv, W, name) = RangesAt(argv, V, name)
                                      \cup {Tool!cidrToIPs(a[1], a[2])}
  <2>1. GivenAt(argv, W, name) = GivenAt(argv, V, name) \cup {i}
    BY DEF GivenAt
  <2> HIDE DEF W
  <2>2. ValuesAt(argv, W, name) = ValuesAt(argv, V, name) \cup {a}
    BY <2>1 DEF ValuesAt
  <2> QED  BY <2>1, <2>2 DEF RangesAt
<1>6. /\ name \in DOMAIN Tool!Regexes =>
            PatternsAt(argv, W) =
               Tool!With(PatternsAt(argv, V), Tool!Regexes[name], a)
      /\ name \notin DOMAIN Tool!Regexes =>
            PatternsAt(argv, W) = PatternsAt(argv, V)
  BY PatternsOneMore
<1>7. filter = Of(V)
  BY <1>1
<1>8. Tool!Narrowed(name, q) =
         IF name = "req" THEN [filter EXCEPT !.printResponses = FALSE]
         ELSE IF name = "res" THEN [filter EXCEPT !.printRequests = FALSE]
         ELSE IF name \in DOMAIN Tool!Regexes
              THEN [filter EXCEPT !.patterns =
                       Tool!With(@, Tool!Regexes[name], q)]
         ELSE [filter EXCEPT ![Tool!Lists[name]] =
                  @ \cup {IF name \in {"cI", "sI"}
                          THEN Tool!cidrToIPs(q[1], q[2]) ELSE q}]
  BY DEF Tool!Narrowed
<1>9. name \in Tool!WithArgument => q = a
  OBVIOUS
<1> HIDE DEF W, name, a, q
<1> DEFINE pr(U) == GivenAt(argv, U, "res") = {}
           ps(U) == GivenAt(argv, U, "req") = {}
           cm(U) == ValuesAt(argv, U, "cE")
           sm(U) == ValuesAt(argv, U, "sE")
           ci(U) == RangesAt(argv, U, "cI")
           si(U) == RangesAt(argv, U, "sI")
           cp(U) == ValuesAt(argv, U, "cP")
           sp(U) == ValuesAt(argv, U, "sP")
           pt(U) == PatternsAt(argv, U)
<1>10. \A U : Of(U) = F(pr(U), ps(U), cm(U), sm(U), ci(U), si(U), cp(U),
                        sp(U), pt(U))
  OBVIOUS
<1>11. CASE name = "req"
  <2>1. /\ pr(W) = pr(V) /\ cm(W) = cm(V) /\ sm(W) = sm(V) /\ ci(W) = ci(V)
        /\ si(W) = si(V) /\ cp(W) = cp(V) /\ sp(W) = sp(V) /\ pt(W) = pt(V)
    BY <1>2, <1>4, <1>6, <1>11
  <2>2. ps(W) = FALSE
    BY <1>5, <1>11
  <2>3. Tool!Narrowed(name, q) = [filter EXCEPT !.printResponses = FALSE]
    BY <1>8, <1>11
  <2> HIDE DEF pr, ps, cm, sm, ci, si, cp, sp, pt, Of
  <2>4. Tool!Narrowed(name, q) = Of(W)
    BY <1>7, <1>10, <2>1, <2>2, <2>3
  <2> QED  BY <1>1, <2>4 DEF W, name, q, a
<1>12. CASE name = "res"
  <2>1. /\ ps(W) = ps(V) /\ cm(W) = cm(V) /\ sm(W) = sm(V) /\ ci(W) = ci(V)
        /\ si(W) = si(V) /\ cp(W) = cp(V) /\ sp(W) = sp(V) /\ pt(W) = pt(V)
    BY <1>2, <1>4, <1>6, <1>12
  <2>2. pr(W) = FALSE
    BY <1>5, <1>12
  <2>3. Tool!Narrowed(name, q) = [filter EXCEPT !.printRequests = FALSE]
    BY <1>8, <1>12
  <2> HIDE DEF pr, ps, cm, sm, ci, si, cp, sp, pt, Of
  <2>4. Tool!Narrowed(name, q) = Of(W)
    BY <1>7, <1>10, <2>1, <2>2, <2>3
  <2> QED  BY <1>1, <2>4 DEF W, name, q, a
<1>13. CASE name = "cE"
  <2>1. /\ pr(W) = pr(V) /\ ps(W) = ps(V) /\ sm(W) = sm(V) /\ ci(W) = ci(V)
        /\ si(W) = si(V) /\ cp(W) = cp(V) /\ sp(W) = sp(V) /\ pt(W) = pt(V)
    BY <1>2, <1>4, <1>6, <1>13
  <2>2. cm(W) = cm(V) \cup {a}
    BY <1>5, <1>13
  <2>3. Tool!Narrowed(name, q) =
           [filter EXCEPT !.clientMACs = @ \cup {a}]
    BY <1>2, <1>8, <1>9, <1>13
  <2> HIDE DEF pr, ps, cm, sm, ci, si, cp, sp, pt, Of
  <2>4. Tool!Narrowed(name, q) = Of(W)
    BY <1>7, <1>10, <2>1, <2>2, <2>3
  <2> QED  BY <1>1, <2>4 DEF W, name, q, a
<1>14. CASE name = "sE"
  <2>1. /\ pr(W) = pr(V) /\ ps(W) = ps(V) /\ cm(W) = cm(V) /\ ci(W) = ci(V)
        /\ si(W) = si(V) /\ cp(W) = cp(V) /\ sp(W) = sp(V) /\ pt(W) = pt(V)
    BY <1>2, <1>4, <1>6, <1>14
  <2>2. sm(W) = sm(V) \cup {a}
    BY <1>5, <1>14
  <2>3. Tool!Narrowed(name, q) =
           [filter EXCEPT !.serverMACs = @ \cup {a}]
    BY <1>2, <1>8, <1>9, <1>14
  <2> HIDE DEF pr, ps, cm, sm, ci, si, cp, sp, pt, Of
  <2>4. Tool!Narrowed(name, q) = Of(W)
    BY <1>7, <1>10, <2>1, <2>2, <2>3
  <2> QED  BY <1>1, <2>4 DEF W, name, q, a
<1>15. CASE name = "cI"
  <2>1. /\ pr(W) = pr(V) /\ ps(W) = ps(V) /\ cm(W) = cm(V) /\ sm(W) = sm(V)
        /\ si(W) = si(V) /\ cp(W) = cp(V) /\ sp(W) = sp(V) /\ pt(W) = pt(V)
    BY <1>2, <1>4, <1>6, <1>15
  <2>2. ci(W) = ci(V) \cup {Tool!cidrToIPs(a[1], a[2])}
    BY <1>5, <1>15
  <2>3. Tool!Narrowed(name, q) =
           [filter EXCEPT !.clientIPs = @ \cup {Tool!cidrToIPs(a[1], a[2])}]
    BY <1>2, <1>8, <1>9, <1>15
  <2> HIDE DEF pr, ps, cm, sm, ci, si, cp, sp, pt, Of
  <2>4. Tool!Narrowed(name, q) = Of(W)
    BY <1>7, <1>10, <2>1, <2>2, <2>3
  <2> QED  BY <1>1, <2>4 DEF W, name, q, a
<1>16. CASE name = "sI"
  <2>1. /\ pr(W) = pr(V) /\ ps(W) = ps(V) /\ cm(W) = cm(V) /\ sm(W) = sm(V)
        /\ ci(W) = ci(V) /\ cp(W) = cp(V) /\ sp(W) = sp(V) /\ pt(W) = pt(V)
    BY <1>2, <1>4, <1>6, <1>16
  <2>2. si(W) = si(V) \cup {Tool!cidrToIPs(a[1], a[2])}
    BY <1>5, <1>16
  <2>3. Tool!Narrowed(name, q) =
           [filter EXCEPT !.serverIPs = @ \cup {Tool!cidrToIPs(a[1], a[2])}]
    BY <1>2, <1>8, <1>9, <1>16
  <2> HIDE DEF pr, ps, cm, sm, ci, si, cp, sp, pt, Of
  <2>4. Tool!Narrowed(name, q) = Of(W)
    BY <1>7, <1>10, <2>1, <2>2, <2>3
  <2> QED  BY <1>1, <2>4 DEF W, name, q, a
<1>17. CASE name = "cP"
  <2>1. /\ pr(W) = pr(V) /\ ps(W) = ps(V) /\ cm(W) = cm(V) /\ sm(W) = sm(V)
        /\ ci(W) = ci(V) /\ si(W) = si(V) /\ sp(W) = sp(V) /\ pt(W) = pt(V)
    BY <1>2, <1>4, <1>6, <1>17
  <2>2. cp(W) = cp(V) \cup {a}
    BY <1>5, <1>17
  <2>3. Tool!Narrowed(name, q) =
           [filter EXCEPT !.clientPorts = @ \cup {a}]
    BY <1>2, <1>8, <1>9, <1>17
  <2> HIDE DEF pr, ps, cm, sm, ci, si, cp, sp, pt, Of
  <2>4. Tool!Narrowed(name, q) = Of(W)
    BY <1>7, <1>10, <2>1, <2>2, <2>3
  <2> QED  BY <1>1, <2>4 DEF W, name, q, a
<1>18. CASE name = "sP"
  <2>1. /\ pr(W) = pr(V) /\ ps(W) = ps(V) /\ cm(W) = cm(V) /\ sm(W) = sm(V)
        /\ ci(W) = ci(V) /\ si(W) = si(V) /\ cp(W) = cp(V) /\ pt(W) = pt(V)
    BY <1>2, <1>4, <1>6, <1>18
  <2>2. sp(W) = sp(V) \cup {a}
    BY <1>5, <1>18
  <2>3. Tool!Narrowed(name, q) =
           [filter EXCEPT !.serverPorts = @ \cup {a}]
    BY <1>2, <1>8, <1>9, <1>18
  <2> HIDE DEF pr, ps, cm, sm, ci, si, cp, sp, pt, Of
  <2>4. Tool!Narrowed(name, q) = Of(W)
    BY <1>7, <1>10, <2>1, <2>2, <2>3
  <2> QED  BY <1>1, <2>4 DEF W, name, q, a
<1>19. CASE name \in DOMAIN Tool!Regexes
  <2>1. /\ pr(W) = pr(V) /\ ps(W) = ps(V) /\ cm(W) = cm(V) /\ sm(W) = sm(V)
        /\ ci(W) = ci(V) /\ si(W) = si(V) /\ cp(W) = cp(V) /\ sp(W) = sp(V)
    BY <1>2, <1>4, <1>19
  <2>2. pt(W) = Tool!With(pt(V), Tool!Regexes[name], a)
    BY <1>6, <1>19
  <2>3. Tool!Narrowed(name, q) =
           [filter EXCEPT !.patterns = Tool!With(@, Tool!Regexes[name], a)]
    BY <1>2, <1>8, <1>9, <1>19
  <2> HIDE DEF pr, ps, cm, sm, ci, si, cp, sp, pt, Of
  <2>4. Tool!Narrowed(name, q) = Of(W)
    BY <1>7, <1>10, <2>1, <2>2, <2>3
  <2> QED  BY <1>1, <2>4 DEF W, name, q, a
<1> QED
  BY <1>2, <1>3, <1>11, <1>12, <1>13, <1>14, <1>15, <1>16, <1>17, <1>18,
     <1>19 DEF name, q, a

(* The addresses of a network are those whose first bits are its own.      *)
LEMMA AddressesOf ==
    ASSUME NEW v, Network(v), NEW ip \in Nat
    PROVE  InRange(ip, {cidrToIPs(v[1], v[2])}) <=>
              ip \div 2^(32 - v[2]) = v[1] \div 2^(32 - v[2])
<1> DEFINE size == 2^(32 - v[2])
<1>1. /\ size \in Nat \ {0} /\ v[1] \in Nat
      /\ \E q \in 0..v[1] : v[1] = q * size
  BY DEF Network
<1>2. InRange(ip, {cidrToIPs(v[1], v[2])}) <=>
         v[1] <= ip /\ ip <= v[1] + size - 1
  <2> DEFINE r == cidrToIPs(v[1], v[2])
  <2>1. r[1] = v[1] /\ r[2] = v[1] + size - 1
    BY DEF cidrToIPs
  <2> HIDE DEF r, size
  <2>2. InRange(ip, {r}) <=> r[1] <= ip /\ ip <= r[2]
    BY DEF InRange
  <2> QED  BY <2>1, <2>2 DEF r
<1> HIDE DEF size
<1>3. ASSUME NEW n \in Nat
      PROVE  /\ n \div size \in Nat
             /\ (n \div size) * size <= n
             /\ n < (n \div size) * size + size
  BY <1>1
<1>4. PICK q \in 0..v[1] : v[1] = q * size
  BY <1>1
<1>5. v[1] <= ip /\ ip <= v[1] + size - 1 <=> ip \div size = v[1] \div size
  BY <1>1, <1>3, <1>4
<1> QED  BY <1>2, <1>5 DEF size

(* The filter that all the options make is what the command asks for.      *)
LEMMA FilterAsks ==
    ASSUME NEW words, <<"dumpHTTP", words>> \in Commands, Complete(words),
           NEW sought, sought = FilterOf(words, OptionPlaces(words)),
           NEW s \in HTTPSession, NEW m \in HTTPMessage
    PROVE  (/\ SessionWanted(EndpointsOf(s), sought)
            /\ MessageWanted(m, sought)) <=> Asks(words, s, m)
<1> DEFINE V == OptionPlaces(words)
           e == EndpointsOf(s)
<1>1. \A name : /\ GivenAt(words, V, name) = Given(words, name)
                /\ ValuesAt(words, V, name) = Values(words, name)
  BY DEF GivenAt, Given, ValuesAt, Values
<1>2. ASSUME NEW name, NEW value
      PROVE  Among(value, ValuesAt(words, V, name)) <=>
                Allows(words, name, value)
  <2>1. Values(words, name) = {} <=> Given(words, name) = {}
    BY DEF Values
  <2> QED  BY <1>1, <2>1 DEF Among, Allows
<1>3. ASSUME NEW name \in {"cI", "sI"}, NEW ip \in Nat
      PROVE  InRange(ip, RangesAt(words, V, name)) <=>
                AllowsIP(words, name, ip)
  <2>1. RangesAt(words, V, name) =
           {cidrToIPs(v[1], v[2]) : v \in Values(words, name)}
    BY <1>1 DEF RangesAt, Tool!cidrToIPs, cidrToIPs
  <2>2. Values(words, name) = {} <=> Given(words, name) = {}
    BY DEF Values
  <2> DEFINE in(r) == r[1] <= ip /\ ip <= r[2]
             to(v) == cidrToIPs(v[1], v[2])
  <2>3. InRange(ip, RangesAt(words, V, name)) <=>
           \/ Values(words, name) = {}
           \/ \E v \in Values(words, name) : in(to(v))
    BY <2>1 DEF InRange
  <2> DEFINE same(v) == ip \div 2^(32 - v[2]) = v[1] \div 2^(32 - v[2])
  <2>4. \A v \in Values(words, name) : Network(v)
    <3> DEFINE c == <<"dumpHTTP", words>>
    <3>1. c \in Commands /\ c[1] = "dumpHTTP" /\ c[2] = words
      OBVIOUS
    <3> HIDE DEF c
    <3> QED  BY <3>1, NetworkAssumption
  <2>5. \A v : InRange(ip, {to(v)}) <=> in(to(v))
    BY DEF InRange
  <2>6. \A v \in Values(words, name) : same(v) <=> in(to(v))
    <3> SUFFICES ASSUME NEW v \in Values(words, name)
                 PROVE  same(v) <=> in(to(v))
      OBVIOUS
    <3> HIDE DEF in
    <3> QED  BY <2>4, <2>5, AddressesOf
  <2> HIDE DEF in, to
  <2>7. AllowsIP(words, name, ip) <=>
           \/ Given(words, name) = {}
           \/ \E v \in Values(words, name) : same(v)
    BY DEF AllowsIP
  <2> HIDE DEF same
  <2> QED  BY <2>2, <2>3, <2>6, <2>7
<1>4. /\ sought.clientMACs = ValuesAt(words, V, "cE")
      /\ sought.serverMACs = ValuesAt(words, V, "sE")
      /\ sought.clientIPs = RangesAt(words, V, "cI")
      /\ sought.serverIPs = RangesAt(words, V, "sI")
      /\ sought.clientPorts = ValuesAt(words, V, "cP")
      /\ sought.serverPorts = ValuesAt(words, V, "sP")
      /\ sought.printRequests = (GivenAt(words, V, "res") = {})
      /\ sought.printResponses = (GivenAt(words, V, "req") = {})
      /\ sought.patterns = PatternsAt(words, V)
  BY DEF FilterOf
<1>5. /\ e.clientMAC = s.clientMAC /\ e.serverMAC = s.serverMAC
      /\ e.clientIP = s.clientIP /\ e.serverIP = s.serverIP
      /\ e.clientPort = s.clientPort /\ e.serverPort = s.serverPort
  BY DEF EndpointsOf
<1> HIDE DEF V, e
<1>6. SessionWanted(e, sought) <=>
         /\ Allows(words, "cE", s.clientMAC)
         /\ Allows(words, "sE", s.serverMAC)
         /\ AllowsIP(words, "cI", s.clientIP)
         /\ AllowsIP(words, "sI", s.serverIP)
         /\ Allows(words, "cP", s.clientPort)
         /\ Allows(words, "sP", s.serverPort)
  <2>1. s.clientIP \in Nat /\ s.serverIP \in Nat
    BY DEF HTTPSession
  <2> QED  BY <1>2, <1>3, <1>4, <1>5, <2>1 DEF SessionWanted
<1> DEFINE C == \/ m.type = REQUEST /\ sought.printRequests
                \/ m.type = RESPONSE /\ sought.printResponses
<1>7. C
         <=> /\ m.type = REQUEST => Given(words, "res") = {}
             /\ m.type = RESPONSE => Given(words, "req") = {}
  <2>1. m.type \in {REQUEST, RESPONSE} /\ REQUEST # RESPONSE
    BY DEF HTTPMessage, REQUEST, RESPONSE
  <2> QED  BY <1>1, <1>4, <2>1
<1> HIDE DEF C
<1>8. (\A part \in DOMAIN sought.patterns :
          m.message[part] \in sought.patterns[part])
         <=> \A name \in DOMAIN Tool!Regexes :
                Given(words, name) # {} =>
                   m.message[Tool!Regexes[name]] \in
                      Tool!Argument(words[Max(Given(words, name)) + 1])
  <2> DEFINE R == Tool!Regexes
             G(name) == Given(words, name)
             A(name) == Tool!Argument(words[Max(G(name)) + 1])
  <2>1. PartsAt(words, V) = {R[name] : name \in {n \in DOMAIN R : G(n) # {}}}
    BY <1>1 DEF PartsAt
  <2>2. \A name \in DOMAIN R : ForPart(R[name]) = name
    BY PartsDiffer
  <2>3. /\ DOMAIN sought.patterns = PartsAt(words, V)
        /\ \A part \in PartsAt(words, V) :
              sought.patterns[part] = A(ForPart(part))
    BY <1>1, <1>4 DEF PatternsAt
  <2> HIDE DEF R, G, A
  <2>4. \A name \in DOMAIN R : G(name) # {} =>
           /\ R[name] \in DOMAIN sought.patterns
           /\ sought.patterns[R[name]] = A(name)
    BY <2>1, <2>2, <2>3
  <2>5. \A part \in DOMAIN sought.patterns :
           \E name \in DOMAIN R : G(name) # {} /\ part = R[name]
    BY <2>1, <2>3
  <2>6. (\A part \in DOMAIN sought.patterns :
            m.message[part] \in sought.patterns[part])
           <=> \A name \in DOMAIN R :
                  G(name) # {} => m.message[R[name]] \in A(name)
    BY <2>4, <2>5
  <2> QED  BY <2>6 DEF R, G, A
<1> DEFINE A == \A part \in DOMAIN sought.patterns :
                    m.message[part] \in sought.patterns[part]
           B == \A name \in DOMAIN Tool!Regexes :
                   Given(words, name) # {} =>
                      m.message[Tool!Regexes[name]] \in
                         Tool!Argument(words[Max(Given(words, name)) + 1])
<1>9. MessageWanted(m, sought) <=> C /\ (m.type = REQUEST => A)
  BY DEF MessageWanted, Matches, C
<1>10. Asks(words, s, m) <=>
          /\ m.type = REQUEST => Given(words, "res") = {}
          /\ m.type = RESPONSE => Given(words, "req") = {}
          /\ Allows(words, "cE", s.clientMAC)
          /\ Allows(words, "sE", s.serverMAC)
          /\ AllowsIP(words, "cI", s.clientIP)
          /\ AllowsIP(words, "sI", s.serverIP)
          /\ Allows(words, "cP", s.clientPort)
          /\ Allows(words, "sP", s.serverPort)
          /\ m.type = REQUEST => B
  BY DEF Asks
<1>11. A <=> B
  BY <1>8
<1> HIDE DEF A, B
<1>12. (SessionWanted(e, sought) /\ MessageWanted(m, sought)) <=>
          Asks(words, s, m)
  BY <1>6, <1>7, <1>9, <1>10, <1>11
<1> QED  BY <1>12 DEF e

-----------------------------------------------------------------------------
(* What the tools have printed.                                            *)

(* The pages of a computer in a sequence of records.                       *)
ComputerOf(r) == Said(Jobs[r].text).computer
JobPages(r) == Said(Jobs[r].text).pages
PagesAmong(p, c) ==
    SumFunctionOnSet([i \in DOMAIN p |-> JobPages(p[i])],
                     {i \in DOMAIN p : ComputerOf(p[i]) = c})

(* A record more adds its pages to its computer.                           *)
LEMMA PagesAddUp ==
    ASSUME NEW p \in Seq(Records), NEW r \in Records, NEW c,
           \A q \in Records : JobPages(q) \in Nat
    PROVE  /\ PagesAmong(p, c) \in Nat
           /\ PagesAmong(Append(p, r), c) =
                 PagesAmong(p, c)
                 + (IF c = ComputerOf(r) THEN JobPages(r) ELSE 0)
<1> DEFINE n == Len(p)
           z == Append(p, r)
           k == n + 1
           f == [i \in DOMAIN p |-> JobPages(p[i])]
           g == [i \in DOMAIN z |-> JobPages(z[i])]
           S == {i \in DOMAIN p : ComputerOf(p[i]) = c}
           Z == {i \in DOMAIN z : ComputerOf(z[i]) = c}
<1>1. /\ n \in Nat /\ DOMAIN p = 1..n /\ DOMAIN z = 1..k
      /\ \A i \in 1..n : p[i] \in Records /\ z[i] = p[i]
      /\ z[k] = r
  BY AppendProperties, LenProperties
<1> HIDE DEF z, n
<1>2. IsFiniteSet(S) /\ S \subseteq 1..n
  <2>1. S \subseteq 1..n
    BY <1>1
  <2>2. IsFiniteSet(1..n)
    BY <1>1, FS_Interval
  <2> HIDE DEF S
  <2> QED  BY <2>1, <2>2, FS_Subset
<1>3. \A i \in S : f[i] \in Nat /\ f[i] = g[i] /\ g[i] \in Nat
  BY <1>1
<1>4. g[k] = JobPages(r) /\ k \notin S
  BY <1>1
<1>5. Z = IF c = ComputerOf(r) THEN S \cup {k} ELSE S
  <2>1. DOMAIN z = (DOMAIN p) \cup {k}
    BY <1>1
  <2>2. \A i \in DOMAIN p : z[i] = p[i]
    BY <1>1
  <2> HIDE DEF k
  <2> QED  BY <1>1, <2>1, <2>2
<1>6. PagesAmong(p, c) = SumFunctionOnSet(f, S)
      /\ PagesAmong(z, c) = SumFunctionOnSet(g, Z)
  BY DEF PagesAmong
<1> HIDE DEF S, f, g, Z, k
<1>7. SumFunctionOnSet(f, S) \in Nat
      /\ SumFunctionOnSet(f, S) = SumFunctionOnSet(g, S)
  BY <1>2, <1>3, SumIsNat, SumSame
<1>8. SumFunctionOnSet(g, S \cup {k}) = g[k] + SumFunctionOnSet(g, S)
  <2>1. \A i \in S \cup {k} : g[i] \in Nat
    BY <1>3, <1>4
  <2> QED  BY <1>2, <1>4, <2>1, SumAdd
<1>9. JobPages(r) \in Nat
  OBVIOUS
<1>10. PagesAmong(z, c) =
          PagesAmong(p, c) + (IF c = ComputerOf(r) THEN JobPages(r) ELSE 0)
  BY <1>4, <1>5, <1>6, <1>7, <1>8, <1>9
<1> QED  BY <1>6, <1>7, <1>10 DEF z

(* No record, no page.                                                     *)
LEMMA PagesOfNothing == ASSUME NEW p, DOMAIN p = {}, NEW c
                        PROVE  PagesAmong(p, c) = 0
<1>1. {i \in DOMAIN p : ComputerOf(p[i]) = c} = {}
  OBVIOUS
<1> QED  BY <1>1, SumEmpty DEF PagesAmong

(* A job has a number of pages.                                            *)
LEMMA JobsHavePages ==
    \A r \in Records : JobPages(r) \in Nat
<1> SUFFICES ASSUME NEW r \in Records
             PROVE  JobPages(r) \in Nat
  OBVIOUS
<1> DEFINE text == Jobs[r].text
<1>1. text \in Words
  BY CaptureAssumption DEF CaptureAssumption
<1> HIDE DEF text
<1>2. Said(text).pages \in Nat
  BY <1>1, SaidInWords
<1> QED  BY <1>2 DEF JobPages, text

(* What the options of a command ask for is what the command means.        *)
LEMMA CommandMeans ==
    ASSUME NEW words, <<"dumpHTTP", words>> \in Commands, Complete(words),
           NEW sought, sought = FilterOf(words, OptionPlaces(words)),
           NEW r \in Records,
           NEW m \in ToSet(HTTPSessions[r].requests
                           \o HTTPSessions[r].responses)
    PROVE  <<HTTPSessions[r], m>> \in Meaning[words] <=>
              /\ SessionWanted(EndpointsOf(HTTPSessions[r]), sought)
              /\ MessageWanted(m, sought)
<1> DEFINE s == HTTPSessions[r]
           all == s.requests \o s.responses
           c == <<"dumpHTTP", words>>
<1>1. m \in HTTPMessage
  <2>1. s \in HTTPSession
    BY CaptureAssumption DEF CaptureAssumption
  <2>2. s.requests \in Seq(HTTPMessage) /\ s.responses \in Seq(HTTPMessage)
    BY <2>1 DEF HTTPSession
  <2> HIDE DEF s
  <2>3. all \in Seq(HTTPMessage)
    BY <2>2
  <2>4. m \in ToSet(all)
    BY DEF s
  <2> HIDE DEF all
  <2> QED  BY <2>3, <2>4 DEF ToSet
<1>2. <<s, m>> \in Meaning[words] <=> Asks(words, s, m)
  <2>1. c \in Commands /\ c[1] = "dumpHTTP" /\ c[2] = words
    OBVIOUS
  <2> HIDE DEF c
  <2> QED  BY <2>1, MeaningAssumption
<1> HIDE DEF s
<1>3. (/\ SessionWanted(EndpointsOf(s), sought)
       /\ MessageWanted(m, sought)) <=> Asks(words, s, m)
  <2>1. s \in HTTPSession
    BY CaptureAssumption DEF CaptureAssumption, s
  <2> QED  BY <1>1, <2>1, FilterAsks
<1> QED  BY <1>2, <1>3 DEF s

(* Nothing has been asked for before the first option.                     *)
LEMMA NothingAsked ==
    ASSUME NEW words
    PROVE  FilterOf(words, {}) = Tool!NoFilter
<1>1. \A name : /\ GivenAt(words, {}, name) = {}
                /\ ValuesAt(words, {}, name) = {}
                /\ RangesAt(words, {}, name) = {}
  BY DEF GivenAt, ValuesAt, RangesAt
<1>2. PatternsAt(words, {}) = <<>>
  <2>1. PartsAt(words, {}) = {}
    BY <1>1 DEF PartsAt
  <2> QED  BY <2>1 DEF PatternsAt
<1> QED  BY <1>1, <1>2 DEF FilterOf, Tool!NoFilter

(* Before the first word no option has been read.                          *)
LEMMA NoOptionRead ==
    ASSUME NEW words, Len(words) \in Nat
    PROVE  OptionsRead(words, 1, {})
BY DEF OptionsRead, ClosedPlaces

-----------------------------------------------------------------------------
(* The command, and what is known of its options.                          *)
CommandInv ==
    /\ state = "idle" => /\ program = "" /\ index = 1
                         /\ filter = Tool!NoFilter
                         /\ output = <<>> /\ computers = <<>>
    /\ state # "idle" => <<program, argv>> \in Commands
    /\ state = "options" =>
           /\ program = "dumpHTTP"
           /\ \E V : OptionsRead(argv, index, V) /\ filter = FilterOf(argv, V)
    /\ program = "dumpHTTP" /\ state \in {"files", "read", "open", "print"} =>
           Complete(argv) /\ filter = FilterOf(argv, OptionPlaces(argv))

(* The records are read from files, and kept in the order they came.       *)
RecordsInv ==
    /\ disk \in [Files -> [Numbers -> {NoRecord} \cup Records]]
    /\ accepted \in Seq(Files) /\ files \in Seq(Files)
    /\ cursor # <<>> => cursor[1] \in Files
    /\ \E S : returned \in Seq(S)
    /\ \A i \in 1..Len(returned) : returned[i][2] \in Records
    /\ state = "print" =>
           returned # <<>> /\ returned[Len(returned)][2] = record

(* What a program has printed of a sequence of records.                     *)
PagesKnown(known, c) == IF c \in DOMAIN known THEN known[c] ELSE 0

Shows(prog, words, p, out, known) ==
    /\ prog = "dumpHTTP" =>
           out = FlattenSeq([i \in DOMAIN p |->
                                MessagesOf(HTTPSessions[p[i]],
                                           Meaning[words])])
    /\ prog = "dumpPJL" => out = [i \in DOMAIN p |-> JobOf(Jobs[p[i]])]
    /\ prog = "countPJL" =>
           \A c : PagesKnown(known, c) = PagesAmong(p, c) % 65536

(* OutputIsWhatWasCaptured, with sums of pages that are taken in 16 bits.  *)
OutputInv == Shows(program, argv, Printed, output, computers)

(* A command is a program and its words.                                   *)
LEMMA CommandsHaveWords ==
    ASSUME NEW c \in Commands
    PROVE  /\ c = <<c[1], c[2]>>
           /\ Len(c[2]) \in Nat /\ DOMAIN c[2] = 1..Len(c[2])
<1>1. c \in Tool!Programs \X {d[2] : d \in Commands}
      /\ c[2] \in Seq(ToSet(c[2]))
  BY ArchiveAssumption DEF ArchiveAssumption
<1>2. c = <<c[1], c[2]>>
  BY <1>1
<1> QED  BY <1>1, <1>2, LenProperties

(* The records that are printed.                                           *)
PrintedOf(r, s) ==
    [i \in 1..(IF s = "print" THEN Len(r) - 1 ELSE Len(r)) |-> r[i][2]]

(* They are records.                                                       *)
LEMMA PrintedIs ==
    ASSUME NEW r, \E S : r \in Seq(S),
           \A i \in 1..Len(r) : r[i][2] \in Records,
           NEW s, s = "print" => r # <<>>
    PROVE  LET p == PrintedOf(r, s)
               n == IF s = "print" THEN Len(r) - 1 ELSE Len(r)
           IN  /\ p \in Seq(Records) /\ n \in Nat
               /\ Len(p) = n /\ DOMAIN p = 1..n
               /\ \A i \in 1..n : p[i] = r[i][2]
<1> DEFINE n == IF s = "print" THEN Len(r) - 1 ELSE Len(r)
           p == PrintedOf(r, s)
<1>1. Len(r) \in Nat /\ (s = "print" => Len(r) # 0)
  OBVIOUS
<1>2. n \in Nat /\ n <= Len(r)
  BY <1>1
<1>3. p = [i \in 1..n |-> r[i][2]]
  BY DEF PrintedOf
<1> HIDE DEF n, p
<1>4. \A i \in 1..n : r[i][2] \in Records
  BY <1>1, <1>2
<1>5. p \in Seq(Records) /\ Len(p) = n
  BY <1>2, <1>3, <1>4
<1>6. DOMAIN p = 1..n /\ \A i \in 1..n : p[i] = r[i][2]
  BY <1>3
<1> QED  BY <1>2, <1>5, <1>6 DEF n, p

-----------------------------------------------------------------------------
(* A tool is started.                                                      *)
LEMMA RunCommandInv ==
    ASSUME CommandInv, NEW command \in Commands, Tool!Run(command)
    PROVE  CommandInv'
<1>1. /\ state = "idle" /\ program' = command[1] /\ argv' = command[2]
      /\ state' = IF command[1] = "dumpHTTP" THEN "options" ELSE "files"
      /\ index' = 1 /\ filter' = Tool!NoFilter
  BY DEF Tool!Run, CommandInv
<1>2. <<program', argv'>> \in Commands /\ Len(argv') \in Nat
  BY <1>1, CommandsHaveWords
<1>3. OptionsRead(argv', index', {}) /\ filter' = FilterOf(argv', {})
  BY <1>1, <1>2, NoOptionRead, NothingAsked
<1>4. state' = "options" => program' = "dumpHTTP"
  BY <1>1
<1>5. state' # "idle" /\ ~(program' = "dumpHTTP" /\ state' = "files")
      /\ state' \notin {"read", "open", "print"}
  BY <1>1
<1> QED  BY <1>2, <1>3, <1>4, <1>5 DEF CommandInv

(* An option narrows the filter.                                           *)
LEMMA OptionCommandInv ==
    ASSUME CommandInv, Tool!Option
    PROVE  CommandInv'
<1>1. /\ state = "options" /\ Tool!IsOption(index) /\ ~Tool!Illegal(index)
      /\ filter' = Tool!Narrowed(argv[index].option,
                                 IF argv[index].option \in Tool!WithArgument
                                 THEN Tool!Argument(argv[index + 1])
                                 ELSE "")
      /\ index' = index + (IF argv[index].option \in Tool!WithArgument
                           THEN 2 ELSE 1)
      /\ UNCHANGED <<state, program, argv>>
  BY DEF Tool!Option
<1>2. PICK V : OptionsRead(argv, index, V) /\ filter = FilterOf(argv, V)
  BY <1>1 DEF CommandInv
<1>3. /\ <<program, argv>> \in Commands
      /\ Len(argv) \in Nat /\ DOMAIN argv = 1..Len(argv)
  BY <1>1, CommandsHaveWords DEF CommandInv
<1>4. /\ index \in Nat /\ index \in 1..(Len(argv) + 1)
      /\ V \subseteq Nat /\ \A j \in V : j < index
  BY <1>2, <1>3 DEF OptionsRead
<1>5. Legal(argv, index)
  <2>1. index <= Len(argv) /\ "option" \in DOMAIN argv[index]
    BY <1>1 DEF Tool!IsOption
  <2>2. index \in 1..Len(argv)
    BY <1>3, <1>4, <2>1
  <2>3. IsOption(argv, index)
    BY <1>3, <2>1, <2>2 DEF IsOption
  <2>4. /\ argv[index].option \in Tool!Flags \cup Tool!WithArgument
        /\ argv[index].option \in Tool!WithArgument => index # Len(argv)
    BY <1>1 DEF Tool!Illegal
  <2>5. index # Len(argv) => index < Len(argv)
    <3> DEFINE n == Len(argv)
    <3>1. n \in Nat /\ index \in 1..n
      BY <1>3, <2>2
    <3> HIDE DEF n
    <3>2. index # n => index < n
      BY <3>1
    <3> QED  BY <3>2 DEF n
  <2> QED  BY <2>3, <2>4, <2>5 DEF Legal
<1>6. index' = NextPlace(argv, index)
  BY <1>1 DEF NextPlace
<1>7. OptionsRead(argv, index', V \cup {index})
  BY <1>2, <1>3, <1>5, <1>6, OptionReadNext
<1>8. filter' = FilterOf(argv, V \cup {index})
  BY <1>1, <1>2, <1>4, <1>5, FilterOneMore
<1>9. /\ state' = "options" /\ argv' = argv /\ program' = program
      /\ program = "dumpHTTP"
  BY <1>1 DEF CommandInv
<1>10. OptionsRead(argv', index', V \cup {index})
       /\ filter' = FilterOf(argv', V \cup {index})
  BY <1>7, <1>8, <1>9
<1> QED  BY <1>3, <1>9, <1>10 DEF CommandInv

(* The options end.                                                        *)
LEMMA OptionsEndCommandInv ==
    ASSUME CommandInv, Tool!OptionsEnd
    PROVE  CommandInv'
<1>1. /\ state = "options" /\ ~Tool!IsOption(index) /\ state' = "files"
      /\ UNCHANGED <<program, argv, filter>>
  BY DEF Tool!OptionsEnd
<1>2. PICK V : OptionsRead(argv, index, V) /\ filter = FilterOf(argv, V)
  BY <1>1 DEF CommandInv
<1>3. /\ <<program, argv>> \in Commands
      /\ Len(argv) \in Nat /\ DOMAIN argv = 1..Len(argv)
  BY <1>1, CommandsHaveWords DEF CommandInv
<1>4. ~IsOption(argv, index)
  BY <1>1, <1>2, <1>3 DEF Tool!IsOption, IsOption
<1>5. V = OptionPlaces(argv) /\ Complete(argv)
  BY <1>2, <1>3, <1>4, OptionsAreRead
<1> QED  BY <1>1, <1>2, <1>3, <1>5 DEF CommandInv

(* The command and its filter do not change any more.                      *)
LEMMA LaterCommandInv ==
    ASSUME CommandInv, state # "idle", UNCHANGED <<program, argv, filter>>,
           \/ state' \in {"exit 0", "exit 1", "undefined", "sort"}
           \/ state \in {"files", "read", "open", "print"}
              /\ state' \in {"files", "read", "open", "print"}
    PROVE  CommandInv'
BY DEF CommandInv

(* CommandInv is inductive.                                                *)
LEMMA NextCommandInv ==
    CommandInv /\ ToolInv /\ [ArchiveNext]_<<vars, readerVars, stage>>
        => CommandInv'
<1> SUFFICES ASSUME CommandInv, [ArchiveNext]_<<vars, readerVars, stage>>
             PROVE  CommandInv'
  OBVIOUS
<1>1. CASE UNCHANGED readerVars
  BY <1>1 DEF readerVars, CommandInv
<1>2. CASE Tool!Next
  <2>1. ASSUME NEW command \in Commands, Tool!Run(command)
        PROVE  CommandInv'
    BY <2>1, RunCommandInv
  <2>2. CASE Tool!OptionRefused
    BY <2>2, LaterCommandInv DEF Tool!OptionRefused
  <2>3. CASE Tool!Option
    BY <2>3, OptionCommandInv
  <2>4. CASE Tool!OptionsEnd
    BY <2>4, OptionsEndCommandInv
  <2>5. CASE Tool!Access \/ Tool!NoFiles \/ Tool!Add
    BY <2>5, LaterCommandInv DEF Tool!Access, Tool!NoFiles, Tool!Add
  <2>6. CASE Tool!Get \/ Tool!DatabaseEnds \/ Tool!NextDatabase
    BY <2>6, LaterCommandInv
       DEF Tool!Get, Tool!DatabaseEnds, Tool!NextDatabase
  <2>7. CASE Tool!ReadDone \/ Tool!ReadUndefined
    BY <2>7, LaterCommandInv DEF Tool!ReadDone, Tool!ReadUndefined
  <2>8. CASE Tool!PrintRecord
    BY <2>8, LaterCommandInv DEF Tool!PrintRecord
  <2>9. CASE Tool!Sort
    BY <2>9, LaterCommandInv DEF Tool!Sort
  <2> QED
    BY <1>2, <2>1, <2>2, <2>3, <2>4, <2>5, <2>6, <2>7, <2>8, <2>9
       DEF Tool!Next
<1>3. UNCHANGED readerVars \/ Tool!Next
  BY DEF ArchiveNext, SensorEnds, Delete
<1> QED  BY <1>1, <1>2, <1>3

-----------------------------------------------------------------------------
(* The disk, in every stage.                                               *)
LEMMA NextDisk ==
    ASSUME StorageInv, RecordsInv, [ArchiveNext]_<<vars, readerVars, stage>>
    PROVE  disk' \in [Files -> [Numbers -> {NoRecord} \cup Records]]
<1>0. disk \in [Files -> [Numbers -> {NoRecord} \cup Records]]
  BY DEF RecordsInv
<1>1. CASE stage = "sensor" /\ Next
  <2>1. TypeOK /\ ControlInv
    BY <1>1 DEF StorageInv, IInv
  <2>2. TypeOK'
    BY <1>1, <2>1, NextTypeOK
  <2> QED  BY <2>2 DEF TypeOK
<1>2. ASSUME NEW d \in Deletions, Delete(d[1], d[2])
      PROVE  disk' \in [Files -> [Numbers -> {NoRecord} \cup Records]]
  <2>1. d[1] \in Files
    BY ArchiveAssumption DEF ArchiveAssumption
  <2>2. PICK k : disk' = [disk EXCEPT ![d[1]] = Without(d[1], d[2], k)]
    BY <1>2 DEF Delete
  <2>3. Without(d[1], d[2], k) \in [Numbers -> {NoRecord} \cup Records]
    BY <1>0, <2>1 DEF Without
  <2> DEFINE w == Without(d[1], d[2], k)
             f == d[1]
  <2> HIDE DEF w, f
  <2>4. [disk EXCEPT ![f] = w]
           \in [Files -> [Numbers -> {NoRecord} \cup Records]]
    BY <1>0, <2>1, <2>3 DEF w, f
  <2> QED  BY <2>2, <2>4 DEF w, f
<1>3. CASE UNCHANGED disk
  BY <1>0, <1>3
<1>4. Tool!Next => UNCHANGED disk
  BY DEF Tool!Next, Tool!Run, Tool!OptionRefused, Tool!Option,
         Tool!OptionsEnd, Tool!Access, Tool!NoFiles, Tool!Add, Tool!Get,
         Tool!DatabaseEnds, Tool!NextDatabase, Tool!ReadDone,
         Tool!ReadUndefined, Tool!PrintRecord, Tool!Sort
<1>5. SensorEnds => UNCHANGED disk
  BY DEF SensorEnds
<1>6. UNCHANGED <<vars, readerVars, stage>> => UNCHANGED disk
  BY DEF vars, dbVars
<1> QED
  BY <1>1, <1>2, <1>3, <1>4, <1>5, <1>6 DEF ArchiveNext

(* Nothing is read, and no other file opened.                              *)
LEMMA SameRecordsInv ==
    ASSUME RecordsInv, UNCHANGED <<accepted, files, returned>>,
           disk' \in [Files -> [Numbers -> {NoRecord} \cup Records]],
           UNCHANGED cursor \/ cursor' = <<>>,
           state' # "print" \/ UNCHANGED <<state, record>>
    PROVE  RecordsInv'
BY DEF RecordsInv

(* A file is accepted only if it exists.                                   *)
LEMMA AccessRecordsInv ==
    ASSUME RecordsInv, Tool!Access
    PROVE  RecordsInv'
<1>1. /\ UNCHANGED <<disk, files, cursor, returned>> /\ state' = "files"
      /\ \/ UNCHANGED accepted
         \/ \E name \in Files : accepted' = Append(accepted, name)
  BY DEF Tool!Access
<1>2. accepted' \in Seq(Files)
  <2>1. accepted \in Seq(Files)
    BY DEF RecordsInv
  <2>2. \A name \in Files : Append(accepted, name) \in Seq(Files)
    BY <2>1
  <2> QED  BY <1>1, <2>1, <2>2
<1> QED  BY <1>1, <1>2 DEF RecordsInv

(* The cursor is in one of the files.                                      *)
LEMMA OpenedRecords ==
    ASSUME NEW list \in Seq(Files), Tool!Opened(list)
    PROVE  files' \in Seq(Files) /\ cursor' # <<>> /\ cursor'[1] \in Files
<1>1. /\ list # <<>> /\ cursor' = <<Head(list), 0>> /\ files' = Tail(list)
  BY DEF Tool!Opened
<1>2. Head(list) \in Files /\ Tail(list) \in Seq(Files)
  BY <1>1
<1> QED  BY <1>1, <1>2

(* The first file.                                                         *)
LEMMA AddRecordsInv ==
    ASSUME RecordsInv, Tool!Add
    PROVE  RecordsInv'
<1>1. /\ UNCHANGED <<disk, accepted, returned>> /\ state' = "read"
      /\ \/ Tool!Opened(accepted)
         \/ files' = accepted /\ UNCHANGED cursor
  BY DEF Tool!Add
<1>2. accepted \in Seq(Files)
  BY DEF RecordsInv
<1>3. files' \in Seq(Files) /\ (cursor' # <<>> => cursor'[1] \in Files)
  <2>1. CASE Tool!Opened(accepted)
    BY <1>2, <2>1, OpenedRecords
  <2>2. CASE files' = accepted /\ UNCHANGED cursor
    BY <1>2, <2>2 DEF RecordsInv
  <2> QED  BY <1>1, <2>1, <2>2
<1> QED  BY <1>1, <1>2, <1>3 DEF RecordsInv

(* The next one.                                                           *)
LEMMA NextDatabaseRecordsInv ==
    ASSUME RecordsInv, Tool!NextDatabase
    PROVE  RecordsInv'
<1>1. /\ UNCHANGED <<disk, accepted, returned>> /\ state' = "read"
      /\ Tool!Opened(files)
  BY DEF Tool!NextDatabase
<1>2. files \in Seq(Files) /\ accepted \in Seq(Files)
  BY DEF RecordsInv
<1>3. files' \in Seq(Files) /\ cursor'[1] \in Files
  BY <1>1, <1>2, OpenedRecords
<1> QED  BY <1>1, <1>2, <1>3 DEF RecordsInv

(* What is read is a record, and it is returned last.                      *)
LEMMA GetRecords ==
    ASSUME RecordsInv, Tool!Get
    PROVE  /\ state = "read" /\ state' = "print"
           /\ UNCHANGED <<program, argv, output, computers>>
           /\ record' \in Records
           /\ Len(returned') = Len(returned) + 1
           /\ \A i \in 1..Len(returned) : returned'[i] = returned[i]
           /\ returned'[Len(returned) + 1][2] = record'
           /\ \E S : returned' \in Seq(S)
<1>1. PICK n \in Tool!Following :
         cursor' = <<cursor[1], n>> /\ record' = disk[cursor[1]][n]
  BY DEF Tool!Get
<1>2. /\ state = "read" /\ state' = "print" /\ cursor # <<>>
      /\ UNCHANGED <<program, argv, output, computers>>
      /\ returned' = Append(returned, <<file, record', newDatabase>>)
  BY DEF Tool!Get
<1>3. record' \in Records
  <2>1. n \in Numbers /\ disk[cursor[1]][n] # NoRecord
    BY <1>1 DEF Tool!Following
  <2>2. /\ cursor[1] \in Files
        /\ disk \in [Files -> [Numbers -> {NoRecord} \cup Records]]
    BY <1>2 DEF RecordsInv
  <2>3. disk[cursor[1]][n] \in {NoRecord} \cup Records
    BY <2>1, <2>2
  <2> QED  BY <1>1, <2>1, <2>3
<1> DEFINE e == <<file, record', newDatabase>>
<1>4. PICK S : returned \in Seq(S)
  BY DEF RecordsInv
<1>5. e[2] = record' /\ returned' = Append(returned, e)
  BY <1>2
<1> HIDE DEF e
<1>6. /\ returned' \in Seq(S \cup {e})
      /\ Len(returned') = Len(returned) + 1
      /\ \A i \in 1..Len(returned) : returned'[i] = returned[i]
      /\ returned'[Len(returned) + 1] = e
  <2>1. returned \in Seq(S \cup {e})
    BY <1>4
  <2> DEFINE r == returned
             T == S \cup {e}
  <2>2. r \in Seq(T) /\ e \in T /\ returned' = Append(r, e)
    BY <1>5, <2>1
  <2> HIDE DEF T, r
  <2>3. /\ returned' \in Seq(T)
        /\ Len(returned') = Len(r) + 1
        /\ \A i \in 1..Len(r) : returned'[i] = r[i]
        /\ returned'[Len(r) + 1] = e
    BY <2>2, AppendProperties, LenProperties
  <2> QED  BY <2>3 DEF T, r
<1> QED  BY <1>2, <1>3, <1>5, <1>6

(* The cursor goes on.                                                     *)
LEMMA GetRecordsInv ==
    ASSUME RecordsInv, Tool!Get
    PROVE  RecordsInv'
<1>1. /\ record' \in Records
      /\ Len(returned') = Len(returned) + 1
      /\ \A i \in 1..Len(returned) : returned'[i] = returned[i]
      /\ returned'[Len(returned) + 1][2] = record'
      /\ \E S : returned' \in Seq(S)
  BY GetRecords
<1>2. UNCHANGED <<disk, accepted, files>> /\ cursor'[1] = cursor[1]
      /\ cursor # <<>>
  BY DEF Tool!Get
<1>3. Len(returned) \in Nat
  BY DEF RecordsInv
<1>4. \A i \in 1..Len(returned') : returned'[i][2] \in Records
  <2> TAKE i \in 1..Len(returned')
  <2>1. CASE i = Len(returned) + 1
    BY <1>1, <2>1
  <2>2. CASE i \in 1..Len(returned)
    BY <1>1, <2>2 DEF RecordsInv
  <2> QED  BY <1>1, <1>3, <2>1, <2>2
<1>5. returned' # <<>> /\ returned'[Len(returned')][2] = record'
  BY <1>1, <1>3
<1> QED  BY <1>1, <1>2, <1>4, <1>5 DEF RecordsInv

(* RecordsInv is inductive.                                                *)
LEMMA NextRecordsInv ==
    StorageInv /\ RecordsInv /\ [ArchiveNext]_<<vars, readerVars, stage>>
        => RecordsInv'
<1> SUFFICES ASSUME StorageInv, RecordsInv,
                    [ArchiveNext]_<<vars, readerVars, stage>>
             PROVE  RecordsInv'
  OBVIOUS
<1>1. disk' \in [Files -> [Numbers -> {NoRecord} \cup Records]]
  BY NextDisk
<1>2. CASE UNCHANGED readerVars
  BY <1>1, <1>2, SameRecordsInv DEF readerVars
<1>3. CASE Tool!Next
  <2>1. CASE \/ \E command \in Commands : Tool!Run(command)
             \/ Tool!OptionRefused \/ Tool!Option \/ Tool!OptionsEnd
             \/ Tool!NoFiles
    BY <1>1, <2>1, SameRecordsInv
       DEF Tool!Run, Tool!OptionRefused, Tool!Option, Tool!OptionsEnd,
           Tool!NoFiles
  <2>2. CASE Tool!Access
    BY <2>2, AccessRecordsInv
  <2>3. CASE Tool!Add
    BY <2>3, AddRecordsInv
  <2>4. CASE Tool!Get
    BY <2>4, GetRecordsInv
  <2>5. CASE Tool!NextDatabase
    BY <2>5, NextDatabaseRecordsInv
  <2>6. CASE \/ Tool!DatabaseEnds \/ Tool!ReadUndefined
             \/ Tool!PrintRecord \/ Tool!Sort
    BY <1>1, <2>6, SameRecordsInv
       DEF Tool!DatabaseEnds, Tool!ReadUndefined, Tool!PrintRecord, Tool!Sort
  <2>7. CASE Tool!ReadDone
    BY <1>1, <2>7, SameRecordsInv DEF Tool!ReadDone
  <2> QED
    BY <1>3, <2>1, <2>2, <2>3, <2>4, <2>5, <2>6, <2>7 DEF Tool!Next
<1>4. UNCHANGED readerVars \/ Tool!Next
  BY DEF ArchiveNext, SensorEnds, Delete
<1> QED  BY <1>2, <1>3, <1>4

(* Of no record nothing is printed.                                        *)
LEMMA ShowsNothing ==
    ASSUME NEW prog, NEW words, NEW p, DOMAIN p = {}
    PROVE  Shows(prog, words, p, <<>>, <<>>)
<1>1. \A c : PagesKnown(<<>>, c) = PagesAmong(p, c) % 65536
  <2> TAKE c
  <2>1. PagesAmong(p, c) = 0
    BY PagesOfNothing
  <2>2. PagesKnown(<<>>, c) = 0
    <3>1. DOMAIN (<<>>) = {}
      OBVIOUS
    <3> QED  BY <3>1 DEF PagesKnown
  <2> QED  BY <2>1, <2>2
<1>2. <<>> = [i \in DOMAIN p |-> JobOf(Jobs[p[i]])]
  OBVIOUS
<1>3. <<>> = FlattenSeq([i \in DOMAIN p |->
                 MessagesOf(HTTPSessions[p[i]], Meaning[words])])
  <2> DEFINE x == [i \in DOMAIN p |->
                      MessagesOf(HTTPSessions[p[i]], Meaning[words])]
  <2>1. x = <<>>
    OBVIOUS
  <2> HIDE DEF x
  <2>2. x \in Seq(Seq({})) /\ Len(x) = 0
    BY <2>1
  <2>3. \A i \in 1..Len(x) : x[i] = <<>>
    BY <2>2
  <2>4. FlattenSeq(x) = <<>>
    BY <2>2, <2>3, FlatOfNothing
  <2> QED  BY <2>4 DEF x
<1> DEFINE x == [i \in DOMAIN p |->
                    MessagesOf(HTTPSessions[p[i]], Meaning[words])]
           y == [i \in DOMAIN p |-> JobOf(Jobs[p[i]])]
<1> HIDE DEF x, y
<1>4. <<>> = FlattenSeq(x) /\ <<>> = y
  BY <1>2, <1>3 DEF x, y
<1> QED  BY <1>1, <1>4 DEF Shows, x, y

(* y is the sequence x with one more element.                              *)
Longer(T, n, x, e, y) ==
    /\ n \in Nat /\ x \in Seq(T) /\ Len(x) = n /\ e \in T
    /\ y = [i \in DOMAIN y |-> y[i]] /\ DOMAIN y = 1..(n + 1)
    /\ y[n + 1] = e /\ \A i \in 1..n : y[i] = x[i]

(* Append() makes no other.                                                *)
LEMMA AppendIs ==
    ASSUME NEW T, NEW n, NEW x, NEW e, NEW y, Longer(T, n, x, e, y)
    PROVE  y = Append(x, e)
<1>0. /\ n \in Nat /\ x \in Seq(T) /\ Len(x) = n /\ e \in T
      /\ y = [i \in DOMAIN y |-> y[i]] /\ DOMAIN y = 1..(n + 1)
      /\ y[n + 1] = e /\ \A i \in 1..n : y[i] = x[i]
  BY DEF Longer
<1> DEFINE w == Append(x, e)
<1>1. /\ w \in Seq(T) /\ Len(w) = n + 1 /\ w[n + 1] = e
      /\ \A i \in 1..n : w[i] = x[i]
  BY <1>0, AppendProperties, LenProperties
<1> HIDE DEF w
<1>2. w = [i \in 1..(n + 1) |-> w[i]]
  BY <1>0, <1>1
<1>3. \A i \in 1..(n + 1) : w[i] = y[i]
  <2> TAKE i \in 1..(n + 1)
  <2>1. CASE i = n + 1
    BY <1>0, <1>1, <2>1
  <2>2. CASE i \in 1..n
    BY <1>0, <1>1, <2>2
  <2> QED  BY <1>0, <2>1, <2>2
<1>4. [i \in 1..(n + 1) |-> w[i]] = [i \in 1..(n + 1) |-> y[i]]
  BY <1>3
<1>5. y = [i \in 1..(n + 1) |-> y[i]]
  BY <1>0
<1> QED  BY <1>2, <1>4, <1>5 DEF w

(* dumpHTTP: the messages of one record more.                              *)
LEMMA ShowsMessages ==
    ASSUME NEW words, NEW p \in Seq(Records), NEW r \in Records,
           NEW out, NEW known, NEW more,
           Shows("dumpHTTP", words, p, out, known),
           NEW T, \A q \in Records :
                     MessagesOf(HTTPSessions[q], Meaning[words]) \in Seq(T)
    PROVE  Shows("dumpHTTP", words, Append(p, r),
                 out \o MessagesOf(HTTPSessions[r], Meaning[words]), more)
<1> DEFINE F(q) == MessagesOf(HTTPSessions[q], Meaning[words])
           z == Append(p, r)
           x == [i \in DOMAIN p |-> F(p[i])]
           y == [i \in DOMAIN z |-> F(z[i])]
<1>1. out = FlattenSeq(x)
  BY DEF Shows
<1>2. x \in Seq(Seq(T)) /\ y = Append(x, F(r)) /\ F(r) \in Seq(T)
  <2>1. \A q \in Records : F(q) \in Seq(T)
    OBVIOUS
  <2>2. /\ DOMAIN p = 1..Len(p) /\ Len(p) \in Nat
        /\ \A i \in 1..Len(p) : p[i] \in Records
    BY LenProperties
  <2> HIDE DEF F
  <2>3. x \in Seq(Seq(T)) /\ Len(x) = Len(p)
    BY <2>1, <2>2
  <2>4. /\ DOMAIN z = 1..(Len(p) + 1) /\ z[Len(p) + 1] = r
        /\ \A i \in 1..Len(p) : z[i] = p[i]
    BY AppendProperties, LenProperties
  <2>5. F(r) \in Seq(T)
    BY <2>1
  <2>6. \A i \in 1..Len(p) : x[i] = F(p[i])
    BY <2>2
  <2> HIDE DEF x
  <2>7. y = [i \in 1..(Len(p) + 1) |-> F(z[i])]
    BY <2>4
  <2>8. /\ y = [i \in DOMAIN y |-> y[i]] /\ DOMAIN y = 1..(Len(p) + 1)
        /\ y[Len(p) + 1] = F(r)
        /\ \A i \in 1..Len(p) : y[i] = x[i]
    <3>1. y = [i \in DOMAIN y |-> y[i]]
      OBVIOUS
    <3> HIDE DEF y, z
    <3> QED  BY <2>2, <2>4, <2>6, <2>7, <3>1
  <2> HIDE DEF y, z
  <2>9. y = Append(x, F(r))
    <3> DEFINE n == Len(p)
               f == F(r)
               T2 == Seq(T)
    <3>1. Longer(T2, n, x, f, y)
      BY <2>2, <2>3, <2>5, <2>8 DEF Longer
    <3> HIDE DEF n, f, T2
    <3>2. y = Append(x, f)
      BY <3>1, AppendIs
    <3> QED  BY <3>2 DEF f
  <2> QED  BY <2>3, <2>5, <2>9
<1> HIDE DEF x, F
<1>3. FlattenSeq(Append(x, F(r))) = FlattenSeq(x) \o F(r)
  BY <1>2, FlatOfOneMore
<1> HIDE DEF y
<1>4. out \o F(r) = FlattenSeq(y)
  BY <1>1, <1>2, <1>3
<1> QED  BY <1>4 DEF Shows, F, y, z

(* dumpPJL: one more job.                                                  *)
LEMMA ShowsJob ==
    ASSUME NEW words, NEW p \in Seq(Records), NEW r \in Records,
           NEW out, NEW known, NEW more,
           Shows("dumpPJL", words, p, out, known)
    PROVE  Shows("dumpPJL", words, Append(p, r),
                 Append(out, JobOf(Jobs[r])), more)
<1> DEFINE F(q) == JobOf(Jobs[q])
           z == Append(p, r)
           n == Len(p)
<1>1. out = [i \in DOMAIN p |-> F(p[i])]
  BY DEF Shows
<1>2. /\ DOMAIN p = 1..n /\ n \in Nat
      /\ DOMAIN z = 1..(n + 1) /\ z[n + 1] = r
      /\ \A i \in 1..n : z[i] = p[i]
  BY AppendProperties, LenProperties
<1> HIDE DEF n, z, F
<1>3. out \in Seq({F(q) : q \in Records}) /\ Len(out) = n
  <2>1. \A i \in 1..n : p[i] \in Records
    BY <1>2
  <2> QED  BY <1>1, <1>2, <2>1
<1>4. \A i \in 1..n : out[i] = F(p[i])
  BY <1>1, <1>2
<1> DEFINE y == [i \in 1..(n + 1) |-> F(z[i])]
<1>5. y = Append(out, F(r))
  <2>1. F(r) \in {F(q) : q \in Records}
    OBVIOUS
  <2> HIDE DEF y
  <2>2. y = [i \in 1..(n + 1) |-> F(z[i])]
    BY DEF y
  <2> DEFINE f == F(r)
             T == {F(q) : q \in Records}
  <2>3. /\ DOMAIN y = 1..(n + 1) /\ y[n + 1] = f
        /\ \A i \in 1..n : y[i] = out[i]
    BY <1>2, <1>4, <2>2
  <2>4. y = [i \in DOMAIN y |-> y[i]]
    BY <2>2
  <2>5. out \in Seq(T) /\ Len(out) = n /\ f \in T /\ n \in Nat
    BY <1>2, <1>3, <2>1
  <2> HIDE DEF f, T
  <2>6. Longer(T, n, out, f, y)
    BY <2>3, <2>4, <2>5 DEF Longer
  <2>7. y = Append(out, f)
    BY <2>6, AppendIs
  <2> QED  BY <2>7 DEF f
<1>6. Append(out, F(r)) = [i \in DOMAIN z |-> F(z[i])]
  BY <1>2, <1>5
<1> QED  BY <1>6 DEF Shows, F, z

(* countPJL: the pages of one more job.                                    *)
LEMMA ShowsCount ==
    ASSUME NEW words, NEW p \in Seq(Records), NEW r \in Records,
           NEW out, NEW known, NEW more,
           Shows("countPJL", words, p, out, known)
    PROVE  Shows("countPJL", words, Append(p, r), more,
                 Counted(known, ComputerOf(r), JobPages(r) % 65536))
<1> DEFINE name == ComputerOf(r)
           m == JobPages(r)
           k == Counted(known, name, m % 65536)
           z == Append(p, r)
<1>1. ASSUME NEW c
      PROVE  PagesKnown(k, c) = PagesAmong(z, c) % 65536
  <2> DEFINE a == PagesAmong(p, c)
             b == PagesKnown(known, c)
  <2>1. /\ a \in Nat /\ m \in Nat
        /\ PagesAmong(z, c) = a + (IF c = name THEN m ELSE 0)
    BY JobsHavePages, PagesAddUp
  <2>2. b = a % 65536
    BY DEF Shows
  <2>3. PagesKnown(k, c) =
           IF c \in DOMAIN known \/ c = name
           THEN (b + (IF c = name THEN m % 65536 ELSE 0)) % 65536 ELSE 0
    BY DEF PagesKnown, Counted
  <2>4. c \notin DOMAIN known => b = 0
    BY DEF PagesKnown
  <2> HIDE DEF a, b, m, name, z, k
  <2>5. a \in Nat /\ m \in Nat
    BY <2>1
  <2>8. b \in Nat /\ b < 65536
    <3> DEFINE v == a % 65536
    <3>1. v \in Nat /\ v < 65536
      BY <2>5
    <3>2. b = v
      BY <2>2
    <3> HIDE DEF v
    <3> QED  BY <3>1, <3>2
  <2>6. CASE c = name
    <3>1. PagesKnown(k, c) = (b + (m % 65536)) % 65536
          /\ PagesAmong(z, c) = a + m
      BY <2>1, <2>3, <2>6
    <3>2. ((a % 65536) + (m % 65536)) % 65536 = (a + m) % 65536
      BY <2>5
    <3> QED  BY <2>2, <3>1, <3>2
  <2>7. CASE c # name
    <3>1. PagesAmong(z, c) = a
      BY <2>1, <2>7
    <3>2. PagesKnown(k, c) = b
      BY <2>3, <2>4, <2>7, <2>8
    <3> QED  BY <2>2, <3>1, <3>2
  <2> QED  BY <2>6, <2>7
<1> QED  BY <1>1 DEF Shows

(* Once the record that was read is printed, it is the last one.           *)
LEMMA PrintedOnce ==
    ASSUME NEW r, \E S : r \in Seq(S),
           \A i \in 1..Len(r) : r[i][2] \in Records,
           r # <<>>
    PROVE  /\ PrintedOf(r, "print") \in Seq(Records)
           /\ r[Len(r)][2] \in Records
           /\ PrintedOf(r, "read") =
                 Append(PrintedOf(r, "print"), r[Len(r)][2])
<1> DEFINE n == Len(r) - 1
           p == PrintedOf(r, "print")
           z == PrintedOf(r, "read")
           e == r[Len(r)][2]
<1>1. Len(r) \in Nat \ {0}
  OBVIOUS
<1>2. n \in Nat /\ Len(r) = n + 1
  BY <1>1
<1>3. /\ p \in Seq(Records) /\ Len(p) = n
      /\ \A i \in 1..n : p[i] = r[i][2]
  BY PrintedIs
<1>4. /\ DOMAIN z = 1..(n + 1)
      /\ \A i \in 1..(n + 1) : z[i] = r[i][2]
  <2>1. DOMAIN z = 1..Len(r) /\ \A i \in 1..Len(r) : z[i] = r[i][2]
    BY PrintedIs
  <2> QED  BY <1>2, <2>1
<1>5. z = [i \in DOMAIN z |-> z[i]]
  BY DEF PrintedOf
<1>6. e \in Records /\ z[n + 1] = e
  BY <1>2, <1>4
<1>7. \A i \in 1..n : z[i] = p[i]
  BY <1>2, <1>3, <1>4
<1> HIDE DEF n, p, z, e
<1>8. Longer(Records, n, p, e, z)
  BY <1>2, <1>3, <1>4, <1>5, <1>6, <1>7 DEF Longer
<1>9. z = Append(p, e)
  BY <1>8, AppendIs
<1> QED  BY <1>3, <1>6, <1>9 DEF p, z, e

(* A record is printed as what was captured in it.                         *)
LEMMA PrintShows ==
    ASSUME CommandInv, RecordsInv, OutputInv, Tool!PrintRecord
    PROVE  OutputInv'
<1> DEFINE p == PrintedOf(returned, "print")
<1>1. PICK data \in Contents(program, record) :
         /\ output' = IF program = "dumpHTTP"
                      THEN output \o printHTTP(data, filter)
                      ELSE IF program = "dumpPJL"
                      THEN Append(output, printPJL(data)) ELSE output
         /\ computers' = IF program = "countPJL" THEN count(computers, data)
                         ELSE computers
  BY ToolPrints DEF Tool!PrintRecord
<1>2. /\ state = "print" /\ state' = "read"
      /\ UNCHANGED <<program, argv, record, returned, filter>>
  BY DEF Tool!PrintRecord
<1>3. /\ p \in Seq(Records) /\ record \in Records
      /\ PrintedOf(returned, "read") = Append(p, record)
  <2>1. /\ \E S : returned \in Seq(S)
        /\ \A i \in 1..Len(returned) : returned[i][2] \in Records
        /\ returned # <<>> /\ returned[Len(returned)][2] = record
    BY <1>2 DEF RecordsInv
  <2> QED  BY <2>1, PrintedOnce
<1>4. Printed = p /\ Printed' = Append(p, record)
  BY <1>2, <1>3 DEF Printed, PrintedOf
<1>5. Shows(program, argv, p, output, computers)
  BY <1>4 DEF OutputInv
<1> HIDE DEF p
<1>6. CASE program = "dumpHTTP"
  <2> DEFINE T == Connection \X HTTPMessage
             wanted == Meaning[argv]
  <2>1. /\ <<"dumpHTTP", argv>> \in Commands /\ Complete(argv)
        /\ filter = FilterOf(argv, OptionPlaces(argv))
    BY <1>2, <1>6 DEF CommandInv
  <2>2. ASSUME NEW q \in Records,
               NEW m \in ToSet(HTTPSessions[q].requests
                               \o HTTPSessions[q].responses)
        PROVE  <<HTTPSessions[q], m>> \in wanted <=>
                  /\ SessionWanted(EndpointsOf(HTTPSessions[q]), filter)
                  /\ MessageWanted(m, filter)
    BY <2>1, CommandMeans
  <2> HIDE DEF wanted
  <2>3. \A q \in Records : MessagesOf(HTTPSessions[q], wanted) \in Seq(T)
    <3> TAKE q \in Records
    <3>1. PICK d : d \in Contents("dumpHTTP", q)
      BY DEF Contents
    <3> QED  BY <2>2, <3>1, SessionRead
  <2>4. printHTTP(data, filter) = MessagesOf(HTTPSessions[record], wanted)
    <3>1. data \in Contents("dumpHTTP", record)
      BY <1>6
    <3> QED  BY <1>3, <2>2, <3>1, SessionRead
  <2> HIDE DEF T
  <2>5. Shows("dumpHTTP", argv, Append(p, record),
              output \o MessagesOf(HTTPSessions[record], Meaning[argv]),
              computers')
    <3>1. Shows("dumpHTTP", argv, p, output, computers)
      BY <1>5, <1>6
    <3>2. \A q \in Records : MessagesOf(HTTPSessions[q], Meaning[argv])
                                \in Seq(T)
      BY <2>3 DEF wanted
    <3> QED  BY <1>3, <3>1, <3>2, ShowsMessages
  <2> QED  BY <1>1, <1>2, <1>4, <1>6, <2>4, <2>5 DEF OutputInv, wanted
<1>7. CASE program = "dumpPJL"
  <2>1. printPJL(data) = JobOf(Jobs[record])
    BY <1>3, <1>7, JobRead
  <2>2. Shows("dumpPJL", argv, p, output, computers)
    BY <1>5, <1>7
  <2>3. Shows("dumpPJL", argv, Append(p, record),
              Append(output, JobOf(Jobs[record])), computers')
    BY <1>3, <2>2, ShowsJob
  <2> QED  BY <1>1, <1>2, <1>4, <1>7, <2>1, <2>3 DEF OutputInv
<1>8. CASE program = "countPJL"
  <2>1. count(computers, data) =
           Counted(computers, ComputerOf(record), JobPages(record) % 65536)
    BY <1>3, <1>8, JobRead DEF ComputerOf, JobPages
  <2>2. Shows("countPJL", argv, p, output, computers)
    BY <1>5, <1>8
  <2>3. Shows("countPJL", argv, Append(p, record), output',
              Counted(computers, ComputerOf(record),
                      JobPages(record) % 65536))
    BY <1>3, <2>2, ShowsCount
  <2> QED  BY <1>1, <1>2, <1>4, <1>8, <2>1, <2>3 DEF OutputInv
<1>9. CASE program \notin {"dumpHTTP", "dumpPJL", "countPJL"}
  <2>1. \A words, q, out, known : Shows(program, words, q, out, known)
    BY <1>9 DEF Shows
  <2> QED  BY <1>2, <2>1 DEF OutputInv
<1> QED  BY <1>6, <1>7, <1>8, <1>9

(* The others print nothing; countPJL prints its table.                    *)
LEMMA SameShows ==
    ASSUME OutputInv, UNCHANGED <<program, argv, computers, returned>>,
           state # "print", state' # "print",
           UNCHANGED output \/ program = "countPJL"
    PROVE  OutputInv'
<1>1. Printed' = Printed
  BY DEF Printed
<1>2. Shows(program, argv, Printed, output, computers)
  BY DEF OutputInv
<1>3. Shows(program, argv, Printed, output', computers)
  <2>1. CASE UNCHANGED output
    BY <1>2, <2>1
  <2>2. CASE program = "countPJL"
    BY <1>2, <2>2 DEF Shows
  <2> QED  BY <2>1, <2>2
<1> QED  BY <1>1, <1>3 DEF OutputInv

(* Reading prints nothing.                                                 *)
LEMMA GetShows ==
    ASSUME RecordsInv, OutputInv, Tool!Get
    PROVE  OutputInv'
<1>1. /\ state = "read" /\ state' = "print"
      /\ UNCHANGED <<program, argv, output, computers>>
      /\ Len(returned') = Len(returned) + 1
      /\ \A i \in 1..Len(returned) : returned'[i] = returned[i]
  BY GetRecords
<1>2. Len(returned) \in Nat
  BY DEF RecordsInv
<1>3. Printed = [i \in 1..Len(returned) |-> returned[i][2]]
  BY <1>1 DEF Printed
<1>4. Printed' = [i \in 1..Len(returned) |-> returned'[i][2]]
  <2>1. Printed' = [i \in 1..(Len(returned') - 1) |-> returned'[i][2]]
    BY <1>1 DEF Printed
  <2>2. Len(returned') - 1 = Len(returned)
    BY <1>1, <1>2
  <2> QED  BY <2>1, <2>2
<1>5. Printed' = Printed
  BY <1>1, <1>3, <1>4
<1> QED  BY <1>1, <1>5 DEF OutputInv

(* OutputInv is inductive, with the others.                                *)
LEMMA NextOutputInv ==
    CommandInv /\ RecordsInv /\ ToolInv /\ OutputInv
    /\ [ArchiveNext]_<<vars, readerVars, stage>>
        => OutputInv'
<1> SUFFICES ASSUME CommandInv, RecordsInv, ToolInv, OutputInv,
                    [ArchiveNext]_<<vars, readerVars, stage>>
             PROVE  OutputInv'
  OBVIOUS
<1>1. CASE UNCHANGED readerVars
  <2>1. UNCHANGED <<program, argv, output, computers, returned, state>>
    BY <1>1 DEF readerVars
  <2>2. Printed' = Printed
    BY <2>1 DEF Printed
  <2> QED  BY <2>1, <2>2 DEF OutputInv
<1>2. CASE Tool!Next
  <2>1. ASSUME NEW command \in Commands, Tool!Run(command)
        PROVE  OutputInv'
    <3>1. /\ output' = <<>> /\ computers' = <<>> /\ returned' = <<>>
          /\ state' # "print"
      BY <2>1 DEF Tool!Run, CommandInv, ToolInv, UnreadInv
    <3>2. DOMAIN Printed' = {}
      <4>1. Printed' = [i \in 1..Len(returned') |-> returned'[i][2]]
        BY <3>1 DEF Printed
      <4>2. Len(returned') = 0
        BY <3>1
      <4>3. 1..Len(returned') = {}
        BY <4>2
      <4> QED  BY <4>1, <4>3
    <3>3. Shows(program', argv', Printed', <<>>, <<>>)
      BY <3>2, ShowsNothing
    <3> QED  BY <3>1, <3>3 DEF OutputInv
  <2>2. CASE \/ Tool!OptionRefused \/ Tool!Option \/ Tool!OptionsEnd
             \/ Tool!Access \/ Tool!NoFiles \/ Tool!Add
    BY <2>2, SameShows
       DEF Tool!OptionRefused, Tool!Option, Tool!OptionsEnd, Tool!Access,
           Tool!NoFiles, Tool!Add
  <2>3. CASE \/ Tool!DatabaseEnds \/ Tool!NextDatabase \/ Tool!ReadDone
             \/ Tool!ReadUndefined
    BY <2>3, SameShows
       DEF Tool!DatabaseEnds, Tool!NextDatabase, Tool!ReadDone,
           Tool!ReadUndefined
  <2>4. CASE Tool!Get
    BY <2>4, GetShows
  <2>5. CASE Tool!PrintRecord
    BY <2>5, PrintShows
  <2>6. CASE Tool!Sort
    <3>1. /\ state = "sort" /\ state' \in {"undefined", "exit 0"}
          /\ UNCHANGED <<program, argv, computers, returned>>
      BY <2>6 DEF Tool!Sort
    <3>2. program = "countPJL"
      BY <3>1 DEF ToolInv, EndInv
    <3> QED  BY <3>1, <3>2, SameShows
  <2> QED
    BY <1>2, <2>1, <2>2, <2>3, <2>4, <2>5, <2>6 DEF Tool!Next
<1>3. UNCHANGED readerVars \/ Tool!Next
  BY DEF ArchiveNext, SensorEnds, Delete
<1> QED  BY <1>1, <1>2, <1>3

-----------------------------------------------------------------------------
(* They hold in the beginning.                                             *)
LEMMA InitOutput ==
    ArchiveInit => CommandInv /\ RecordsInv /\ OutputInv
<1> SUFFICES ASSUME ArchiveInit
             PROVE  CommandInv /\ RecordsInv /\ OutputInv
  OBVIOUS
<1>1. /\ program = "" /\ state = "idle" /\ index = 1
      /\ filter = Tool!NoFilter /\ output = <<>> /\ computers = <<>>
      /\ files = <<>> /\ cursor = <<>> /\ accepted = <<>>
      /\ returned = <<>>
  BY DEF ArchiveInit, Tool!Init
<1>2. disk \in [Files -> [Numbers -> {NoRecord} \cup Records]]
  BY InitInv DEF ArchiveInit, TypeOK
<1>3. CommandInv
  BY <1>1 DEF CommandInv
<1>4. RecordsInv
  <2>1. Len(returned) = 0 /\ \E S : returned \in Seq(S)
    <3>1. <<>> \in Seq(Nat)
      OBVIOUS
    <3> QED  BY <1>1, <3>1
  <2>2. accepted \in Seq(Files) /\ files \in Seq(Files)
    <3>1. <<>> \in Seq(Files)
      OBVIOUS
    <3> QED  BY <1>1, <3>1
  <2>3. \A i \in 1..Len(returned) : returned[i][2] \in Records
    BY <2>1
  <2> QED  BY <1>1, <1>2, <2>1, <2>2, <2>3 DEF RecordsInv
<1>5. OutputInv
  <2>1. \A words, p, out, known : Shows("", words, p, out, known)
    BY DEF Shows
  <2> QED  BY <1>1, <2>1 DEF OutputInv
<1> QED  BY <1>3, <1>4, <1>5

(* The pages of a computer are those of its printed jobs.                  *)
LEMMA PagesAreAmong ==
    ASSUME NEW c
    PROVE  PagesOf(c) = PagesAmong(Printed, c)
BY DEF PagesOf, PagesAmong, ComputerOf, JobPages

(* The pages of a computer are a number.                                   *)
LEMMA PagesAreNatural ==
    ASSUME NEW p \in Seq(Records), NEW c
    PROVE  PagesAmong(p, c) \in Nat
<1> DEFINE S == {i \in DOMAIN p : ComputerOf(p[i]) = c}
           f == [i \in DOMAIN p |-> JobPages(p[i])]
<1>1. DOMAIN p = 1..Len(p) /\ Len(p) \in Nat
      /\ \A i \in DOMAIN p : p[i] \in Records
  BY LenProperties
<1>2. \A i \in S : f[i] \in Nat
  BY <1>1, JobsHavePages
<1>3. IsFiniteSet(S)
  <2>1. IsFiniteSet(1..Len(p))
    BY <1>1, FS_Interval
  <2>2. S \subseteq 1..Len(p)
    BY <1>1
  <2> HIDE DEF S
  <2> QED  BY <2>1, <2>2, FS_Subset
<1>4. PagesAmong(p, c) = SumFunctionOnSet(f, S)
  BY DEF PagesAmong
<1> HIDE DEF S, f
<1> QED  BY <1>2, <1>3, <1>4, SumIsNat

(* What a tool prints is what was captured: the messages asked for of the  *)
(* sessions, what the jobs say of themselves, and the sums of their pages. *)
THEOREM ToolsPrintWhatWasCaptured ==
    ArchiveSpec => []OutputIsWhatWasCaptured
<1>1. RecordsInv /\ OutputInv => OutputIsWhatWasCaptured
  <2> SUFFICES ASSUME RecordsInv, OutputInv
               PROVE  OutputIsWhatWasCaptured
    OBVIOUS
  <2>1. Shows(program, argv, Printed, output, computers)
    BY DEF OutputInv
  <2>2. ASSUME program = "countPJL", NEW c \in DOMAIN computers,
               PagesOf(c) < 65536
        PROVE  computers[c] = PagesOf(c)
    <3>1. computers[c] = PagesAmong(Printed, c) % 65536
      BY <2>1, <2>2 DEF Shows, PagesKnown
    <3>2. PagesAmong(Printed, c) \in Nat
      <4>1. Printed \in Seq(Records)
        <5>1. /\ \E S : returned \in Seq(S)
              /\ \A i \in 1..Len(returned) : returned[i][2] \in Records
              /\ state = "print" => returned # <<>>
          BY DEF RecordsInv
        <5>2. PrintedOf(returned, state) \in Seq(Records)
          BY <5>1, PrintedIs
        <5> QED  BY <5>2 DEF Printed, PrintedOf
      <4> QED  BY <4>1, PagesAreNatural
    <3>3. PagesAmong(Printed, c) < 65536
      BY <2>2, PagesAreAmong
    <3> DEFINE a == PagesAmong(Printed, c)
    <3>4. a % 65536 = a
      <4>1. a \in Nat /\ a < 65536
        BY <3>2, <3>3
      <4> HIDE DEF a
      <4> QED  BY <4>1
    <3> QED  BY <3>1, <3>4, PagesAreAmong
  <2>3. /\ program = "dumpHTTP" =>
              output = FlattenSeq([i \in DOMAIN Printed |->
                          MessagesOf(HTTPSessions[Printed[i]], Meaning[argv])])
        /\ program = "dumpPJL" =>
              output = [i \in DOMAIN Printed |-> JobOf(Jobs[Printed[i]])]
    BY <2>1 DEF Shows
  <2> QED  BY <2>2, <2>3 DEF OutputIsWhatWasCaptured
<1>2. ArchiveSpec => [](StorageInv /\ ToolInv)
  BY InvariantStorageInv, InitToolInv, NextToolInv, PTL DEF ArchiveSpec
<1>3. (StorageInv /\ ToolInv) /\ (CommandInv /\ RecordsInv /\ OutputInv)
      /\ [ArchiveNext]_<<vars, readerVars, stage>>
         => (CommandInv /\ RecordsInv /\ OutputInv)'
  BY NextCommandInv, NextRecordsInv, NextOutputInv
<1> QED  BY <1>1, <1>2, <1>3, InitOutput, PTL DEF ArchiveSpec

=============================================================================
