-------------------------------- MODULE Writer --------------------------------
(***************************************************************************)
(* sensor/include/writer.hpp: the class template that hands finished       *)
(* sessions from a module's flush thread to a database thread.             *)
(*                                                                         *)
(* Two threads.  The client is the sensor's flush thread: it is the only   *)
(* one that calls write(), flush() and (if anyone) finish().  The writer   *)
(* thread runs _writeFlows().  They share writeQueue, status, _flush and   *)
(* _write, and the condition variable writeCondition.                      *)
(*                                                                         *)
(* Granularity.  The critical sections of statusLock, queueLock and        *)
(* flushLock each hold a single assignment (or a test and a broadcast), so *)
(* one such section is one step and the three locks are not variables.     *)
(* writeLock is held by the writer thread across its whole loop body; it   *)
(* is a variable because pthread_cond_wait() releases and retakes it.  The *)
(* reads writeQueue.empty() and writeQueue.front() take no lock: they are  *)
(* steps of their own, between which the client can push.                  *)
(***************************************************************************)
EXTENDS Naturals, Sequences

CONSTANTS
    Flows,          \* the sessions clients hand over
    MaxCalls,      \* bound: number of write() calls
    MaxFlushes,     \* bound: number of flush() calls
    Finishes,       \* TRUE if the client calls finish() when it is done
    Refusals        \* TRUE if db.write() may fail

ASSUME WriterAssumption ==
    /\ MaxCalls \in Nat
    /\ MaxFlushes \in Nat
    /\ Finishes \in BOOLEAN
    /\ Refusals \in BOOLEAN

VARIABLES
    writeQueue,     \* flows pushed by write() and not yet popped
    status,         \* TRUE while the writer thread says it is draining
    _flush,         \* a flush() nobody has served yet
    _write,         \* cleared by finish()
    writeLock,      \* TRUE while the writer thread holds writeLock
    writerPC,       \* where the writer thread is in _writeFlows()
    clientPC,       \* where the client is in write() or finish()
    stored,         \* records Berkeley DB accepted, in order
    flushedTo,      \* how many of them there were at the last db.flush()
    submitted,      \* history: flows given to write(), in order
    attempted,      \* history: flows given to db.write(), in order
    flushes,        \* number of flush() calls so far
    flushMark,      \* history: Len(stored) at the last flush() call
    missed          \* history: which write() last signalled in vain, or 0

clientVars == <<clientPC, submitted, flushes, flushMark, missed>>
storeVars  == <<stored, flushedTo, attempted>>
writerVars == <<writeQueue, status, _flush, _write, writeLock, writerPC,
                clientVars, storeVars>>

WriterPCs == {"test", "beforeWait", "waiting", "woken", "drain", "pop",
               "drained", "checkFlush", "dbFlush", "unlock", "exited"}
ClientPCs == {"idle", "signal", "finishing", "joining", "joined"}

(* Writer::initialize(): the locks exist, the database directory is        *)
(* writable and the thread has been created.                               *)
WriterInit ==
    /\ writeQueue = <<>>
    /\ status = FALSE
    /\ _flush = FALSE
    /\ _write = TRUE
    /\ writeLock = FALSE
    /\ writerPC = "test"
    /\ clientPC = "idle"
    /\ stored = <<>>
    /\ flushedTo = 0
    /\ submitted = <<>>
    /\ attempted = <<>>
    /\ flushes = 0
    /\ flushMark = 0
    /\ missed = 0

-----------------------------------------------------------------------------
(* The client.                                                             *)

(* A bug for the mutation run: the newest flow goes to the front.          *)
PushFront(f) ==
    /\ clientPC = "idle"
    /\ Len(submitted) < MaxCalls
    /\ writeQueue' = <<f>> \o writeQueue
    /\ submitted' = Append(submitted, f)
    /\ clientPC' = "signal"
    /\ UNCHANGED <<status, _flush, _write, writeLock, writerPC, storeVars,
                   flushes, flushMark, missed>>

(* write(): push under queueLock ...                                       *)
Push(f) ==
    /\ clientPC = "idle"
    /\ Len(submitted) < MaxCalls
    /\ writeQueue' = Append(writeQueue, f)
    /\ submitted' = Append(submitted, f)
    /\ clientPC' = "signal"
    /\ UNCHANGED <<status, _flush, _write, writeLock, writerPC, storeVars,
                   flushes, flushMark, missed>>

(* A broadcast wakes the writer thread if it is waiting, and is lost       *)
(* otherwise.                                                              *)
Broadcast ==
    writerPC' = IF writerPC = "waiting" THEN "woken" ELSE writerPC

(* ... then, under statusLock, broadcast unless the thread is draining.    *)
SignalIfIdle ==
    IF status THEN UNCHANGED writerPC ELSE Broadcast

(* The thread has left the drain and does not wait yet: a signal is        *)
(* skipped, while "status" is still raised, or lost.                       *)
PastDrain ==
    writerPC \in {"drained", "checkFlush", "dbFlush", "unlock", "test",
                  "beforeWait"}

Signal ==
    /\ clientPC = "signal"
    /\ SignalIfIdle
    /\ missed' = IF PastDrain THEN Len(submitted) ELSE missed
    /\ clientPC' = "idle"
    /\ UNCHANGED <<writeQueue, status, _flush, _write, writeLock, storeVars,
                   submitted, flushes, flushMark>>

(* flush() only raises the flag: it does not wake the writer thread.       *)
Flush ==
    /\ clientPC = "idle"
    /\ flushes < MaxFlushes
    /\ _flush' = TRUE
    /\ flushes' = flushes + 1
    /\ flushMark' = Len(stored)
    /\ UNCHANGED <<writeQueue, status, _write, writeLock, writerPC, clientPC,
                   storeVars, submitted, missed>>

(* finish(): clear _write (no lock), broadcast unless draining, join.      *)
Finish ==
    /\ Finishes
    /\ clientPC = "idle"
    /\ _write' = FALSE
    /\ clientPC' = "finishing"
    /\ UNCHANGED <<writeQueue, status, _flush, writeLock, writerPC, storeVars,
                   submitted, flushes, flushMark, missed>>

FinishSignal ==
    /\ clientPC = "finishing"
    /\ SignalIfIdle
    /\ clientPC' = "joining"
    /\ UNCHANGED <<writeQueue, status, _flush, _write, writeLock, storeVars,
                   submitted, flushes, flushMark, missed>>

Join ==
    /\ clientPC = "joining"
    /\ writerPC = "exited"
    /\ clientPC' = "joined"
    /\ UNCHANGED <<writeQueue, status, _flush, _write, writeLock, writerPC,
                   storeVars, submitted, flushes, flushMark, missed>>

ClientStep ==
    \/ \E f \in Flows : Push(f)
    \/ Signal
    \/ Flush
    \/ Finish
    \/ FinishSignal
    \/ Join

-----------------------------------------------------------------------------
(* The writer thread, _writeFlows().                                       *)

clientUnchanged == UNCHANGED <<clientVars, _write>>

(* while (_write && pthread_mutex_trylock(&writeLock) == 0): a cleared     *)
(* _write or a lock somebody holds ends the thread.                        *)
LoopTest ==
    /\ writerPC = "test"
    /\ IF _write /\ ~writeLock
       THEN writeLock' = TRUE /\ writerPC' = "beforeWait"
       ELSE writerPC' = "exited" /\ UNCHANGED writeLock
    /\ UNCHANGED <<writeQueue, status, _flush, storeVars>>
    /\ clientUnchanged

(* pthread_cond_wait(): release writeLock and start waiting, atomically.   *)
Wait ==
    /\ writerPC = "beforeWait"
    /\ writeLock' = FALSE
    /\ writerPC' = "waiting"
    /\ UNCHANGED <<writeQueue, status, _flush, storeVars>>
    /\ clientUnchanged

(* The wait may also end for no reason (POSIX allows spurious wakeups).    *)
SpuriousWakeup ==
    /\ writerPC = "waiting"
    /\ writerPC' = "woken"
    /\ UNCHANGED <<writeQueue, status, _flush, writeLock, storeVars>>
    /\ clientUnchanged

(* The wait returns with writeLock held; status is raised.                 *)
RaiseStatus ==
    /\ writerPC = "woken"
    /\ ~writeLock
    /\ writeLock' = TRUE
    /\ status' = TRUE
    /\ writerPC' = "drain"
    /\ UNCHANGED <<writeQueue, _flush, storeVars>>
    /\ clientUnchanged

(* !writeQueue.empty(): format the front flow and give it to the database. *)
(* db.write()'s result is ignored: a refused record is dropped like a      *)
(* stored one.                                                             *)
WriteFront ==
    /\ writerPC = "drain"
    /\ writeQueue # <<>>
    /\ attempted' = Append(attempted, Head(writeQueue))
    /\ \/ stored' = Append(stored, Head(writeQueue))
       \/ Refusals /\ UNCHANGED stored
    /\ writerPC' = "pop"
    /\ UNCHANGED <<writeQueue, status, _flush, writeLock, flushedTo>>
    /\ clientUnchanged

(* A bug for the mutation run: the queue is cleared instead of popped.     *)
PopAll ==
    /\ writerPC = "pop"
    /\ writeQueue' = <<>>
    /\ writerPC' = "drain"
    /\ UNCHANGED <<status, _flush, writeLock, storeVars>>
    /\ clientUnchanged

(* A bug for the mutation run: one flow per wakeup, "if" for "while".      *)
PopOnce ==
    /\ writerPC = "pop"
    /\ writeQueue' = Tail(writeQueue)
    /\ writerPC' = "drained"
    /\ UNCHANGED <<status, _flush, writeLock, storeVars>>
    /\ clientUnchanged

(* writeQueue.pop(), under queueLock.                                      *)
Pop ==
    /\ writerPC = "pop"
    /\ writeQueue' = Tail(writeQueue)
    /\ writerPC' = "drain"
    /\ UNCHANGED <<status, _flush, writeLock, storeVars>>
    /\ clientUnchanged

(* writeQueue.empty(): the drain is over, status still says otherwise.     *)
DrainEnds ==
    /\ writerPC = "drain"
    /\ writeQueue = <<>>
    /\ writerPC' = "drained"
    /\ UNCHANGED <<writeQueue, status, _flush, writeLock, storeVars>>
    /\ clientUnchanged

LowerStatus ==
    /\ writerPC = "drained"
    /\ status' = FALSE
    /\ writerPC' = "checkFlush"
    /\ UNCHANGED <<writeQueue, _flush, writeLock, storeVars>>
    /\ clientUnchanged

(* A bug for the mutation run: the flag is tested after it is lowered.     *)
CheckFlushLate ==
    /\ writerPC = "checkFlush"
    /\ _flush' = FALSE
    /\ writerPC' = IF _flush' THEN "dbFlush" ELSE "unlock"
    /\ UNCHANGED <<writeQueue, status, writeLock, storeVars>>
    /\ clientUnchanged

(* Under flushLock: take the flag down before flushing, so that a flush()  *)
(* arriving meanwhile is kept for the next round.                          *)
CheckFlush ==
    /\ writerPC = "checkFlush"
    /\ _flush' = FALSE
    /\ writerPC' = IF _flush THEN "dbFlush" ELSE "unlock"
    /\ UNCHANGED <<writeQueue, status, writeLock, storeVars>>
    /\ clientUnchanged

(* db.flush(); BerkeleyDB.tla says what becomes of the records.            *)
DBFlush ==
    /\ writerPC = "dbFlush"
    /\ flushedTo' = Len(stored)
    /\ writerPC' = "unlock"
    /\ UNCHANGED <<writeQueue, status, _flush, writeLock, stored, attempted>>
    /\ clientUnchanged

Unlock ==
    /\ writerPC = "unlock"
    /\ writeLock' = FALSE
    /\ writerPC' = "test"
    /\ UNCHANGED <<writeQueue, status, _flush, storeVars>>
    /\ clientUnchanged

WriterStep ==
    \/ LoopTest \/ Wait \/ RaiseStatus \/ WriteFront \/ Pop \/ DrainEnds
    \/ LowerStatus \/ CheckFlush \/ DBFlush \/ Unlock

-----------------------------------------------------------------------------
WriterNext == ClientStep \/ WriterStep \/ SpuriousWakeup

(* The scheduler runs both threads: the writer thread takes its next step  *)
(* unless it is waiting, and a call the client has begun is carried on.    *)
(* Nothing obliges the client to make another call, nor a wait to end      *)
(* spuriously.                                                             *)
Fairness ==
    /\ WF_writerVars(WriterStep)
    /\ WF_writerVars(Signal \/ FinishSignal \/ Join)

WriterSpec == WriterInit /\ [][WriterNext]_writerVars

FairSpec == WriterSpec /\ Fairness

-----------------------------------------------------------------------------
WriterTypes ==
    /\ writeQueue \in Seq(Flows)
    /\ status \in BOOLEAN
    /\ _flush \in BOOLEAN
    /\ _write \in BOOLEAN
    /\ writeLock \in BOOLEAN
    /\ writerPC \in WriterPCs
    /\ clientPC \in ClientPCs
    /\ stored \in Seq(Flows)
    /\ flushedTo \in Nat
    /\ submitted \in Seq(Flows)
    /\ attempted \in Seq(Flows)
    /\ flushes \in 0..MaxFlushes
    /\ flushMark \in Nat
    /\ missed \in Nat

(* What has not reached db.write() yet: the queue, less its front when the *)
(* front has been written and not yet popped.                              *)
pendingFlows == IF writerPC = "pop" THEN Tail(writeQueue) ELSE writeQueue

(* Every flow handed to write() reaches db.write() exactly once, in the    *)
(* order of the calls, whatever the client pushes while the thread reads   *)
(* the front and pops it without holding the queue's lock in between.      *)
ExactlyOnceInOrder == submitted = attempted \o pendingFlows

(* The thread only exits, and only waits, with writeLock free: trylock in  *)
(* the loop never fails, so nothing but finish() ends the thread.          *)
OnlyFinishEndsTheThread ==
    /\ writerPC \in {"test", "waiting", "woken", "exited"} <=> ~writeLock
    /\ writerPC = "exited" => ~_write

(* A flush() is never forgotten: once the flag is down and db.flush() is   *)
(* over, every record stored before the last flush() call was covered.     *)
FlushNotForgotten ==
    ~_flush /\ writerPC # "dbFlush" => flushMark <= flushedTo

(* writer.hpp implements the one-thread log of RecordLog.tla.              *)
Log == INSTANCE RecordLog WITH pending <- pendingFlows
ImplementsRecordLog == Log!LogSpec

(* writer.hpp:159-182 and 262-269: each flow reaches db.write(), without   *)
(* another write(), unless its own signal came between the last look at    *)
(* the queue and the wait.  Such a flow stays in the queue, and nothing    *)
(* wakes the thread for it: the next write() takes it along, if there is   *)
(* one.                                                                    *)
WakeupDrainsAll ==
    \A n \in 1..MaxCalls :
        Len(submitted) = n ~> Len(attempted) >= n \/ missed = n

(* httpLog.cpp:140 of its call of flush(): "Write everything in Berkeley   *)
(* DB's cache to disk".  What was in the cache at the call gets there.     *)
FlushReachesDisk ==
    \A n \in 1..MaxCalls : flushMark = n ~> flushedTo >= n

=============================================================================
