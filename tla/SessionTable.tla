----------------------------- MODULE SessionTable -----------------------------
(***************************************************************************)
(* The session table of a capture module and the memory its sessions live  *)
(* in: sensor/modules/pjl/pjl.cpp with sensor/include/memory.hpp.  A table *)
(* (tr1::unordered_map) from flow IDs to shared pointers, one mutex per    *)
(* bucket, and a pool of maxSessions blocks whose deallocator puts a block *)
(* back when the last shared pointer to it goes away.                      *)
(*                                                                         *)
(* Three threads share it:                                                 *)
(*   - the capture thread runs processPacket(): it alone inserts and       *)
(*     allocates, and keeps the last session it allocated in the static    *)
(*     variable "session";                                                 *)
(*   - the flush thread runs flush(): it alone erases, bucket by bucket;   *)
(*   - the writer thread drops the sessions handed to it (Writer.tla says  *)
(*     how), which may free their blocks.                                  *)
(*                                                                         *)
(* What no bucket lock protects is split into its steps: the element count *)
(* of the table is read, and written back one higher or lower, without a   *)
(* common lock by the insert of one thread and the erase of the other, and *)
(* Memory::allocate() looks at the pool's size before it takes the mutex.  *)
(* The count and the test of it are undefined by the C++ rules; the model  *)
(* has the outcomes of a load and a store.  Memory's own mutex guards one  *)
(* assignment and is not a variable.  The pool is a set: which free block  *)
(* is on top of the stack does not matter.                                 *)
(***************************************************************************)
EXTENDS Integers, FiniteSets, Functions

CONSTANTS
    Flows,          \* flow IDs
    BucketCount,    \* number of buckets, and of mutexes
    Bucket,         \* the bucket of each flow ID
    Blocks,         \* the blocks of the memory pool (maxSessions of them)
    None,           \* a null pointer
    Timeout,        \* the module's idle timeout
    MaxTime,        \* bound: last value of the clock
    MaxPackets      \* bound: number of packets captured

Buckets == 1..BucketCount

(* sessions.rehash(maxSessions) makes room for maxSessions sessions.       *)
ASSUME SessionTableAssumption ==
    /\ BucketCount \in Nat \ {0}
    /\ Bucket \in [Flows -> Buckets]
    /\ IsFiniteSet(Blocks)
    /\ None \notin Blocks
    /\ BucketCount >= Cardinality(Blocks)
    /\ Timeout \in Nat
    /\ MaxTime \in Nat
    /\ MaxPackets \in Nat

VARIABLES
    free,           \* Memory::blocks: the free blocks
    allocated,      \* Memory::_size
    table,          \* sessions: the block of each flow in the table, or None
    count,          \* the table's element count
    session,        \* the static pointer of processPacket()
    queued,         \* blocks the writer's queue holds
    lastUpdate,     \* of each block: time of its session's last packet
    packets,        \* of each block: packets its session has counted
    locks,          \* who holds each bucket's mutex
    sessionWarning, \* whether "session table is full" may be logged
    now,            \* the clock
    capPC, capFlow, capTime, capCount,       \* processPacket()
    flPC, flBucket, flTime, flErase, flCount, \* flush()
    received,       \* number of packets captured
    counted,        \* history: packets that found or got a session
    handedOff       \* history: packets of the sessions given to the writer

memVars   == <<free, allocated>>
blockVars == <<lastUpdate, packets>>
capVars   == <<capPC, capFlow, capTime, capCount, received, counted>>
flVars    == <<flPC, flBucket, flTime, flErase, flCount, handedOff>>
vars == <<memVars, table, count, session, queued, blockVars, locks,
          sessionWarning, now, capVars, flVars>>

Times == 0..MaxTime

Init ==
    /\ free = Blocks
    /\ allocated = 0
    /\ table = [f \in Flows |-> None]
    /\ count = 0
    /\ session = None
    /\ queued = {}
    /\ lastUpdate = [b \in Blocks |-> 0]
    /\ packets = [b \in Blocks |-> 0]
    /\ locks = [i \in Buckets |-> "none"]
    /\ sessionWarning = TRUE
    /\ now = 0
    /\ capPC = "idle" /\ capFlow \in Flows /\ capTime = 0 /\ capCount = 0
    /\ flPC = "idle" /\ flBucket = 1 /\ flTime = 0
    /\ flErase = {} /\ flCount = 0
    /\ received = 0
    /\ counted = 0
    /\ handedOff = 0

InTable(t, b) == \E f \in Flows : t[f] = b

(* The last shared pointer to b goes away unless another one is left: the  *)
(* table's (t), the static one (s) or the writer queue's (q).  Then the    *)
(* deallocator destroys the session and pushes its block.  The two are one *)
(* step: nobody points to a session that is being destroyed, and to the    *)
(* thread that allocates one its block is in the pool a moment later.      *)
Drop(b, t, s, q) ==
    IF b = None \/ InTable(t, b) \/ s = b \/ b \in q THEN {} ELSE {b}

-----------------------------------------------------------------------------
(* processPacket(), on the capture thread.                                 *)

(* A packet with a payload arrives; its time is the time of capture.       *)
Receive(f) ==
    /\ capPC = "idle"
    /\ received < MaxPackets
    /\ received' = received + 1
    /\ capFlow' = f
    /\ capTime' = now
    /\ capPC' = "lock"
    /\ UNCHANGED <<memVars, table, count, session, queued, blockVars,
                   locks, sessionWarning, now, capCount, counted, flVars>>

(* A bug for the mutation run: the bucket is entered although it is        *)
(* locked.                                                                 *)
CapLockIgnored ==
    /\ capPC = "lock"
    /\ locks' = [locks EXCEPT ![Bucket[capFlow]] = "capture"]
    /\ capPC' = IF table[capFlow] = None THEN "allocate" ELSE "update"
    /\ UNCHANGED <<memVars, table, count, session, queued, blockVars,
                   sessionWarning, now, capFlow, capTime, capCount,
                   received, counted, flVars>>

CapLock ==
    /\ capPC = "lock"
    /\ locks[Bucket[capFlow]] = "none"
    /\ locks' = [locks EXCEPT ![Bucket[capFlow]] = "capture"]
    /\ capPC' = IF table[capFlow] = None THEN "allocate" ELSE "update"
    /\ UNCHANGED <<memVars, table, count, session, queued, blockVars,
                   sessionWarning, now, capFlow, capTime, capCount,
                   received, counted, flVars>>

(* allocate(): blocks.size() > 0, before the mutex is taken.               *)
HasFreeBlock ==
    /\ capPC = "allocate"
    /\ free # {}
    /\ capPC' = "take"
    /\ UNCHANGED <<memVars, table, count, session, queued, blockVars,
                   locks, sessionWarning, now, capFlow, capTime, capCount,
                   received, counted, flVars>>

(* No free block: "session" becomes null, the bucket is unlocked and the   *)
(* packet is dropped, with a warning if none was logged since flush().     *)
NoFreeBlock ==
    /\ capPC = "allocate"
    /\ free = {}
    /\ session' = None
    /\ free' = free \cup Drop(session, table, None, queued)
    /\ allocated' = allocated - Cardinality(Drop(session, table, None, queued))
    /\ locks' = [locks EXCEPT ![Bucket[capFlow]] = "none"]
    /\ capPC' = IF sessionWarning THEN "warned" ELSE "idle"
    /\ UNCHANGED <<table, count, queued, blockVars, sessionWarning, now,
                   capFlow, capTime, capCount, received, counted, flVars>>

WarningOff ==
    /\ capPC = "warned"
    /\ sessionWarning' = FALSE
    /\ capPC' = "idle"
    /\ UNCHANGED <<memVars, table, count, session, queued, blockVars,
                   locks, now, capFlow, capTime, capCount, received,
                   counted, flVars>>

(* A bug for the mutation run: the deallocator does not run.               *)
TakeLeaking(b) ==
    /\ capPC = "take"
    /\ b \in free
    /\ session' = b
    /\ free' = (free \ {b})
    /\ allocated' = allocated + 1
    /\ capPC' = "insert"
    /\ UNCHANGED <<table, count, queued, blockVars, locks, sessionWarning,
                   now, capFlow, capTime, capCount, received, counted,
                   flVars>>

(* The top block is popped under the mutex and assigned to "session",      *)
(* which lets go of the session it pointed to.                             *)
Take(b) ==
    /\ capPC = "take"
    /\ b \in free
    /\ session' = b
    /\ free' = (free \ {b}) \cup Drop(session, table, b, queued)
    /\ allocated' = allocated + 1
                    - Cardinality(Drop(session, table, b, queued))
    /\ capPC' = "insert"
    /\ UNCHANGED <<table, count, queued, blockVars, locks, sessionWarning,
                   now, capFlow, capTime, capCount, received, counted,
                   flVars>>

(* The count is a size_t: below zero stands for the values that wrapped.   *)
HasRoom == count + 1 \in 0..BucketCount

(* sessions.insert(): the library reads the element count to see whether   *)
(* the table must grow; if not, the new session is linked in.              *)
Insert ==
    /\ capPC = "insert"
    /\ HasRoom
    /\ table' = [table EXCEPT ![capFlow] = session]
    /\ packets' = [packets EXCEPT ![session] = 0]
    /\ capCount' = count
    /\ capPC' = "count"
    /\ UNCHANGED <<memVars, count, session, queued, lastUpdate, locks,
                   sessionWarning, now, capFlow, capTime, received,
                   counted, flVars>>

(* It must grow: the bucket array moves and outgrows the array of mutexes, *)
(* under the feet of the flush thread.  The capture thread stops here.     *)
InsertRehashes ==
    /\ capPC = "insert"
    /\ ~HasRoom
    /\ capPC' = "rehashed"
    /\ UNCHANGED <<memVars, table, count, session, queued, blockVars,
                   locks, sessionWarning, now, capFlow, capTime, capCount,
                   received, counted, flVars>>

(* ++element count: the value read before, plus one.                       *)
CountUp ==
    /\ capPC = "count"
    /\ count' = capCount + 1
    /\ capPC' = "update"
    /\ UNCHANGED <<memVars, table, session, queued, blockVars, locks,
                   sessionWarning, now, capFlow, capTime, capCount,
                   received, counted, flVars>>

(* The session's time and size are updated and the bucket is unlocked.     *)
Update ==
    /\ capPC = "update"
    /\ lastUpdate' = [lastUpdate EXCEPT ![table[capFlow]] = capTime]
    /\ packets' = [packets EXCEPT ![table[capFlow]] = @ + 1]
    /\ counted' = counted + 1
    /\ locks' = [locks EXCEPT ![Bucket[capFlow]] = "none"]
    /\ capPC' = "idle"
    /\ UNCHANGED <<memVars, table, count, session, queued, sessionWarning,
                   now, capFlow, capTime, capCount, received, flVars>>

CaptureStep ==
    \/ CapLock \/ HasFreeBlock \/ NoFreeBlock \/ WarningOff
    \/ \E b \in Blocks : Take(b)
    \/ Insert \/ InsertRehashes \/ CountUp \/ Update

-----------------------------------------------------------------------------
(* flush(), on the flush thread.                                           *)

(* Read the clock once, allow a warning again, and sweep the table if its  *)
(* size() is not 0; the count is read without a lock.                      *)
FlushBegin ==
    /\ flPC = "idle"
    /\ flTime' = now
    /\ flBucket' = 1
    /\ sessionWarning' = TRUE
    /\ flPC' = IF count # 0 THEN "lock" ELSE "idle"
    /\ UNCHANGED <<memVars, table, count, session, queued, blockVars,
                   locks, now, capVars, flErase, flCount, handedOff>>

(* A bug for the mutation run: the bucket is taken although it is locked.  *)
SweepLockIgnored ==
    /\ flPC = "lock"
    /\ locks' = [locks EXCEPT ![flBucket] = "flush"]
    /\ flPC' = "scan"
    /\ UNCHANGED <<memVars, table, count, session, queued, blockVars,
                   sessionWarning, now, capVars, flBucket, flTime, flErase,
                   flCount, handedOff>>

SweepLock ==
    /\ flPC = "lock"
    /\ locks[flBucket] = "none"
    /\ locks' = [locks EXCEPT ![flBucket] = "flush"]
    /\ flPC' = "scan"
    /\ UNCHANGED <<memVars, table, count, session, queued, blockVars,
                   sessionWarning, now, capVars, flBucket, flTime, flErase,
                   flCount, handedOff>>

(* Idle for at least as long as the timeout, seen from time t.             *)
IdleAt(f, t) ==
    /\ table[f] # None
    /\ t - lastUpdate[table[f]] >= Timeout

(* The sessions of the bucket that the scan has still to hand off.         *)
Expired == {f \in Flows \ flErase : Bucket[f] = flBucket /\ IdleAt(f, flTime)}

(* writer.write(): the queue takes a reference to an idle session.         *)
HandOff(f) ==
    /\ flPC = "scan"
    /\ f \in Expired
    /\ queued' = queued \cup {table[f]}
    /\ handedOff' = handedOff + packets[table[f]]
    /\ flErase' = flErase \cup {f}
    /\ UNCHANGED <<memVars, table, count, session, blockVars, locks,
                   sessionWarning, now, capVars, flPC, flBucket, flTime,
                   flCount>>

ScanEnds ==
    /\ flPC = "scan"
    /\ Expired = {}
    /\ flPC' = "erase"
    /\ UNCHANGED <<memVars, table, count, session, queued, blockVars,
                   locks, sessionWarning, now, capVars, flBucket, flTime,
                   flErase, flCount, handedOff>>

(* sessions.erase(): unlink the node and drop its pointer ...              *)
Erase(f) ==
    /\ flPC = "erase"
    /\ f \in flErase
    /\ table' = [table EXCEPT ![f] = None]
    /\ free' = free \cup Drop(table[f], table', session, queued)
    /\ allocated' = allocated
                    - Cardinality(Drop(table[f], table', session, queued))
    /\ flErase' = flErase \ {f}
    /\ flCount' = count
    /\ flPC' = "count"
    /\ UNCHANGED <<count, session, queued, blockVars, locks,
                   sessionWarning, now, capVars, flBucket, flTime,
                   handedOff>>

(* ... and only then --element count, from the value read.                 *)
CountDown ==
    /\ flPC = "count"
    /\ count' = flCount - 1
    /\ flPC' = "erase"
    /\ UNCHANGED <<memVars, table, session, queued, blockVars, locks,
                   sessionWarning, now, capVars, flBucket, flTime, flErase,
                   flCount, handedOff>>

(* A bug for the mutation run: the last bucket is never swept.             *)
SweepUnlockEarly ==
    /\ flPC = "erase"
    /\ flErase = {}
    /\ locks' = [locks EXCEPT ![flBucket] = "none"]
    /\ IF flBucket < BucketCount - 1
       THEN flBucket' = flBucket + 1 /\ flPC' = "lock"
       ELSE flPC' = "idle" /\ UNCHANGED flBucket
    /\ UNCHANGED <<memVars, table, count, session, queued, blockVars,
                   sessionWarning, now, capVars, flTime, flErase, flCount,
                   handedOff>>

SweepUnlock ==
    /\ flPC = "erase"
    /\ flErase = {}
    /\ locks' = [locks EXCEPT ![flBucket] = "none"]
    /\ IF flBucket < BucketCount
       THEN flBucket' = flBucket + 1 /\ flPC' = "lock"
       ELSE flPC' = "idle" /\ UNCHANGED flBucket
    /\ UNCHANGED <<memVars, table, count, session, queued, blockVars,
                   sessionWarning, now, capVars, flTime, flErase, flCount,
                   handedOff>>

FlushStep ==
    \/ FlushBegin \/ SweepLock
    \/ \E f \in Flows : HandOff(f) \/ Erase(f)
    \/ ScanEnds \/ CountDown \/ SweepUnlock

-----------------------------------------------------------------------------
(* writeQueue.pop(), on the writer thread: its pointer goes away.          *)
Release(b) ==
    /\ b \in queued
    /\ queued' = queued \ {b}
    /\ free' = free \cup Drop(b, table, session, queued')
    /\ allocated' = allocated
                    - Cardinality(Drop(b, table, session, queued'))
    /\ UNCHANGED <<table, count, session, blockVars, locks, sessionWarning,
                   now, capVars, flVars>>

Tick ==
    /\ now < MaxTime
    /\ now' = now + 1
    /\ UNCHANGED <<memVars, table, count, session, queued, blockVars,
                   locks, sessionWarning, capVars, flVars>>

WriterStep == \E b \in Blocks : Release(b)

Next ==
    \/ \E f \in Flows : Receive(f)
    \/ CaptureStep
    \/ FlushStep
    \/ WriterStep
    \/ Tick

(* Each thread takes its next step in the end, and the flush thread begins *)
(* another flush() after each.  Packets and the clock are under no         *)
(* obligation.  A mutex the flush thread wants is granted to it if it is   *)
(* free again and again.                                                   *)
Fairness ==
    /\ WF_vars(CaptureStep)
    /\ WF_vars(FlushStep)
    /\ SF_vars(SweepLock)
    /\ WF_vars(WriterStep)

Spec == Init /\ [][Next]_vars

FairSpec == Spec /\ Fairness

-----------------------------------------------------------------------------
CapPCs == {"idle", "lock", "allocate", "warned", "take", "insert", "rehashed",
           "count", "update"}

FlPCs  == {"idle", "lock", "scan", "erase", "count"}

TypeOK ==
    /\ free \subseteq Blocks
    /\ allocated \in Int
    /\ table \in [Flows -> Blocks \cup {None}]
    /\ count \in Int
    /\ session \in Blocks \cup {None}
    /\ queued \subseteq Blocks
    /\ lastUpdate \in [Blocks -> Times]
    /\ packets \in [Blocks -> Nat]
    /\ locks \in [Buckets -> {"none", "capture", "flush"}]
    /\ sessionWarning \in BOOLEAN
    /\ now \in Times
    /\ capPC \in CapPCs /\ capFlow \in Flows /\ capTime \in Times
    /\ capCount \in Int
    /\ flPC \in FlPCs /\ flBucket \in Buckets /\ flTime \in Times
    /\ flErase \subseteq Flows /\ flCount \in Int
    /\ received \in 0..MaxPackets
    /\ counted \in Nat
    /\ handedOff \in Nat

(* A block is somebody's while any of the three kinds of pointer is left.  *)
Held(b) == InTable(table, b) \/ session = b \/ b \in queued

(* No block leaks, and none is given out or taken back while somebody      *)
(* still points to it: the pool holds exactly the blocks nobody holds,     *)
(* and Memory::size() counts the others.                                   *)
PoolHoldsTheRest ==
    /\ \A b \in Blocks : b \in free <=> ~Held(b)
    /\ allocated = Cardinality(Blocks) - Cardinality(free)

(* Two flows never share a session.                                        *)
OneFlowPerSession ==
    \A f, g \in Flows : table[f] # None /\ table[f] = table[g] => f = g

(* allocate() looks at blocks.size() before it locks the pool, and pops    *)
(* after: nobody can empty the pool in between.                            *)
PopFindsABlock == capPC = "take" => free # {}

(* The sessions in the table that have not been handed to the writer.      *)
LiveSessions == {table[f] : f \in Flows \ flErase} \ {None}

(* Every packet that was not dropped is counted in exactly one session:    *)
(* one in the table, or one handed to the writer.                          *)
PacketsAccounted ==
    counted = handedOff + SumFunctionOnSet(packets, LiveSessions)

(* Nothing writes to a session once the writer thread may be reading it.   *)
HandedOffIsFrozen ==
    [][\A b \in queued \cap queued' :
          lastUpdate'[b] = lastUpdate[b] /\ packets'[b] = packets[b]]_vars

(* A session leaves the table only when it has been idle for Timeout and   *)
(* the writer has been given it: a packet that comes between the test and  *)
(* the erasure is not cut off from its session.                            *)
IdleIfLeaving(f) ==
    table[f] # None /\ table'[f] # table[f] =>
        table'[f] = None /\ IdleAt(f, flTime)

OnlyIdleSessionsLeave == [][\A f \in Flows : IdleIfLeaving(f)]_vars

(* An idle session leaves the table, or gets a packet, unless the element  *)
(* count has drifted from the table, or the table has been rehashed.       *)
Drifted ==
    \/ count # Cardinality({f \in Flows : table[f] # None})
    \/ capPC = "rehashed"

IdleSessionsLeaveUnlessDrifted ==
    \A f \in Flows : IdleAt(f, now) ~> ~IdleAt(f, now) \/ Drifted

=============================================================================
