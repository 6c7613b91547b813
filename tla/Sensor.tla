-------------------------------- MODULE Sensor --------------------------------
(***************************************************************************)
(* sensor/sensor.cpp: starting, running and stopping the sensor process.   *)
(*                                                                         *)
(* main() reads its configuration, loads the modules, opens the capture    *)
(* and forks.  The parent waits for SIGUSR1 and returns; the child         *)
(* initializes the modules, starts the flush thread, writes the PID file,  *)
(* tells the parent, and captures packets until the SIGTERM handler lowers *)
(* "capture".  Then it joins the flush thread, calls every module's        *)
(* finish() and removes the PID file.                                      *)
(*                                                                         *)
(* A signal handler runs on whichever thread of the child the kernel       *)
(* chooses, between two of its steps; that thread takes no other step      *)
(* until the handler returns.  The logger's mutex (logger.cpp) is an       *)
(* ordinary one: a thread that holds it and locks it again waits forever.  *)
(* What the modules do in processPacket() and flush() is reduced to        *)
(* whether they write to the log, and whether a flush() waits for another  *)
(* program; SessionTable.tla and others have the rest.  Signals sent       *)
(* before the fork are left out.                                           *)
(***************************************************************************)
EXTENDS Naturals

CONSTANTS
    ModuleCounts,   \* how many modules may be loaded
    MaxSigterms,    \* bound: number of SIGTERMs sent to the child
    Faults          \* TRUE if system calls and module initialization may fail

ASSUME SensorAssumption ==
    /\ ModuleCounts \subseteq Nat
    /\ MaxSigterms \in Nat
    /\ Faults \in BOOLEAN

(* "writer" stands for the database threads of the modules (Writer.tla).   *)
Threads == {"main", "flush", "writer"}

VARIABLES
    parentPC,       \* where the parent is, once there is one
    mainPC,         \* where the child's main thread is in main()
    flushPC,        \* where the flush thread is in flush()
    numModules,     \* number of modules loaded
    flushed,        \* modules flushed so far in this round
    capture,        \* the flag both threads' loops test
    pidFile,        \* whether the PID file exists
    logLock,        \* the thread that holds the logger's mutex, or "none"
    handler,        \* where each thread is in the SIGTERM handler
    sigterms        \* number of SIGTERMs sent

vars == <<parentPC, mainPC, flushPC, numModules, flushed, capture, pidFile,
          logLock, handler, sigterms>>
flushVars == <<flushPC, numModules, flushed>>
otherVars == <<handler, sigterms>>

ParentPCs  == {"unborn", "forked", "suspended", "returned"}
MainPCs    == {"configure", "modules", "thread", "pidFile", "detach", "notify",
               "stderr", "logStart", "loggingStart", "loop", "pcap",
               "process", "logPacket", "loggingPacket", "join",
               "logJoin", "loggingJoin", "finish", "cleanup", "unlink",
               "return", "exited"}
FlushPCs   == {"unborn", "test", "sleep", "modules", "outside", "log",
               "logging", "ended"}
HandlerPCs == {"none", "lock", "logging", "lower"}

Init ==
    /\ parentPC = "unborn"
    /\ mainPC = "configure"
    /\ flushPC = "unborn"
    /\ numModules = 0
    /\ flushed = 0
    /\ capture = TRUE
    /\ pidFile = FALSE
    /\ logLock = "none"
    /\ handler = [t \in Threads |-> "none"]
    /\ sigterms = 0

(* A thread of the child takes its own steps unless the process is gone or *)
(* a handler has interrupted it.                                           *)
Runs(t) == mainPC # "exited" /\ handler[t] = "none"

-----------------------------------------------------------------------------
(* Starting.                                                               *)

(* Options, configuration, modules, dependencies, pcap, fork().  Every     *)
(* failure is reported on the terminal before there is a child.            *)
StartAndFork ==
    /\ mainPC = "configure"
    /\ mainPC' = "modules"
    /\ parentPC' = "forked"
    /\ numModules' \in ModuleCounts
    /\ UNCHANGED <<flushPC, flushed, capture, pidFile, logLock, otherVars>>

StartFails ==
    /\ Faults
    /\ mainPC = "configure"
    /\ mainPC' = "exited"
    /\ UNCHANGED <<parentPC, flushVars, capture, pidFile, logLock, otherVars>>

(* The parent's sigsuspend().  SIGUSR1 is not blocked before it: one that  *)
(* arrives earlier runs the empty handler and is gone.                     *)
Sigsuspend ==
    /\ parentPC = "forked"
    /\ parentPC' = "suspended"
    /\ UNCHANGED <<mainPC, flushVars, capture, pidFile, logLock, otherVars>>

NotifyParent ==
    parentPC' = IF parentPC = "suspended" THEN "returned" ELSE parentPC

(* A step of main() on the way up: from one place to the next ...          *)
Proceed(from, to) ==
    /\ Runs("main")
    /\ mainPC = from
    /\ mainPC' = to

(* ... or, when a call fails, on the way out ...                           *)
Breaks(from, to) == Faults /\ Proceed(from, to)

(* ... or out, if there is nothing before the "return 1".                  *)
ReturnsOne(from) == Breaks(from, "exited")

InitializeModules ==
    /\ Proceed("modules", "thread") \/ ReturnsOne("modules")
    /\ UNCHANGED <<parentPC, flushVars, capture, pidFile, logLock, otherVars>>

(* A bug for the mutation run: the parent is told too early.               *)
StartFlushThreadNotify ==
    /\ Proceed("thread", "pidFile")
    /\ flushPC' = "test"
    /\ NotifyParent
    /\ UNCHANGED <<numModules, flushed, capture, pidFile, logLock, otherVars>>

StartFlushThread ==
    /\ Proceed("thread", "pidFile")
    /\ flushPC' = "test"
    /\ UNCHANGED <<parentPC, numModules, flushed, capture, pidFile, logLock,
                   otherVars>>

(* pthread_create() fails, or getcwd() after it: the parent is not told.   *)
FlushThreadFails ==
    /\ ReturnsOne("thread")
    /\ UNCHANGED <<parentPC, flushVars, capture, pidFile, logLock, otherVars>>

GetcwdFails ==
    /\ ReturnsOne("pidFile")
    /\ UNCHANGED <<parentPC, flushVars, capture, pidFile, logLock, otherVars>>

WritePidFile ==
    /\ Proceed("pidFile", "detach")
    /\ pidFile' = TRUE
    /\ UNCHANGED <<parentPC, flushVars, capture, logLock, otherVars>>

(* The parent is told, and may return before the child does.               *)
PidFileFails ==
    /\ Breaks("pidFile", "return")
    /\ NotifyParent
    /\ UNCHANGED <<flushVars, capture, pidFile, logLock, otherVars>>

(* chdir("/"), close(stdin), close(stdout).                                *)
Detach ==
    /\ Proceed("detach", "notify")
    /\ UNCHANGED <<parentPC, flushVars, capture, pidFile, logLock, otherVars>>

(* One of them fails: cleanup() tells the parent and then removes the PID  *)
(* file.                                                                   *)
DetachFails ==
    /\ Breaks("detach", "cleanup")
    /\ NotifyParent
    /\ UNCHANGED <<flushVars, capture, pidFile, logLock, otherVars>>

Notify ==
    /\ Proceed("notify", "stderr")
    /\ NotifyParent
    /\ UNCHANGED <<flushVars, capture, pidFile, logLock, otherVars>>

(* kill() fails, and the one in cleanup() does or does not.                *)
NotifyFails ==
    /\ Breaks("notify", "cleanup")
    /\ NotifyParent \/ UNCHANGED parentPC
    /\ UNCHANGED <<flushVars, capture, pidFile, logLock, otherVars>>

CloseStderr ==
    /\ Proceed("stderr", "logStart")
    /\ UNCHANGED <<parentPC, flushVars, capture, pidFile, logLock, otherVars>>

(* A bug for the mutation run: the PID file stays.                         *)
CloseStderrFailsDirty ==
    /\ Breaks("stderr", "return")
    /\ UNCHANGED <<parentPC, flushVars, capture, pidFile, logLock, otherVars>>

CloseStderrFails ==
    /\ Breaks("stderr", "unlink")
    /\ UNCHANGED <<parentPC, flushVars, capture, pidFile, logLock, otherVars>>

(* unlink(), in cleanup() or in main(), and then the return.  The parent   *)
(* and the other threads go on meanwhile.                                  *)
Unlink ==
    /\ Proceed("cleanup", "return") \/ Proceed("unlink", "return")
    /\ pidFile' = FALSE
    /\ UNCHANGED <<parentPC, flushVars, capture, logLock, otherVars>>

Return ==
    /\ Proceed("return", "exited")
    /\ UNCHANGED <<parentPC, flushVars, capture, pidFile, logLock, otherVars>>

Starting ==
    \/ StartAndFork \/ StartFails \/ Sigsuspend \/ InitializeModules
    \/ StartFlushThread \/ FlushThreadFails \/ GetcwdFails \/ WritePidFile
    \/ PidFileFails \/ Detach \/ DetachFails \/ Notify \/ NotifyFails
    \/ CloseStderr \/ CloseStderrFails \/ Unlink \/ Return

-----------------------------------------------------------------------------
(* Running: the capture loop on the main thread.                           *)

(* logger.lock() and logger.unlock() around one message.                   *)
MainLocksLog(from, to) ==
    /\ Proceed(from, to)
    /\ logLock = "none"
    /\ logLock' = "main"
    /\ UNCHANGED <<parentPC, flushVars, capture, pidFile, otherVars>>

MainUnlocksLog(from, to) ==
    /\ Proceed(from, to)
    /\ logLock' = "none"
    /\ UNCHANGED <<parentPC, flushVars, capture, pidFile, otherVars>>

LogStart    == MainLocksLog("logStart", "loggingStart")
LogStartEnd == MainUnlocksLog("loggingStart", "loop")

LoopTest ==
    /\ Runs("main")
    /\ mainPC = "loop"
    /\ mainPC' = IF capture THEN "pcap" ELSE "join"
    /\ UNCHANGED <<parentPC, flushVars, capture, pidFile, logLock, otherVars>>

(* pcap_next() returns a packet, or NULL after a failure.  A handler that  *)
(* runs meanwhile does not end the wait.                                   *)
PacketArrives ==
    /\ Proceed("pcap", "process") \/ Breaks("pcap", "loop")
    /\ UNCHANGED <<parentPC, flushVars, capture, pidFile, logLock, otherVars>>

(* packet.initialize() rejects it, no module wants it, or the modules that *)
(* do process it, perhaps with a message to log.                           *)
ProcessPacket ==
    /\ Proceed("process", "loop") \/ Proceed("process", "logPacket")
    /\ UNCHANGED <<parentPC, flushVars, capture, pidFile, logLock, otherVars>>

LogPacket    == MainLocksLog("logPacket", "loggingPacket")
LogPacketEnd == MainUnlocksLog("loggingPacket", "loop")

Capturing ==
    \/ LogStart \/ LogStartEnd \/ LoopTest \/ ProcessPacket
    \/ LogPacket \/ LogPacketEnd

-----------------------------------------------------------------------------
(* The flush thread.                                                       *)

(* A bug for the mutation run: the flush thread does not look at           *)
(* "capture".                                                              *)
FlushForever ==
    /\ Runs("flush")
    /\ flushPC = "test"
    /\ flushPC' = "sleep"
    /\ UNCHANGED <<parentPC, mainPC, numModules, flushed, capture, pidFile,
                   logLock, otherVars>>

FlushTest ==
    /\ Runs("flush")
    /\ flushPC = "test"
    /\ flushPC' = IF capture THEN "sleep" ELSE "ended"
    /\ UNCHANGED <<parentPC, mainPC, numModules, flushed, capture, pidFile,
                   logLock, otherVars>>

(* sleep() ends, in time or early because a handler ran on this thread.    *)
SleepEnds ==
    /\ Runs("flush")
    /\ flushPC = "sleep"
    /\ flushPC' = "modules"
    /\ flushed' = 0
    /\ UNCHANGED <<parentPC, mainPC, numModules, capture, pidFile, logLock,
                   otherVars>>

(* The next module's flush(), perhaps with a message to log, or with a     *)
(* wait for another program, as pps has for tcpdump.                       *)
FlushModule ==
    /\ Runs("flush")
    /\ flushPC = "modules"
    /\ flushed < numModules
    /\ flushed' = flushed + 1
    /\ flushPC' \in {"modules", "log", "outside"}
    /\ UNCHANGED <<parentPC, mainPC, numModules, capture, pidFile, logLock,
                   otherVars>>

(* That program ends, if it ever does.                                     *)
OutsideEnds ==
    /\ Runs("flush")
    /\ flushPC = "outside"
    /\ flushPC' = "modules"
    /\ UNCHANGED <<parentPC, mainPC, numModules, flushed, capture, pidFile,
                   logLock, otherVars>>

FlushLocksLog ==
    /\ Runs("flush")
    /\ flushPC = "log"
    /\ logLock = "none"
    /\ logLock' = "flush"
    /\ flushPC' = "logging"
    /\ UNCHANGED <<parentPC, mainPC, numModules, flushed, capture, pidFile,
                   otherVars>>

FlushUnlocksLog ==
    /\ Runs("flush")
    /\ flushPC = "logging"
    /\ logLock' = "none"
    /\ flushPC' = "modules"
    /\ UNCHANGED <<parentPC, mainPC, numModules, flushed, capture, pidFile,
                   otherVars>>

FlushRoundEnds ==
    /\ Runs("flush")
    /\ flushPC = "modules"
    /\ flushed = numModules
    /\ flushPC' = "test"
    /\ UNCHANGED <<parentPC, mainPC, numModules, flushed, capture, pidFile,
                   logLock, otherVars>>

Flushing ==
    \/ FlushTest \/ SleepEnds \/ FlushModule \/ FlushLocksLog
    \/ FlushUnlocksLog \/ FlushRoundEnds

-----------------------------------------------------------------------------
(* Stopping: SIGTERM and its handler.                                      *)

(* A thread that exists and is not in the handler already gets the signal. *)
Sigterm(t) ==
    /\ sigterms < MaxSigterms
    /\ mainPC \notin {"configure", "exited"}
    /\ t = "flush" => flushPC \notin {"unborn", "ended"}
    /\ t = "writer" => mainPC # "modules"
    /\ handler[t] = "none"
    /\ handler' = [handler EXCEPT ![t] = "lock"]
    /\ sigterms' = sigterms + 1
    /\ UNCHANGED <<parentPC, mainPC, flushVars, capture, pidFile, logLock>>

(* The handler locks the log.  If it has interrupted the thread that holds *)
(* the lock, this step is never possible again.                            *)
HandlerLocksLog(t) ==
    /\ mainPC # "exited"
    /\ handler[t] = "lock"
    /\ logLock = "none"
    /\ logLock' = t
    /\ handler' = [handler EXCEPT ![t] = "logging"]
    /\ UNCHANGED <<parentPC, mainPC, flushVars, capture, pidFile, sigterms>>

HandlerUnlocksLog(t) ==
    /\ mainPC # "exited"
    /\ handler[t] = "logging"
    /\ logLock' = "none"
    /\ handler' = [handler EXCEPT ![t] = "lower"]
    /\ UNCHANGED <<parentPC, mainPC, flushVars, capture, pidFile, sigterms>>

(* capture = false.                                                        *)
HandlerLowersCapture(t) ==
    /\ mainPC # "exited"
    /\ handler[t] = "lower"
    /\ capture' = FALSE
    /\ handler' = [handler EXCEPT ![t] = "none"]
    /\ UNCHANGED <<parentPC, mainPC, flushVars, pidFile, logLock, sigterms>>

Handling(t) ==
    HandlerLocksLog(t) \/ HandlerUnlocksLog(t) \/ HandlerLowersCapture(t)

(* pthread_join() returns when the flush thread has ended ...              *)
JoinFlushThread ==
    /\ Proceed("join", "finish")
    /\ flushPC = "ended"
    /\ UNCHANGED <<parentPC, flushVars, capture, pidFile, logLock, otherVars>>

(* ... or fails: log the error, remove the PID file, return.               *)
JoinFails ==
    /\ Faults
    /\ Proceed("join", "logJoin")
    /\ UNCHANGED <<parentPC, flushVars, capture, pidFile, logLock, otherVars>>

LogJoin    == MainLocksLog("logJoin", "loggingJoin")
LogJoinEnd == MainUnlocksLog("loggingJoin", "unlink")

(* Every module's finish().                                                *)
FinishModules ==
    /\ Proceed("finish", "unlink")
    /\ UNCHANGED <<parentPC, flushVars, capture, pidFile, logLock, otherVars>>

Stopping ==
    JoinFlushThread \/ JoinFails \/ LogJoin \/ LogJoinEnd \/ FinishModules

-----------------------------------------------------------------------------
Next ==
    \/ Starting
    \/ Capturing
    \/ PacketArrives
    \/ Flushing \/ OutsideEnds
    \/ \E t \in Threads : Sigterm(t) \/ Handling(t)
    \/ Stopping

(* Every thread and the parent are scheduled, the log's mutex is granted   *)
(* to a thread that wants it if it is free again and again, and the        *)
(* network carries traffic.  Nobody has to send SIGTERM, and a program a   *)
(* flush() waits for need not end.                                         *)
Fairness ==
    /\ WF_vars(Sigsuspend)
    /\ WF_vars((Starting /\ ~Sigsuspend) \/ Capturing \/ Stopping)
    /\ WF_vars(PacketArrives)
    /\ WF_vars(Flushing)
    /\ \A t \in Threads : WF_vars(Handling(t)) /\ SF_vars(HandlerLocksLog(t))
    /\ SF_vars(LogPacket)
    /\ SF_vars(FlushLocksLog)

Spec == Init /\ [][Next]_vars

FairSpec == Spec /\ Fairness

-----------------------------------------------------------------------------
TypeOK ==
    /\ parentPC \in ParentPCs
    /\ mainPC \in MainPCs
    /\ flushPC \in FlushPCs
    /\ numModules \in ModuleCounts \cup {0}
    /\ flushed \in 0..numModules
    /\ capture \in BOOLEAN
    /\ pidFile \in BOOLEAN
    /\ logLock \in Threads \cup {"none"}
    /\ handler \in [Threads -> HandlerPCs]
    /\ sigterms \in 0..MaxSigterms

(* No way out of main() leaves the PID file behind.                        *)
PidFileRemoved == mainPC = "exited" => ~pidFile

(* sensor.cpp:310 and 338: when the parent has returned, the PID file is   *)
(* there for whoever started the sensor, from then on and until the child  *)
(* has nothing left to do but to return.                                   *)
PidFileBeforeParentReturns ==
    parentPC = "returned" => pidFile \/ mainPC \in {"return", "exited"}

(* A module's finish() never runs beside a flush(), and no thread is left  *)
(* writing to the log: sensor.cpp:369, "Allow the flush() thread to exit   *)
(* gracefully."                                                            *)
FinishRunsAlone ==
    mainPC = "finish" =>
        flushPC = "ended" /\ handler["flush"] = "none" /\ logLock # "flush"

(* Between them, the loops and the handlers never write to the log at the  *)
(* same time, and whoever holds the lock is writing.                       *)
Logging(t) ==
    \/ handler[t] = "logging"
    \/ /\ t = "main"
       /\ mainPC \in {"loggingStart", "loggingPacket", "loggingJoin"}
    \/ t = "flush" /\ flushPC = "logging"

LogIsExclusive == \A t \in Threads : Logging(t) <=> logLock = t

(* A handler has interrupted its own thread inside the logger.             *)
SelfLocked == \E t \in Threads : handler[t] = "lock" /\ logLock = t

(* sensor.cpp:352, 89 and 370: once "capture" is lowered the loops end,    *)
(* the flush thread is joined and the sensor stops, unless another SIGTERM *)
(* locks a thread up in the logger, or the flush thread waits for a        *)
(* program that never ends, and the join with it.                          *)
LoweredCaptureStops ==
    ~capture ~> \/ mainPC = "exited"
                \/ SelfLocked
                \/ [](flushPC = "outside")

=============================================================================
