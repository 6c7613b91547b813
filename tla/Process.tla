------------------------------- MODULE Process -------------------------------
(***************************************************************************)
(* sensor/sensor.cpp as a whole: what main() loads (Startup.tla) in the    *)
(* process that it starts, runs and stops (Sensor.tla).                    *)
(*                                                                         *)
(* Up to the fork there is one thread, and the variables of Sensor.tla     *)
(* follow those of Startup.tla.  After it the parent, the flush thread and *)
(* the signal handlers go on beside them.  A packet that the capture loop  *)
(* processes is one of the frames that the capture filter accepts, and     *)
(* which module is flushed is known: pps is the one that waits for         *)
(* another program.                                                        *)
(***************************************************************************)
EXTENDS Sensor, Startup

processVars == <<vars, startupVars>>

ProcessInit == Init /\ StartupInit

(* A step of main() up to the flush thread being started, unless a handler *)
(* has interrupted it.                                                     *)
LoadStep ==
    /\ Runs("main")
    /\ LoadAndStart
    /\ mainPC' = Place(pc')
    /\ IF pc' = "initialize" /\ pc # "initialize"
       THEN parentPC' = "forked" /\ numModules' = Len(modules)
       ELSE UNCHANGED <<parentPC, numModules>>
    /\ UNCHANGED <<flushPC, flushed, capture, pidFile, logLock, otherVars>>

(* The capture loop: a frame that was captured is processed ...            *)
Handle ==
    /\ ProcessPacket
    /\ \E frame \in Frames : Captured(frame) /\ Frame(frame)

(* ... and the others pass by.                                             *)
PassBy ==
    /\ mainPC = "pcap"
    /\ \E frame \in Frames : ~Captured(frame) /\ Frame(frame)
    /\ UNCHANGED vars

(* The steps of main() after the startup, but for processing a packet.     *)
MainStep ==
    \/ StartFlushThread \/ FlushThreadFails \/ GetcwdFails \/ WritePidFile
    \/ PidFileFails \/ Detach \/ DetachFails \/ Notify \/ NotifyFails
    \/ CloseStderr \/ CloseStderrFails \/ Unlink \/ Return
    \/ LogStart \/ LogStartEnd \/ LoopTest \/ LogPacket \/ LogPacketEnd
    \/ Stopping

(* Of the modules, pps waits for another program (pps.cpp:348).            *)
FlushStep ==
    /\ Flushing
    /\ flushPC' = "outside" => modules[flushed'].name = "pps"

(* A step that leaves alone what Startup.tla has.                          *)
Beside(step) == step /\ UNCHANGED startupVars

ProcessNext ==
    \/ LoadStep
    \/ Handle
    \/ PassBy
    \/ Beside(MainStep)
    \/ Beside(Sigsuspend)
    \/ Beside(PacketArrives)
    \/ Beside(FlushStep)
    \/ Beside(OutsideEnds)
    \/ \E t \in Threads : Beside(Sigterm(t)) \/ Beside(Handling(t))

ProcessSpec == ProcessInit /\ [][ProcessNext]_processVars

(* As in Sensor.tla.                                                       *)
ProcessFairness ==
    /\ WF_processVars(Beside(Sigsuspend))
    /\ WF_processVars(LoadStep \/ Handle \/ Beside(MainStep))
    /\ WF_processVars(Beside(PacketArrives))
    /\ WF_processVars(Beside(FlushStep))
    /\ \A t \in Threads :
           /\ WF_processVars(Beside(Handling(t)))
           /\ SF_processVars(Beside(HandlerLocksLog(t)))
    /\ SF_processVars(Beside(LogPacket))
    /\ SF_processVars(Beside(FlushLocksLog))

FairProcessSpec == ProcessSpec /\ ProcessFairness

=============================================================================
