------------------------------- MODULE Startup -------------------------------
(***************************************************************************)
(* sensor/sensor.cpp, 108-291 and 352-368: how the sensor loads its        *)
(* modules (sensor/include/module.cpp), connects them, initializes them    *)
(* after the fork, and hands them packets.                                 *)
(*                                                                         *)
(* A module says in its configuration what it depends on: packets, or the  *)
(* sessions of another module, whose "callback" names the function it      *)
(* calls with them.  One thread does all of it; the rest of the process is *)
(* in Sensor.tla, whose first steps these are.                             *)
(***************************************************************************)
EXTENDS Configuration, Packet

CONSTANTS
    SensorFiles,        \* what sensor.conf may say: sequences of lines
    ModuleFiles,        \* of each module name: what its .conf may say
    FilterAccepts(_, _),\* whether a pcap filter accepts a frame
    Frames,             \* frames on the wire
    LoadFaults          \* what may fail

AllFaults == {"signal", "sensor.conf", "logger", "conf", "dlopen", "dlsym",
              "filter", "pcap", "sigset", "fork", "initialize"}

ASSUME StartupAssumption ==
    /\ \A f \in Frames : f.protocol \in Protocols /\ f.fragmented \in BOOLEAN
                         /\ f.header \in Nat /\ f.size \in Int
                         /\ f.size < 65536
    /\ LoadFaults \subseteq AllFaults
    /\ \A name \in DOMAIN ModuleFiles :
           ModuleFiles[name] \subseteq Seq(Seq(STRING))
    /\ "packet" \notin DOMAIN ModuleFiles
    /\ \A name \in DOMAIN ModuleFiles : \A lines \in ModuleFiles[name] :
           LET string == getString(Options(lines), "dependencies")
           IN  string = <<>> \/ Defined(string)

(* What the modules of sensor/modules define, the one whose sessions other *)
(* modules may depend on, and the name of the function it calls.           *)
Defines ==
    [name \in {"http", "httpLog", "bt", "pps", "pjl"} |->
        (IF name = "httpLog" THEN {} ELSE {"processPacket"})
        \cup (IF name \in {"httpLog", "bt"} THEN {"processHTTP"} ELSE {})]
Callback(name) == IF name = "http" THEN "processHTTP" ELSE "none"

(* The modules whose initialize() takes the callbacks as an argument.      *)
TakesCallbacks(name) == name = "http"

VARIABLES
    pc,             \* where main() is
    conf,           \* the sensor's configuration
    names,          \* moduleNames
    modules,        \* the modules loaded
    current, dependency, \* the module, and its dependency, that are next
    filters,        \* the filters the capture filter joins
    initialized,    \* the names of the modules whose state is initialized
    packet,         \* the packet object
    handed          \* history: the last frame, and the modules given it

loadVars == <<conf, names, modules, current, dependency, filters>>
startupVars == <<pc, loadVars, initialized, packet, handed>>
runVars == <<initialized, packet, handed>>

NoFrame ==
    [protocol |-> "none", fragmented |-> FALSE, header |-> 0, size |-> 0]

StartupInit ==
    /\ pc = "configure"
    /\ conf = <<>> /\ names = <<>> /\ modules = <<>>
    /\ current = 1 /\ dependency = 1 /\ filters = {}
    /\ initialized = {}
    /\ packet = [frame |-> NoFrame, payloadSize |-> 0]
    /\ handed = <<>>

(* main() returns 1 before the fork, or the child does after it.           *)
Exit(from) ==
    /\ pc = from
    /\ pc' = IF from = "initialize" THEN "child exited" ELSE "exited"
    /\ UNCHANGED <<loadVars, runVars>>

Fails(from, fault) == fault \in LoadFaults /\ Exit(from)

-----------------------------------------------------------------------------
(* sensor.conf.                                                            *)

Configure(lines) ==
    /\ pc = "configure"
    /\ pc' = "check"
    /\ conf' = Options(lines)
    /\ UNCHANGED <<names, modules, current, dependency, filters, runVars>>

ConfigureFails ==
    \/ Fails("configure", "signal") \/ Fails("configure", "sensor.conf")

Given(name) == getString(conf, name)

(* What has to be said.                                                    *)
Complete ==
    /\ Given("logging") \in {<<"on">>, <<"off">>}
    /\ Given("logging") = <<"on">> => Given("log") # <<>>
    /\ Given("interface") # <<>>
    /\ Given("flushInterval") # <<>>

Check ==
    /\ pc = "check"
    /\ Complete
    /\ names' \in Exploded(Given("modules"))
    /\ pc' = "load"
    /\ UNCHANGED <<conf, modules, current, dependency, filters, runVars>>

CheckFails ==
    \/ ~Complete /\ Exit("check")
    \/ Given("logging") = <<"on">> /\ Fails("check", "logger")

-----------------------------------------------------------------------------
(* The modules, Module::Module().                                          *)

Listed == {modules[i] : i \in DOMAIN modules}
ToLoad == names[Len(modules) + 1]

Load(lines) ==
    /\ pc = "load"
    /\ Len(modules) < Len(names)
    /\ modules' = Append(modules, [name |-> ToLoad, conf |-> Options(lines),
                                   processPacket |-> FALSE,
                                   callbacks |-> <<>>])
    /\ UNCHANGED <<pc, conf, names, current, dependency, filters, runVars>>

(* There is no configuration or no such module, or it cannot be opened,    *)
(* lacks a function, or has a filter that is none.                         *)
LoadFails ==
    /\ Len(modules) < Len(names)
    /\ \/ ToLoad \notin DOMAIN ModuleFiles /\ Exit("load")
       \/ \E fault \in {"conf", "dlopen", "dlsym", "filter"} :
              Fails("load", fault)

Loaded ==
    /\ pc = "load"
    /\ Len(modules) = Len(names)
    /\ pc' = "depend"
    /\ UNCHANGED <<loadVars, runVars>>

(* moduleIndex: of modules with one name the first.                        *)
Index(name) == First({i \in DOMAIN modules : modules[i].name = name})

Dependencies(m) == Words(getString(m.conf, "dependencies"))

(* The dependency that is next, if the module has another one.             *)
Pending ==
    /\ pc = "depend"
    /\ current <= Len(modules)
    /\ dependency <= Len(Dependencies(modules[current]))
Wanted == Dependencies(modules[current])[dependency]

(* Whether it can be met.                                                  *)
Met ==
    LET m == modules[current]
        provider == modules[Index(Wanted)]
    IN  IF Wanted = "packet" THEN "processPacket" \in Defines[m.name]
        ELSE /\ Wanted # m.name
             /\ \E i \in DOMAIN modules : modules[i].name = Wanted
             /\ Callback(provider.name) # "none"
             /\ Callback(provider.name) \in Defines[m.name]

(* A bug for the mutation run: the callback goes to the module itself.     *)
DependItself ==
    /\ Pending
    /\ Met
    /\ modules' = IF Wanted = "packet"
                  THEN [modules EXCEPT ![current].processPacket = TRUE]
                  ELSE [modules EXCEPT ![current].callbacks =
                           Append(@, modules[current].name)]
    /\ dependency' = dependency + 1
    /\ UNCHANGED <<pc, conf, names, current, filters, runVars>>

Depend ==
    /\ Pending
    /\ Met
    /\ modules' = IF Wanted = "packet"
                  THEN [modules EXCEPT ![current].processPacket = TRUE]
                  ELSE [modules EXCEPT ![Index(Wanted)].callbacks =
                           Append(@, modules[current].name)]
    /\ dependency' = dependency + 1
    /\ UNCHANGED <<pc, conf, names, current, filters, runVars>>

DependFails == Pending /\ ~Met /\ Exit("depend")

NextModule ==
    /\ pc = "depend"
    /\ ~Pending
    /\ IF current <= Len(modules)
       THEN current' = current + 1 /\ dependency' = 1 /\ UNCHANGED pc
       ELSE pc' = "pcap" /\ current' = 1 /\ UNCHANGED dependency
    /\ UNCHANGED <<conf, names, modules, filters, runVars>>

-----------------------------------------------------------------------------
(* The capture, the fork, and Module::initialize().                        *)

(* The filters of the modules that depend on packets, joined by "or".      *)
Pcap ==
    /\ pc = "pcap"
    /\ LET consuming == {m \in Listed : m.processPacket}
       IN  filters' = {getString(m.conf, "filter") : m \in consuming} \ {<<>>}
    /\ pc' = "fork"
    /\ UNCHANGED <<conf, names, modules, current, dependency, runVars>>

PcapFails == Fails("pcap", "pcap") \/ Fails("pcap", "sigset")

(* A bug for the mutation run: the modules are initialized first.          *)
ForkLate ==
    /\ pc = "fork"
    /\ initialized' = {modules[i].name : i \in DOMAIN modules}
    /\ pc' = "capture"
    /\ UNCHANGED <<loadVars, packet, handed>>

Fork ==
    /\ pc = "fork"
    /\ pc' = "initialize"
    /\ UNCHANGED <<loadVars, runVars>>

ForkFails == Fails("fork", "fork")

(* initialize() is called with the callbacks if there are any, and without *)
(* them if there are none, whatever parameters it has.                     *)
CalledAsDefined(m) == TakesCallbacks(m.name) <=> m.callbacks # <<>>

(* A bug for the mutation run: a module is initialized as often as it is   *)
(* listed.                                                                 *)
InitializeAgain ==
    /\ pc = "initialize"
    /\ current <= Len(modules)
    /\ CalledAsDefined(modules[current])
    /\ initialized' = initialized \cup {modules[current].name}
    /\ current' = current + 1
    /\ UNCHANGED <<pc, conf, names, modules, dependency, filters, packet,
                   handed>>

(* Modules with one name share one state, which Memory and Writer refuse   *)
(* to initialize twice.                                                    *)
Initialize ==
    /\ pc = "initialize"
    /\ current <= Len(modules)
    /\ CalledAsDefined(modules[current])
    /\ modules[current].name \notin initialized
    /\ initialized' = initialized \cup {modules[current].name}
    /\ current' = current + 1
    /\ UNCHANGED <<pc, conf, names, modules, dependency, filters, packet,
                   handed>>

InitializeUndefined ==
    /\ pc = "initialize"
    /\ current <= Len(modules)
    /\ ~CalledAsDefined(modules[current])
    /\ pc' = "undefined"
    /\ UNCHANGED <<loadVars, runVars>>

InitializeFails ==
    /\ current <= Len(modules)
    /\ CalledAsDefined(modules[current])
    /\ \/ modules[current].name \in initialized /\ Exit("initialize")
       \/ Fails("initialize", "initialize")

Initialized ==
    /\ pc = "initialize"
    /\ current > Len(modules)
    /\ pc' = "capture"
    /\ UNCHANGED <<loadVars, runVars>>

LoadAndStart ==
    \/ \E lines \in SensorFiles : Configure(lines)
    \/ ConfigureFails \/ Check \/ CheckFails
    \/ /\ Len(modules) < Len(names) /\ ToLoad \in DOMAIN ModuleFiles
       /\ \E lines \in ModuleFiles[ToLoad] : Load(lines)
    \/ LoadFails \/ Loaded \/ Depend \/ DependFails \/ NextModule
    \/ Pcap \/ PcapFails \/ Fork \/ ForkFails
    \/ Initialize \/ InitializeUndefined \/ InitializeFails \/ Initialized

-----------------------------------------------------------------------------
(* The capture loop.                                                       *)

Captured(frame) ==
    filters = {} \/ \E filter \in filters : FilterAccepts(filter, frame)

Accepts(m, frame) ==
    getString(m.conf, "filter") = <<>>
        \/ FilterAccepts(getString(m.conf, "filter"), frame)

(* A bug for the mutation run: a frame goes to every module that depends   *)
(* on packets.                                                             *)
FrameToAll(frame) ==
    /\ pc = "capture"
    /\ IF Captured(frame) /\ ~Malformed(frame)
       THEN /\ packet' = initialize(packet, frame)
            /\ handed' = <<frame, {i \in DOMAIN modules :
                                      modules[i].processPacket}>>
       ELSE UNCHANGED packet /\ handed' = <<frame, {}>>
    /\ UNCHANGED <<pc, loadVars, initialized>>

(* A frame passes by, and if it is captured, and not malformed, it goes to *)
(* the modules that are interested in it.                                  *)
Frame(frame) ==
    /\ pc = "capture"
    /\ IF Captured(frame) /\ ~Malformed(frame)
       THEN /\ packet' = initialize(packet, frame)
            /\ handed' = <<frame, {i \in DOMAIN modules :
                                      /\ modules[i].processPacket
                                      /\ Accepts(modules[i], frame)}>>
       ELSE UNCHANGED packet /\ handed' = <<frame, {}>>
    /\ UNCHANGED <<pc, loadVars, initialized>>

StartupNext == LoadAndStart \/ \E frame \in Frames : Frame(frame)

StartupSpec == StartupInit /\ [][StartupNext]_startupVars

-----------------------------------------------------------------------------
(* What the modules depend on, by their configuration.                     *)
DependsOn(m, name) ==
    \E i \in DOMAIN Dependencies(m) : Dependencies(m)[i] = name

(* module.cpp:89-100: every initialize() is called with the parameters it  *)
(* has, unless a module that calls others is loaded and nothing depends on *)
(* it, or it is listed twice, and the second has nobody's callbacks; and   *)
(* then every session it will hand out goes to each of the modules that    *)
(* depend on it, once for each time they say so.                           *)
SessionsHaveConsumers ==
    /\ pc = "undefined" =>
           \E i \in DOMAIN modules :
               /\ TakesCallbacks(modules[i].name)
               /\ \/ \E j \in 1..(i - 1) : modules[j].name = modules[i].name
                  \/ \A n \in Listed : ~DependsOn(n, modules[i].name)
    /\ pc = "capture" =>
           \A m, n \in Listed :
               Cardinality({i \in DOMAIN m.callbacks :
                               m.callbacks[i] = n.name}) =
               Cardinality({i \in DOMAIN Dependencies(n) :
                               Dependencies(n)[i] = m.name})

(* A module without a filter wants every packet; when another one has a    *)
(* filter, it does not get them (sensor.cpp:232-243).                      *)
AllFiltered ==
    \A m \in Listed :
        DependsOn(m, "packet") => getString(m.conf, "filter") # <<>>

(* sensor.cpp:352-366: a frame that is not malformed is handed once to     *)
(* each module that depends on packets and whose filter accepts it, and to *)
(* no other, however often a module is listed, and only when it has been   *)
(* initialized.                                                            *)
PacketsReachTheirModules ==
    handed # <<>> =>
        /\ {modules[i].name : i \in handed[2]} \subseteq initialized
        /\ AllFiltered \/ filters = {} =>
               \A m \in Listed :
                   Cardinality({i \in handed[2] : modules[i].name = m.name}) =
                       IF /\ DependsOn(m, "packet")
                          /\ Accepts(m, handed[1])
                          /\ ~Malformed(handed[1])
                       THEN 1 ELSE 0

(* Whether the module's own filter lets TCP and UDP in, and nothing else.  *)
TransportOnly(m) ==
    /\ getString(m.conf, "filter") # <<>>
    /\ \A frame \in Frames :
           FilterAccepts(getString(m.conf, "filter"), frame) =>
               frame.protocol \in {"tcp", "udp"}

(* A module that reads payloads leaves alone fragments, and packets        *)
(* without a payload.                                                      *)
Reads(m) ==
    /\ m.name \in {"http", "bt", "pjl"}
    /\ ~packet.frame.fragmented
    /\ packet.payloadSize # 0

(* packet.cpp:40-69 and sensor.cpp:358-363: between what initialize()      *)
(* rejects, the filters, and what the modules themselves skip, a module    *)
(* whose filter is for TCP or UDP only reads nothing but bytes captured of *)
(* this very packet: not as many as the packet before had, and none beyond *)
(* its end.  The others may (Packet.tla).                                  *)
PayloadIsOfThisPacket ==
    handed # <<>> =>
        \A i \in handed[2] :
            TransportOnly(modules[i]) /\ Reads(modules[i]) =>
                /\ packet.frame = handed[1]
                /\ handed[1].header + packet.payloadSize = handed[1].size

(* The place in Sensor.tla of each of this module's.                       *)
Place(at) ==
    CASE at = "capture" -> "thread"
      [] at = "initialize" -> "modules"
      [] at \in {"exited", "child exited", "undefined"} -> "exited"
      [] OTHER -> "configure"

Forked == pc \in {"initialize", "capture", "undefined", "child exited"}

(* What runs is the process of Sensor.tla, from main() to the flush thread *)
(* being started: no module is initialized before the fork (a thread it    *)
(* starts would stay with the parent), and each way out of this program    *)
(* leaves the parent in the state that one says.  An undefined call ends   *)
(* the process.                                                            *)
Life ==
    INSTANCE Sensor WITH
        ModuleCounts <- Nat, MaxSigterms <- 0, Faults <- TRUE,
        parentPC <- IF Forked THEN "forked" ELSE "unborn",
        mainPC <- Place(pc),
        numModules <- IF Forked THEN Len(modules) ELSE 0,
        flushPC <- "unborn", flushed <- 0, capture <- TRUE, pidFile <- FALSE,
        logLock <- "none",
        handler <- [t \in {"main", "flush", "writer"} |-> "none"],
        sigterms <- 0

(* sensor.cpp:108-291: the steps above are those Sensor.tla has for them.  *)
ImplementsSensor == Life!Spec

=============================================================================
