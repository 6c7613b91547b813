---------------------------- MODULE Sensor_proofs ----------------------------
(***************************************************************************)
(* Theorems about the sensor process: how it starts (Startup.tla), for any *)
(* configurations, filters and frames; how it runs and stops (Sensor.tla), *)
(* for any number of modules and of SIGTERMs; and both together            *)
(* (Process.tla).                                                          *)
(***************************************************************************)
EXTENDS Process, FiniteSetTheorems, SequenceTheorems,
        WellFoundedInduction, TLAPS

-----------------------------------------------------------------------------
(* LoadAndStart.                                                           *)

(* What is left of a step when only the way of main() is looked at: the    *)
(* steps that Life shows, from and to the places it tells apart.        *)
Onward ==
    \/ pc \in {"configure", "check", "load", "depend", "pcap"}
       /\ pc' \in {"configure", "check", "load", "depend", "pcap", "fork"}
    \/ pc = "fork" /\ pc' = "initialize"
    \/ pc = "initialize" /\ pc' \in {"initialize", "capture"}
    \/ pc = "capture" /\ pc' = "capture"
Out ==
    \/ pc \in {"configure", "check", "load", "depend", "pcap", "fork"}
       /\ pc' = "exited"
    \/ pc = "initialize" /\ pc' \in {"child exited", "undefined"}

LEMMA StepIsOnwardOrOut ==
    [StartupNext]_startupVars =>
        /\ Onward \/ Out \/ pc' = pc
        /\ pc \in {"configure", "check", "load", "depend", "pcap"}
               \/ modules' = modules
<1> USE DEF Onward, Out, Exit, Fails, runVars, loadVars
<1>1. (\E lines \in SensorFiles : Configure(lines)) => Onward
  BY DEF Configure
<1>2. ConfigureFails \/ CheckFails \/ LoadFails \/ DependFails => Out
  BY DEF ConfigureFails, CheckFails, LoadFails, DependFails, Pending
<1>3. PcapFails \/ ForkFails \/ InitializeFails \/ InitializeUndefined => Out
  BY DEF PcapFails, ForkFails, InitializeFails, InitializeUndefined
<1>4. Check \/ Loaded \/ Depend \/ NextModule => Onward
  BY DEF Check, Loaded, Depend, Pending, NextModule
<1>5. ASSUME NEW lines, Load(lines) PROVE Onward
  BY <1>5 DEF Load
<1>6. Pcap \/ Fork \/ Initialize \/ Initialized => Onward
  BY DEF Pcap, Fork, Initialize, Initialized
<1>7. (\E frame \in Frames : Frame(frame)) => Onward
  BY DEF Frame
<1>8. (UNCHANGED startupVars) => pc' = pc
  BY DEF startupVars
<1>9. [StartupNext]_startupVars =>
          \/ pc \in {"configure", "check", "load", "depend", "pcap"}
          \/ modules' = modules
  BY DEF StartupNext, LoadAndStart, startupVars, Configure, ConfigureFails,
     Check, CheckFails, Load, LoadFails, Loaded, Depend, Pending, DependFails,
     NextModule, Pcap, PcapFails, Fork, ForkFails, Initialize,
     InitializeUndefined, InitializeFails, Initialized, Frame
<1> QED
  BY <1>1, <1>2, <1>3, <1>4, <1>5, <1>6, <1>7, <1>8, <1>9
     DEF StartupNext, LoadAndStart

-----------------------------------------------------------------------------
(* What the configuration files give.                                      *)

(* The first of some positions is one of them, and none is before it.      *)
LEMMA FirstIsLeast ==
    ASSUME NEW S, S \subseteq Nat, S # {}
    PROVE  First(S) \in S /\ \A i \in S : First(S) <= i
<1> DEFINE R == OpToRel(<, Nat)
<1>1. IsWellFoundedOn(R, Nat)
  BY NatLessThanWellFounded
<1>2. PICK m \in S : \A i \in S : ~ (<<i, m>> \in R)
  <2> HIDE DEF R
  <2> QED  BY <1>1, WFMin
<1>3. \A i \in S : ~ (i < m)
  BY <1>2 DEF OpToRel
<1>4. \A i \in S : m <= i
  BY <1>3
<1> QED  BY <1>4 DEF First

(* A part of a text, from its first symbol at least to its last at most.   *)
LEMMA PartOfText ==
    ASSUME NEW text \in Seq(STRING), NEW m \in Nat \ {0}, NEW n \in Int,
           n <= Len(text), m <= n + 1
    PROVE  SubSeq(text, m, n) \in Seq(STRING)
BY SubSeqProperties

(* What is between the first two of some marks in a text.                  *)
LEMMA BetweenMarks ==
    ASSUME NEW text \in Seq(STRING), NEW marks,
           marks \subseteq 1..Len(text), IsFiniteSet(marks),
           ~ (Cardinality(marks) < 2)
    PROVE  SubSeq(text, First(marks) + 1, First(marks \ {First(marks)}) - 1)
               \in Seq(STRING)
<1> DEFINE opening == First(marks)
           closing == First(marks \ {opening})
<1>0. marks \subseteq Nat
  OBVIOUS
<1>1. marks # {}
  BY FS_EmptySet
<1>2. opening \in marks /\ \A i \in marks : opening <= i
  BY <1>0, <1>1, FirstIsLeast
<1> HIDE DEF opening
<1>3. marks \ {opening} # {}
  <2>1. SUFFICES ASSUME marks = {opening} PROVE FALSE
    BY <1>2
  <2> QED  BY <2>1, FS_Singleton
<1>4. closing \in marks \ {opening}
  <2>1. marks \ {opening} \subseteq Nat
    BY <1>0
  <2> QED  BY <1>3, <2>1, FirstIsLeast
<1> HIDE DEF closing
<1>5. opening \in 1..Len(text) /\ closing \in 1..Len(text)
  BY <1>2, <1>4
<1>6. opening < closing
  BY <1>2, <1>4, <1>5
<1>7. /\ opening + 1 \in Nat \ {0} /\ closing - 1 \in Int
      /\ closing - 1 <= Len(text) /\ opening + 1 <= closing - 1 + 1
  BY <1>5, <1>6
<1>8. SubSeq(text, opening + 1, closing - 1) \in Seq(STRING)
  BY <1>7, PartOfText
<1> QED  BY <1>8 DEF opening, closing

(* Value: of a text a part of it.                                          *)
LEMMA ValueIsText ==
    ASSUME NEW line \in Seq(STRING) PROVE Value(line) \in Seq(STRING)
<1> DEFINE delimiter == First(Where(line, "="))
           rest == IF Where(line, "=") = {} THEN line
                   ELSE SubSeq(line, delimiter + 1, Len(line))
           quotes == Where(rest, Quote)
           opening == First(quotes)
           closing == First(quotes \ {opening})
<1>1. rest \in Seq(STRING)
  <2>1. ASSUME Where(line, "=") # {}
        PROVE  delimiter \in 1..Len(line)
    <3>1. Where(line, "=") \subseteq 1..Len(line)
      BY DEF Where
    <3> QED  BY <2>1, <3>1, FirstIsLeast
  <2>2. ASSUME Where(line, "=") # {}
        PROVE  SubSeq(line, delimiter + 1, Len(line)) \in Seq(STRING)
    <3>1. delimiter \in 1..Len(line)
      BY <2>1, <2>2
    <3> HIDE DEF delimiter
    <3>2. delimiter + 1 \in Nat \ {0} /\ Len(line) \in Int
      BY <3>1
    <3> QED  BY <3>1, <3>2, PartOfText
  <2> QED  BY <2>2
<1> HIDE DEF rest
<1>2. quotes \subseteq 1..Len(rest) /\ IsFiniteSet(quotes)
  <2>1. quotes \subseteq 1..Len(rest)
    BY <1>1 DEF Where
  <2> QED  BY <1>1, <2>1, FS_Interval, FS_Subset
<1>3. ASSUME ~ (Cardinality(quotes) < 2)
      PROVE  SubSeq(rest, opening + 1, closing - 1) \in Seq(STRING)
  BY <1>1, <1>2, <1>3, BetweenMarks
<1>4. Value(line) = IF Cardinality(quotes) < 2 THEN rest
                    ELSE SubSeq(rest, opening + 1, closing - 1)
  BY DEF Value, rest
<1> QED  BY <1>1, <1>3, <1>4

(* getString: a text, whatever the file says.                              *)
LEMMA StringIsText ==
    ASSUME NEW lines \in Seq(Seq(STRING)), NEW name
    PROVE  getString(Options(lines), name) \in Seq(STRING)
<1>1. CASE <<name>> \notin DOMAIN Options(lines)
  BY <1>1 DEF getString
<1>2. CASE <<name>> \in DOMAIN Options(lines)
  <2> DEFINE given == {j \in DOMAIN lines : Name(lines[j]) = <<name>>}
  <2>1. given # {} /\ given \subseteq DOMAIN lines
    BY <1>2 DEF Options
  <2>2. Options(lines)[<<name>>] = [i \in given |-> Value(lines[i])]
    BY <1>2 DEF Options
  <2> HIDE DEF given
  <2>3. First(given) \in given
    <3>1. DOMAIN lines \subseteq Nat
      OBVIOUS
    <3> QED  BY <2>1, <3>1, FirstIsLeast
  <2>4. getString(Options(lines), name) = Value(lines[First(given)])
    BY <1>2, <2>2, <2>3 DEF getString
  <2>5. lines[First(given)] \in Seq(STRING)
    BY <2>1, <2>3
  <2> QED  BY <2>4, <2>5, ValueIsText
<1> QED  BY <1>1, <1>2

(* Words: they are numbered from one to their number.                      *)
LEMMA WordsAreNumbered ==
    ASSUME NEW string \in Seq(STRING)
    PROVE  Len(Words(string)) \in Nat
           /\ DOMAIN Words(string) = 1..Len(Words(string))
<1> DEFINE words == {i \in DOMAIN string : string[i] # " "}
           Nth(n) == CHOOSE i \in words :
                         Cardinality({j \in words : j <= i}) = n
           N == Cardinality(words)
           w == [n \in 1..N |-> string[Nth(n)]]
<1>1. N \in Nat
  <2>1. Len(string) \in Int /\ DOMAIN string = 1..Len(string)
    OBVIOUS
  <2>2. IsFiniteSet(1..Len(string))
    BY <2>1, FS_Interval
  <2>3. words \subseteq 1..Len(string)
    BY <2>1
  <2> HIDE DEF words
  <2> QED  BY <2>2, <2>3, FS_Subset, FS_CardinalityType
<1>2. Words(string) = w
  BY DEF Words
<1> HIDE DEF N, Nth
<1>3. w \in [1..N -> {w[n] : n \in 1..N}]
  <2>1. w = [n \in 1..N |-> w[n]]
    OBVIOUS
  <2> HIDE DEF w
  <2> QED  BY <2>1
<1> HIDE DEF w
<1>4. w \in Seq({w[n] : n \in 1..N}) /\ Len(w) = N
  BY <1>1, <1>3
<1> QED  BY <1>1, <1>2, <1>3, <1>4

-----------------------------------------------------------------------------
(* The modules while they are connected.                                   *)

(* What the files of the modules may say.                                  *)
Confs ==
    {Options(lines) :
        lines \in UNION {ModuleFiles[name] : name \in DOMAIN ModuleFiles}}

ModuleRecords ==
    [name : DOMAIN ModuleFiles, conf : Confs, processPacket : BOOLEAN,
     callbacks : Seq(DOMAIN ModuleFiles)]

LoadTypes ==
    /\ modules \in Seq(ModuleRecords)
    /\ current \in Nat \ {0}
    /\ dependency \in Nat \ {0}

Loading == pc \in {"configure", "check", "load"}
Exited == pc \in {"exited", "child exited"}

(* Dependency i of module k has been looked at.                            *)
Settled(k, i) ==
    \/ pc \in {"pcap", "fork", "initialize", "undefined", "capture"}
    \/ pc = "depend" /\ (k < current \/ (k = current /\ i < dependency))

Needs(k) == Dependencies(modules[k])

(* Where k, so far, depends on packets, and on j; where j calls k.         *)
AsksPackets(k) ==
    {i \in DOMAIN Needs(k) : Settled(k, i) /\ Needs(k)[i] = "packet"}
Asks(k, j) ==
    {i \in DOMAIN Needs(k) : Settled(k, i) /\ Needs(k)[i] = modules[j].name}
Calls(j, k) ==
    {i \in DOMAIN modules[j].callbacks :
        modules[j].callbacks[i] = modules[k].name}

Distinct(n) ==
    \A j, k \in 1..n : modules[j].name = modules[k].name => j = k

FirstOfName(j) == \A l \in 1..(j - 1) : modules[l].name # modules[j].name

(* Each dependency looked at has left what it asks for, and nothing else   *)
(* has: the function for packets, a callback, as many callbacks as there   *)
(* are dependencies.                                                       *)
PacketInv ==
    \A k \in DOMAIN modules :
        modules[k].processPacket <=> AsksPackets(k) # {}

CallbackInv ==
    \A j \in DOMAIN modules :
        /\ modules[j].callbacks # <<>> => TakesCallbacks(modules[j].name)
        /\ FirstOfName(j) =>
               \A k \in DOMAIN modules :
                   Asks(k, j) # {} => modules[j].callbacks # <<>>

CountInv ==
    Distinct(Len(modules)) =>
        \A j, k \in DOMAIN modules :
            Cardinality(Calls(j, k)) = Cardinality(Asks(k, j))

ConnectInv == ~Exited => PacketInv /\ CallbackInv /\ CountInv

(* How far main() has come: a module whose name was there before does not  *)
(* get past initialize().                                                  *)
StartInv ==
    /\ Loading => /\ current = 1 /\ dependency = 1
                  /\ \A j \in DOMAIN modules : modules[j].callbacks = <<>>
    /\ pc \in {"pcap", "fork"} => current = 1
    /\ Loading \/ pc \in {"depend", "pcap", "fork"} => initialized = {}
    /\ pc = "initialize" =>
           /\ current <= Len(modules) + 1
           /\ Distinct(current - 1)
           /\ initialized = {modules[i].name : i \in 1..(current - 1)}
    /\ pc = "capture" =>
           /\ Distinct(Len(modules))
           /\ initialized = {modules[i].name : i \in DOMAIN modules}
    /\ pc = "undefined" =>
           \E i \in DOMAIN modules :
               modules[i].callbacks = <<>> /\ TakesCallbacks(modules[i].name)

FilterOf(k) == getString(modules[k].conf, "filter")
FilterInv ==
    pc \in {"fork", "initialize", "capture"} =>
        filters = {FilterOf(k) : k \in {l \in DOMAIN modules :
                                           modules[l].processPacket}} \ {<<>>}

HandedInv == handed # <<>> => pc = "capture"

LoadInv ==
    LoadTypes /\ ConnectInv /\ StartInv /\ FilterInv /\ HandedInv

(* Dependencies are numbered from one to their number.                     *)
LEMMA NeedsAreNumbered ==
    ASSUME LoadTypes, NEW k \in DOMAIN modules
    PROVE  Len(Needs(k)) \in Nat /\ DOMAIN Needs(k) = 1..Len(Needs(k))
<1>1. modules[k] \in ModuleRecords
  BY DEF LoadTypes
<1>2. PICK lines \in UNION {ModuleFiles[name] : name \in DOMAIN ModuleFiles} :
          modules[k].conf = Options(lines)
  BY <1>1 DEF ModuleRecords, Confs
<1>3. lines \in Seq(Seq(STRING))
  BY StartupAssumption DEF StartupAssumption
<1>4. Needs(k) = Words(getString(Options(lines), "dependencies"))
  BY <1>2 DEF Needs, Dependencies
<1> QED  BY <1>3, <1>4, StringIsText, WordsAreNumbered

(* What a step must leave alone for the connections to stay right.         *)
LEMMA SameConnections ==
    ASSUME ConnectInv, ~Exited, UNCHANGED modules,
           \A k \in DOMAIN modules : \A i \in DOMAIN Needs(k) :
               Settled(k, i)' <=> Settled(k, i)
    PROVE  ConnectInv'
<1>1. \A k \in DOMAIN modules : Needs(k)' = Needs(k)
  BY DEF Needs, Dependencies
<1>2. ASSUME NEW k \in DOMAIN modules, NEW j \in DOMAIN modules
      PROVE  Asks(k, j)' = Asks(k, j) /\ AsksPackets(k)' = AsksPackets(k)
  BY <1>1 DEF Asks, AsksPackets
<1>3. ASSUME NEW j \in DOMAIN modules, NEW k \in DOMAIN modules
      PROVE  Calls(j, k)' = Calls(j, k)
  BY DEF Calls
<1>4. PacketInv'
  BY <1>2 DEF ConnectInv, PacketInv
<1>5. CallbackInv'
  BY <1>2 DEF ConnectInv, CallbackInv, FirstOfName
<1>6. CountInv'
  BY <1>2, <1>3 DEF ConnectInv, CountInv, Distinct
<1> QED  BY <1>4, <1>5, <1>6 DEF ConnectInv

(* There are no modules yet.                                               *)
LEMMA InitLoadInv == StartupInit => LoadInv
<1> SUFFICES ASSUME StartupInit PROVE LoadInv
  OBVIOUS
<1>1. modules = <<>> /\ DOMAIN modules = {} /\ Len(modules) = 0
  BY DEF StartupInit
<1>2. LoadTypes
  BY <1>1 DEF StartupInit, LoadTypes
<1>3. ConnectInv
  BY <1>1 DEF ConnectInv, PacketInv, CallbackInv, CountInv
<1>4. StartInv /\ FilterInv /\ HandedInv
  BY <1>1 DEF StartupInit, StartInv, FilterInv, HandedInv, Loading
<1> QED  BY <1>2, <1>3, <1>4 DEF LoadInv

(* Load: a module that nothing is known of yet.                            *)
LEMMA LoadKeepsInv ==
    ASSUME LoadInv, Len(modules) < Len(names), ToLoad \in DOMAIN ModuleFiles,
           NEW lines \in ModuleFiles[ToLoad], Load(lines)
    PROVE  LoadInv'
<1> DEFINE m == [name |-> ToLoad, conf |-> Options(lines),
                 processPacket |-> FALSE, callbacks |-> <<>>]
           L == Len(modules)
<1>1. /\ pc = "load" /\ pc' = "load"
      /\ UNCHANGED <<current, dependency, filters, initialized, handed>>
  BY DEF Load, runVars
<1>2. modules' = Append(modules, m)
  BY DEF Load
<1>3. m \in ModuleRecords
  BY DEF ModuleRecords, Confs
<1>4. m.processPacket = FALSE /\ m.callbacks = <<>>
  OBVIOUS
<1> HIDE DEF m
<1>5. modules \in Seq(ModuleRecords) /\ L \in Nat /\ DOMAIN modules = 1..L
  BY DEF LoadInv, LoadTypes
<1>6. /\ modules' \in Seq(ModuleRecords) /\ DOMAIN modules' = 1..(L + 1)
      /\ Len(modules') = L + 1
      /\ \A k \in 1..L : modules'[k] = modules[k]
      /\ modules'[L + 1] = m
  BY <1>2, <1>3, <1>5
<1>7. LoadTypes'
  BY <1>1, <1>6 DEF LoadInv, LoadTypes
<1>8. \A j \in DOMAIN modules' : modules'[j].callbacks = <<>>
  BY <1>1, <1>4, <1>5, <1>6 DEF LoadInv, StartInv, Loading
<1>9. \A k, i : ~ Settled(k, i) /\ ~ Settled(k, i)'
  BY <1>1 DEF Settled
<1>10. \A k, j : /\ Asks(k, j)' = {}
                 /\ AsksPackets(k) = {} /\ AsksPackets(k)' = {}
  BY <1>9 DEF Asks, AsksPackets
<1>11. PacketInv /\ CallbackInv
  BY <1>1 DEF LoadInv, ConnectInv, Exited
<1>12. PacketInv'
  BY <1>4, <1>5, <1>6, <1>10, <1>11 DEF PacketInv
<1>13. CallbackInv'
  BY <1>8, <1>10 DEF CallbackInv
<1>14. CountInv'
  <2>1. \A j \in DOMAIN modules' : \A k : Calls(j, k)' = {}
    BY <1>8 DEF Calls
  <2> QED  BY <1>10, <2>1 DEF CountInv
<1>15. StartInv' /\ FilterInv' /\ HandedInv'
  BY <1>1, <1>8 DEF LoadInv, StartInv, FilterInv, HandedInv, Loading
<1> QED  BY <1>7, <1>12, <1>13, <1>14, <1>15 DEF LoadInv, ConnectInv

(* Depend: what the dependency asks for is done.                           *)
LEMMA DependOnPacket ==
    ASSUME LoadInv, Depend, Wanted = "packet"
    PROVE  ConnectInv'
<1>1. /\ pc = "depend" /\ pc' = "depend" /\ current \in DOMAIN modules
      /\ dependency \in DOMAIN Needs(current)
      /\ Needs(current)[dependency] = "packet"
      /\ current' = current /\ dependency' = dependency + 1
  <2>1. current <= Len(modules) /\ dependency <= Len(Needs(current))
    BY DEF Depend, Pending, Needs
  <2>2. current \in DOMAIN modules
    BY <2>1 DEF LoadInv, LoadTypes
  <2>3. dependency \in DOMAIN Needs(current)
    BY <2>1, <2>2, NeedsAreNumbered DEF LoadInv, LoadTypes
  <2> QED  BY <2>2, <2>3 DEF Depend, Pending, Wanted, Needs
<1>2. modules' = [modules EXCEPT ![current].processPacket = TRUE]
  BY DEF Depend
<1>3. /\ modules \in Seq(ModuleRecords)
      /\ \A k \in DOMAIN modules : modules[k] \in ModuleRecords
      /\ PacketInv /\ CallbackInv /\ CountInv
  BY <1>1 DEF LoadInv, LoadTypes, ConnectInv, Exited
<1>4. /\ DOMAIN modules' = DOMAIN modules /\ Len(modules') = Len(modules)
      /\ \A k \in DOMAIN modules :
             /\ modules'[k].name = modules[k].name
             /\ modules'[k].conf = modules[k].conf
             /\ modules'[k].callbacks = modules[k].callbacks
             /\ modules'[k].processPacket =
                    IF k = current THEN TRUE ELSE modules[k].processPacket
  BY <1>1, <1>2, <1>3 DEF ModuleRecords
<1>4a. /\ DOMAIN modules' = DOMAIN modules
       /\ DOMAIN modules = 1..Len(modules) /\ Len(modules) \in Nat
       /\ \A k \in DOMAIN modules : modules'[k].name = modules[k].name
  <2>1. DOMAIN modules = 1..Len(modules) /\ Len(modules) \in Nat
    BY <1>3
  <2> QED  BY <1>4, <2>1
<1>5. \A k \in DOMAIN modules : Needs(k)' = Needs(k)
  BY <1>4 DEF Needs, Dependencies
<1>6. ASSUME NEW k \in DOMAIN modules, NEW i \in DOMAIN Needs(k)
      PROVE  Settled(k, i)' <=>
                 Settled(k, i) \/ (k = current /\ i = dependency)
  BY <1>1, <1>6, NeedsAreNumbered DEF Settled, LoadInv, LoadTypes
<1>7. ASSUME NEW k \in DOMAIN modules
      PROVE  AsksPackets(k)' =
                 AsksPackets(k)
                     \cup (IF k = current THEN {dependency} ELSE {})
  BY <1>1, <1>5, <1>6 DEF AsksPackets
<1>8. ASSUME NEW k \in DOMAIN modules, NEW j \in DOMAIN modules
      PROVE  Asks(k, j)' = Asks(k, j)
  <2>1. modules[j].name # "packet"
    BY <1>3, StartupAssumption DEF ModuleRecords, StartupAssumption
  <2>2. \A i \in DOMAIN Needs(k) :
            Needs(k)[i] = modules[j].name => (Settled(k, i)' <=> Settled(k, i))
    BY <1>1, <1>6, <2>1
  <2>3. modules'[j].name = modules[j].name /\ Needs(k)' = Needs(k)
    BY <1>4, <1>5
  <2> QED  BY <2>2, <2>3 DEF Asks
<1>9. \A j, k \in DOMAIN modules : Calls(j, k)' = Calls(j, k)
  BY <1>4 DEF Calls
<1>10. PacketInv'
  BY <1>3, <1>4, <1>7 DEF PacketInv
<1>11. CallbackInv'
  <2>1. \A j \in DOMAIN modules : FirstOfName(j)' <=> FirstOfName(j)
    BY <1>4a DEF FirstOfName
  <2>2. ASSUME NEW j \in DOMAIN modules
        PROVE  modules'[j].callbacks # <<>> => TakesCallbacks(modules'[j].name)
    BY <1>3, <1>4 DEF CallbackInv
  <2>3. ASSUME NEW j \in DOMAIN modules, NEW k \in DOMAIN modules,
               FirstOfName(j), Asks(k, j)' # {}
        PROVE  modules'[j].callbacks # <<>>
    BY <1>3, <1>4, <1>8, <2>3 DEF CallbackInv
  <2> QED  BY <1>4a, <2>1, <2>2, <2>3 DEF CallbackInv
<1>12. CountInv'
  <2>1. Distinct(Len(modules))' => Distinct(Len(modules))
    BY <1>4, <1>4a DEF Distinct
  <2> QED  BY <1>3, <1>4, <1>8, <1>9, <2>1 DEF CountInv
<1> QED  BY <1>10, <1>11, <1>12 DEF ConnectInv

(* A dependency on a module is one on the first with its name.             *)
LEMMA ProviderIsFirst ==
    ASSUME LoadInv, Depend, Wanted # "packet"
    PROVE  /\ Index(Wanted) \in DOMAIN modules
           /\ modules[Index(Wanted)].name = Wanted
           /\ FirstOfName(Index(Wanted))
<1> DEFINE p == Index(Wanted)
           S == {i \in DOMAIN modules : modules[i].name = Wanted}
<1>0. modules \in Seq(ModuleRecords)
  BY DEF LoadInv, LoadTypes
<1>1. S # {} /\ S \subseteq Nat
  BY <1>0 DEF Depend, Met
<1>2. p = First(S)
  BY DEF Index
<1> HIDE DEF S, p
<1>3. p \in S /\ \A i \in S : p <= i
  BY <1>1, <1>2, FirstIsLeast
<1>4. p \in DOMAIN modules /\ modules[p].name = Wanted
      /\ \A i \in DOMAIN modules : modules[i].name = Wanted => p <= i
  BY <1>3 DEF S
<1>5. FirstOfName(p)
  BY <1>0, <1>4 DEF FirstOfName
<1> QED  BY <1>4, <1>5 DEF p

(* The provider calls whoever depends on it, once more.                    *)
LEMMA DependOnModule ==
    ASSUME LoadInv, Depend, Wanted # "packet"
    PROVE  ConnectInv'
<1> DEFINE p == Index(Wanted)
<1>1. /\ pc = "depend" /\ pc' = "depend" /\ current \in DOMAIN modules
      /\ dependency \in DOMAIN Needs(current)
      /\ Needs(current)[dependency] = Wanted
      /\ current' = current /\ dependency' = dependency + 1
  <2>1. current <= Len(modules) /\ dependency <= Len(Needs(current))
    BY DEF Depend, Pending, Needs
  <2>2. current \in DOMAIN modules
    BY <2>1 DEF LoadInv, LoadTypes
  <2>3. dependency \in DOMAIN Needs(current)
    BY <2>1, <2>2, NeedsAreNumbered DEF LoadInv, LoadTypes
  <2> QED  BY <2>2, <2>3 DEF Depend, Pending, Wanted, Needs
<1>2. /\ modules \in Seq(ModuleRecords)
      /\ \A k \in DOMAIN modules : modules[k] \in ModuleRecords
      /\ PacketInv /\ CallbackInv /\ CountInv
  BY <1>1 DEF LoadInv, LoadTypes, ConnectInv, Exited
<1>3. p \in DOMAIN modules /\ modules[p].name = Wanted /\ FirstOfName(p)
  BY ProviderIsFirst
<1>4. TakesCallbacks(modules[p].name)
  <2>1. Callback(modules[p].name) # "none"
    BY DEF Depend, Met
  <2> QED  BY <2>1 DEF Callback, TakesCallbacks
<1>5. modules' = [modules EXCEPT ![p].callbacks =
                     Append(@, modules[current].name)]
  BY DEF Depend
<1> HIDE DEF p
<1>6. /\ DOMAIN modules' = DOMAIN modules /\ Len(modules') = Len(modules)
      /\ \A k \in DOMAIN modules :
             /\ modules'[k].name = modules[k].name
             /\ modules'[k].conf = modules[k].conf
             /\ modules'[k].processPacket = modules[k].processPacket
             /\ modules'[k].callbacks =
                    IF k = p THEN Append(modules[p].callbacks,
                                         modules[current].name)
                    ELSE modules[k].callbacks
  BY <1>1, <1>2, <1>3, <1>5 DEF ModuleRecords
<1>7. \A k \in DOMAIN modules : Needs(k)' = Needs(k)
  BY <1>6 DEF Needs, Dependencies
<1>8. ASSUME NEW k \in DOMAIN modules, NEW i \in DOMAIN Needs(k)
      PROVE  Settled(k, i)' <=>
                 Settled(k, i) \/ (k = current /\ i = dependency)
  BY <1>1, <1>8, NeedsAreNumbered DEF Settled, LoadInv, LoadTypes
<1>9. ASSUME NEW k \in DOMAIN modules, NEW j \in DOMAIN modules
      PROVE  Asks(k, j)' =
                 Asks(k, j) \cup
                     (IF k = current /\ modules[j].name = Wanted
                      THEN {dependency} ELSE {})
  BY <1>1, <1>6, <1>7, <1>8 DEF Asks
<1>9a. \A k \in DOMAIN modules : AsksPackets(k)' = AsksPackets(k)
  BY <1>1, <1>7, <1>8 DEF AsksPackets
<1>10. modules[p].callbacks \in Seq(DOMAIN ModuleFiles)
  BY <1>2, <1>3 DEF ModuleRecords
<1>11. \A k \in DOMAIN modules : modules'[k].callbacks # <<>> <=>
           k = p \/ modules[k].callbacks # <<>>
  <2>1. modules[current].name \in DOMAIN ModuleFiles
    BY <1>1, <1>2 DEF ModuleRecords
  <2>2. Append(modules[p].callbacks, modules[current].name) # <<>>
    BY <1>10, <2>1
  <2> QED  BY <1>6, <2>2
<1>12. PacketInv'
  BY <1>2, <1>6, <1>9a DEF PacketInv
<1>13. CallbackInv'
  <2>1. ASSUME NEW j \in DOMAIN modules
        PROVE  modules'[j].callbacks # <<>> => TakesCallbacks(modules'[j].name)
    BY <1>2, <1>4, <1>6, <1>11 DEF CallbackInv
  <2>2. ASSUME NEW j \in DOMAIN modules, NEW k \in DOMAIN modules,
               FirstOfName(j), Asks(k, j)' # {}
        PROVE  modules'[j].callbacks # <<>>
    <3>1. CASE j = p
      BY <1>11, <3>1
    <3>2. CASE j # p
      <4>1. modules[j].name # Wanted
        BY <1>2, <1>3, <2>2, <3>2 DEF FirstOfName
      <4>2. Asks(k, j) # {}
        BY <1>9, <2>2, <4>1
      <4> QED  BY <1>2, <1>11, <2>2, <4>2 DEF CallbackInv
    <3> QED  BY <3>1, <3>2
  <2>3. \A j \in DOMAIN modules : FirstOfName(j)' <=> FirstOfName(j)
    BY <1>2, <1>6 DEF FirstOfName
  <2> QED  BY <1>6, <2>1, <2>2, <2>3 DEF CallbackInv
<1>14. CountInv'
  <2> SUFFICES ASSUME Distinct(Len(modules)),
                      NEW j \in DOMAIN modules, NEW k \in DOMAIN modules
               PROVE  Cardinality(Calls(j, k)') =
                          Cardinality(Asks(k, j)')
    BY <1>2, <1>6 DEF CountInv, Distinct, Calls, Asks, Settled, Needs,
       Dependencies
  <2>1. Cardinality(Calls(j, k)) =
            Cardinality(Asks(k, j))
    BY <1>2 DEF CountInv
  <2>2. CASE j = p /\ k = current
    <3>1. Asks(k, j)' =
              Asks(k, j) \cup {dependency}
      BY <1>3, <1>9, <2>2
    <3>2. dependency \notin Asks(k, j)
      BY <1>1, <2>2 DEF Asks, Settled, LoadInv, LoadTypes
    <3>3. IsFiniteSet(Asks(k, j))
      <4>1. /\ Asks(k, j) \subseteq 1..Len(Needs(k))
            /\ Len(Needs(k)) \in Int
        BY NeedsAreNumbered DEF LoadInv, Asks
      <4>2. IsFiniteSet(1..Len(Needs(k)))
        BY <4>1, FS_Interval
      <4> QED  BY <4>1, <4>2, FS_Subset
    <3>4. Cardinality(Asks(k, j)') =
              Cardinality(Asks(k, j)) + 1
      BY <3>1, <3>2, <3>3, FS_AddElement
    <3> DEFINE c == modules[j].callbacks
    <3>5. c \in Seq(DOMAIN ModuleFiles) /\ Len(c) \in Nat
          /\ DOMAIN c = 1..Len(c)
      BY <1>10, <2>2
    <3>6. modules'[j].callbacks = Append(c, modules[k].name)
      BY <1>6, <2>2
    <3>7. Calls(j, k)' =
              Calls(j, k) \cup {Len(c) + 1}
      <4> HIDE DEF c
      <4>1. modules[k].name \in DOMAIN ModuleFiles
        BY <1>2 DEF ModuleRecords
      <4>2. /\ DOMAIN modules'[j].callbacks = 1..(Len(c) + 1)
            /\ \A i \in 1..Len(c) : modules'[j].callbacks[i] = c[i]
            /\ modules'[j].callbacks[Len(c) + 1] = modules[k].name
        BY <3>5, <3>6, <4>1
      <4> QED  BY <3>5, <4>2, <1>6 DEF Calls, c
    <3>8. IsFiniteSet(Calls(j, k))
          /\ Len(c) + 1 \notin Calls(j, k)
      <4>1. Calls(j, k) \subseteq 1..Len(c) /\ Len(c) \in Int
        BY <3>5 DEF Calls
      <4> HIDE DEF c
      <4>2. IsFiniteSet(1..Len(c)) /\ Len(c) + 1 \notin 1..Len(c)
        BY <4>1, FS_Interval
      <4> QED  BY <4>1, <4>2, FS_Subset
    <3>9. Cardinality(Calls(j, k)') =
              Cardinality(Calls(j, k)) + 1
      <4> HIDE DEF c
      <4> QED  BY <3>7, <3>8, FS_AddElement
    <3> QED  BY <2>1, <3>4, <3>9
  <2>3. CASE j = p /\ k # current
    <3>1. modules[k].name # modules[current].name
      BY <1>1, <1>2, <2>3 DEF Distinct
    <3>2. Calls(j, k)' = Calls(j, k)
      <4> DEFINE c == modules[j].callbacks
      <4>1. c \in Seq(DOMAIN ModuleFiles) /\ Len(c) \in Nat
            /\ DOMAIN c = 1..Len(c)
        BY <1>10, <2>3
      <4>2. modules'[j].callbacks = Append(c, modules[current].name)
        BY <1>6, <2>3
      <4>3. modules[current].name \in DOMAIN ModuleFiles
        BY <1>1, <1>2 DEF ModuleRecords
      <4> HIDE DEF c
      <4>4. /\ DOMAIN modules'[j].callbacks = 1..(Len(c) + 1)
            /\ \A i \in 1..Len(c) : modules'[j].callbacks[i] = c[i]
            /\ modules'[j].callbacks[Len(c) + 1] = modules[current].name
        BY <4>1, <4>2, <4>3
      <4> QED  BY <1>6, <3>1, <4>1, <4>4 DEF Calls, c
    <3>3. Asks(k, j)' = Asks(k, j) \cup {}
      BY <1>9, <2>3
    <3> QED  BY <2>1, <3>2, <3>3
  <2>4. CASE j # p
    <3>1. modules[j].name # Wanted
      BY <1>2, <1>3, <2>4 DEF Distinct
    <3>2. Asks(k, j)' = Asks(k, j)
      BY <1>9, <3>1
    <3>3. Calls(j, k)' = Calls(j, k)
      BY <1>6, <2>4 DEF Calls
    <3> QED  BY <2>1, <3>2, <3>3
  <2> QED  BY <2>2, <2>3, <2>4
<1> QED  BY <1>12, <1>13, <1>14 DEF ConnectInv

(* Depend, with the types of what it changes.                              *)
LEMMA DependKeepsInv == LoadInv /\ Depend => LoadInv'
<1> SUFFICES ASSUME LoadInv, Depend PROVE LoadInv'
  OBVIOUS
<1>1. /\ pc = "depend" /\ pc' = "depend" /\ current \in DOMAIN modules
      /\ UNCHANGED <<current, filters, initialized, handed>>
      /\ dependency' = dependency + 1
      /\ modules \in Seq(ModuleRecords)
      /\ \A k \in DOMAIN modules : modules[k] \in ModuleRecords
  BY DEF Depend, Pending, LoadInv, LoadTypes, runVars
<1>2. modules' \in Seq(ModuleRecords)
  <2>1. CASE Wanted = "packet"
    <3>1. modules' = [modules EXCEPT ![current].processPacket = TRUE]
      BY <2>1 DEF Depend
    <3>2. [modules[current] EXCEPT !.processPacket = TRUE] \in ModuleRecords
      BY <1>1 DEF ModuleRecords
    <3> QED  BY <1>1, <3>1, <3>2
  <2>2. CASE Wanted # "packet"
    <3> DEFINE p == Index(Wanted)
               c == Append(modules[p].callbacks, modules[current].name)
    <3>1. modules' = [modules EXCEPT ![p].callbacks =
                         Append(@, modules[current].name)]
      BY <2>2 DEF Depend
    <3>2. p \in DOMAIN modules
      BY <2>2, ProviderIsFirst
    <3> HIDE DEF p
    <3>3. c \in Seq(DOMAIN ModuleFiles)
      BY <1>1, <3>2 DEF ModuleRecords
    <3>4. modules' = [modules EXCEPT ![p].callbacks = c]
      BY <3>1, <3>2
    <3> HIDE DEF c
    <3>5. [modules[p] EXCEPT !.callbacks = c] \in ModuleRecords
      BY <1>1, <3>2, <3>3 DEF ModuleRecords
    <3> QED  BY <1>1, <3>2, <3>4, <3>5
  <2> QED  BY <2>1, <2>2
<1>3. LoadTypes'
  BY <1>1, <1>2 DEF LoadInv, LoadTypes
<1>4. ConnectInv'
  BY DependOnPacket, DependOnModule
<1>5. StartInv' /\ FilterInv' /\ HandedInv'
  BY <1>1 DEF LoadInv, StartInv, FilterInv, HandedInv, Loading
<1> QED  BY <1>3, <1>4, <1>5 DEF LoadInv

(* main() returns: there is nothing more to keep.                          *)
LEMMA ExitKeepsInv ==
    ASSUME LoadInv, NEW from, from # "capture", Exit(from)
    PROVE  LoadInv'
<1>1. /\ pc # "capture" /\ pc' \in {"exited", "child exited"}
      /\ UNCHANGED <<modules, current, dependency, handed>>
  BY DEF Exit, loadVars, runVars
<1> QED
  BY <1>1 DEF LoadInv, LoadTypes, ConnectInv, Exited, StartInv, FilterInv,
     HandedInv, Loading

(* Each way out before the packets come.                                   *)
LEMMA ExitsKeepInv ==
    ASSUME LoadInv,
           \/ ConfigureFails \/ CheckFails \/ LoadFails \/ DependFails
           \/ PcapFails \/ ForkFails \/ InitializeFails
    PROVE  LoadInv'
<1>1. PICK from \in {"configure", "check", "load", "depend", "pcap", "fork",
                     "initialize"} : Exit(from)
  BY DEF ConfigureFails, CheckFails, LoadFails, DependFails, PcapFails,
     ForkFails, InitializeFails, Fails
<1> QED  BY <1>1, ExitKeepsInv

(* NextModule: of the last module every dependency has been looked at.     *)
LEMMA NextModuleKeepsInv == LoadInv /\ NextModule => LoadInv'
<1> SUFFICES ASSUME LoadInv, NextModule PROVE LoadInv'
  OBVIOUS
<1>1. /\ pc = "depend" /\ pc' \in {"depend", "pcap"}
      /\ UNCHANGED <<modules, filters, initialized, handed>>
  BY DEF NextModule, runVars
<1>2. LoadTypes'
  BY <1>1 DEF LoadInv, LoadTypes, NextModule
<1>3. ASSUME NEW k \in DOMAIN modules, NEW i \in DOMAIN Needs(k)
      PROVE  Settled(k, i)' <=> Settled(k, i)
  <2>1. /\ k \in 1..Len(modules) /\ i \in 1..Len(Needs(k))
        /\ Len(modules) \in Nat /\ Len(Needs(k)) \in Nat
        /\ current \in Nat /\ dependency \in Nat
    BY NeedsAreNumbered DEF LoadInv, LoadTypes
  <2>2. CASE current <= Len(modules)
    <3>1. k = current => i < dependency
      BY <1>1, <2>1, <2>2 DEF NextModule, Pending, Needs
    <3>2. pc' = "depend" /\ current' = current + 1 /\ dependency' = 1
      BY <1>1, <2>2 DEF NextModule
    <3> QED  BY <1>1, <2>1, <3>1, <3>2 DEF Settled
  <2>3. CASE ~ (current <= Len(modules))
    <3>1. pc' = "pcap"
      BY <2>3 DEF NextModule
    <3> QED  BY <1>1, <2>1, <2>3, <3>1 DEF Settled
  <2> QED  BY <2>2, <2>3
<1>4. ConnectInv'
  BY <1>1, <1>3, SameConnections DEF LoadInv, Exited
<1>5. StartInv' /\ FilterInv' /\ HandedInv'
  BY <1>1 DEF LoadInv, LoadTypes, StartInv, FilterInv, HandedInv, Loading,
     NextModule
<1> QED  BY <1>2, <1>4, <1>5 DEF LoadInv

(* Initialize: the name was not there before.                              *)
LEMMA InitializeKeepsInv == LoadInv /\ Initialize => LoadInv'
<1> SUFFICES ASSUME LoadInv, Initialize PROVE LoadInv'
  OBVIOUS
<1>1. /\ pc = "initialize" /\ pc' = "initialize"
      /\ UNCHANGED <<modules, dependency, filters, handed>>
      /\ current' = current + 1 /\ current <= Len(modules)
      /\ initialized' = initialized \cup {modules[current].name}
      /\ modules[current].name \notin initialized
      /\ Len(modules) \in Nat /\ current \in Nat \ {0}
  BY DEF Initialize, LoadInv, LoadTypes
<1>2. LoadTypes'
  BY <1>1 DEF LoadInv, LoadTypes
<1>3. ConnectInv'
  <2>1. \A k, i : Settled(k, i)' <=> Settled(k, i)
    BY <1>1 DEF Settled
  <2> QED  BY <1>1, <2>1, SameConnections DEF LoadInv, Exited
<1>4. /\ Distinct(current - 1)
      /\ initialized = {modules[i].name : i \in 1..(current - 1)}
  BY <1>1 DEF LoadInv, StartInv
<1>5. Distinct(current - 1)'
  <2>1. SUFFICES ASSUME NEW j \in 1..current, NEW k \in 1..current,
                        modules[j].name = modules[k].name
                 PROVE  j = k
    BY <1>1 DEF Distinct
  <2>2. CASE j # current /\ k # current
    BY <1>1, <1>4, <2>1, <2>2 DEF Distinct
  <2>3. CASE j = current /\ k # current
    BY <1>1, <1>4, <2>1, <2>3
  <2>4. CASE j # current /\ k = current
    BY <1>1, <1>4, <2>1, <2>4
  <2> QED  BY <2>2, <2>3, <2>4
<1>6. initialized' = {modules[i].name : i \in 1..current}
  <2>1. 1..current = 1..(current - 1) \cup {current}
    BY <1>1
  <2> QED  BY <1>1, <1>4, <2>1
<1>7. StartInv'
  BY <1>1, <1>5, <1>6 DEF StartInv, Loading
<1>8. FilterInv' /\ HandedInv'
  BY <1>1 DEF LoadInv, FilterInv, FilterOf, HandedInv
<1> QED  BY <1>2, <1>3, <1>7, <1>8 DEF LoadInv

(* The steps that leave modules and their connections alone.               *)
LEMMA OthersKeepInv ==
    ASSUME LoadInv,
           \/ \E lines \in SensorFiles : Configure(lines)
           \/ Check \/ Loaded \/ Pcap \/ Fork \/ InitializeUndefined
           \/ Initialized \/ \E frame \in Frames : Frame(frame)
           \/ UNCHANGED startupVars
    PROVE  LoadInv'
<1>1. UNCHANGED <<modules, current, dependency, initialized>>
  BY DEF Configure, Check, Loaded, Pcap, Fork, InitializeUndefined,
     Initialized, Frame, loadVars, runVars, startupVars
<1>2. LoadTypes'
  BY <1>1 DEF LoadInv, LoadTypes
<1>3. \/ pc = "configure" /\ pc' = "check" /\ UNCHANGED handed
      \/ pc = "check" /\ pc' = "load" /\ UNCHANGED handed
      \/ pc = "load" /\ pc' = "depend" /\ UNCHANGED handed
      \/ pc = "pcap" /\ pc' = "fork" /\ UNCHANGED handed
      \/ pc = "fork" /\ pc' = "initialize" /\ UNCHANGED <<handed, filters>>
      \/ /\ pc = "initialize" /\ pc' = "undefined"
         /\ UNCHANGED <<handed, filters>>
      \/ /\ pc = "initialize" /\ pc' = "capture" /\ current > Len(modules)
         /\ UNCHANGED <<handed, filters>>
      \/ pc = "capture" /\ pc' = "capture" /\ UNCHANGED filters
      \/ pc' = pc /\ UNCHANGED <<handed, filters>>
  BY DEF Configure, Check, Loaded, Pcap, Fork, InitializeUndefined,
     Initialized, Frame, loadVars, runVars, startupVars
<1>4. ConnectInv'
  <2>1. CASE Exited
    BY <1>3, <2>1 DEF ConnectInv, Exited
  <2>2. CASE ~Exited
    <3>1. ASSUME NEW k \in DOMAIN modules, NEW i \in DOMAIN Needs(k)
          PROVE  Settled(k, i)' <=> Settled(k, i)
      <4>1. CASE pc = "load" /\ pc' = "depend"
        <5>1. current = 1 /\ dependency = 1
          BY <4>1 DEF LoadInv, StartInv, Loading
        <5>2. k >= 1 /\ k \in Nat /\ i >= 1 /\ i \in Nat
          BY NeedsAreNumbered DEF LoadInv, LoadTypes
        <5> QED  BY <1>1, <4>1, <5>1, <5>2 DEF Settled
      <4>2. CASE ~ (pc = "load" /\ pc' = "depend")
        BY <1>1, <1>3, <4>2 DEF Settled
      <4> QED  BY <4>1, <4>2
    <3> QED  BY <1>1, <2>2, <3>1, SameConnections DEF LoadInv
  <2> QED  BY <2>1, <2>2
<1>5. FilterInv'
  <2>1. CASE Pcap
    <3>1. filters' = {getString(m.conf, "filter") :
                         m \in {n \in Listed : n.processPacket}} \ {<<>>}
      BY <2>1 DEF Pcap
    <3>2. filters' = {FilterOf(k) : k \in {l \in DOMAIN modules :
                                       modules[l].processPacket}} \ {<<>>}
      BY <3>1 DEF Listed, FilterOf
    <3>3. \A k : FilterOf(k)' = FilterOf(k)
      BY <1>1 DEF FilterOf
    <3> QED  BY <1>1, <3>2, <3>3 DEF FilterInv
  <2>2. CASE ~Pcap
    <3>1. pc' \in {"fork", "initialize", "capture"} =>
              pc \in {"fork", "initialize", "capture"} /\ UNCHANGED filters
      BY <2>2 DEF Configure, Check, Loaded, Fork, InitializeUndefined,
         Initialized, Frame, loadVars, runVars, startupVars
    <3>2. \A k : FilterOf(k)' = FilterOf(k)
      BY <1>1 DEF FilterOf
    <3> QED  BY <1>1, <3>1, <3>2 DEF LoadInv, FilterInv
  <2> QED  BY <2>1, <2>2
<1>6. HandedInv'
  BY <1>3 DEF LoadInv, HandedInv
<1>7. StartInv'
  <2>1. CASE pc' \notin {"initialize", "capture", "undefined"}
    BY <1>1, <1>3, <2>1 DEF LoadInv, StartInv, Loading
  <2>2. CASE pc = "fork" /\ pc' = "initialize"
    BY <1>1, <2>2 DEF LoadInv, LoadTypes, StartInv, Loading, Distinct
  <2>3. CASE pc = "initialize" /\ pc' = "capture"
    <3>1. current = Len(modules) + 1 /\ Len(modules) \in Nat
      BY <1>3, <2>3 DEF LoadInv, LoadTypes, StartInv
    <3>2. DOMAIN modules = 1..Len(modules) /\ current - 1 = Len(modules)
      BY <3>1 DEF LoadInv, LoadTypes
    <3> QED
      BY <1>1, <2>3, <3>2 DEF LoadInv, StartInv, Loading, Distinct
  <2>4. CASE pc = "initialize" /\ pc' = "undefined"
    <3>1. /\ current <= Len(modules) /\ ~CalledAsDefined(modules[current])
      BY <2>4 DEF Configure, Check, Loaded, Pcap, Fork, InitializeUndefined,
         Initialized, Frame, startupVars
    <3>2. current \in DOMAIN modules
      BY <3>1 DEF LoadInv, LoadTypes
    <3>3. modules[current].callbacks = <<>>
          /\ TakesCallbacks(modules[current].name)
      BY <2>4, <3>1, <3>2
      DEF LoadInv, ConnectInv, Exited, CallbackInv, CalledAsDefined
    <3> QED  BY <1>1, <2>4, <3>2, <3>3 DEF StartInv, Loading
  <2>5. CASE pc' = pc
    BY <1>1, <2>5 DEF LoadInv, StartInv, Loading, Distinct
  <2> QED  BY <1>3, <2>1, <2>2, <2>3, <2>4, <2>5
<1> QED  BY <1>2, <1>4, <1>5, <1>6, <1>7 DEF LoadInv

(* One step per action.                                                    *)
LEMMA InvariantLoadInv == StartupSpec => []LoadInv
<1>1. LoadInv /\ [StartupNext]_startupVars => LoadInv'
  <2> SUFFICES ASSUME LoadInv, [StartupNext]_startupVars PROVE LoadInv'
    OBVIOUS
  <2>1. ASSUME Len(modules) < Len(names), ToLoad \in DOMAIN ModuleFiles,
               NEW lines \in ModuleFiles[ToLoad], Load(lines)
        PROVE  LoadInv'
    BY <2>1, LoadKeepsInv
  <2> QED
    BY <2>1, DependKeepsInv, ExitsKeepInv, NextModuleKeepsInv,
       InitializeKeepsInv, OthersKeepInv DEF StartupNext, LoadAndStart
<1> QED  BY <1>1, InitLoadInv, PTL DEF StartupSpec

(* SessionsHaveConsumers of Startup.tla: when the packets begin to come    *)
(* each module calls those that depend on it, and only a list or a         *)
(* configuration that is wrong in one of two ways makes an undefined call. *)
THEOREM ConsumersAreCalled == StartupSpec => []SessionsHaveConsumers
<1>1. LoadInv => SessionsHaveConsumers
  <2> SUFFICES ASSUME LoadInv PROVE SessionsHaveConsumers
    OBVIOUS
  <2>1. CASE pc = "undefined"
    <3>1. PICK i \in DOMAIN modules :
              modules[i].callbacks = <<>> /\ TakesCallbacks(modules[i].name)
      BY <2>1 DEF LoadInv, StartInv
    <3>2. ASSUME FirstOfName(i), NEW k \in DOMAIN modules,
                 DependsOn(modules[k], modules[i].name)
          PROVE  FALSE
      <4>1. Asks(k, i) # {}
        BY <2>1, <3>2 DEF DependsOn, Asks, Needs, Settled
      <4> QED  BY <2>1, <3>1, <3>2, <4>1 DEF LoadInv, ConnectInv, Exited,
                  CallbackInv
    <3>3. ASSUME ~FirstOfName(i)
          PROVE  \E j \in 1..(i - 1) : modules[j].name = modules[i].name
      BY <3>3 DEF FirstOfName
    <3> QED  BY <2>1, <3>1, <3>2, <3>3 DEF SessionsHaveConsumers, Listed
  <2>2. CASE pc = "capture"
    <3>1. ASSUME NEW j \in DOMAIN modules, NEW k \in DOMAIN modules
          PROVE  Cardinality(Calls(j, k)) =
                     Cardinality({i \in DOMAIN Needs(k) :
                                     Needs(k)[i] = modules[j].name})
      <4>1. Asks(k, j) = {i \in DOMAIN Needs(k) :
                             Needs(k)[i] = modules[j].name}
        BY <2>2 DEF Asks, Settled
      <4>2. Cardinality(Calls(j, k)) = Cardinality(Asks(k, j))
        BY <2>2 DEF LoadInv, ConnectInv, Exited, CountInv, StartInv
      <4> QED  BY <4>1, <4>2
    <3> QED  BY <2>2, <3>1 DEF SessionsHaveConsumers, Listed, Calls, Needs
  <2>3. CASE pc \notin {"undefined", "capture"}
    BY <2>3 DEF SessionsHaveConsumers
  <2> QED  BY <2>1, <2>2, <2>3
<1> QED  BY <1>1, InvariantLoadInv, PTL

(* PacketsReachTheirModules of Startup.tla: whatever the filters, each     *)
(* module that depends on packets and accepts a frame gets it once, and    *)
(* nobody else does.                                                       *)
THEOREM PacketsAreDelivered == StartupSpec => []PacketsReachTheirModules
<1>1. StartupInit => PacketsReachTheirModules
  BY DEF StartupInit, PacketsReachTheirModules
<1>2. LoadInv /\ PacketsReachTheirModules /\ [StartupNext]_startupVars
          => PacketsReachTheirModules'
  <2> SUFFICES ASSUME LoadInv, PacketsReachTheirModules,
                      [StartupNext]_startupVars
               PROVE  PacketsReachTheirModules'
    OBVIOUS
  <2>1. ASSUME NEW frame \in Frames, Frame(frame)
        PROVE  PacketsReachTheirModules'
    <3>1. /\ pc = "capture" /\ UNCHANGED <<modules, filters, initialized>>
          /\ handed' # <<>> /\ handed'[1] = frame
          /\ handed'[2] = IF Captured(frame) /\ ~Malformed(frame)
                          THEN {i \in DOMAIN modules :
                                   /\ modules[i].processPacket
                                   /\ Accepts(modules[i], frame)}
                          ELSE {}
      <4>1. CASE Captured(frame) /\ ~Malformed(frame)
        BY <2>1, <4>1 DEF Frame, loadVars
      <4>2. CASE ~ (Captured(frame) /\ ~Malformed(frame))
        <5>1. handed' = <<frame, {}>>
          BY <2>1, <4>2 DEF Frame
        <5>2. pc = "capture" /\ UNCHANGED <<modules, filters, initialized>>
          BY <2>1 DEF Frame, loadVars
        <5> QED  BY <4>2, <5>1, <5>2
      <4> QED  BY <4>1, <4>2
    <3> DEFINE to == handed'[2]
    <3>2. /\ Distinct(Len(modules)) /\ DOMAIN modules = 1..Len(modules)
          /\ initialized = {modules[i].name : i \in DOMAIN modules}
          /\ PacketInv
      BY <3>1 DEF LoadInv, LoadTypes, StartInv, ConnectInv, Exited
    <3>3. \A k \in DOMAIN modules :
              modules[k].processPacket <=> DependsOn(modules[k], "packet")
      BY <3>1, <3>2 DEF PacketInv, AsksPackets, Settled, DependsOn, Needs
    <3>4. {modules[i].name : i \in to} \subseteq initialized
      BY <3>1, <3>2
    <3>5. ASSUME AllFiltered \/ filters = {}, NEW k \in DOMAIN modules
          PROVE  k \in to <=> /\ DependsOn(modules[k], "packet")
                              /\ Accepts(modules[k], frame)
                              /\ ~Malformed(frame)
      <4>1. CASE ~ (modules[k].processPacket /\ Accepts(modules[k], frame))
        BY <3>1, <3>3, <4>1
      <4>2. CASE modules[k].processPacket /\ Accepts(modules[k], frame)
        <5>1. Captured(frame)
          <6>1. CASE filters = {}
            BY <6>1 DEF Captured
          <6>2. CASE filters # {}
            <7>1. FilterOf(k) # <<>>
              BY <3>3, <3>5, <4>2, <6>2 DEF AllFiltered, Listed, FilterOf
            <7>2. FilterOf(k) \in filters
              BY <3>1, <4>2, <7>1 DEF LoadInv, FilterInv
            <7> QED  BY <4>2, <7>1, <7>2 DEF Captured, Accepts, FilterOf
          <6> QED  BY <6>1, <6>2
        <5> QED  BY <3>1, <3>3, <4>2, <5>1
      <4> QED  BY <4>1, <4>2
    <3>6. ASSUME AllFiltered \/ filters = {}, NEW k \in DOMAIN modules
          PROVE  Cardinality({i \in to : modules[i].name = modules[k].name}) =
                     IF /\ DependsOn(modules[k], "packet")
                        /\ Accepts(modules[k], frame)
                        /\ ~Malformed(frame)
                     THEN 1 ELSE 0
      <4>1. \A i \in to : i \in DOMAIN modules
                          /\ (modules[i].name = modules[k].name => i = k)
        BY <3>1, <3>2 DEF Distinct
      <4> HIDE DEF to
      <4>2. {i \in to : modules[i].name = modules[k].name} =
                IF k \in to THEN {k} ELSE {}
        BY <4>1
      <4> QED  BY <3>5, <3>6, <4>2, FS_EmptySet, FS_Singleton
    <3>7. UNCHANGED <<AllFiltered, Listed>>
      BY <3>1 DEF AllFiltered, Listed
    <3> QED
      BY <3>1, <3>4, <3>6, <3>7 DEF PacketsReachTheirModules, Listed
  <2>2. CASE UNCHANGED handed /\ pc' = pc /\ pc = "capture"
             /\ UNCHANGED <<modules, filters, initialized>>
    BY <2>2 DEF PacketsReachTheirModules, AllFiltered, Listed
  <2>3. CASE UNCHANGED handed /\ pc # "capture"
    BY <2>3 DEF LoadInv, HandedInv, PacketsReachTheirModules
  <2>4. \/ \E frame \in Frames : Frame(frame)
        \/ UNCHANGED startupVars
        \/ UNCHANGED handed /\ pc # "capture"
    BY DEF StartupNext, LoadAndStart, Configure, ConfigureFails, Check,
       CheckFails, Load, LoadFails, Loaded, Depend, Pending, DependFails,
       NextModule, Pcap, PcapFails, Fork, ForkFails, Initialize,
       InitializeUndefined, InitializeFails, Initialized, Exit, Fails, runVars
  <2>5. CASE UNCHANGED startupVars
    BY <2>2, <2>3, <2>5 DEF startupVars, loadVars
  <2> QED  BY <2>1, <2>3, <2>4, <2>5
<1> QED  BY <1>1, <1>2, InvariantLoadInv, PTL DEF StartupSpec

(* sensor.cpp:108-291 goes through the places that Sensor.tla has for it,  *)
(* in its order, and leaves it where that one does: in particular no       *)
(* module is initialized before there is a child.                          *)
THEOREM StartsAsSensor == StartupSpec => ImplementsSensor
<1> USE DEF Place, Forked
<1>1. StartupInit => Life!Init
  BY DEF StartupInit, Life!Init, Life!Threads
<1>2. LoadInv /\ [StartupNext]_startupVars => [Life!Next]_Life!vars
  <2> SUFFICES ASSUME LoadInv, [StartupNext]_startupVars
               PROVE  [Life!Next]_Life!vars
    OBVIOUS
  <2> USE DEF Life!Next, Life!vars, Life!Starting, Life!flushVars,
              Life!otherVars
  <2>0. Len(modules) \in Nat
    BY DEF LoadInv, LoadTypes
  <2>1. CASE Onward
    <3>1. CASE pc = "fork"
      BY <2>0, <2>1, <3>1, StepIsOnwardOrOut DEF Onward, Life!StartAndFork
    <3>2. CASE pc = "initialize"
      BY <2>1, <3>2, StepIsOnwardOrOut
      DEF Onward, Life!InitializeModules, Life!Proceed, Life!Runs
    <3>3. CASE pc \notin {"fork", "initialize"}
      BY <2>1, <3>3, StepIsOnwardOrOut DEF Onward
    <3> QED  BY <3>1, <3>2, <3>3
  <2>2. CASE Out
    <3>1. CASE pc = "initialize"
      BY <2>2, <3>1, StepIsOnwardOrOut
      DEF Out, Life!InitializeModules, Life!ReturnsOne, Life!Breaks,
          Life!Proceed, Life!Runs
    <3>2. CASE pc # "initialize"
      BY <2>2, <3>2 DEF Out, Life!StartFails
    <3> QED  BY <3>1, <3>2
  <2>3. CASE pc' = pc
    BY <2>3, StepIsOnwardOrOut
  <2> QED  BY <2>1, <2>2, <2>3, StepIsOnwardOrOut
<1> QED
  BY <1>1, <1>2, InvariantLoadInv, PTL
  DEF StartupSpec, ImplementsSensor, Life!Spec

(* PayloadIsOfThisPacket of Startup.tla: whatever a filter lets in, if it  *)
(* is TCP and UDP only, nobody reads the size of another packet's payload, *)
(* nor one below 0.                                                        *)
THEOREM PayloadIsOfItsPacket == StartupSpec => []PayloadIsOfThisPacket
<1>1. StartupInit => PayloadIsOfThisPacket
  BY DEF StartupInit, PayloadIsOfThisPacket
<1>2. LoadInv /\ PayloadIsOfThisPacket /\ [StartupNext]_startupVars
          => PayloadIsOfThisPacket'
  <2> SUFFICES ASSUME LoadInv, PayloadIsOfThisPacket,
                      [StartupNext]_startupVars
               PROVE  PayloadIsOfThisPacket'
    OBVIOUS
  <2>1. ASSUME NEW frame \in Frames, Frame(frame), Captured(frame),
               ~Malformed(frame)
        PROVE  PayloadIsOfThisPacket'
    <3>1. /\ packet' = initialize(packet, frame) /\ modules' = modules
          /\ handed'[1] = frame
          /\ \A i \in handed'[2] : Accepts(modules[i], frame)
      BY <2>1 DEF Frame, loadVars
    <3> SUFFICES ASSUME NEW i \in handed'[2],
                        TransportOnly(modules[i])', Reads(modules[i])'
                 PROVE  /\ packet'.frame = frame
                        /\ frame.header + packet'.payloadSize = frame.size
      BY <3>1 DEF PayloadIsOfThisPacket
    <3>2. frame.protocol \in {"tcp", "udp"}
      BY <2>1, <3>1 DEF TransportOnly, Accepts
    <3>3. packet'.frame = frame /\ ~frame.fragmented
      BY <3>1 DEF initialize, Reads
    <3>4. packet'.payloadSize = (frame.size - frame.header) % 65536
      BY <3>1, <3>2, <3>3 DEF initialize, Sized, HeaderSize
    <3>5. /\ frame.header \in Nat /\ frame.size \in Int
          /\ frame.size < 65536 /\ frame.header <= frame.size
      BY <2>1, <3>2, <3>3, StartupAssumption
      DEF StartupAssumption, Malformed
    <3> QED  BY <3>3, <3>4, <3>5
  <2>2. ASSUME NEW frame \in Frames, Frame(frame),
               ~ (Captured(frame) /\ ~Malformed(frame))
        PROVE  PayloadIsOfThisPacket'
    <3>1. handed' = <<frame, {}>>
      BY <2>2 DEF Frame
    <3> QED  BY <3>1 DEF PayloadIsOfThisPacket
  <2>3. CASE UNCHANGED <<handed, packet, modules>>
    BY <2>3 DEF PayloadIsOfThisPacket, TransportOnly, Reads
  <2>4. CASE UNCHANGED handed /\ pc # "capture"
    BY <2>4 DEF LoadInv, HandedInv, PayloadIsOfThisPacket
  <2>5. \/ \E frame \in Frames : Frame(frame)
        \/ UNCHANGED startupVars
        \/ UNCHANGED handed /\ pc # "capture"
    BY DEF StartupNext, LoadAndStart, Configure, ConfigureFails, Check,
       CheckFails, Load, LoadFails, Loaded, Depend, Pending, DependFails,
       NextModule, Pcap, PcapFails, Fork, ForkFails, Initialize,
       InitializeUndefined, InitializeFails, Initialized, Exit, Fails, runVars
  <2>6. CASE UNCHANGED startupVars
    BY <2>3, <2>6 DEF startupVars, loadVars
  <2> QED  BY <2>1, <2>2, <2>4, <2>5, <2>6
<1> QED  BY <1>1, <1>2, InvariantLoadInv, PTL DEF StartupSpec

-----------------------------------------------------------------------------
(* Running and stopping.                                                   *)

(* A thread writes to the log in its own code or in the handler, never in  *)
(* both.                                                                   *)
MainLogging == mainPC \in {"loggingStart", "loggingPacket", "loggingJoin"}

LogInv ==
    /\ LogIsExclusive
    /\ ~(MainLogging /\ handler["main"] = "logging")
    /\ ~(flushPC = "logging" /\ handler["flush"] = "logging")
    /\ flushPC = "ended" => handler["flush"] = "none"
    /\ mainPC \in {"configure", "modules", "thread"} => flushPC = "unborn"
    /\ flushPC = "unborn" => flushed = 0

(* Where the PID file is, by how far main() has come.                      *)
PidInv ==
    /\ mainPC \in {"configure", "modules", "thread", "pidFile", "return",
                   "exited"}
         <=> ~pidFile
    /\ parentPC = "returned" =>
          mainPC \notin {"configure", "modules", "thread", "pidFile",
                         "detach", "notify"}
    /\ mainPC = "finish" => flushPC = "ended"

RunInv == TypeOK /\ LogInv /\ PidInv

LEMMA InitRunInv == Init => RunInv
<1> SUFFICES ASSUME Init PROVE RunInv
  OBVIOUS
<1> USE DEF Init, Threads
<1>1. TypeOK
  <2>1. /\ parentPC \in ParentPCs /\ mainPC \in MainPCs
        /\ flushPC \in FlushPCs
    BY DEF ParentPCs, MainPCs, FlushPCs
  <2>2. /\ numModules \in ModuleCounts \cup {0} /\ flushed \in 0..numModules
        /\ sigterms \in 0..MaxSigterms
    BY SensorAssumption DEF SensorAssumption
  <2>3. /\ handler \in [Threads -> HandlerPCs]
        /\ logLock \in Threads \cup {"none"}
    BY DEF HandlerPCs
  <2> QED  BY <2>1, <2>2, <2>3 DEF TypeOK
<1>2. LogInv /\ PidInv
  BY DEF LogInv, LogIsExclusive, Logging, MainLogging, PidInv
<1> QED  BY <1>1, <1>2 DEF RunInv

LEMMA NextTypeOK == RunInv /\ [Next]_vars => TypeOK'
<1> SUFFICES ASSUME RunInv, [Next]_vars PROVE TypeOK'
  OBVIOUS
<1>0. TypeOK /\ (mainPC = "configure" => flushed = 0)
  BY DEF RunInv, LogInv
<1> USE SensorAssumption
    DEF SensorAssumption, TypeOK, ParentPCs, MainPCs, FlushPCs, HandlerPCs,
        Threads, Runs, Proceed, Breaks, ReturnsOne, NotifyParent, MainLocksLog,
        MainUnlocksLog, flushVars, otherVars
<1>1. CASE StartFails \/ Sigsuspend \/ InitializeModules
  BY <1>0, <1>1 DEF StartFails, Sigsuspend, InitializeModules
<1>17. CASE StartAndFork
  <2>1. numModules' \in Nat /\ flushed' = 0
    BY <1>0, <1>17 DEF StartAndFork
  <2> QED  BY <1>0, <1>17, <2>1 DEF StartAndFork
<1>2. CASE StartFlushThread \/ FlushThreadFails \/ GetcwdFails
  BY <1>0, <1>2 DEF StartFlushThread, FlushThreadFails, GetcwdFails
<1>3. CASE WritePidFile \/ PidFileFails \/ Detach \/ DetachFails
  BY <1>0, <1>3 DEF WritePidFile, PidFileFails, Detach, DetachFails
<1>4. CASE Notify \/ NotifyFails \/ CloseStderr \/ CloseStderrFails
  BY <1>0, <1>4 DEF Notify, NotifyFails, CloseStderr, CloseStderrFails
<1>5. CASE LogStart \/ LogPacket \/ LogJoin
  BY <1>0, <1>5 DEF LogStart, LogPacket, LogJoin
<1>6. CASE LogStartEnd \/ LogPacketEnd \/ LogJoinEnd
  BY <1>0, <1>6 DEF LogStartEnd, LogPacketEnd, LogJoinEnd
<1>7. CASE LoopTest \/ PacketArrives \/ ProcessPacket
  BY <1>0, <1>7 DEF LoopTest, PacketArrives, ProcessPacket
<1>8. CASE FlushTest \/ SleepEnds \/ FlushModule \/ FlushRoundEnds
  BY <1>0, <1>8 DEF FlushTest, SleepEnds, FlushModule, FlushRoundEnds
<1>9. CASE FlushLocksLog \/ FlushUnlocksLog
  BY <1>0, <1>9 DEF FlushLocksLog, FlushUnlocksLog
<1>10. CASE JoinFlushThread \/ JoinFails \/ FinishModules
  BY <1>0, <1>10 DEF JoinFlushThread, JoinFails, FinishModules
<1>11. ASSUME NEW t \in Threads, Sigterm(t) PROVE TypeOK'
  BY <1>0, <1>11 DEF Sigterm
<1>12. ASSUME NEW t \in Threads, HandlerLocksLog(t) PROVE TypeOK'
  BY <1>0, <1>12 DEF HandlerLocksLog
<1>13. ASSUME NEW t \in Threads, HandlerUnlocksLog(t) PROVE TypeOK'
  BY <1>0, <1>13 DEF HandlerUnlocksLog
<1>14. ASSUME NEW t \in Threads, HandlerLowersCapture(t)
       PROVE  TypeOK'
  <2>1. handler' \in [Threads -> HandlerPCs]
    BY <1>0, <1>14 DEF HandlerLowersCapture
  <2>2. capture' \in BOOLEAN
    BY <1>0, <1>14, Zenon DEF HandlerLowersCapture
  <2> QED  BY <1>0, <1>14, <2>1, <2>2 DEF HandlerLowersCapture
<1>15. CASE Unlink \/ Return \/ OutsideEnds
  BY <1>0, <1>15 DEF Unlink, Return, OutsideEnds
<1>16. CASE UNCHANGED vars
  BY <1>0, <1>16 DEF vars
<1> QED
  BY <1>1, <1>2, <1>3, <1>4, <1>5, <1>6, <1>7, <1>8, <1>9, <1>10, <1>11,
     <1>12, <1>13, <1>14, <1>15, <1>16, <1>17
     DEF Next, Starting, Capturing, Flushing, Stopping, Handling

LEMMA NextLogAndPidInv == RunInv /\ [Next]_vars => LogInv' /\ PidInv'
<1> SUFFICES ASSUME RunInv, [Next]_vars PROVE LogInv' /\ PidInv'
  OBVIOUS
<1> USE DEF RunInv, LogInv, PidInv, MainLogging, TypeOK,
        LogIsExclusive, Logging, MainPCs, ParentPCs,
        Threads, Runs, Proceed, Breaks, ReturnsOne, NotifyParent,
        MainLocksLog, MainUnlocksLog, flushVars, otherVars
<1>1. CASE StartAndFork \/ StartFails \/ Sigsuspend \/ InitializeModules
  BY <1>1 DEF StartAndFork, StartFails, Sigsuspend, InitializeModules
<1>2. CASE StartFlushThread \/ FlushThreadFails \/ GetcwdFails
  BY <1>2 DEF StartFlushThread, FlushThreadFails, GetcwdFails
<1>3. CASE WritePidFile \/ PidFileFails \/ Detach \/ DetachFails
  BY <1>3 DEF WritePidFile, PidFileFails, Detach, DetachFails
<1>4. CASE Notify \/ NotifyFails \/ CloseStderr \/ CloseStderrFails
  BY <1>4 DEF Notify, NotifyFails, CloseStderr, CloseStderrFails
<1>5. CASE LogStart \/ LogPacket \/ LogJoin
  BY <1>5 DEF LogStart, LogPacket, LogJoin
<1>6. CASE LogStartEnd \/ LogPacketEnd \/ LogJoinEnd
  BY <1>6 DEF LogStartEnd, LogPacketEnd, LogJoinEnd
<1>7. CASE LoopTest \/ PacketArrives \/ ProcessPacket
  BY <1>7 DEF LoopTest, PacketArrives, ProcessPacket
<1>8. CASE FlushTest \/ SleepEnds \/ FlushModule \/ FlushRoundEnds
  BY <1>8 DEF FlushTest, SleepEnds, FlushModule, FlushRoundEnds
<1>9. CASE FlushLocksLog \/ FlushUnlocksLog
  BY <1>9 DEF FlushLocksLog, FlushUnlocksLog
<1>10. CASE JoinFlushThread \/ JoinFails \/ FinishModules
  BY <1>10 DEF JoinFlushThread, JoinFails, FinishModules
<1>11. ASSUME NEW t \in Threads, Sigterm(t) PROVE LogInv' /\ PidInv'
  BY <1>11 DEF Sigterm
<1>12. ASSUME NEW t \in Threads, HandlerLocksLog(t)
       PROVE  LogInv' /\ PidInv'
  BY <1>12 DEF HandlerLocksLog
<1>13. ASSUME NEW t \in Threads, HandlerUnlocksLog(t)
       PROVE  LogInv' /\ PidInv'
  BY <1>13 DEF HandlerUnlocksLog
<1>14. ASSUME NEW t \in Threads, HandlerLowersCapture(t)
       PROVE  LogInv' /\ PidInv'
  BY <1>14 DEF HandlerLowersCapture
<1>15. CASE Unlink \/ Return \/ OutsideEnds
  BY <1>15 DEF Unlink, Return, OutsideEnds
<1>16. CASE UNCHANGED vars
  BY <1>16 DEF vars
<1> QED
  BY <1>1, <1>2, <1>3, <1>4, <1>5, <1>6, <1>7, <1>8, <1>9, <1>10, <1>11,
     <1>12, <1>13, <1>14, <1>15, <1>16
     DEF Next, Starting, Capturing, Flushing, Stopping, Handling

LEMMA InvariantRunInv == Spec => []RunInv
BY InitRunInv, NextTypeOK, NextLogAndPidInv, PTL DEF Spec, RunInv

(* TypeOK of Sensor.tla is invariant.                                      *)
THEOREM SensorTypeOK == Spec => []TypeOK
BY InvariantRunInv, PTL DEF RunInv

(* LogIsExclusive of Sensor.tla: one writer to the log, whatever handlers  *)
(* run where.                                                              *)
THEOREM OneLogWriter == Spec => []LogIsExclusive
BY InvariantRunInv, PTL DEF RunInv, LogInv

(* PidFileRemoved of Sensor.tla: every return of main() removes the file.  *)
THEOREM NoPidFileLeftBehind == Spec => []PidFileRemoved
<1>1. RunInv => PidFileRemoved
  BY DEF RunInv, PidInv, PidFileRemoved
<1> QED  BY InvariantRunInv, <1>1, PTL

(* PidFileBeforeParentReturns of Sensor.tla.                               *)
THEOREM ParentLeavesPidFile == Spec => []PidFileBeforeParentReturns
<1>1. RunInv => PidFileBeforeParentReturns
  BY DEF RunInv, PidInv, PidFileBeforeParentReturns, TypeOK, MainPCs
<1> QED  BY InvariantRunInv, <1>1, PTL

(* FinishRunsAlone of Sensor.tla: the flush thread has ended, and holds    *)
(* nothing, when the modules' finish() functions run.                      *)
THEOREM FinishAfterFlushThread == Spec => []FinishRunsAlone
<1>1. RunInv => FinishRunsAlone
  BY DEF RunInv, LogInv, PidInv, FinishRunsAlone, LogIsExclusive,
     Logging, Threads
<1> QED  BY InvariantRunInv, <1>1, PTL

-----------------------------------------------------------------------------
(* The whole.                                                              *)

(* Process.tla takes the steps of Startup.tla ...                          *)
THEOREM ProcessStarts == ProcessSpec => StartupSpec
<1>1. ProcessInit => StartupInit
  BY DEF ProcessInit
<1>2. [ProcessNext]_processVars => [StartupNext]_startupVars
  BY DEF ProcessNext, processVars, LoadStep, Handle, PassBy, Beside,
         StartupNext
<1> QED  BY <1>1, <1>2, PTL DEF ProcessSpec, StartupSpec

(* ... and main() is where both of them have it.                           *)
FollowInv ==
    /\ pc \in {"configure", "check", "load", "depend", "pcap", "fork",
              "initialize", "capture", "exited", "child exited", "undefined"}
    /\ pc # "capture" => mainPC = Place(pc)
    /\ pc = "capture" => mainPC \notin {"configure", "modules"}

LEMMA MainStepIsLater ==
    ASSUME MainStep
    PROVE  /\ mainPC \notin {"configure", "modules", "exited"}
           /\ mainPC' \notin {"configure", "modules"}
<1> USE DEF Runs, Proceed, Breaks, ReturnsOne, MainLocksLog, MainUnlocksLog
<1>1. CASE StartFlushThread \/ FlushThreadFails \/ GetcwdFails
           \/ WritePidFile \/ PidFileFails \/ Detach \/ DetachFails
  BY <1>1 DEF StartFlushThread, FlushThreadFails, GetcwdFails, WritePidFile,
     PidFileFails, Detach, DetachFails
<1>2. CASE Notify \/ NotifyFails \/ CloseStderr \/ CloseStderrFails
           \/ Unlink \/ Return
  BY <1>2 DEF Notify, NotifyFails, CloseStderr, CloseStderrFails, Unlink,
     Return
<1>3. CASE LogStart \/ LogStartEnd \/ LoopTest \/ LogPacket \/ LogPacketEnd
  BY <1>3 DEF LogStart, LogStartEnd, LoopTest, LogPacket, LogPacketEnd
<1>4. CASE Stopping
  BY <1>4 DEF Stopping, JoinFlushThread, JoinFails, LogJoin, LogJoinEnd,
     FinishModules
<1> QED  BY <1>1, <1>2, <1>3, <1>4 DEF MainStep

LEMMA InvariantFollowInv == ProcessSpec => []FollowInv
<1>1. ProcessInit => FollowInv
  BY DEF ProcessInit, Init, StartupInit, FollowInv, Place
<1>2. FollowInv /\ [ProcessNext]_processVars => FollowInv'
  <2> SUFFICES ASSUME FollowInv, [ProcessNext]_processVars PROVE FollowInv'
    OBVIOUS
  <2> USE DEF FollowInv, Place
  <2>1. CASE LoadStep
    <3>2. mainPC' = Place(pc')
      BY <2>1 DEF LoadStep
    <3>3. Onward \/ Out \/ pc' = pc
      BY <2>1, StepIsOnwardOrOut DEF LoadStep, StartupNext
    <3> QED  BY <3>2, <3>3 DEF Onward, Out
  <2>2. CASE Handle
    BY <2>2 DEF Handle, ProcessPacket, Proceed, Frame
  <2>3. CASE PassBy
    BY <2>3 DEF PassBy, Frame, vars
  <2>4. CASE Beside(MainStep)
    BY <2>4, MainStepIsLater DEF Beside, startupVars
  <2>5. CASE Beside(Sigsuspend) \/ Beside(PacketArrives)
    BY <2>5 DEF Beside, Sigsuspend, PacketArrives, Proceed, Breaks,
       startupVars
  <2>6. CASE Beside(FlushStep) \/ Beside(OutsideEnds)
    BY <2>6 DEF Beside, FlushStep, Flushing, FlushTest, SleepEnds,
       FlushModule, FlushLocksLog, FlushUnlocksLog, FlushRoundEnds,
       OutsideEnds, startupVars
  <2>7. ASSUME NEW t \in Threads, Beside(Sigterm(t)) \/ Beside(Handling(t))
        PROVE  FollowInv'
    BY <2>7 DEF Beside, Sigterm, Handling, HandlerLocksLog,
       HandlerUnlocksLog, HandlerLowersCapture, startupVars
  <2>8. CASE UNCHANGED processVars
    BY <2>8 DEF processVars, vars, startupVars
  <2> QED
    BY <2>1, <2>2, <2>3, <2>4, <2>5, <2>6, <2>7, <2>8 DEF ProcessNext
<1> QED  BY <1>1, <1>2, PTL DEF ProcessSpec

(* sensor.cpp:89-385: loading the modules, whatever fails, is what         *)
(* Sensor.tla has for it, with the parent, the handlers and the flush      *)
(* thread beside it, and the flush thread flushes as many modules as were  *)
(* loaded: the whole implements Sensor.tla with any number of modules and  *)
(* with failing calls, so that the theorems about Sensor.tla hold of it.   *)
THEOREM ProcessRuns ==
    ASSUME ModuleCounts = Nat, Faults
    PROVE  ProcessSpec => Spec
<1>1. ProcessInit => Init
  BY DEF ProcessInit
<1>2. FollowInv /\ LoadInv /\ [ProcessNext]_processVars => [Next]_vars
  <2> SUFFICES ASSUME FollowInv, LoadInv, [ProcessNext]_processVars
               PROVE  [Next]_vars
    OBVIOUS
  <2>1. CASE LoadStep
    <3>1. Onward \/ Out \/ pc' = pc
      BY <2>1, StepIsOnwardOrOut DEF LoadStep, StartupNext
    <3>2. Runs("main") /\ mainPC' = Place(pc')
      BY <2>1 DEF LoadStep
    <3>3. pc \notin {"capture", "exited", "child exited", "undefined"}
      BY <2>1 DEF LoadStep, LoadAndStart, Configure, ConfigureFails, Check,
         CheckFails, Load, LoadFails, Loaded, Depend, Pending, DependFails,
         NextModule, Pcap, PcapFails, Fork, ForkFails, Initialize,
         InitializeUndefined, InitializeFails, Initialized, Exit, Fails
    <3>4. CASE pc' = "initialize" /\ pc # "initialize"
      <4>1. pc = "fork" /\ mainPC = "configure" /\ mainPC' = "modules"
        BY <3>1, <3>2, <3>4 DEF Onward, Out, FollowInv, Place
      <4>2. parentPC' = "forked" /\ numModules' \in ModuleCounts
        BY <2>1, <3>4 DEF LoadStep, LoadInv, LoadTypes
      <4> QED
        BY <2>1, <4>1, <4>2 DEF LoadStep, StartAndFork, Next, Starting
    <3>5. CASE ~ (pc' = "initialize" /\ pc # "initialize")
      <4>1. UNCHANGED <<parentPC, numModules, flushPC, flushed, capture,
                        pidFile, logLock, otherVars>>
        BY <2>1, <3>5 DEF LoadStep
      <4>2. CASE pc = "initialize"
        <5>1. mainPC = "modules" /\ mainPC' \in {"modules", "thread", "exited"}
          BY <3>1, <3>2, <4>2 DEF Onward, Out, FollowInv, Place
        <5> QED
          BY <3>2, <4>1, <5>1
          DEF Next, Starting, InitializeModules, ReturnsOne, Breaks, Proceed,
              vars, flushVars, otherVars
      <4>3. CASE pc # "initialize"
        <5>1. mainPC = "configure" /\ mainPC' \in {"configure", "exited"}
          BY <3>1, <3>2, <3>3, <3>5, <4>3 DEF Onward, Out, FollowInv, Place
        <5> QED
          BY <4>1, <5>1
          DEF Next, Starting, StartFails, vars, flushVars, otherVars
      <4> QED  BY <4>2, <4>3
    <3> QED  BY <3>4, <3>5
  <2>2. CASE Handle \/ PassBy
    BY <2>2 DEF Handle, PassBy, Next, Capturing
  <2>3. CASE Beside(MainStep)
    BY <2>3 DEF Beside, MainStep, Next, Starting, Capturing
  <2>4. CASE \/ Beside(Sigsuspend) \/ Beside(PacketArrives)
             \/ Beside(FlushStep) \/ Beside(OutsideEnds)
    BY <2>4 DEF Beside, FlushStep, Next, Starting
  <2>5. ASSUME NEW t \in Threads, Beside(Sigterm(t)) \/ Beside(Handling(t))
        PROVE  Next
    BY <2>5 DEF Beside, Next
  <2>6. CASE UNCHANGED processVars
    BY <2>6 DEF processVars
  <2> QED  BY <2>1, <2>2, <2>3, <2>4, <2>5, <2>6 DEF ProcessNext
<1> QED
  BY <1>1, <1>2, InvariantFollowInv, ProcessStarts, InvariantLoadInv, PTL
  DEF ProcessSpec, Spec

===============================================================================
