------------------------------ MODULE Archive -------------------------------
(***************************************************************************)
(* The databases a sensor leaves behind (BerkeleyDB.tla), the tool that    *)
(* deletes records from them (tools/deleteRecords/deleteRecords.cpp), and  *)
(* the tools that print them (Reader.tla).                                 *)
(*                                                                         *)
(* The sensor stops for good before a tool is run.  A record is the number *)
(* of the write() that stored it: what is in it nobody looks at before a   *)
(* tool does.  It is a session of the HTTP module or of the PJL module, in *)
(* the format of that module, according to the tool; how a print job was   *)
(* cut into packets does not matter to anyone, so that every way to do it  *)
(* is tried.                                                               *)
(***************************************************************************)
EXTENDS BerkeleyDB, PJLJob, Records

CONSTANTS
    HTTPSessions,   \* of each record: a session of the HTTP module
    Jobs,           \* of each record: a print job, and where it came from
    Commands,       \* <<program, its words>>
    Meaning,        \* of each command of dumpHTTP: the messages asked for,
                    \* as <<session, message>>
    Deletions,      \* <<file, numbers>> deleteRecords is called with
    ReaderFaults    \* the calls of the tools that may fail

VARIABLES
    program, argv, state, index, filter, files, file, cursor, newDatabase,
    finished, record, output, computers, accepted, returned, faults,
    stage           \* the sensor runs, tools may, or deleteRecords was run

(* The session a print job becomes.                                        *)
PJLSession(job, assembled) ==
    [clientMAC |-> job.clientMAC, serverMAC |-> job.serverMAC,
     clientIP |-> job.clientIP, serverIP |-> job.serverIP,
     clientPort |-> job.clientPort, serverPort |-> job.serverPort,
     time |-> job.time, computer |-> assembled.computer,
     user |-> assembled.user, title |-> assembled.title,
     pages |-> assembled.pages, size |-> assembled.size]

(* The bytes a record may have.                                            *)
Contents(prog, r) ==
    IF prog = "dumpHTTP" THEN {HTTPRecord(HTTPSessions[r])}
    ELSE {PJLRecord(PJLSession(Jobs[r], Assembled(packets))) :
             packets \in Packets(Jobs[r].text)}

Tool == INSTANCE Reader

ASSUME ArchiveAssumption ==
    /\ Commands \subseteq Tool!Programs \X {c[2] : c \in Commands}
    /\ \A c \in Commands : c[2] \in Seq(ToSet(c[2]))
    /\ \A d \in Deletions :
          d[1] \in Files /\ \A i \in DOMAIN d[2] : d[2][i] \in Numbers
    /\ ReaderFaults \subseteq Tool!FallibleCalls

(* What is captured: sessions, and jobs with no line that parse() does not *)
(* survive and no name too long for the two bytes of its length.           *)
ASSUME CaptureAssumption ==
    /\ HTTPSessions \in [Records -> HTTPSession]
    /\ Jobs \in [Records -> [clientMAC : MACs, serverMAC : MACs,
                             clientIP : Nat, serverIP : Nat,
                             clientPort : Nat, serverPort : Nat,
                             time : Nat \X Nat, text : Words]]
    /\ \A r \in Records :
          LET text == Jobs[r].text
          IN  /\ \A e \in LineEnd(text) : Line(text, e) # <<"%%Title:">>
              /\ \A name \in {"computer", "user", "title"} :
                    Len(Said(text)[name]) < 65536

(* The options among the words of a command: the places that the first word*)
(* is one of, and with each option the one after it and its argument.      *)
IsOption(words, i) == i \in DOMAIN words /\ "option" \in DOMAIN words[i]

OptionPlaces(words) ==
    LET Closed(S) ==
            /\ 1 \in S
            /\ \A i \in S : IsOption(words, i) =>
                  i + (IF words[i].option \in Tool!WithArgument THEN 2 ELSE 1)
                      \in S
    IN  {i \in DOMAIN words :
            /\ IsOption(words, i)
            /\ \A S \in SUBSET (1..(Len(words) + 2)) : Closed(S) => i \in S}

Given(words, name) == {i \in OptionPlaces(words) : words[i].option = name}

Values(words, name) ==
    {Tool!Argument(words[i + 1]) : i \in Given(words, name)}

(* Every word that is an option is one of dumpHTTP's, and has its argument.*)
Complete(words) ==
    \A i \in OptionPlaces(words) :
        /\ words[i].option \in Tool!Flags \cup Tool!WithArgument
        /\ words[i].option \in Tool!WithArgument => i < Len(words)

(* A value is among those given for an option, or none is.                 *)
Allows(words, name, value) ==
    Given(words, name) = {} \/ value \in Values(words, name)

(* The address is in a network that was given: their first bits agree.     *)
AllowsIP(words, name, ip) ==
    \/ Given(words, name) = {}
    \/ \E v \in Values(words, name) :
          ip \div 2^(32 - v[2]) = v[1] \div 2^(32 - v[2])

(* A network in CIDR notation as it is usually written, with no bit set    *)
(* behind the prefix.  Of any other, cidrToIPs() makes the range that      *)
(* begins at the address as written (address.cpp:79-92).                   *)
Network(v) ==
    LET size == 2^(32 - v[2])
    IN  size \in Nat \ {0} /\ v[1] \in Nat /\ \E q \in 0..v[1] : v[1] = q * size

ASSUME NetworkAssumption ==
    \A c \in Commands : c[1] = "dumpHTTP" /\ Complete(c[2]) =>
        \A v \in Values(c[2], "cI") \cup Values(c[2], "sI") : Network(v)

(* What a command of dumpHTTP asks for, by dumpHTTP.cpp's usage().  Of two *)
(* regular expressions for one part it is the second.                      *)
Asks(words, s, m) ==
    /\ m.type = REQUEST => Given(words, "res") = {}
    /\ m.type = RESPONSE => Given(words, "req") = {}
    /\ Allows(words, "cE", s.clientMAC) /\ Allows(words, "sE", s.serverMAC)
    /\ AllowsIP(words, "cI", s.clientIP) /\ AllowsIP(words, "sI", s.serverIP)
    /\ Allows(words, "cP", s.clientPort) /\ Allows(words, "sP", s.serverPort)
    /\ m.type = REQUEST =>
          \A name \in DOMAIN Tool!Regexes :
              Given(words, name) # {} =>
                  m.message[Tool!Regexes[name]] \in
                      Tool!Argument(words[Max(Given(words, name)) + 1])

ASSUME MeaningAssumption ==
    \A c \in Commands : c[1] = "dumpHTTP" /\ Complete(c[2]) =>
        \A r \in Records :
            LET s == HTTPSessions[r]
            IN  \A m \in ToSet(s.requests \o s.responses) :
                    <<s, m>> \in Meaning[c[2]] <=> Asks(c[2], s, m)

readerVars == <<program, argv, state, index, filter, files, file, cursor,
                newDatabase, finished, record, output, computers, accepted,
                returned, faults>>

ArchiveInit == Init /\ Tool!Init /\ stage = "sensor"

sensorVars == <<handle, recordNumber, view, now, pc, writeVars, flushVars,
                crashes, history>>

(* The sensor has stopped for good.  Of it only the disk remains: its other*)
(* variables and the histories go back to where they began.                *)
SensorEnds ==
    /\ stage = "sensor"
    /\ pc = "idle"
    /\ crashes = MaxCrashes
    /\ \A h \in Hours : handle[h] = "absent"
    /\ stage' = "tools"
    /\ now' = MaxTime
    /\ hour' = 0 /\ writes' = 0 /\ flTime' = 0
    /\ pending' = {} /\ flushed' = {} /\ failed' = FALSE /\ misnumbered' = {}
    /\ UNCHANGED <<handle, recordNumber, view, disk, pc, toSync, erase,
                   crashes, readerVars>>

-----------------------------------------------------------------------------
(* deleteRecords: del() for each number in turn.  The numbers of the other *)
(* records stay as they are.                                               *)

(* The file without its first k numbers.                                   *)
Without(f, numbers, k) ==
    [n \in Numbers |->
        IF \E i \in 1..k : numbers[i] = n THEN NoRecord ELSE disk[f][n]]

(* How many del() calls work: one fails if there is no such record.        *)
Deletable(f, numbers) ==
    Max({k \in 0..Len(numbers) :
            \A i \in 1..k : Without(f, numbers, i - 1)[numbers[i]] # NoRecord})

(* If all of them do, the database is closed, and that may fail.  If not,  *)
(* the tool returns without closing it: what it has deleted is undone,     *)
(* unless the cache was written out in between.                            *)
Delete(f, numbers) ==
    /\ stage = "tools"
    /\ state = "idle"
    /\ stage' = "deleted"
    /\ LET done == Deletable(f, numbers)
       IN  \E k \in 0..done :
              /\ k # done => done < Len(numbers) \/ "close" \in ReaderFaults
              /\ disk' = [disk EXCEPT ![f] = Without(f, numbers, k)]
    /\ UNCHANGED <<sensorVars, readerVars>>

ArchiveNext ==
    \/ stage = "sensor" /\ Next /\ UNCHANGED <<readerVars, stage>>
    \/ SensorEnds
    \/ \E d \in Deletions : Delete(d[1], d[2])
    \/ stage # "sensor" /\ Tool!Next /\ UNCHANGED <<sensorVars, stage>>

ArchiveSpec == ArchiveInit /\ [][ArchiveNext]_<<vars, readerVars, stage>>

-----------------------------------------------------------------------------
(* What there is to read: <<k, n>> is record n of the k-th file, and they   *)
(* are read file by file, in the order of their numbers.                   *)
Readable ==
    {p \in (DOMAIN accepted) \X Numbers :
        disk[accepted[p[1]]][p[2]] # NoRecord}

Before(p, q) == p[1] < q[1] \/ (p[1] = q[1] /\ p[2] < q[2])
Rank(p) == 1 + Cardinality({q \in Readable : Before(q, p)})

(* What read() should return for it: the record with the name of its file, *)
(* marked if it is the first of a file, unless that is the first file.     *)
Answer(p) ==
    <<accepted[p[1]], disk[accepted[p[1]]][p[2]],
      p[1] > 1 /\ ~\E q \in Readable : q[1] = p[1] /\ Before(q, p)>>

(* The records that were read are the first ones, in order and once each.  *)
ReadInOrder ==
    /\ Len(returned) <= Cardinality(Readable)
    /\ \A p \in Readable : Rank(p) <= Len(returned) =>
                         returned[Rank(p)] = Answer(p)

ReadAll == Len(returned) = Cardinality(Readable)

(* berkeleyDB.cpp:82-86: the records come out in order and once each,      *)
(* whatever opens or closes fail, and if nothing fails a tool does not end *)
(* before it has seen them all.  An indeterminate cursor is read from only *)
(* after a failure.  Only countPJL goes wrong without one, where it has no *)
(* page to print of any computer: it takes the logarithm of 0 for a width, *)
(* or of a number that is not there (countPJL.cpp:118).  No page may also  *)
(* be a multiple of 2^16 pages.                                            *)
ReadsEveryRecord ==
    /\ "c_get" \notin faults => ReadInOrder
    /\ state = "exit 0" /\ faults \subseteq {"access"} => ReadAll
    /\ state = "undefined" =>
           \/ faults # {}
           \/ /\ program = "countPJL"
              /\ \A c \in DOMAIN computers : computers[c] = 0

(* The client and the server of a session.                                 *)
EndpointsOf(s) ==
    [clientMAC |-> s.clientMAC, serverMAC |-> s.serverMAC,
     clientIP |-> s.clientIP, serverIP |-> s.serverIP,
     clientPort |-> s.clientPort, serverPort |-> s.serverPort]

(* What dumpHTTP prints of a session: the messages that were asked for, in *)
(* the order of the session.                                               *)
MessagesOf(s, wanted) ==
    LET all == s.requests \o s.responses
    IN  FlattenSeq([i \in DOMAIN all |->
                       IF <<s, all[i]>> \in wanted
                       THEN <<<<EndpointsOf(s), all[i]>>>> ELSE <<>>])

(* What dumpPJL prints of a job: what it says of itself, in 16 bits the    *)
(* number of its pages.                                                    *)
JobOf(job) ==
    LET said == Said(job.text)
    IN  [time |-> job.time,
         endpoints |-> EndpointsOf(job),
         computer |-> said.computer, user |-> said.user,
         title |-> said.title, size |-> said.size,
         pages |-> said.pages % 65536]

(* The records that were read and whose printing is over.                  *)
Printed ==
    LET n == IF state = "print" THEN Len(returned) - 1 ELSE Len(returned)
    IN  [i \in 1..n |-> returned[i][2]]

(* What countPJL should say of a computer.                                 *)
PagesOf(computer) ==
    SumFunctionOnSet([i \in DOMAIN Printed |->
                         Said(Jobs[Printed[i]].text).pages],
                     {i \in DOMAIN Printed :
                         Said(Jobs[Printed[i]].text).computer = computer})

(* From the captured bytes to the screen: what a tool has printed is what  *)
(* the sessions and the jobs of the records it read are about, through the *)
(* formats of httpLog.cpp:42-120 and pjl.cpp:66-108 and the offsets of the *)
(* tools, whatever packets a job came in (pjl.cpp:238-262), and of the     *)
(* HTTP messages those that the options ask for.  Sums of pages are right  *)
(* below 2^16.                                                             *)
OutputIsWhatWasCaptured ==
    /\ program = "dumpHTTP" =>
           output = FlattenSeq([i \in DOMAIN Printed |->
                        MessagesOf(HTTPSessions[Printed[i]], Meaning[argv])])
    /\ program = "dumpPJL" =>
           output = [i \in DOMAIN Printed |-> JobOf(Jobs[Printed[i]])]
    /\ program = "countPJL" =>
           \A c \in DOMAIN computers :
               PagesOf(c) < 65536 => computers[c] = PagesOf(c)

=============================================================================
