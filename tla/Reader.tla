------------------------------- MODULE Reader -------------------------------
(***************************************************************************)
(* The tools that print what the sensor has stored: the mains of           *)
(* tools/dumpHTTP, tools/dumpPJL and tools/countPJL, the Options of        *)
(* tools/include/options.cpp, and the class of                             *)
(* tools/include/berkeleyDB.cpp that reads a list of databases as one      *)
(* sequence of records.                                                    *)
(*                                                                         *)
(* A tool is one thread, and the databases do not change while it runs.    *)
(* One action is one option, one file, or one record: the calls of a step  *)
(* that fails are told apart only where the code goes on.                  *)
(***************************************************************************)
EXTENDS Records

CONSTANTS
    Files,          \* names of database files
    Numbers,        \* record numbers
    NoRecord,       \* nothing under a number
    Commands,       \* <<program, its words>>
    Contents(_, _), \* the bytes a record may have, for a program that reads it
    ReaderFaults    \* the system and library calls that may fail

Programs == {"dumpHTTP", "dumpPJL", "countPJL"}
CloseCalls == {"c_close", "close"}
OpenCalls == {"db_create", "open", "cursor"}

FallibleCalls ==
    CloseCalls \cup OpenCalls \cup {"regcomp", "access", "c_get"}

VARIABLES
    disk,           \* of each file: the record on disk under each number
    program, argv,  \* the command
    state,          \* where its main() is
    index,          \* __argc, the next word
    filter,         \* dumpHTTP: what it was asked for
    files,          \* the databases still to be read
    file,           \* _file, the name of the one that is open
    cursor,         \* <<file, number>>, or <<>> while it is indeterminate
    newDatabase, finished,
    record,         \* the record that was read
    output,         \* what was printed
    computers,      \* countPJL: the pages of each computer
    accepted,       \* history: the files that could be accessed
    returned,       \* history: what read() has returned
    faults          \* history: the calls that have failed

readerVars == <<program, argv, state, index, filter, files, file, cursor,
                newDatabase, finished, record, output, computers, accepted,
                returned, faults>>

NoFilter ==
    [printRequests |-> TRUE, printResponses |-> TRUE,
     clientMACs |-> {}, serverMACs |-> {}, clientIPs |-> {}, serverIPs |-> {},
     clientPorts |-> {}, serverPorts |-> {}, patterns |-> <<>>]

Init ==
    /\ program = "" /\ argv = <<>> /\ state = "idle" /\ index = 1
    /\ filter = NoFilter
    /\ files = <<>> /\ file = "" /\ cursor = <<>>
    /\ newDatabase = FALSE /\ finished = TRUE
    /\ record = NoRecord /\ output = <<>> /\ computers = <<>>
    /\ accepted = <<>> /\ returned = <<>> /\ faults = {}

Fails(call) ==
    /\ call \in ReaderFaults
    /\ faults' = faults \cup {call}

Run(command) ==
    /\ state = "idle"
    /\ program' = command[1] /\ argv' = command[2]
    /\ state' = IF command[1] = "dumpHTTP" THEN "options" ELSE "files"
    /\ UNCHANGED <<disk, index, filter, files, file, cursor, newDatabase,
                   finished, record, output, computers, accepted, returned,
                   faults>>

-----------------------------------------------------------------------------
(* Options::option(), and dumpHTTP's use of it.                            *)

Flags == {"req", "res"}
Regexes == [rM |-> 1, p |-> 2, q |-> 3, f |-> 4]
Lists == [cE |-> "clientMACs", sE |-> "serverMACs",
          cI |-> "clientIPs", sI |-> "serverIPs",
          cP |-> "clientPorts", sP |-> "serverPorts"]
WithArgument == DOMAIN Regexes \cup DOMAIN Lists

(* A word is an option, or a value of some kind: a port, a file, ...        *)
Argument(word) == word[CHOOSE kind \in DOMAIN word : TRUE]
IsOption(i) == i <= Len(argv) /\ "option" \in DOMAIN argv[i]

Illegal(i) ==
    \/ argv[i].option \notin Flags \cup WithArgument
    \/ argv[i].option \in WithArgument /\ i = Len(argv)

(* -req after -res, or the other way round.                                *)
Excluded(name) ==
    \/ name = "req" /\ ~filter.printRequests
    \/ name = "res" /\ ~filter.printResponses

(* A part of a request has the regular expression that was given last.     *)
With(patterns, part, argument) ==
    [p \in DOMAIN patterns \cup {part} |->
        IF p = part THEN argument ELSE patterns[p]]

(* What an option and its argument make of the filter.                     *)
Narrowed(name, argument) ==
    IF name = "req" THEN [filter EXCEPT !.printResponses = FALSE]
    ELSE IF name = "res" THEN [filter EXCEPT !.printRequests = FALSE]
    ELSE IF name \in DOMAIN Regexes
         THEN [filter EXCEPT !.patterns = With(@, Regexes[name], argument)]
    ELSE [filter EXCEPT ![Lists[name]] =
             @ \cup {IF name \in {"cI", "sI"}
                     THEN cidrToIPs(argument[1], argument[2]) ELSE argument}]

OptionRefused ==
    /\ state = "options"
    /\ IsOption(index)
    /\ \/ (Illegal(index) \/ Excluded(argv[index].option)) /\ UNCHANGED faults
       \/ /\ ~Illegal(index)
          /\ argv[index].option \in DOMAIN Regexes
          /\ Fails("regcomp")
    /\ state' = "exit 1"
    /\ UNCHANGED <<disk, program, argv, index, filter, files, file, cursor,
                   newDatabase, finished, record, output, computers,
                   accepted, returned>>

Option ==
    /\ state = "options"
    /\ IsOption(index)
    /\ ~Illegal(index)
    /\ LET name == argv[index].option
           argument == IF name \in WithArgument THEN Argument(argv[index + 1])
                                                ELSE ""
       IN  /\ ~Excluded(name)
           /\ filter' = Narrowed(name, argument)
           /\ index' = index + (IF name \in WithArgument THEN 2 ELSE 1)
    /\ UNCHANGED <<disk, program, argv, state, files, file, cursor,
                   newDatabase, finished, record, output, computers,
                   accepted, returned, faults>>

OptionsEnd ==
    /\ state = "options"
    /\ ~IsOption(index)
    /\ state' = "files"
    /\ UNCHANGED <<disk, program, argv, index, filter, files, file, cursor,
                   newDatabase, finished, record, output, computers,
                   accepted, returned, faults>>

(* access(): a file that is not there or cannot be read is reported and    *)
(* left out.                                                               *)
Access ==
    /\ state = "files"
    /\ index <= Len(argv)
    /\ LET name == Argument(argv[index])
       IN  \/ /\ name \in Files
              /\ accepted' = Append(accepted, name)
              /\ UNCHANGED faults
           \/ name \notin Files /\ UNCHANGED <<accepted, faults>>
           \/ Fails("access") /\ UNCHANGED accepted
    /\ index' = index + 1
    /\ UNCHANGED <<disk, program, argv, state, filter, files, file, cursor,
                   newDatabase, finished, record, output, computers,
                   returned>>

-----------------------------------------------------------------------------
(* The class BerkeleyDB.                                                   *)

(* openNextDatabase() succeeds.                                            *)
Opened(list) ==
    /\ list # <<>>
    /\ cursor' = <<Head(list), 0>>
    /\ file' = Head(list)
    /\ files' = Tail(list)

(* add(): the first database is opened, and whether that worked is not     *)
(* looked at.                                                              *)
Add ==
    /\ state = "files"
    /\ index > Len(argv)
    /\ accepted # <<>>
    /\ \/ Opened(accepted) /\ UNCHANGED faults
       \/ \E call \in OpenCalls :
             Fails(call) /\ files' = accepted /\ UNCHANGED <<cursor, file>>
    /\ finished' = FALSE
    /\ state' = "read"
    /\ UNCHANGED <<disk, program, argv, index, filter, newDatabase, record,
                   output, computers, accepted, returned>>

NoFiles ==
    /\ state = "files"
    /\ index > Len(argv)
    /\ accepted = <<>>
    /\ state' = "exit 1"
    /\ UNCHANGED <<disk, program, argv, index, filter, files, file, cursor,
                   newDatabase, finished, record, output, computers,
                   accepted, returned, faults>>

(* The numbers after the cursor that hold a record.                        *)
Following == {n \in Numbers : n > cursor[2] /\ disk[cursor[1]][n] # NoRecord}

(* read() returns BDB_OK, or BDB_NEW_DB if a database was opened since.    *)
Get ==
    /\ state = "read"
    /\ cursor # <<>>
    /\ \E n \in Following :
          /\ \A m \in Following : n <= m
          /\ cursor' = <<cursor[1], n>>
          /\ record' = disk[cursor[1]][n]
    /\ returned' = Append(returned, <<file, record', newDatabase>>)
    /\ newDatabase' = FALSE
    /\ state' = "print"
    /\ UNCHANGED <<disk, program, argv, index, filter, files, file, finished,
                   output, computers, accepted, faults>>

(* c_get() finds nothing more, or fails: it is the end of the database.    *)
DatabaseEnds ==
    /\ state = "read"
    /\ cursor # <<>>
    /\ \/ Following = {} /\ UNCHANGED faults
       \/ Fails("c_get")
    /\ state' = "open"
    /\ UNCHANGED <<disk, program, argv, index, filter, files, file, cursor,
                   newDatabase, finished, record, output, computers,
                   accepted, returned>>

NextDatabase ==
    /\ state = "open"
    /\ Opened(files)
    /\ newDatabase' = TRUE
    /\ state' = "read"
    /\ UNCHANGED <<disk, program, argv, index, filter, finished, record,
                   output, computers, accepted, returned, faults>>

(* A bug for the mutation run: the last database is not read.              *)
ReadDoneEarly ==
    /\ state = "open"
    /\ \/ Len(files) <= 1 /\ UNCHANGED <<cursor, file, faults>>
       \/ /\ files # <<>>
          /\ \/ \E call \in CloseCalls : Fails(call) /\ UNCHANGED file
             \/ \E call \in OpenCalls : Fails(call) /\ file' = ""
          /\ cursor' = <<>>
    /\ finished' = TRUE
    /\ state' = IF program = "countPJL" THEN "sort" ELSE "exit 0"
    /\ UNCHANGED <<disk, program, argv, index, filter, files, newDatabase,
                   record, output, computers, accepted, returned>>

(* openNextDatabase() fails, because it was the last one or because a call *)
(* fails: read() returns BDB_DONE.                                         *)
ReadDone ==
    /\ state = "open"
    /\ \/ files = <<>> /\ UNCHANGED <<cursor, file, faults>>
       \/ /\ files # <<>>
          /\ \/ \E call \in CloseCalls : Fails(call) /\ UNCHANGED file
             \/ \E call \in OpenCalls : Fails(call) /\ file' = ""
          /\ cursor' = <<>>
    /\ finished' = TRUE
    /\ state' = IF program = "countPJL" THEN "sort" ELSE "exit 0"
    /\ UNCHANGED <<disk, program, argv, index, filter, files, newDatabase,
                   record, output, computers, accepted, returned>>

(* A cursor that was never opened is read from.                            *)
ReadUndefined ==
    /\ state = "read"
    /\ cursor = <<>>
    /\ state' = "undefined"
    /\ UNCHANGED <<disk, program, argv, index, filter, files, file, cursor,
                   newDatabase, finished, record, output, computers,
                   accepted, returned, faults>>

-----------------------------------------------------------------------------
(* What is done with a record.                                             *)

PrintRecord ==
    /\ state = "print"
    /\ \E data \in Contents(program, record) :
          /\ output' = IF program = "dumpHTTP"
                       THEN output \o printHTTP(data, filter)
                       ELSE IF program = "dumpPJL"
                       THEN Append(output, printPJL(data))
                       ELSE output
          /\ computers' = IF program = "countPJL" THEN count(computers, data)
                                                  ELSE computers
    /\ state' = "read"
    /\ UNCHANGED <<disk, program, argv, index, filter, files, file, cursor,
                   newDatabase, finished, record, accepted, returned, faults>>

(* countPJL: the computers with the most pages first; those with as many   *)
(* in an order that is not known.  The numbers are as wide as the first    *)
(* one, by its logarithm: there is none without a computer, and that of 0  *)
(* is no integer.                                                          *)
Sort ==
    /\ state = "sort"
    /\ IF \A c \in DOMAIN computers : computers[c] = 0
       THEN state' = "undefined" /\ UNCHANGED output
       ELSE /\ state' = "exit 0"
            /\ output' \in {s \in SetToSeqs({<<c, computers[c]>> :
                                                c \in DOMAIN computers}) :
                               \A i \in 1..(Len(s) - 1) :
                                   s[i][2] >= s[i + 1][2]}
    /\ UNCHANGED <<disk, program, argv, index, filter, files, file, cursor,
                   newDatabase, finished, record, computers, accepted,
                   returned, faults>>

Next ==
    \/ \E command \in Commands : Run(command)
    \/ OptionRefused \/ Option \/ OptionsEnd \/ Access \/ NoFiles
    \/ Add \/ Get \/ DatabaseEnds \/ NextDatabase \/ ReadDone \/ ReadUndefined
    \/ PrintRecord \/ Sort

=============================================================================
