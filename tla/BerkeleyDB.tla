------------------------------ MODULE BerkeleyDB ------------------------------
(***************************************************************************)
(* sensor/include/berkeleyDB.cpp: the hourly databases a writer thread     *)
(* stores its records in.                                                  *)
(*                                                                         *)
(* "databases" is a hash table from the hour of a record's start time to   *)
(* an entry with a Berkeley DB handle and the number of the next record.   *)
(* write() finds or creates the entry and puts the record under that       *)
(* number; flush() syncs every handle and closes those whose hour is over  *)
(* for longer than the timeout.  One thread makes all the calls.           *)
(*                                                                         *)
(* Berkeley DB itself is external: a handle sees the file as it was when   *)
(* it was opened, plus its own puts; sync() and close() bring the file up  *)
(* to what the handle sees, and the cache may do so on its own.  Records   *)
(* that are only in the cache are lost in a crash.  Time is counted in     *)
(* hours.  A call through a handle that was never opened, or is closed     *)
(* already, is undefined: the model stops there.  It also stops where      *)
(* main() returns and ~BerkeleyDB() destroys what the writer thread, which *)
(* nobody waits for, still uses.                                           *)
(***************************************************************************)
EXTENDS Naturals, FiniteSetsExt

CONSTANTS
    MaxTime,        \* bound: last value of the clock
    Files,          \* names of database files
    File,           \* the file of each hour, named by local time
    Timeout,        \* hours a database stays open after its hour is over
    MaxWrites,      \* bound: number of write() calls
    MaxCrashes,     \* bound: number of crashes and exits
    Faults          \* the library and system calls that may fail

FallibleCalls == {"directory", "open", "cursor", "get", "put", "sync", "close"}

Hours   == 0..MaxTime
Records == 1..MaxWrites     \* a record is the number of its write() call
NoRecord == 0
Numbers == 1..(2 * MaxWrites)   \* bound: MaxWrites puts do not leave it

ASSUME BerkeleyDBAssumption ==
    /\ MaxTime \in Nat
    /\ File \in [Hours -> Files]
    /\ Timeout \in Nat
    /\ MaxWrites \in Nat
    /\ MaxCrashes \in Nat
    /\ Faults \subseteq FallibleCalls

VARIABLES
    handle,         \* the state of each hour's entry in "databases"
    recordNumber,   \* of each entry: the number of the next record
    view,           \* of each handle: the record it sees under each number
    disk,           \* of each file: the record on disk under each number
    now,            \* the clock
    pc,             \* where the thread is in write() or flush()
    hour,           \* write(): the hour of the record
    writes,         \* number of write() calls so far, the current record
    flTime,         \* flush(): the time it began
    toSync,         \* flush(): entries still to be visited
    erase,          \* flush(): entries closed, to be erased
    crashes,        \* number of crashes and exits
    pending,        \* history: <<hour, number, record>> stored, not flushed
    flushed,        \* history: those a flush() that returned true covered
    failed,         \* history: some call has failed
    misnumbered     \* history: hours numbered from an indeterminate value

dbVars    == <<handle, recordNumber, view, disk>>
writeVars == <<hour, writes>>
flushVars == <<flTime, toSync, erase>>
history   == <<pending, flushed, failed, misnumbered>>
vars == <<dbVars, now, pc, writeVars, flushVars, crashes, history>>

Empty == [n \in Numbers |-> NoRecord]

HandleStates == {"absent", "unopened", "unnumbered", "open", "closed"}

Init ==
    /\ handle = [h \in Hours |-> "absent"]
    /\ recordNumber = [h \in Hours |-> 0]
    /\ view = [h \in Hours |-> Empty]
    /\ disk = [f \in Files |-> Empty]
    /\ now = 0
    /\ pc = "idle"
    /\ hour = 0 /\ writes = 0
    /\ flTime = 0 /\ toSync = {} /\ erase = {}
    /\ crashes = 0
    /\ pending = {} /\ flushed = {}
    /\ failed = FALSE /\ misnumbered = {}

(* The last number in use, DB_LAST.                                        *)
LastNumber(v) == Max({0} \cup {n \in Numbers : v[n] # NoRecord})

(* The entries of the hours in s cease to exist.                           *)
Gone(s) ==
    /\ handle' = [h \in Hours |-> IF h \in s THEN "absent" ELSE handle[h]]
    /\ recordNumber' = [h \in Hours |-> IF h \in s THEN 0 ELSE recordNumber[h]]
    /\ view' = [h \in Hours |-> IF h \in s THEN Empty ELSE view[h]]

Fails(call) ==
    /\ call \in Faults
    /\ failed' = TRUE

-----------------------------------------------------------------------------
(* write().                                                                *)

(* A record whose session began in hour h: find() looks for its entry.     *)
Find(h) ==
    /\ pc = "idle"
    /\ writes < MaxWrites
    /\ h <= now
    /\ hour' = h
    /\ writes' = writes + 1
    /\ pc' = IF handle[h] = "absent" THEN "create" ELSE "put"
    /\ UNCHANGED <<dbVars, now, flushVars, crashes, history>>

(* A bug for the mutation run: every database is numbered from 1.          *)
CreateFromOne ==
    /\ pc = "create"
    /\ handle' = [handle EXCEPT ![hour] = "open"]
    /\ view' = [view EXCEPT ![hour] = disk[File[hour]]]
    /\ recordNumber' =
          [recordNumber EXCEPT ![hour] = 1]
    /\ pc' = "put"
    /\ UNCHANGED <<disk, now, writeVars, flushVars, crashes, history>>

(* create(): the file is opened, and the number of the next record is read *)
(* from its end.                                                           *)
Create ==
    /\ pc = "create"
    /\ handle' = [handle EXCEPT ![hour] = "open"]
    /\ view' = [view EXCEPT ![hour] = disk[File[hour]]]
    /\ recordNumber' =
          [recordNumber EXCEPT ![hour] = LastNumber(disk[File[hour]]) + 1]
    /\ pc' = "put"
    /\ UNCHANGED <<disk, now, writeVars, flushVars, crashes, history>>

(* makeDirectory() fails: no entry, and write() returns false.             *)
DirectoryFails ==
    /\ pc = "create"
    /\ Fails("directory")
    /\ pc' = "idle"
    /\ UNCHANGED <<dbVars, now, writeVars, flushVars, crashes, pending,
                   flushed, misnumbered>>

(* db_create() or open() fails: write() returns false, the entry stays.    *)
OpenFails ==
    /\ pc = "create"
    /\ Fails("open")
    /\ handle' = [handle EXCEPT ![hour] = "unopened"]
    /\ pc' = "idle"
    /\ UNCHANGED <<recordNumber, view, disk, now, writeVars, flushVars,
                   crashes, pending, flushed, misnumbered>>

(* cursor() fails: the entry stays, open, its recordNumber never set.      *)
CursorFails ==
    /\ pc = "create"
    /\ Fails("cursor")
    /\ handle' = [handle EXCEPT ![hour] = "unnumbered"]
    /\ view' = [view EXCEPT ![hour] = disk[File[hour]]]
    /\ \E n \in {0} \cup Records :
          recordNumber' = [recordNumber EXCEPT ![hour] = n]
    /\ misnumbered' = misnumbered \cup {hour}
    /\ pc' = "idle"
    /\ UNCHANGED <<disk, now, writeVars, flushVars, crashes, pending,
                   flushed>>

(* c_get() fails, and not with DB_NOTFOUND: the key's null pointer is      *)
(* followed.                                                               *)
GetFails ==
    /\ pc = "create"
    /\ Fails("get")
    /\ pc' = "undefined"
    /\ UNCHANGED <<dbVars, now, writeVars, flushVars, crashes, pending,
                   flushed, misnumbered>>

Usable(h) == handle[h] \in {"open", "unnumbered"}

(* put() under the entry's number, which moves on.                         *)
Put ==
    /\ pc = "put"
    /\ Usable(hour)
    /\ recordNumber[hour] \in Numbers
    /\ view' = [view EXCEPT ![hour][recordNumber[hour]] = writes]
    /\ recordNumber' = [recordNumber EXCEPT ![hour] = @ + 1]
    /\ pending' = pending \cup {<<hour, recordNumber[hour], writes>>}
    /\ pc' = "idle"
    /\ UNCHANGED <<handle, disk, now, writeVars, flushVars, crashes,
                   flushed, failed, misnumbered>>

(* A bug for the mutation run: the number moves on although put() failed.  *)
PutFailsCounted ==
    /\ pc = "put"
    /\ Usable(hour)
    /\ Fails("put") \/ (recordNumber[hour] = 0 /\ UNCHANGED failed)
    /\ pc' = "idle"
    /\ recordNumber' = [recordNumber EXCEPT ![hour] = @ + 1]
    /\ UNCHANGED <<handle, view, disk, now, writeVars, flushVars, crashes,
                   pending, flushed, misnumbered>>

(* put() fails (0 is no record number): write() returns false.             *)
PutFails ==
    /\ pc = "put"
    /\ Usable(hour)
    /\ Fails("put") \/ (recordNumber[hour] = 0 /\ UNCHANGED failed)
    /\ pc' = "idle"
    /\ UNCHANGED <<dbVars, now, writeVars, flushVars, crashes, pending,
                   flushed, misnumbered>>

PutUndefined ==
    /\ pc = "put"
    /\ ~Usable(hour)
    /\ pc' = "undefined"
    /\ UNCHANGED <<dbVars, now, writeVars, flushVars, crashes, history>>

WriteStep ==
    \/ \E h \in Hours : Find(h)
    \/ Create \/ DirectoryFails \/ OpenFails \/ CursorFails \/ GetFails
    \/ Put \/ PutFails \/ PutUndefined

-----------------------------------------------------------------------------
(* flush().                                                                *)

FlushBegin ==
    /\ pc = "idle"
    /\ flTime' = now
    /\ toSync' = {h \in Hours : handle[h] # "absent"}
    /\ erase' = {}
    /\ pc' = "sync"
    /\ UNCHANGED <<dbVars, now, writeVars, crashes, history>>

(* Open for at least as long as the timeout, counted from its hour's end.  *)
Due(h, t) == t >= h + 1 + Timeout

Synced(h) == disk' = [disk EXCEPT ![File[h]] = view[h]]

(* A bug for the mutation run: a database is closed without its cache.     *)
SyncNotClosing(h) ==
    /\ pc = "sync"
    /\ h \in toSync
    /\ Usable(h)
    /\ (IF Due(h, flTime) THEN UNCHANGED disk ELSE Synced(h))
    /\ IF Due(h, flTime)
       THEN /\ handle' = [handle EXCEPT ![h] = "closed"]
            /\ erase' = erase \cup {h}
       ELSE UNCHANGED <<handle, erase>>
    /\ toSync' = toSync \ {h}
    /\ UNCHANGED <<recordNumber, view, now, pc, writeVars, flTime, crashes,
                   history>>
Sync(h) ==
    /\ pc = "sync"
    /\ h \in toSync
    /\ Usable(h)
    /\ Synced(h)
    /\ IF Due(h, flTime)
       THEN /\ handle' = [handle EXCEPT ![h] = "closed"]
            /\ erase' = erase \cup {h}
       ELSE UNCHANGED <<handle, erase>>
    /\ toSync' = toSync \ {h}
    /\ UNCHANGED <<recordNumber, view, now, pc, writeVars, flTime, crashes,
                   history>>

(* sync() fails: flush() returns false.  The databases it has closed are   *)
(* not erased.                                                             *)
SyncFails(h) ==
    /\ pc = "sync"
    /\ h \in toSync
    /\ Usable(h)
    /\ Fails("sync")
    /\ pc' = "idle" /\ toSync' = {} /\ erase' = {}
    /\ UNCHANGED <<dbVars, now, writeVars, flTime, crashes, pending,
                   flushed, misnumbered>>

(* close() fails: the same, and the handle may not be used again.          *)
CloseFails(h) ==
    /\ pc = "sync"
    /\ h \in toSync
    /\ Usable(h)
    /\ Due(h, flTime)
    /\ Fails("close")
    /\ Synced(h)
    /\ handle' = [handle EXCEPT ![h] = "closed"]
    /\ pc' = "idle" /\ toSync' = {} /\ erase' = {}
    /\ UNCHANGED <<recordNumber, view, now, writeVars, flTime, crashes,
                   pending, flushed, misnumbered>>

SyncUndefined(h) ==
    /\ pc = "sync"
    /\ h \in toSync
    /\ ~Usable(h)
    /\ pc' = "undefined"
    /\ UNCHANGED <<dbVars, now, writeVars, flushVars, crashes, history>>

(* A bug for the mutation run: the closed databases are not erased.        *)
FlushEndKeeping ==
    /\ pc = "sync"
    /\ toSync = {}
    /\ Gone({})
    /\ erase' = {}
    /\ flushed' = flushed \cup pending
    /\ pending' = {}
    /\ pc' = "idle"
    /\ UNCHANGED <<disk, now, writeVars, flTime, toSync, crashes, failed,
                   misnumbered>>

(* Erase what was closed and return true.                                  *)
FlushEnd ==
    /\ pc = "sync"
    /\ toSync = {}
    /\ Gone(erase)
    /\ erase' = {}
    /\ flushed' = flushed \cup pending
    /\ pending' = {}
    /\ pc' = "idle"
    /\ UNCHANGED <<disk, now, writeVars, flTime, toSync, crashes, failed,
                   misnumbered>>

FlushStep ==
    \/ FlushBegin
    \/ \E h \in Hours : \/ Sync(h) \/ SyncFails(h) \/ CloseFails(h)
                        \/ SyncUndefined(h)
    \/ FlushEnd

-----------------------------------------------------------------------------
(* The environment.                                                        *)

Stopped == {"undefined", "overtaken"}

(* The cache runs full and writes its pages out.                           *)
Evict(h) ==
    /\ pc \notin Stopped
    /\ Usable(h)
    /\ Synced(h)
    /\ UNCHANGED <<handle, recordNumber, view, now, pc, writeVars,
                   flushVars, crashes, history>>

(* The process dies between any two steps and is started again.            *)
Restart ==
    /\ crashes < MaxCrashes
    /\ pc \notin Stopped
    /\ crashes' = crashes + 1
    /\ Gone(Hours)
    /\ pending' = {}
    /\ pc' = "idle" /\ toSync' = {} /\ erase' = {}
    /\ UNCHANGED <<now, writeVars, flTime, flushed, failed, misnumbered>>

Crash == Restart /\ UNCHANGED disk

(* main() has returned: ~BerkeleyDB() closes every handle, and does not    *)
(* look at the results.  The process ends before the writer thread takes   *)
(* another step, whatever it was doing.                                    *)
Exit ==
    /\ \A h \in Hours : handle[h] = "absent" \/ Usable(h)
    /\ Restart
    /\ disk' \in
           [Files -> {disk[f] : f \in Files} \cup {view[h] : h \in Hours}]
    /\ \A f \in Files :
          LET opened == {h \in Hours : Usable(h) /\ File[h] = f}
          IN  \/ \E h \in opened : disk'[f] = view[h]
              \/ (opened = {} \/ "close" \in Faults) /\ disk'[f] = disk[f]

(* It closes one that is closed or was never opened, and the writer thread *)
(* is in no call.                                                          *)
ExitUndefined ==
    /\ pc = "idle"
    /\ \E h \in Hours : handle[h] # "absent" /\ ~Usable(h)
    /\ pc' = "undefined"
    /\ UNCHANGED <<dbVars, now, writeVars, flushVars, crashes, history>>

(* The writer thread is in a call, or begins one, while the destructor     *)
(* closes the handles and frees the table they are in: Writer::finish() is *)
(* never called, and nobody joins the thread.                              *)
ExitOvertakes ==
    /\ pc \notin Stopped
    /\ pc' = "overtaken"
    /\ UNCHANGED <<dbVars, now, writeVars, flushVars, crashes, history>>

Tick ==
    /\ now < MaxTime
    /\ now' = now + 1
    /\ UNCHANGED <<dbVars, pc, writeVars, flushVars, crashes, history>>

Environment ==
    \/ \E h \in Hours : Evict(h)
    \/ Crash \/ Exit \/ ExitUndefined \/ ExitOvertakes \/ Tick

Next == WriteStep \/ FlushStep \/ Environment

Spec == Init /\ [][Next]_vars

-----------------------------------------------------------------------------
PCs == {"idle", "create", "put", "sync"} \cup Stopped

TypeOK ==
    /\ handle \in [Hours -> HandleStates]
    /\ recordNumber \in [Hours -> Nat]
    /\ view \in [Hours -> [Numbers -> {NoRecord} \cup Records]]
    /\ disk \in [Files -> [Numbers -> {NoRecord} \cup Records]]
    /\ now \in Hours
    /\ pc \in PCs
    /\ hour \in Hours /\ writes \in 0..MaxWrites
    /\ flTime \in Hours /\ toSync \subseteq Hours /\ erase \subseteq Hours
    /\ crashes \in 0..MaxCrashes
    /\ pending \subseteq Hours \X Numbers \X Records
    /\ flushed \subseteq Hours \X Numbers \X Records
    /\ failed \in BOOLEAN
    /\ misnumbered \subseteq Hours

(* An hour whose file no other hour is stored in, and whose records were   *)
(* numbered from a value create() has read.  When the clocks go back, two  *)
(* hours have one name.                                                    *)
Orderly(h) ==
    /\ h \notin misnumbered
    /\ \A g \in Hours : File[g] = File[h] => g = h

(* berkeleyDB.cpp:157-162: an open database's next number is the last one  *)
(* plus 1, with nothing missing before it, whatever was lost or refused.   *)
NumberedWithoutGaps ==
    \A h \in Hours :
        handle[h] = "open" /\ Orderly(h) =>
            \A n \in Numbers : view[h][n] # NoRecord <=> n < recordNumber[h]

(* What a flush() that returned true has covered is on disk and stays      *)
(* there, under its number: crashes, restarts and records that come late   *)
(* for a closed hour do not touch it.                                      *)
FlushedStaysOnDisk ==
    \A e \in flushed :
        Orderly(e[1]) => disk[File[e[1]]][e[2]] = e[3]

(* Without a crash nothing a write() has stored is lost: it is on disk, or *)
(* the open handle sees it.                                                *)
StoredIsKept ==
    \A e \in pending :
        Orderly(e[1]) =>
            \/ disk[File[e[1]]][e[2]] = e[3]
            \/ Usable(e[1]) /\ view[e[1]][e[2]] = e[3]

(* berkeleyDB.cpp:226-241, 259-265: while the thread is the only one to    *)
(* use the databases, it uses a dead handle only after a call has failed:  *)
(* erase() follows every close().  The exception is the end of the sensor, *)
(* whose destructor may overtake it (ExitOvertakes) without any failure.   *)
DeadHandlesNeedAFailure == pc = "undefined" => failed

=============================================================================
