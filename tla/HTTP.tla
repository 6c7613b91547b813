--------------------------------- MODULE HTTP ---------------------------------
(***************************************************************************)
(* sensor/modules/http/http.cpp: from packets to HTTP sessions.            *)
(*                                                                         *)
(* The capture thread looks a packet's flow up in the session table, then  *)
(* the opposite flow, and feeds the payload to one of the session's two    *)
(* parsers, whose callbacks assemble requests and responses.  If neither   *)
(* flow is known a session is allocated, parsed into, and inserted if the  *)
(* parser accepted the whole payload.  A payload a parser rejects removes  *)
(* its session.  The flush thread sweeps the table bucket by bucket and    *)
(* gives expired sessions to the consumers (httpLog writes them, Writer    *)
(* says how; bt mails about them).                                         *)
(*                                                                         *)
(* A bucket's lock is held across each lookup with what follows it on the  *)
(* capture thread, so such a section is one step, possible unless the      *)
(* flush thread is in that bucket.  The memory pool and the element count  *)
(* are those of SessionTable.tla: here a free session is one that nobody   *)
(* points to, and the table's size is exact.                               *)
(*                                                                         *)
(* The parser (httpParser.c) is that of HTTPParser.tla, its callbacks are  *)
(* those of HTTPCallbacks.tla.  Here a packet stands for a payload by what *)
(* the parser makes of it: the place in a message where the parser must be *)
(* for it to be accepted, where it is left, and the callbacks in their     *)
(* order.  Lost, repeated and reordered segments are packets that come     *)
(* when the parser is elsewhere.                                           *)
(***************************************************************************)
EXTENDS Integers, Sequences, FiniteSets, Functions, HTTPCallbacks

CONSTANTS
    Connections,    \* TCP connections
    BucketCount,    \* number of buckets, and of mutexes
    Bucket,         \* the bucket of each flow ID
    Sessions,       \* the blocks of the memory pool (maxSessions of them)
    None,           \* a null pointer
    Timeout,        \* the module's timeout
    MaxTime,        \* bound: last value of the clock, which starts at 1
    MaxPackets      \* bound: number of packets captured

Flows == Connections \X Sides
Buckets == 1..BucketCount
Times == 0..MaxTime

ASSUME HTTPAssumption ==
    /\ BucketCount \in Nat \ {0}
    /\ Bucket \in [Flows -> Buckets]
    /\ None \notin Sessions /\ IsFiniteSet(Sessions)
    /\ Timeout \in Nat
    /\ MaxTime \in Nat \ {0}
    /\ MaxPackets \in Nat

(* The flow ID with source and destination swapped.                        *)
Opposite(f) == <<f[1], IF f[2] = "client" THEN "server" ELSE "client">>

-----------------------------------------------------------------------------
(* Packets.                                                                *)

Segment(side, from, to, calls) ==
    [side |-> side, from |-> from, to |-> to, calls |-> calls]

(* A request with a header, one with a query string and no header, and     *)
(* requests cut in two packets inside the URL and inside a header: the     *)
(* parser calls back for what it has when a packet ends, and for the rest  *)
(* with the next packet.                                                   *)
Requests ==
    {Segment("client", "start", "start",
             <<"url", "path", "field", "value", "complete">>),
     Segment("client", "start", "start",
             <<"path", "url", "queryString", "complete">>),
     Segment("client", "start", "path", <<"path", "url">>),
     Segment("client", "path", "start",
             <<"url", "path", "field", "value", "complete">>),
     Segment("client", "start", "field", <<"url", "path", "field">>),
     Segment("client", "field", "start", <<"field", "value", "complete">>)}

(* A response with a header, one with none, one cut inside a header, one   *)
(* without "Content-Length" that closes the connection, so that whatever   *)
(* comes after it is its body, and one with a trailer after its chunks.    *)
Responses ==
    {Segment("server", "start", "start", <<"field", "value", "complete">>),
     Segment("server", "start", "start", <<"complete">>),
     Segment("server", "start", "field", <<"field">>),
     Segment("server", "field", "start", <<"field", "value", "complete">>),
     Segment("server", "start", "body", <<"field", "value", "closing">>),
     Segment("server", "start", "start",
             <<"field", "value", "complete", "field", "value">>)}

(* What is no HTTP at all, and what stops being HTTP after some callbacks. *)
Junk(side) == Segment(side, "nowhere", "nowhere", <<>>)

Broken ==
    {Segment("client", "start", "nowhere", <<"url", "path">>),
     Segment("server", "start", "nowhere", <<"field", "value", "complete">>)}

Packets ==
    Requests \cup Responses \cup Broken \cup {Junk(side) : side \in Sides}

-----------------------------------------------------------------------------
(* http_parser_execute() on parser i accepts the packet ...                *)
Accepts(x, i, p) ==
    \/ x.parsers[i] = "body"
    \/ x.parsers[i] = p.from /\ p.to # "nowhere"

(* ... and leaves the session as its callbacks, one after the other, do,   *)
(* the error after them or not.  The body of a response has none.          *)
Executed(x, i, p, t) ==
    LET called[n \in 0..Len(p.calls)] ==
            IF n = 0 THEN x
            ELSE Callback(called[n - 1], p.calls[n], p.side, t)
    IN  IF x.parsers[i] # p.from THEN x
        ELSE [called[Len(p.calls)] EXCEPT !.parsers[i] = p.to]

-----------------------------------------------------------------------------
VARIABLES
    table,          \* sessions: the session of each flow, or None
    store,          \* the contents of each session
    session,        \* the static pointer of processPacket()
    queued,         \* sessions the consumers hold
    warning,        \* whether "session table is full" may be logged
    now,            \* the clock
    capPC, packet,  \* processPacket(): its place and its packet
    flPC, flBucket, flTime, \* flush()
    flErase,        \* flush(): the flows in "erase" that are in the table
    flHeld,         \* flush(): the sessions that "erase" points to
    received,       \* number of packets captured
    entries,        \* history: requests and responses entered in sessions
    consumed,       \* history: those of them given to the consumers
    discarded       \* history: those in sessions a parser error removed

capVars == <<capPC, packet, received>>
flVars  == <<flPC, flBucket, flTime, flErase, flHeld>>
history == <<entries, consumed, discarded>>
vars == <<table, store, session, queued, warning, now, capVars, flVars,
          history>>

Init ==
    /\ table = [f \in Flows |-> None]
    /\ store = [s \in Sessions |-> NewSession(0)]
    /\ session = None
    /\ queued = {}
    /\ warning = TRUE
    /\ now = 1
    /\ capPC = "idle" /\ packet = None
    /\ flPC = "idle" /\ flBucket = 1 /\ flTime = 0
    /\ flErase = {} /\ flHeld = {}
    /\ received = 0
    /\ entries = 0 /\ consumed = 0 /\ discarded = 0

Held(s) ==
    \/ s = session \/ s \in queued \/ s \in flHeld
    \/ \E f \in Flows : table[f] = s

(* The contents st, less the sessions whose last pointer this step drops:  *)
(* the deallocator destroys them.                                          *)
Kept(st) ==
    [s \in Sessions |-> IF Held(s)' THEN st[s] ELSE NewSession(0)]

Messages(x) == Len(x.requests) + Len(x.responses)

(* The flush thread holds the lock of the bucket it is in.                 *)
Unlocked(f) == flPC = "bucket" => Bucket[f] # flBucket

-----------------------------------------------------------------------------
(* processPacket(), on the capture thread.                                 *)

(* A packet with a payload arrives, on a flow of its side.                 *)
Receive(f, p) ==
    /\ capPC = "idle"
    /\ received < MaxPackets
    /\ p.side = f[2]
    /\ received' = received + 1
    /\ packet' = [flow |-> f, payload |-> p, time |-> now]
    /\ capPC' = "forward"
    /\ UNCHANGED <<table, store, session, queued, warning, now, flVars,
                   history>>

Goto(next) ==
    /\ capPC' = next
    /\ packet' = IF next = "idle" THEN None ELSE packet
    /\ UNCHANGED received

(* The packet is parsed into the session of flow f, with parser i.  If it  *)
(* is rejected the session is erased, with whatever is in it.              *)
Parse(f, i) ==
    LET s == table[f]
        x == store[s]
        y == Executed(x, i, packet.payload, packet.time)
    IN  /\ session' = s
        /\ entries' = entries + Messages(y) - Messages(x)
        /\ IF Accepts(x, i, packet.payload)
           THEN UNCHANGED <<table, discarded>>
           ELSE /\ table' = [table EXCEPT ![f] = None]
                /\ discarded' = discarded + Messages(y)
        /\ Goto("idle")
        /\ UNCHANGED <<queued, warning, now, flVars, consumed>>
        /\ store' = Kept([store EXCEPT ![s] = y])

Miss(next) ==
    /\ Goto(next)
    /\ UNCHANGED <<table, store, session, queued, warning, now, flVars,
                   history>>

(* A bug for the mutation run: the opposite flow is not looked up.         *)
LookUpOnly ==
    /\ capPC = "forward"
    /\ LET f == packet.flow
       IN  /\ Unlocked(f)
           /\ IF table[f] # None THEN Parse(f, 1) ELSE Miss("allocate")

(* Lock the bucket of the flow ID, look it up, parse if it is there.       *)
LookUp ==
    /\ capPC = "forward"
    /\ LET f == packet.flow
       IN  /\ Unlocked(f)
           /\ IF table[f] # None THEN Parse(f, 1) ELSE Miss("reverse")

(* The same for the opposite flow ID and the other parser.                 *)
LookUpReverse ==
    /\ capPC = "reverse"
    /\ LET f == Opposite(packet.flow)
       IN  /\ Unlocked(f)
           /\ IF table[f] # None THEN Parse(f, 2) ELSE Miss("allocate")

(* A new session, parsed into before it is in the table.                   *)
Allocate(s) ==
    /\ capPC = "allocate"
    /\ ~Held(s)
    /\ session' = s
    /\ LET x == NewSession(packet.time)
           y == Executed(x, 1, packet.payload, packet.time)
       IN  /\ entries' = entries + Messages(y)
           /\ IF Accepts(x, 1, packet.payload)
              THEN Goto("insert") /\ UNCHANGED discarded
              ELSE Goto("idle") /\ discarded' = discarded + Messages(y)
           /\ UNCHANGED <<table, queued, warning, now, flVars, consumed>>
           /\ store' = Kept([store EXCEPT ![s] = y])

TableIsFull ==
    /\ capPC = "allocate"
    /\ \A s \in Sessions : Held(s)
    /\ session' = None
    /\ warning' = FALSE
    /\ Goto("idle")
    /\ UNCHANGED <<table, queued, now, flVars, history>>
    /\ store' = Kept(store)

Insert ==
    /\ capPC = "insert"
    /\ Unlocked(packet.flow)
    /\ table' = [table EXCEPT ![packet.flow] = session]
    /\ Goto("idle")
    /\ UNCHANGED <<store, session, queued, warning, now, flVars, history>>

CaptureStep ==
    \/ LookUp \/ LookUpReverse
    \/ \E s \in Sessions : Allocate(s)
    \/ TableIsFull \/ Insert

-----------------------------------------------------------------------------
(* flush(), on the flush thread.                                           *)

FlushBegin ==
    /\ flPC = "idle"
    /\ flTime' = now
    /\ flBucket' = 1
    /\ warning' = TRUE
    /\ flPC' = IF \E f \in Flows : table[f] # None THEN "lock" ELSE "idle"
    /\ UNCHANGED <<table, store, session, queued, now, capVars, flErase,
                   flHeld, history>>

(* The last message of a sequence is Timeout old.                          *)
LastIsOld(messages, t) ==
    /\ messages # <<>>
    /\ messages[Len(messages)].time # 0
    /\ t - messages[Len(messages)].time >= Timeout

ExpiredAt(x, t) ==
    \/ LastIsOld(x.requests, t)
    \/ LastIsOld(x.responses, t)
    \/ t - x.time >= Timeout

(* Lock the next bucket and collect its expired sessions.                  *)
Scan ==
    /\ flPC = "lock"
    /\ flErase' = {f \in Flows : /\ Bucket[f] = flBucket
                                 /\ table[f] # None
                                 /\ ExpiredAt(store[table[f]], flTime)}
    /\ flHeld' = {table[f] : f \in flErase'}
    /\ flPC' = "bucket"
    /\ UNCHANGED <<table, store, session, queued, warning, now, capVars,
                   flBucket, flTime, history>>

(* A bug for the mutation run: a session with responses only is not        *)
(* consumed.                                                               *)
ConsumeRequests(f) ==
    /\ flPC = "bucket"
    /\ f \in flErase
    /\ LET x == store[table[f]]
       IN  IF Len(x.requests) > 0
           THEN /\ queued' = queued \cup {table[f]}
                /\ consumed' = consumed + Messages(x)
           ELSE UNCHANGED <<queued, consumed>>
    /\ table' = [table EXCEPT ![f] = None]
    /\ flErase' = flErase \ {f}
    /\ UNCHANGED <<session, warning, now, capVars, flPC, flBucket, flTime,
                   flHeld, entries, discarded>>
    /\ store' = Kept(store)

(* A bug for the mutation run: the session stays in the table.             *)
ConsumeOnly(f) ==
    /\ flPC = "bucket"
    /\ f \in flErase
    /\ LET x == store[table[f]]
       IN  IF Messages(x) > 0
           THEN /\ queued' = queued \cup {table[f]}
                /\ consumed' = consumed + Messages(x)
           ELSE UNCHANGED <<queued, consumed>>
    /\ UNCHANGED table
    /\ flErase' = flErase \ {f}
    /\ UNCHANGED <<session, warning, now, capVars, flPC, flBucket, flTime,
                   flHeld, entries, discarded>>
    /\ store' = Kept(store)

(* consumers.consume() if there is any message, then sessions.erase().     *)
ConsumeAndErase(f) ==
    /\ flPC = "bucket"
    /\ f \in flErase
    /\ LET x == store[table[f]]
       IN  IF Messages(x) > 0
           THEN /\ queued' = queued \cup {table[f]}
                /\ consumed' = consumed + Messages(x)
           ELSE UNCHANGED <<queued, consumed>>
    /\ table' = [table EXCEPT ![f] = None]
    /\ flErase' = flErase \ {f}
    /\ UNCHANGED <<session, warning, now, capVars, flPC, flBucket, flTime,
                   flHeld, entries, discarded>>
    /\ store' = Kept(store)

SweepUnlock ==
    /\ flPC = "bucket"
    /\ flErase = {}
    /\ flPC' = "clear"
    /\ UNCHANGED <<table, store, session, queued, warning, now, capVars,
                   flBucket, flTime, flErase, flHeld, history>>


(* erase.clear(), after the unlock, and on to the next bucket.             *)
Clear ==
    /\ flPC = "clear"
    /\ flHeld' = {}
    /\ IF flBucket < BucketCount
       THEN flBucket' = flBucket + 1 /\ flPC' = "lock"
       ELSE flPC' = "idle" /\ UNCHANGED flBucket
    /\ UNCHANGED <<table, session, queued, warning, now, capVars, flTime,
                   flErase, history>>
    /\ store' = Kept(store)

FlushStep ==
    \/ FlushBegin \/ Scan
    \/ \E f \in Flows : ConsumeAndErase(f)
    \/ SweepUnlock \/ Clear

-----------------------------------------------------------------------------
(* A consumer is done with a session.                                      *)
Release(s) ==
    /\ s \in queued
    /\ queued' = queued \ {s}
    /\ UNCHANGED <<table, session, warning, now, capVars, flVars, history>>
    /\ store' = Kept(store)

Tick ==
    /\ now < MaxTime
    /\ now' = now + 1
    /\ UNCHANGED <<table, store, session, queued, warning, capVars, flVars,
                   history>>

Next ==
    \/ \E f \in Flows, p \in Packets : Receive(f, p)
    \/ CaptureStep
    \/ FlushStep
    \/ \E s \in Sessions : Release(s)
    \/ Tick

(* The flush thread takes its next step in the end, and begins another     *)
(* flush() after each.                                                     *)
Fairness == WF_vars(FlushStep)

Spec == Init /\ [][Next]_vars

FairSpec == Spec /\ Fairness

-----------------------------------------------------------------------------
TypeOK ==
    /\ table \in [Flows -> Sessions \cup {None}]
    /\ DOMAIN store = Sessions
    /\ session \in Sessions \cup {None}
    /\ queued \subseteq Sessions
    /\ warning \in BOOLEAN
    /\ now \in Times
    /\ capPC \in {"idle", "forward", "reverse", "allocate", "insert"}
    /\ capPC # "idle" =>
          packet \in [flow : Flows, payload : Packets, time : Times]
    /\ flPC \in {"idle", "lock", "bucket", "clear"}
    /\ flBucket \in Buckets /\ flTime \in Times
    /\ flErase \subseteq Flows /\ flHeld \subseteq Sessions
    /\ received \in 0..MaxPackets

(* The two flows of a connection never have a session each, although the   *)
(* locks are let go of between the two lookups and the insertion: a        *)
(* request and its response end up in one session.                         *)
OneSessionPerConnection ==
    \A f \in Flows :
        table[f] # None =>
            /\ table[Opposite(f)] = None
            /\ \A g \in Flows : table[g] = table[f] => g = f

(* The sessions in the table, and the one about to be inserted.            *)
LiveSessions ==
    ({table[f] : f \in Flows}
        \cup (IF capPC = "insert" THEN {session} ELSE {})) \ {None}

MessageCounts == [s \in Sessions |-> Messages(store[s])]

(* Every request and response entered in a session is in the table, in the *)
(* session about to be inserted, was given to the consumers or went with a *)
(* session a parser error removed: no insertion replaces a session.        *)
MessagesAccounted ==
    entries = SumFunctionOnSet(MessageCounts, LiveSessions)
              + consumed + discarded

(* Nothing writes to a session while a consumer may be reading it.         *)
HandedOffIsFrozen ==
    [][\A s \in queued \cap queued' : store'[s] = store[s]]_vars

(* At time t nothing has begun in the session for Timeout.                 *)
IdleAt(x, t) ==
    /\ t - x.time >= Timeout
    /\ \A i \in DOMAIN x.requests : t - x.requests[i].time >= Timeout
    /\ \A i \in DOMAIN x.responses : t - x.responses[i].time >= Timeout

(* A session that is idle does not stay in the table (http.cpp:439-441),   *)
(* unless it gets busy again, whichever bucket it is in.                   *)
IdleInTable(f) == table[f] # None /\ IdleAt(store[table[f]], now)


(* What the comment at http.cpp:439-441 says of the test below it: flush() *)
(* removes a session if it has been idle.  It also removes those of which  *)
(* the first packet is Timeout old, or the last request or response alone, *)
(* while the connection goes on.                                           *)
OnlyIdleSessionsLeave ==
    [][\A f \in flErase : f \notin flErase' =>
          IdleAt(store[table[f]], flTime)]_vars

=============================================================================
