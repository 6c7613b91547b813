---------------------------------- MODULE BT ----------------------------------
(***************************************************************************)
(* sensor/modules/bt/bt.cpp: sessions of clients with BitTorrent trackers. *)
(*                                                                         *)
(* The capture thread follows the UDP tracker protocol.  A connect request *)
(* makes a session; in a known session the client's announce and scrape    *)
(* requests are recorded if they carry the session's connection ID, and    *)
(* the tracker's responses if they carry its transaction ID.  The flush    *)
(* thread reports idle sessions by mail and erases them, a bucket at a     *)
(* time.  It keeps the bucket locked while it sends: the capture thread    *)
(* may have to wait for a mail server.  The HTTP module calls processHTTP()*)
(* from its own flush(), on the same thread; its mails share the SMTP      *)
(* client and its lock with those of flush().                              *)
(*                                                                         *)
(* The parts that are those of the HTTP module's table are modelled as in  *)
(* HTTP.tla.                                                               *)
(***************************************************************************)
EXTENDS Integers, FiniteSets, Functions

CONSTANTS
    Connections,    \* pairs of a client and a tracker
    BucketCount,    \* number of buckets, and of mutexes
    Bucket,         \* the bucket of each flow ID
    Sessions,       \* the blocks of the memory pool (maxSessions of them)
    None,           \* a null pointer; also bytes that are no connection ID
    ConnectionIDs, TransactionIDs,
    Timeout,        \* the module's timeout
    MaxTime,        \* bound: last value of the clock, which starts at 1
    MaxPackets      \* bound: number of packets captured

Sides == {"client", "tracker"}
Flows == Connections \X Sides
Buckets == 1..BucketCount
Times == 0..MaxTime

ASSUME BTAssumption ==
    /\ IsFiniteSet(Connections)
    /\ BucketCount \in Nat \ {0}
    /\ Bucket \in [Flows -> Buckets]
    /\ None \notin Sessions \cup ConnectionIDs
    /\ TransactionIDs # {}
    /\ Timeout \in Nat
    /\ MaxTime \in Nat \ {0}
    /\ MaxPackets \in Nat

(* The flow ID with source and destination swapped.                        *)
Opposite(f) == <<f[1], IF f[2] = "client" THEN "tracker" ELSE "client">>

(* Payloads of 16 bytes or more: a client's requests, a tracker's responses*)
(* and "other", an action that is not handled or a message too short for   *)
(* its action.  The bytes of a request are none of a response that is      *)
(* handled, and conversely.  A tracker may be another tracker's client: its*)
(* connect request, too, makes a session.  None is the first connection ID *)
(* of the protocol, and bytes that are no connection ID.                   *)
Payload(actions, cids) == [action : actions, cid : cids, tid : TransactionIDs]
Payloads(side) ==
    Payload({"connect", "other"}, {None})
        \cup IF side = "client"
             THEN Payload({"announce", "scrape"}, ConnectionIDs)
             ELSE Payload({"connected"}, ConnectionIDs)
                      \cup Payload({"announced", "scraped"}, {None})

-----------------------------------------------------------------------------
(* UDPTrackerSession.                                                      *)

(* initialize() leaves the connection ID as the block of memory has it, and*)
(* of the requests and responses only the announces are counted: no others *)
(* make a session worth reporting.                                         *)
NewSession(t, tid, cid) ==
    [time |-> t, tid |-> tid, cid |-> cid,
     announceRequests |-> 0, announceResponses |-> 0]

Announces(x) == x.announceRequests + x.announceResponses

(* A request in a known session.  Its transaction ID is stored first, be   *)
(* the request valid or not.                                               *)
Request(x, p, t) ==
    LET y == [x EXCEPT !.tid = p.tid]
    IN  CASE p.action = "announce" /\ p.cid = x.cid ->
                 [y EXCEPT !.time = t, !.announceRequests = @ + 1]
          [] p.action = "scrape" /\ p.cid = x.cid -> [y EXCEPT !.time = t]
          [] OTHER -> y

(* A response in a known session.                                          *)
Response(x, p, t) ==
    IF p.tid # x.tid THEN x
    ELSE CASE p.action = "connected" -> [x EXCEPT !.time = t, !.cid = p.cid]
           [] p.action = "announced" ->
                  [x EXCEPT !.time = t, !.announceResponses = @ + 1]
           [] p.action = "scraped" -> [x EXCEPT !.time = t]
           [] OTHER -> x

-----------------------------------------------------------------------------
VARIABLES
    table,          \* sessions: the session of each flow, or None
    store,          \* the contents of each session
    session,        \* the static pointer of processPacket()
    warning,        \* whether "session table is full" may be logged
    smtpLock,       \* whether the SMTP client is locked
    now,            \* the clock
    capPC, packet,  \* processPacket(): its place and its packet
    flPC, flBucket, flTime, flScan, flErase, \* flush()
    httpMails,      \* mails that processHTTP() has yet to send
    received,       \* number of packets captured
    unreported      \* history: announces recorded, less those reported

tableVars == <<table, store, session, warning>>
capVars == <<capPC, packet, received>>
flVars  == <<smtpLock, flPC, flBucket, flTime, flScan, flErase>>
vars == <<tableVars, now, capVars, flVars, httpMails, unreported>>

Blank == NewSession(0, CHOOSE tid \in TransactionIDs : TRUE, None)

Init ==
    /\ table = [f \in Flows |-> None]
    /\ store = [s \in Sessions |-> Blank]
    /\ session = None
    /\ warning = TRUE
    /\ smtpLock = FALSE
    /\ now = 1
    /\ capPC = "idle" /\ packet = None /\ received = 0
    /\ flPC = "idle" /\ flBucket = 1 /\ flTime = 0
    /\ flScan = {} /\ flErase = {}
    /\ httpMails = 0
    /\ unreported = 0

Held(s) == s = session \/ \E f \in Flows : table[f] = s

(* The contents st, less the sessions whose last pointer this step drops:  *)
(* the deallocator destroys them.                                          *)
Kept(st) == [s \in Sessions |-> IF Held(s)' THEN st[s] ELSE Blank]

(* A bug for the mutation run: the bucket is entered although it is        *)
(* locked.                                                                 *)
UnlockedAlways(f) == TRUE

(* The flush thread holds the lock of the bucket it is in.                 *)
Unlocked(f) ==
    flPC \in {"scan", "smtp", "send"} => Bucket[f] # flBucket

-----------------------------------------------------------------------------
(* processPacket(), on the capture thread.                                 *)

Receive(f, p) ==
    /\ capPC = "idle"
    /\ received < MaxPackets
    /\ p \in Payloads(f[2])
    /\ received' = received + 1
    /\ packet' = [flow |-> f, payload |-> p, time |-> now]
    /\ capPC' = "forward"
    /\ UNCHANGED <<tableVars, now, flVars, httpMails, unreported>>

Goto(next) ==
    /\ capPC' = next
    /\ packet' = IF next = "idle" THEN None ELSE packet
    /\ UNCHANGED received

(* The session of flow f becomes y.                                        *)
Record(f, y) ==
    LET s == table[f]
    IN  /\ store' = [store EXCEPT ![s] = y]
        /\ unreported' = unreported + Announces(y) - Announces(store[s])
        /\ Goto("idle")
        /\ UNCHANGED <<table, session, warning, now, flVars, httpMails>>

Miss(next) ==
    /\ Goto(next)
    /\ UNCHANGED <<tableVars, now, flVars, httpMails, unreported>>

(* Lock the bucket of the flow ID and look it up: a packet of a known flow *)
(* is a request.                                                           *)
LookUp ==
    /\ capPC = "forward"
    /\ LET f == packet.flow
       IN  /\ Unlocked(f)
           /\ IF table[f] = None THEN Miss("reverse")
              ELSE Record(f, Request(store[table[f]], packet.payload,
                                     packet.time))

(* The same for the opposite flow ID, and a response.  If neither is known *)
(* only a connect request makes a session.                                 *)
LookUpReverse ==
    /\ capPC = "reverse"
    /\ LET f == Opposite(packet.flow)
           p == packet.payload
       IN  /\ Unlocked(f)
           /\ IF table[f] # None
              THEN Record(f, Response(store[table[f]], p, packet.time))
              ELSE Miss(IF p.action = "connect"
                        THEN "allocate" ELSE "idle")

(* The connection ID of the new session is what the block holds: nothing   *)
(* or what an earlier session left there.                                  *)
Allocate(s, cid) ==
    /\ capPC = "allocate"
    /\ ~Held(s)
    /\ session' = s
    /\ Goto("insert")
    /\ UNCHANGED <<table, warning, now, flVars, httpMails, unreported>>
    /\ store' = Kept([store EXCEPT ![s] =
                          NewSession(packet.time, packet.payload.tid, cid)])

TableIsFull ==
    /\ capPC = "allocate"
    /\ \A s \in Sessions : Held(s)
    /\ session' = None
    /\ warning' = FALSE
    /\ Goto("idle")
    /\ UNCHANGED <<table, now, flVars, httpMails, unreported>>
    /\ store' = Kept(store)

Insert ==
    /\ capPC = "insert"
    /\ Unlocked(packet.flow)
    /\ table' = [table EXCEPT ![packet.flow] = session]
    /\ Goto("idle")
    /\ UNCHANGED <<store, session, warning, now, flVars, httpMails,
                   unreported>>

CaptureStep ==
    \/ LookUp \/ LookUpReverse
    \/ \E s \in Sessions, cid \in ConnectionIDs \cup {None} : Allocate(s, cid)
    \/ TableIsFull \/ Insert

-----------------------------------------------------------------------------
(* flush(), on the flush thread.                                           *)

FlushBegin ==
    /\ flPC = "idle" /\ httpMails = 0
    /\ IF \E f \in Flows : table[f] # None
       THEN flTime' = now /\ flPC' = "lock"
       ELSE UNCHANGED <<flTime, flPC>>
    /\ UNCHANGED <<tableVars, now, capVars, smtpLock, flBucket, flScan,
                   flErase, httpMails, unreported>>

SweepLock ==
    /\ flPC = "lock"
    /\ flScan' = {f \in Flows : Bucket[f] = flBucket /\ table[f] # None}
    /\ flPC' = "scan"
    /\ UNCHANGED <<tableVars, now, capVars, smtpLock, flBucket, flTime,
                   flErase, httpMails, unreported>>

ExpiredAt(x, t) == t - x.time >= Timeout

(* A bug for the mutation run: "&&" for "||".                              *)
InterestingBoth(x) == x.announceRequests > 0 /\ x.announceResponses > 0

(* Sessions with an announce are reported, and only those.                 *)
Interesting(x) == x.announceRequests > 0 \/ x.announceResponses > 0

(* The next session of the bucket.                                         *)
Visit(f) ==
    /\ flPC = "scan"
    /\ f \in flScan
    /\ LET x == store[table[f]]
       IN  /\ flErase' = IF ExpiredAt(x, flTime) THEN flErase \cup {f}
                                                 ELSE flErase
           /\ IF ExpiredAt(x, flTime) /\ Interesting(x)
              THEN flPC' = "smtp" /\ UNCHANGED flScan
              ELSE flScan' = flScan \ {f} /\ UNCHANGED flPC
    /\ UNCHANGED <<tableVars, now, capVars, smtpLock, flBucket, flTime,
                   httpMails, unreported>>

LockSMTP ==
    /\ flPC = "smtp"
    /\ ~smtpLock
    /\ smtpLock' = TRUE
    /\ flPC' = "send"
    /\ UNCHANGED <<tableVars, now, capVars, flBucket, flTime, flScan,
                   flErase, httpMails, unreported>>

(* send() returns.  A failure is logged, and the mail is not kept.         *)
Sent(f) ==
    /\ flPC = "send"
    /\ f \in flScan \cap flErase
    /\ unreported' = unreported - Announces(store[table[f]])
    /\ smtpLock' = FALSE
    /\ flScan' = flScan \ {f}
    /\ flPC' = "scan"
    /\ UNCHANGED <<tableVars, now, capVars, flBucket, flTime, flErase,
                   httpMails>>

Erase(f) ==
    /\ flPC = "scan" /\ flScan = {}
    /\ f \in flErase
    /\ table' = [table EXCEPT ![f] = None]
    /\ flErase' = flErase \ {f}
    /\ UNCHANGED <<session, warning, now, capVars, smtpLock, flPC,
                   flBucket, flTime, flScan, httpMails, unreported>>
    /\ store' = Kept(store)

(* The next bucket, or return: the local variables are not read again.     *)
SweepUnlock ==
    /\ flPC = "scan" /\ flScan = {} /\ flErase = {}
    /\ IF flBucket < BucketCount
       THEN flBucket' = flBucket + 1 /\ flPC' = "lock" /\ UNCHANGED flTime
       ELSE flBucket' = 1 /\ flPC' = "idle" /\ flTime' = 0
    /\ UNCHANGED <<tableVars, now, capVars, smtpLock, flScan, flErase,
                   httpMails, unreported>>

(* processHTTP(), on the flush thread when it is in the HTTP module: a     *)
(* torrent file download and tracker communication are a mail each.        *)
ProcessHTTP(torrent, tracker) ==
    /\ flPC = "idle" /\ httpMails = 0
    /\ httpMails' = (IF torrent THEN 1 ELSE 0) + (IF tracker THEN 1 ELSE 0)
    /\ UNCHANGED <<tableVars, now, capVars, flVars, unreported>>

HTTPLockSMTP ==
    /\ flPC = "idle" /\ httpMails > 0
    /\ ~smtpLock
    /\ smtpLock' = TRUE
    /\ flPC' = "httpSend"
    /\ UNCHANGED <<tableVars, now, capVars, flBucket, flTime, flScan,
                   flErase, httpMails, unreported>>

(* A bug for the mutation run: the SMTP client stays locked.               *)
HTTPSentKeepingLock ==
    /\ flPC = "httpSend"
    /\ UNCHANGED smtpLock
    /\ httpMails' = httpMails - 1
    /\ flPC' = "idle"
    /\ UNCHANGED <<tableVars, now, capVars, flBucket, flTime, flScan,
                   flErase, unreported>>

HTTPSent ==
    /\ flPC = "httpSend"
    /\ smtpLock' = FALSE
    /\ httpMails' = httpMails - 1
    /\ flPC' = "idle"
    /\ UNCHANGED <<tableVars, now, capVars, flBucket, flTime, flScan,
                   flErase, unreported>>

FlushStep ==
    \/ FlushBegin \/ SweepLock
    \/ \E f \in Flows : Visit(f) \/ Sent(f) \/ Erase(f)
    \/ LockSMTP \/ SweepUnlock
    \/ HTTPLockSMTP \/ HTTPSent

-----------------------------------------------------------------------------
Tick ==
    /\ now < MaxTime
    /\ now' = now + 1
    /\ UNCHANGED <<tableVars, capVars, flVars, httpMails, unreported>>

Next ==
    \/ \E f \in Flows : \E p \in Payloads(f[2]) : Receive(f, p)
    \/ CaptureStep
    \/ FlushStep
    \/ \E torrent, tracker \in BOOLEAN : ProcessHTTP(torrent, tracker)
    \/ Tick

(* The flush thread takes its next step in the end: the mail server        *)
(* answers or libesmtp gives up.  The capture thread gets a bucket that is *)
(* unlocked again and again: flush() is called flushInterval seconds after *)
(* it returned.                                                            *)
Fairness == SF_vars(CaptureStep) /\ WF_vars(FlushStep)

Spec == Init /\ [][Next]_vars

FairSpec == Spec /\ Fairness

-----------------------------------------------------------------------------
TypeOK ==
    /\ table \in [Flows -> Sessions \cup {None}]
    /\ store \in [Sessions -> [time : Times, tid : TransactionIDs,
                               cid : ConnectionIDs \cup {None},
                               announceRequests : Nat,
                               announceResponses : Nat]]
    /\ session \in Sessions \cup {None}
    /\ warning \in BOOLEAN /\ smtpLock \in BOOLEAN
    /\ now \in Times
    /\ capPC \in {"idle", "forward", "reverse", "allocate", "insert"}
    /\ capPC # "idle" =>
          /\ packet.flow \in Flows
          /\ packet.payload \in Payloads(packet.flow[2])
          /\ packet.time \in Times
    /\ received \in 0..MaxPackets
    /\ flPC \in {"idle", "lock", "scan", "smtp", "send", "httpSend"}
    /\ flBucket \in Buckets /\ flTime \in Times
    /\ flScan \subseteq Flows /\ flErase \subseteq Flows
    /\ httpMails \in Nat

Reported(f) == f \in flErase \ flScan

(* The announces of each session in the table that has not been reported.  *)
Owed ==
    [f \in Flows |-> IF table[f] = None \/ Reported(f) THEN 0
                     ELSE Announces(store[table[f]])]

(* Every announce that was recorded is in a session of the table or was    *)
(* reported, once.                                                         *)
AnnouncesAreReported == unreported = SumFunctionOnSet(Owed, Flows)

(* A session is erased when it has been idle for the timeout, with no      *)
(* message recorded since it was found idle.                               *)
OnlyIdleTrackersLeave ==
    [][\A f \in Flows :
          table[f] # None /\ table'[f] = None =>
              ExpiredAt(store[table[f]], flTime)]_vars

(* A packet's processing ends, although it may have to wait for a bucket   *)
(* that stays locked while a mail is sent.                                 *)
CaptureGetsOn == capPC # "idle" ~> capPC = "idle"

=============================================================================
