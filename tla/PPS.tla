-------------------------------- MODULE PPS ---------------------------------
(***************************************************************************)
(* sensor/modules/pps/pps.cpp: mail about IPv4 addresses that send or get  *)
(* too many packets per second.                                            *)
(*                                                                         *)
(* The capture thread counts the packets of internal addresses in a table  *)
(* of statistics, whose entries come from a pool of fixed size.  The flush *)
(* thread reads the counters bucket by bucket and sets them to zero, evicts*)
(* idle addresses, and after it has unlocked the bucket sends the mails,   *)
(* each with the output of tcpdump.  Everything processPacket() does to    *)
(* the table it does under the lock of one bucket, so it is one step,      *)
(* possible unless the flush thread is in that bucket.                     *)
(*                                                                         *)
(* Left out: the counters of bytes, kept like those of packets, and the    *)
(* wording of the mails.                                                   *)
(***************************************************************************)
EXTENDS Integers, Sequences, FiniteSets, Functions

LOCAL INSTANCE SequencesExt

CONSTANTS
    IPs,            \* IPv4 addresses, as numbers
    Networks,       \* configured networks, each <<first, last>> address
    BucketCount,    \* number of buckets, and of mutexes
    Bucket,         \* the bucket of each address
    Blocks,         \* the blocks of the memory pool (maxIPs of them)
    None,           \* a null pointer
    Timeout, Threshold, MailInterval, FlushInterval, \* the configuration
    MaxTime,        \* bound: last value of the clock
    MaxPackets      \* bound: number of packets captured

Buckets == 1..BucketCount
Times == 0..MaxTime
Directions == {"incoming", "outgoing"}

(* The clock starts when 0, the "lastEmail" of an address about which no   *)
(* mail was sent, is MailInterval ago.                                     *)
Start == MailInterval

ASSUME PPSAssumption ==
    /\ IPs \subseteq Nat /\ IsFiniteSet(IPs)
    /\ Networks \subseteq Nat \X Nat
    /\ \A n \in Networks : n[1] <= n[2]
    /\ BucketCount \in Nat \ {0}
    /\ Bucket \in [IPs -> Buckets]
    /\ None \notin Blocks
    /\ Timeout \in Nat /\ Threshold \in Nat
    /\ MailInterval \in Nat \ {0} /\ FlushInterval \in Nat
    /\ MaxTime \in Nat /\ MaxTime >= MailInterval /\ MaxPackets \in Nat

(* The networks have no address in common.                                 *)
Disjoint ==
    \A m, n \in Networks : m # n => m[2] < n[1] \/ n[2] < m[1]

(* A bug for the mutation run: the last address of a network is left out.  *)
internalBelow(ip) ==
    \E n \in Networks :
        /\ n[1] <= ip
        /\ \A m \in Networks : m[1] <= ip => m[1] <= n[1]
        /\ ip < n[2]

(* internal(): the last network that starts at or below the address is     *)
(* the only one whose end is looked at.  If there is none the decrement of *)
(* begin() is undefined: libstdc++'s gives the only network or the map's   *)
(* header, and for neither is the comparison true.                         *)
internal(ip) ==
    \E n \in Networks :
        /\ n[1] <= ip
        /\ \A m \in Networks : m[1] <= ip => m[1] <= n[1]
        /\ ip <= n[2]

(* What it is for.                                                         *)
Internal(ip) == \E n \in Networks : n[1] <= ip /\ ip <= n[2]

NewStats(t) ==
    [lastUpdate |-> t, packets |-> [d \in Directions |-> 0], lastEmail |-> 0]

-----------------------------------------------------------------------------
VARIABLES
    addressStats,   \* the block of each address, or None
    store,          \* the contents of each block
    stats,          \* the static pointer of processPacket()
    warning,        \* whether "stats table is full" may be logged
    now,            \* the clock
    capPC, packet,  \* processPacket(): its place and its packet
    flPC, flBucket, flTime, flErase, mailQueue, \* flush()
    lastFlush,      \* when the last flush() began
    wake,           \* when the flush thread's sleep() ends
    signalled,      \* whether SIGTERM came to the flush thread in sleep()
    received,       \* number of packets captured
    counted,        \* history: packets of internal addresses captured
    read,           \* history: those of them read by flush()
    dropped,        \* history: those dropped because the table was full
    mailed          \* history: when a mail about an address was last queued

tableVars == <<addressStats, store, stats, warning>>
capVars == <<capPC, packet, received, counted, dropped>>
flVars == <<flPC, flBucket, flTime, flErase, mailQueue, lastFlush, wake,
            signalled, read, mailed>>
vars == <<tableVars, now, capVars, flVars>>

Init ==
    /\ addressStats = [ip \in IPs |-> None]
    /\ store = [b \in Blocks |-> NewStats(0)]
    /\ stats = None
    /\ warning = TRUE
    /\ now = Start
    /\ capPC = "idle" /\ packet = None /\ received = 0
    /\ flPC = "sleep" /\ flBucket = 1 /\ flTime = 0 /\ flErase = {}
    /\ mailQueue = <<>>
    /\ lastFlush = Start /\ wake = Start + FlushInterval /\ signalled = FALSE
    /\ counted = 0 /\ read = 0 /\ dropped = 0
    /\ mailed = [ip \in IPs |-> 0]

Held(b) == b = stats \/ \E ip \in IPs : addressStats[ip] = b

(* The contents st, less the blocks whose last pointer this step drops:    *)
(* the deallocator destroys them.                                          *)
Kept(st) == [b \in Blocks |-> IF Held(b)' THEN st[b] ELSE NewStats(0)]

(* A bug for the mutation run: the bucket is entered although it is        *)
(* locked.                                                                 *)
UnlockedAlways(ip) == TRUE

(* A bug for the mutation run: the bucket is unlocked after the mails.     *)
UnlockedLate(ip) ==
    flPC \in {"bucket", "mail"} => Bucket[ip] # flBucket

(* The flush thread holds the lock of the bucket it is in.                 *)
Unlocked(ip) == flPC = "bucket" => Bucket[ip] # flBucket

(* The process died of a division by zero.                                 *)
Alive == flPC # "crashed"

-----------------------------------------------------------------------------
(* processPacket(), on the capture thread.                                 *)

(* A packet of an internal address is counted for its source or else for   *)
(* its destination; others are ignored.                                    *)
Receive(source, destination) ==
    /\ Alive
    /\ capPC = "idle"
    /\ received < MaxPackets
    /\ received' = received + 1
    /\ IF internal(source) \/ internal(destination)
       THEN /\ packet' = IF internal(source)
                         THEN [ip |-> source, direction |-> "outgoing",
                               time |-> now]
                         ELSE [ip |-> destination, direction |-> "incoming",
                               time |-> now]
            /\ capPC' = "lock"
       ELSE UNCHANGED <<packet, capPC>>
    /\ counted' = IF Internal(source) \/ Internal(destination)
                  THEN counted + 1 ELSE counted
    /\ UNCHANGED <<tableVars, now, dropped, flVars>>

Done == capPC' = "idle" /\ packet' = None

Counted(x) == [x EXCEPT !.lastUpdate = packet.time,
                        !.packets[packet.direction] = @ + 1]

(* The address is in the table.                                            *)
Count ==
    /\ Alive
    /\ capPC = "lock"
    /\ Unlocked(packet.ip)
    /\ addressStats[packet.ip] # None
    /\ store' = [store EXCEPT ![addressStats[packet.ip]] = Counted(@)]
    /\ Done
    /\ UNCHANGED <<addressStats, stats, warning, now, received, counted,
                   dropped, flVars>>

(* It is not, and gets block b.                                            *)
Insert(b) ==
    /\ Alive
    /\ capPC = "lock"
    /\ Unlocked(packet.ip)
    /\ addressStats[packet.ip] = None
    /\ ~Held(b)
    /\ stats' = b
    /\ addressStats' = [addressStats EXCEPT ![packet.ip] = b]
    /\ Done
    /\ UNCHANGED <<warning, now, received, counted, dropped, flVars>>
    /\ store' = Kept([store EXCEPT ![b] = Counted(NewStats(0))])

(* It is not, and the pool is empty.                                       *)
TableIsFull ==
    /\ Alive
    /\ capPC = "lock"
    /\ Unlocked(packet.ip)
    /\ addressStats[packet.ip] = None
    /\ \A b \in Blocks : Held(b)
    /\ stats' = None
    /\ warning' = FALSE
    /\ dropped' = dropped + 1
    /\ Done
    /\ UNCHANGED <<addressStats, now, received, counted, flVars>>
    /\ store' = Kept(store)

CaptureStep == Count \/ (\E b \in Blocks : Insert(b)) \/ TableIsFull

-----------------------------------------------------------------------------
(* flush(), on the flush thread.                                           *)

(* sleep() returns, and flush() begins: when its time is over, or because  *)
(* the thread handled a signal.                                            *)
FlushBegin(interrupted) ==
    /\ flPC = "sleep"
    /\ IF interrupted THEN ~signalled ELSE now >= wake
    /\ signalled' = (signalled \/ interrupted)
    /\ flTime' = now
    /\ flBucket' = 1
    /\ flPC' = IF \E ip \in IPs : addressStats[ip] # None
               THEN "next" ELSE "end"
    /\ UNCHANGED <<tableVars, now, capVars, flErase, mailQueue, lastFlush,
                   wake, read, mailed>>

Packets(ip, d) == store[addressStats[ip]].packets[d]

(* Packets per second since the last flush(), in whole numbers.            *)
Rate(ip, d) == Packets(ip, d) \div (flTime - lastFlush)

IdleAt(x, t) == t - x.lastUpdate >= Timeout

(* Whether a mail is due about an address.                                 *)
Due(ip) ==
    /\ \E d \in Directions : Rate(ip, d) >= Threshold
    /\ flTime - store[addressStats[ip]].lastEmail >= MailInterval

(* The packets in the counters of each address.                            *)
Totals == [ip \in IPs |->
              IF addressStats[ip] = None THEN 0
              ELSE Packets(ip, "incoming") + Packets(ip, "outgoing")]

InBucket == {ip \in IPs : Bucket[ip] = flBucket /\ addressStats[ip] # None}

(* Lock the next bucket; for each of its addresses note whether it is idle *)
(* and whether a mail is due, and set its counters to zero.                *)
Scan ==
    /\ flPC = "next"
    /\ InBucket # {} => flTime # lastFlush
    /\ flErase' = {ip \in InBucket : IdleAt(store[addressStats[ip]], flTime)}
    /\ LET due == {ip \in InBucket : Due(ip)}
       IN  /\ mailQueue' = SetToSeq(due)
           /\ mailed' = [ip \in IPs |-> IF ip \in due THEN flTime
                                                      ELSE mailed[ip]]
           /\ store' = [b \in Blocks |->
                  IF \E ip \in InBucket : addressStats[ip] = b
                  THEN [store[b] EXCEPT
                           !.packets = [d \in Directions |-> 0],
                           !.lastEmail =
                               IF \E ip \in due : addressStats[ip] = b
                               THEN flTime ELSE @]
                  ELSE store[b]]
    /\ read' = read + SumFunctionOnSet(Totals, InBucket)
    /\ flPC' = "bucket"
    /\ UNCHANGED <<addressStats, stats, warning, now, capVars, flBucket,
                   flTime, lastFlush, wake, signalled>>

(* Two calls of flush() in one second, and an address in the table.        *)
DivideByZero ==
    /\ flPC = "next"
    /\ InBucket # {} /\ flTime = lastFlush
    /\ flPC' = "crashed"
    /\ UNCHANGED <<tableVars, now, capVars, flBucket, flTime, flErase,
                   mailQueue, lastFlush, wake, signalled, read, mailed>>

Erase(ip) ==
    /\ flPC = "bucket"
    /\ ip \in flErase
    /\ addressStats' = [addressStats EXCEPT ![ip] = None]
    /\ flErase' = flErase \ {ip}
    /\ UNCHANGED <<stats, warning, now, capVars, flPC, flBucket, flTime,
                   mailQueue, lastFlush, wake, signalled, read, mailed>>
    /\ store' = Kept(store)

Unlock ==
    /\ flPC = "bucket"
    /\ flErase = {}
    /\ flPC' = "mail"
    /\ UNCHANGED <<tableVars, now, capVars, flBucket, flTime, flErase,
                   mailQueue, lastFlush, wake, signalled, read, mailed>>

(* tcpdump has captured its packets and the mail server has answered.      *)
Mail ==
    /\ flPC = "mail"
    /\ mailQueue # <<>>
    /\ mailQueue' = Tail(mailQueue)
    /\ UNCHANGED <<tableVars, now, capVars, flPC, flBucket, flTime,
                   flErase, lastFlush, wake, signalled, read, mailed>>

NextBucket ==
    /\ flPC = "mail"
    /\ mailQueue = <<>>
    /\ IF flBucket < BucketCount
       THEN flBucket' = flBucket + 1 /\ flPC' = "next"
       ELSE flPC' = "end" /\ UNCHANGED flBucket
    /\ UNCHANGED <<tableVars, now, capVars, flTime, flErase, mailQueue,
                   lastFlush, wake, signalled, read, mailed>>

(* A bug for the mutation run: the thread does not sleep.                  *)
FlushEndSleepless ==
    /\ flPC = "end"
    /\ lastFlush' = flTime
    /\ wake' = now
    /\ flPC' = IF signalled THEN "ended" ELSE "sleep"
    /\ UNCHANGED <<tableVars, now, capVars, flBucket, flTime, flErase,
                   mailQueue, signalled, read, mailed>>

(* flush() returns.  The SIGTERM handler has lowered "capture", so after   *)
(* a signal the thread ends; otherwise it sleeps.                          *)
FlushEnd ==
    /\ flPC = "end"
    /\ lastFlush' = flTime
    /\ wake' = now + FlushInterval
    /\ flPC' = IF signalled THEN "ended" ELSE "sleep"
    /\ UNCHANGED <<tableVars, now, capVars, flBucket, flTime, flErase,
                   mailQueue, signalled, read, mailed>>

FlushStep ==
    \/ \E interrupted \in BOOLEAN : FlushBegin(interrupted)
    \/ Scan \/ DivideByZero
    \/ \E ip \in IPs : Erase(ip)
    \/ Unlock \/ Mail \/ NextBucket \/ FlushEnd

-----------------------------------------------------------------------------
Tick ==
    /\ Alive
    /\ now < MaxTime
    /\ now' = now + 1
    /\ UNCHANGED <<tableVars, capVars, flVars>>

Next ==
    \/ \E source, destination \in IPs : Receive(source, destination)
    \/ CaptureStep
    \/ FlushStep
    \/ Tick

(* The flush thread gets out of a bucket, and the capture thread takes its *)
(* next step when it can.  That a mail is ever sent is not assumed: tcpdump*)
(* ends when it has seen numPackets packets of the host.                   *)
Fairness ==
    /\ SF_vars(CaptureStep)
    /\ WF_vars((\E ip \in IPs : Erase(ip)) \/ Unlock)

Spec == Init /\ [][Next]_vars

FairSpec == Spec /\ Fairness

-----------------------------------------------------------------------------
TypeOK ==
    /\ addressStats \in [IPs -> Blocks \cup {None}]
    /\ store \in [Blocks -> [lastUpdate : Times, lastEmail : Times,
                             packets : [Directions -> Nat]]]
    /\ stats \in Blocks \cup {None}
    /\ warning \in BOOLEAN /\ signalled \in BOOLEAN
    /\ now \in Times /\ lastFlush \in Times /\ flTime \in Times
    /\ wake \in Nat
    /\ capPC \in {"idle", "lock"}
    /\ capPC = "lock" =>
          packet.ip \in IPs /\ packet.direction \in Directions
              /\ packet.time \in Times
    /\ flPC \in {"sleep", "next", "bucket", "mail", "end", "ended", "crashed"}
    /\ flBucket \in Buckets /\ flErase \subseteq IPs
    /\ received \in 0..MaxPackets
    /\ counted \in Nat /\ dropped \in Nat /\ read \in Nat
    /\ mailed \in [IPs -> Times]

(* Every packet of an internal address is in a counter, was read by a      *)
(* flush(), was dropped with a full table, or is being processed: none is  *)
(* lost to an eviction or counted twice, by whichever network it is.       *)
PacketsAccounted ==
    counted = read + dropped + (IF capPC = "lock" THEN 1 ELSE 0)
              + SumFunctionOnSet(Totals, IPs)

(* An address is evicted when it has been idle for the timeout, with no    *)
(* packet since it was found idle, and only with its counters read.        *)
OnlyIdleAddressesLeave ==
    [][\A ip \in IPs :
          addressStats[ip] # None /\ addressStats'[ip] = None =>
              /\ IdleAt(store[addressStats[ip]], flTime)
              /\ \A d \in Directions : Packets(ip, d) = 0]_vars

(* The rates are computed over a period that is zero only if a signal cut  *)
(* the sleep between two calls of flush() short, or if there is no sleep:  *)
(* sensor.cpp:158-162 takes a "flushInterval" of 0, and 0 for a word.      *)
CrashNeedsASignal == flPC = "crashed" => signalled \/ FlushInterval = 0

(* A packet's processing ends even if a mail is never sent: no bucket is   *)
(* locked while the flush thread is at its mails.                          *)
CaptureGetsOn == capPC = "lock" /\ Alive ~> capPC = "idle" \/ ~Alive

(* pps.conf.sample, "mailInterval": "send e-mail about an IP no more than  *)
(* once per this many seconds".                                            *)
MailsSpaced ==
    [][\A ip \in IPs :
          mailed[ip] # 0 /\ mailed'[ip] # mailed[ip] =>
              mailed'[ip] - mailed[ip] >= MailInterval]_vars

=============================================================================
