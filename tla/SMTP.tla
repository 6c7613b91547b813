--------------------------------- MODULE SMTP ---------------------------------
(***************************************************************************)
(* sensor/include/smtp.cpp: send(), and the callbacks by which libesmtp    *)
(* fetches the mail and shows what the server says.                        *)
(*                                                                         *)
(* The client is made once and sends one mail after the other: its callers *)
(* compose a mail in two streams, call send(), log a failure and empty the *)
(* streams (bt.cpp, pps.cpp).  They do so under its lock, which is in      *)
(* BT.tla, or from one thread only.                                        *)
(*                                                                         *)
(* The server answers in lines, of which only the first digit and the end  *)
(* are kept; "2" stands for "3" too.  They arrive in pieces, and the       *)
(* connection may break between any two bytes.  A mail is a sequence of    *)
(* line ends and other text, and does not begin with a line end.  Which    *)
(* words describe an error is left out.                                    *)
(***************************************************************************)
EXTENDS Naturals, Sequences, FiniteSetsExt

CONSTANTS
    Mails,          \* what is sent: records of a subject and a message
    _auth,          \* whether the configuration asks for authentication
    Recipients,     \* how many recipients it names
    MaxMails,       \* bound: calls of send()
    MaxLines,       \* bound: lines of the server per session
    MaxPiece        \* bound: bytes of it that arrive at once

ASSUME SMTPAssumption ==
    /\ _auth \in BOOLEAN
    /\ Recipients \in Nat /\ MaxMails \in Nat
    /\ MaxLines \in Nat /\ MaxPiece \in Nat
    /\ \A m \in Mails :
           /\ m.subject \in Seq(STRING) /\ m.message \in Seq(STRING)
           /\ m.message = <<>> \/ m.message[1] # "LF"

VARIABLES
    _subject, __message, \* the streams the callers write to
    ___message,     \* the mail as it goes over the wire
    messageStatus,  \* whether libesmtp has yet to fetch it
    _buffer,        \* what the server has said of an unfinished line
    smtpErrors,     \* how many lines of the server are errors
    sessions,       \* libesmtp's sessions that are not destroyed
    contexts,       \* and its authentication contexts
    pc, call,       \* where send() is, and which of the Calls is next
    result,         \* what it returned last
    mails,          \* calls of send() so far
    told,           \* external: what the server has said in this session
    given, ended,   \* external: what libesmtp has fetched, and whether all
    mail,           \* history: the mail being sent
    failed,         \* history: whether a call failed in this send()
    unsent,         \* history: calls of send() that returned false
    midLine         \* history: whether the last server was cut off in a line

streams == <<_subject, __message>>
dialogue == <<messageStatus, _buffer, smtpErrors, told, given, ended>>
library == <<sessions, contexts>>
clientVars == <<streams, ___message, dialogue, library, pc, call, result,
                mails, mail, failed, unsent, midLine>>

(* The calls before the dialogue, any of which may fail: three for session *)
(* and server, with authentication one that creates a context, three for   *)
(* the headers, one per recipient, two for the callbacks.                  *)
Calls == 3 + (IF _auth THEN 1 ELSE 0) + 3 + Recipients + 2
smtp_create_session == call = 1
auth_create_context == _auth /\ call = 4

ClientInit ==
    /\ _subject = <<>> /\ __message = <<>> /\ ___message = <<>>
    /\ messageStatus = "DONE" /\ _buffer = <<>> /\ smtpErrors = 0
    /\ sessions = 0 /\ contexts = 0
    /\ pc = "idle" /\ call = 1 /\ result = TRUE /\ mails = 0
    /\ told = <<>> /\ given = <<>> /\ ended = FALSE
    /\ mail = [subject |-> <<>>, message |-> <<>>]
    /\ failed = FALSE /\ unsent = 0 /\ midLine = FALSE

-----------------------------------------------------------------------------
(* send() up to the dialogue                                               *)

(* A caller writes a mail to the streams and calls send().                 *)
Compose(m) ==
    /\ pc = "idle" /\ mails < MaxMails
    /\ _subject' = _subject \o m.subject
    /\ __message' = __message \o m.message
    /\ smtpErrors' = 0
    /\ pc' = "calls" /\ call' = 1
    /\ mails' = mails + 1
    /\ mail' = m /\ failed' = FALSE
    /\ told' = <<>> /\ given' = <<>> /\ ended' = FALSE
    /\ UNCHANGED <<___message, messageStatus, _buffer, library, result,
                   unsent, midLine>>

Return(sent) ==
    /\ pc' = "returned"
    /\ result' = sent
    /\ unsent' = IF sent THEN unsent ELSE unsent + 1

CallSucceeds ==
    /\ pc = "calls" /\ call <= Calls
    /\ call' = call + 1
    /\ sessions' = IF smtp_create_session THEN sessions + 1 ELSE sessions
    /\ contexts' = IF auth_create_context THEN contexts + 1 ELSE contexts
    /\ UNCHANGED <<streams, ___message, dialogue, pc, result, mails, mail,
                   failed, unsent, midLine>>

(* send() returns at once, and destroys nothing.                           *)
CallFails ==
    /\ pc = "calls" /\ call <= Calls
    /\ Return(FALSE)
    /\ failed' = TRUE
    /\ UNCHANGED <<streams, ___message, dialogue, library, call, mails, mail,
                   midLine>>

(* Bare LFs become CR LF, one byte after the other.                        *)
OnWire(text, i) ==
    IF text[i] = "LF" /\ text[i - 1] # "CR" THEN <<"CR", "LF">>
    ELSE <<text[i]>>
WithCRs(text) ==
    LET wire[n \in 0..Len(text)] ==
            IF n = 0 THEN <<>> ELSE wire[n - 1] \o OnWire(text, n)
    IN  wire[Len(text)]

Header(subject) == <<"Subject:">> \o subject \o <<"CR", "LF", "CR", "LF">>

StartSession ==
    /\ pc = "calls" /\ call > Calls
    /\ ___message' = Header(_subject) \o WithCRs(__message)
    /\ messageStatus' = "MESSAGE"
    /\ pc' = "dialogue"
    /\ UNCHANGED <<streams, _buffer, smtpErrors, told, given, ended, library,
                   call, result, mails, mail, failed, unsent, midLine>>

-----------------------------------------------------------------------------
(* The dialogue of libesmtp with the server                                *)

(* A line of the server is a digit, CR and LF.                             *)
Digits == {"2", "5"}
IsDialogue(bytes) ==
    /\ Len(bytes) <= 3 * MaxLines
    /\ \A i \in DOMAIN bytes :
           /\ i % 3 = 1 => bytes[i] \in Digits
           /\ i % 3 = 2 => bytes[i] = "CR"
           /\ i % 3 = 0 => bytes[i] = "LF"

Pieces == UNION {[1..n -> Digits \cup {"CR", "LF"}] : n \in 1..MaxPiece}

(* The first digits of the lines that were said in full.                   *)
Answers == [k \in 1..(Len(told) \div 3) |-> told[3 * k - 2]]
Refused == \E k \in DOMAIN Answers : Answers[k] = "5"

(* The ends of the lines in what was read, and where lines begin.          *)
LineEnds(bytes) ==
    {i \in 2..Len(bytes) : bytes[i] = "LF" /\ bytes[i - 1] = "CR"}
LineBegins(bytes) ==
    {i \in DOMAIN bytes : /\ i = 1 \/ i - 1 \in LineEnds(bytes)
                          /\ \E e \in LineEnds(bytes) : e > i}
(* What is left when all the whole lines are taken out.                    *)
Unfinished(bytes) ==
    SubSeq(bytes, Max(LineEnds(bytes) \cup {0}) + 1, Len(bytes))
(* The whole lines that are errors, by their first bytes.                  *)
ErrorLines(bytes) == {i \in LineBegins(bytes) : bytes[i] # "2"}

(* A bug for the mutation run: one line is taken out at a time.            *)
monitorOneLine(bytes) ==
    /\ pc = "dialogue"
    /\ IsDialogue(told \o bytes)
    /\ told' = told \o bytes
    /\ LET read == _buffer \o bytes IN
       IF LineEnds(read) = {}
       THEN smtpErrors' = smtpErrors /\ _buffer' = read
       ELSE /\ smtpErrors' = IF read[1] = "2" THEN smtpErrors
                             ELSE smtpErrors + 1
            /\ _buffer' = SubSeq(read, Min(LineEnds(read)) + 1, Len(read))
    /\ UNCHANGED <<streams, ___message, messageStatus, given, ended, library,
                   pc, call, result, mails, mail, failed, unsent, midLine>>

(* The server has said something.  What the client writes is shown as      *)
(* well, and not looked at.                                                *)
monitorCallback(bytes) ==
    /\ pc = "dialogue"
    /\ IsDialogue(told \o bytes)
    /\ told' = told \o bytes
    /\ smtpErrors' = smtpErrors + Cardinality(ErrorLines(_buffer \o bytes))
    /\ _buffer' = Unfinished(_buffer \o bytes)
    /\ UNCHANGED <<streams, ___message, messageStatus, given, ended, library,
                   pc, call, result, mails, mail, failed, unsent, midLine>>

(* libesmtp asks for the mail, once and then until there is no more, when  *)
(* the server has greeted and refused nothing.  It begins by asking for    *)
(* the mail to be rewound (a length of NULL), which does nothing.          *)
messageCallback ==
    /\ pc = "dialogue" /\ ~ended
    /\ Answers # <<>> /\ ~Refused
    /\ IF messageStatus = "MESSAGE"
       THEN /\ messageStatus' = "DONE"
            /\ given' = given \o ___message
            /\ UNCHANGED ended
       ELSE ended' = TRUE /\ UNCHANGED <<messageStatus, given>>
    /\ UNCHANGED <<streams, ___message, _buffer, smtpErrors, told, library,
                   pc, call, result, mails, mail, failed, unsent, midLine>>

(* smtp_start_session() fails when the connection does.                    *)
SessionFails ==
    /\ pc = "dialogue"
    /\ Return(FALSE)
    /\ failed' = TRUE
    /\ UNCHANGED <<streams, ___message, dialogue, library, call, mails, mail,
                   midLine>>

(* It ends well when the server has said its last line, and the mail was   *)
(* taken or something was refused.                                         *)
SessionOver ==
    /\ pc = "dialogue"
    /\ Answers # <<>> /\ Len(told) % 3 = 0
    /\ ended \/ Refused

(* Lines that were errors make send() fail, and destroy nothing.           *)
SessionRefused ==
    /\ SessionOver /\ smtpErrors > 0
    /\ Return(FALSE)
    /\ UNCHANGED <<streams, ___message, dialogue, library, call, mails, mail,
                   failed, midLine>>

(* A bug for the mutation run: the session is not destroyed.               *)
SessionForgotten ==
    /\ SessionOver /\ smtpErrors = 0
    /\ Return(TRUE)
    /\ contexts' = IF _auth THEN contexts - 1 ELSE contexts
    /\ UNCHANGED <<streams, ___message, dialogue, sessions, call, mails, mail,
                   failed, midLine>>

(* A session without errors is destroyed, and its context with it.         *)
SessionSucceeds ==
    /\ SessionOver /\ smtpErrors = 0
    /\ Return(TRUE)
    /\ sessions' = sessions - 1
    /\ contexts' = IF _auth THEN contexts - 1 ELSE contexts
    /\ UNCHANGED <<streams, ___message, dialogue, call, mails, mail, failed,
                   midLine>>

-----------------------------------------------------------------------------

(* The caller empties the streams, whatever send() returned.               *)
Clear ==
    /\ pc = "returned"
    /\ _subject' = <<>> /\ __message' = <<>>
    /\ pc' = "idle"
    /\ midLine' = IF told = <<>> THEN midLine ELSE Len(told) % 3 # 0
    /\ UNCHANGED <<___message, dialogue, library, call, result, mails, mail,
                   failed, unsent>>

ClientNext ==
    \/ \E m \in Mails : Compose(m)
    \/ CallSucceeds \/ CallFails \/ StartSession
    \/ \E bytes \in Pieces : monitorCallback(bytes)
    \/ messageCallback
    \/ SessionFails \/ SessionRefused \/ SessionSucceeds
    \/ Clear

ClientSpec == ClientInit /\ [][ClientNext]_clientVars

-----------------------------------------------------------------------------
(* Properties                                                              *)

BareLFs(text) ==
    {i \in DOMAIN text : text[i] = "LF" /\ (i = 1 \/ text[i - 1] # "CR")}

(* The wire form of a mail: a header and the caller's text, in which a CR  *)
(* precedes each line end that had none, and nothing else is added: byte i *)
(* is as many places further on as there were bare LFs up to it.           *)
IsWireForm(text, m) ==
    LET body == SubSeq(text, Len(Header(m.subject)) + 1, Len(text))
        bare == BareLFs(m.message)
    IN  /\ text = Header(m.subject) \o body
        /\ BareLFs(body) = {}
        /\ Len(body) = Len(m.message) + Cardinality(bare)
        /\ \A i \in DOMAIN m.message :
               body[i + Cardinality({j \in bare : j <= i})] = m.message[i]

(* What send() returns is about this mail.  If it is true, the server was  *)
(* given this mail, all of it and nothing of an earlier one, and refused   *)
(* nothing (smtp.cpp:152-160; the callers empty the streams for it,        *)
(* bt.cpp:551-552).  If it is false, a call failed or this mail was        *)
(* refused: what became of an earlier one plays no part (smtp.cpp:75).     *)
(* The exception is a session after one that was cut off in the middle of  *)
(* a line: that part of a line is still in _buffer (smtp.cpp:195), and is  *)
(* put before the first line of the next server.                           *)
ResultIsOfThisMail ==
    pc = "returned" /\ ~midLine =>
        IF result THEN ~Refused /\ ended /\ IsWireForm(given, mail)
        ELSE failed \/ Refused

(* A session and a context of libesmtp outlive their send() only if it     *)
(* returned false (smtp.cpp:86-156 against 157-158): each is one of them.  *)
LeaksNeedAFailure ==
    pc = "idle" => sessions <= unsent /\ contexts <= sessions
=============================================================================
