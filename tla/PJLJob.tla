------------------------------- MODULE PJLJob -------------------------------
(***************************************************************************)
(* sensor/modules/pjl/pjl.cpp, processPacket(), parse() and flush(): what  *)
(* a session learns of a print job from the payloads of its packets.       *)
(*                                                                         *)
(* Text is a sequence of symbols: the newline, the quote, the space, a     *)
(* keyword the code searches for, or anything else.  A packet may end      *)
(* between any two of them.  A "%%Title:" that ends its line, whose title  *)
(* substr() looks for beyond the end, is not among the jobs: the exception *)
(* ends the process.                                                       *)
(***************************************************************************)
EXTENDS Naturals, SequencesExt

NewJob == [line |-> <<>>, computer |-> <<>>, user |-> <<>>, title |-> <<>>,
           pages |-> 0, size |-> 0]

Positions(text, symbol) == {i \in DOMAIN text : text[i] = symbol}

(* Where the line that ends at e begins, after the newline before it.      *)
LineStart(text, e) == Max({0} \cup {d \in Positions(text, "\n") : d < e})

Line(text, e) == SubSeq(text, LineStart(text, e) + 1, e - 1)

(* What follows @PJL SET name=" up to the last quote of the line.  If that *)
(* is the opening one, the length wraps, and it is all that follows.       *)
variable(line, name) ==
    LET search == <<"@PJL SET ", name, "=", "\"">>
        end == Max(Positions(line, "\""))
    IN  IF ~IsPrefix(search, line) THEN <<>>
        ELSE IF end = Len(search) THEN SubSeq(line, Len(search) + 1, Len(line))
        ELSE SubSeq(line, Len(search) + 1, end - 1)

Begins(line, keyword) == line # <<>> /\ line[1] = keyword

(* One line.  The title begins at the tenth character, after the space.    *)
parse(job) ==
    LET computer == variable(job.line, "PCNAME")
        user == variable(job.line, "USERNAME")
    IN  IF job.computer = <<>> /\ computer # <<>>
        THEN [job EXCEPT !.computer = computer]
        ELSE IF job.user = <<>> /\ user # <<>>
             THEN [job EXCEPT !.user = user]
        ELSE IF job.title = <<>> /\ Begins(job.line, "%%Title:")
             THEN [job EXCEPT !.title = SubSeq(job.line, 3, Len(job.line))]
        ELSE IF Begins(job.line, "%%Page:")
             THEN [job EXCEPT !.pages = (@ + 1) % 65536]
        ELSE job

(* The line so far is completed by text, parsed and cleared.               *)
LineEnds(job, text) ==
    [parse([job EXCEPT !.line = @ \o text]) EXCEPT !.line = <<>>]

(* A packet: each newline ends a line, the rest begins the next.           *)
processPayload(job, payload) ==
    LET n == Len(payload)
        after[e \in {0} \cup Positions(payload, "\n")] ==
            IF e = 0 THEN [job EXCEPT !.size = @ + n]
            ELSE LineEnds(after[LineStart(payload, e)], Line(payload, e))
    IN  [after[LineStart(payload, n + 1)] EXCEPT
            !.line = @ \o Line(payload, n + 1)]

(* The session after a sequence of packets.                                *)
Received(packets) ==
    LET after[i \in 0..Len(packets)] ==
            IF i = 0 THEN NewJob ELSE processPayload(after[i - 1], packets[i])
    IN  after[Len(packets)]

(* flush(), of a session that is idle: a line without its end is the last. *)
Assembled(packets) == LineEnds(Received(packets), <<>>)

-----------------------------------------------------------------------------
(* The ways text may be cut into at most three packets.                    *)
Packets(text) ==
    {<<SubSeq(text, 1, c[1]), SubSeq(text, c[1] + 1, c[2]),
       SubSeq(text, c[2] + 1, Len(text))>> :
         c \in {c \in (0..Len(text)) \X (0..Len(text)) : c[1] <= c[2]}}

(* The ends of the lines of a text; the last line may lack its newline.    *)
LineEnd(text) == Positions(text, "\n") \cup {Len(text) + 1}

(* The first value a line gives, if any.                                   *)
FirstGiven(text, Value(_)) ==
    LET given == {e \in LineEnd(text) : Value(Line(text, e)) # <<>>}
    IN  IF given = {} THEN <<>> ELSE Value(Line(text, Min(given)))

titleOf(line) ==
    IF Begins(line, "%%Title:") THEN SubSeq(line, 3, Len(line)) ELSE <<>>

(* What a job says of itself, whatever packets it came in.                 *)
Said(text) ==
    [computer |-> FirstGiven(text, LAMBDA l : variable(l, "PCNAME")),
     user |-> FirstGiven(text, LAMBDA l : variable(l, "USERNAME")),
     title |-> FirstGiven(text, titleOf),
     pages |-> Cardinality({e \in LineEnd(text) :
                               Begins(Line(text, e), "%%Page:")}),
     size |-> Len(text)]

=============================================================================
