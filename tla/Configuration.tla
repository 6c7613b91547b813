---------------------------- MODULE Configuration ----------------------------
(***************************************************************************)
(* sensor/include/configuration.cpp: what a configuration file says, and   *)
(* explode() of shared/include/string.cpp.                                 *)
(*                                                                         *)
(* A line is a sequence of symbols: "=", the quote, the space, a number or *)
(* a word.                                                                 *)
(***************************************************************************)
EXTENDS Naturals, Sequences, FiniteSets

(* Of some positions, the first.                                           *)
First(positions) == CHOOSE i \in positions : \A j \in positions : i <= j

Quote == "\""
Where(text, symbol) == {i \in DOMAIN text : text[i] = symbol}

(* Up to the first "=", or all of the line.                                *)
Name(line) ==
    IF Where(line, "=") = {} THEN line
    ELSE SubSeq(line, 1, First(Where(line, "=")) - 1)

(* What is between the first two quotes after the first "=".  Without a    *)
(* second one the first stays; without "=" it is looked for in all of it.  *)
Value(line) ==
    LET rest == IF Where(line, "=") = {} THEN line
                ELSE SubSeq(line, First(Where(line, "=")) + 1, Len(line))
        quotes == Where(rest, Quote)
        opening == First(quotes)
    IN  IF Cardinality(quotes) < 2 THEN rest
        ELSE SubSeq(rest, opening + 1, First(quotes \ {opening}) - 1)

(* initialize(): of each name the values, by the lines that give them.     *)
Options(lines) ==
    [name \in {Name(lines[i]) : i \in DOMAIN lines} |->
        [i \in {j \in DOMAIN lines : Name(lines[j]) = name} |->
            Value(lines[i])]]

(* The first value of a name, or nothing.                                  *)
getString(options, name) ==
    IF <<name>> \in DOMAIN options
    THEN options[<<name>>][First(DOMAIN options[<<name>>])]
    ELSE <<>>

(* explode(): the words of a string.  Of an empty string, and of one that  *)
(* begins with a space, it reads the character before the first, so that   *)
(* an empty word may precede them.                                         *)
Words(string) ==
    LET words == {i \in DOMAIN string : string[i] # " "}
        Nth(n) == CHOOSE i \in words : Cardinality({j \in words : j <= i}) = n
    IN  [n \in 1..Cardinality(words) |-> string[Nth(n)]]
Defined(string) == string # <<>> /\ string[1] # " "

Exploded(string) ==
    {Words(string)}
        \cup (IF Defined(string) THEN {} ELSE {<<"">> \o Words(string)})

=============================================================================
