----------------------------- MODULE MCBerkeleyDB -----------------------------
(* Archive.tla on three hours; in the last one the clocks are put back, so *)
(* that it has the name of the hour before.                                *)
EXTENDS Archive, TLC
CONSTANTS x, y
MCFiles == {x, y}
MCFile == 0 :> x @@ 1 :> y @@ 2 :> y
MCFaults == FallibleCalls

MCMACs == {"c", "d", "s"}
MCCharacters ==
    {"GET", "POST", "/", "a", "q", "f", "1.0", "1.1", "200", "Host", "h", "i",
     "Empty", "Server", "s", "@PJL SET ", "PCNAME", "USERNAME", "=", "\"", "b",
     "u", "%%Page:", "%%Title:", " ", "n", "t", "v", "\n"}

Get == [type |-> REQUEST, time |-> <<1, 5>>,
        message |-> <<<<"GET">>, <<"/", "a">>, <<>>, <<>>, <<"1.1">>>>,
        headers |-> <<<<<<"Host">>, <<"h", "i">>>>, <<<<"Empty">>, <<>>>>>>]
Post == [type |-> REQUEST, time |-> <<2, 0>>,
         message |-> <<<<"POST">>, <<"/">>, <<"q">>, <<"f">>, <<"1.0">>>>,
         headers |-> <<>>]
Ok == [type |-> RESPONSE, time |-> <<2, 7>>,
       message |-> <<<<"1.1">>, <<"200">>>>,
       headers |-> <<<<<<"Server">>, <<"s">>>>>>]

From(mac, ip, port) ==
    [clientMAC |-> mac, serverMAC |-> "s", clientIP |-> ip, serverIP |-> 16,
     clientPort |-> port, serverPort |-> 80]

MCHTTPSessions ==
    <<[requests |-> <<Get, Post>>, responses |-> <<Ok>>] @@ From("c", 8, 1024),
      [requests |-> <<>>, responses |-> <<Ok, Ok>>] @@ From("d", 9, 1025),
      [requests |-> <<Post>>, responses |-> <<>>] @@ From("c", 10, 1025)>>

Set(name, value) == <<"@PJL SET ", name, "=", "\"", value, "\"", "\n">>
Page == <<"%%Page:", " ", "n", "\n">>
Job(text, sec) == [text |-> text, time |-> <<sec, 3>>]

MCJobs ==
    <<Job(Set("PCNAME", "a") \o Page \o Set("PCNAME", "b") \o Page, 1)
          @@ From("c", 8, 9100),
      Job(<<"%%Title:", " ", "t", "\n", "\n">> \o Set("USERNAME", "u")
          \o <<"%%Title:", " ", "v">>, 2) @@ From("d", 9, 9100),
      Job(<<"@PJL SET ", "PCNAME", "=", "\"", "a", "\n">> \o Page
          \o <<"%%Page:">>, 3) @@ From("c", 10, 9100)>>

O(name) == [option |-> name]
X == [file |-> x]
Y == [file |-> y]

(* Each command of dumpHTTP, and what it asks for.                         *)
Asked ==
    {<<<<O("req"), O("cP"), [port |-> 1024], O("cP"), [port |-> 1026], X, Y>>,
       {MCHTTPSessions[1]} \X {Get, Post}>>,
     <<<<O("res"), O("cI"), [network |-> <<8, 31>>], O("sE"), [mac |-> "s"],
         Y, X>>,
       {MCHTTPSessions[1], MCHTTPSessions[2]} \X {Ok}>>,
     <<<<O("rM"), [regex |-> {<<"POST">>}], O("q"), [regex |-> {<<"q">>}],
         O("sI"), [network |-> <<16, 32>>], O("sP"), [port |-> 80], X, X>>,
       {<<MCHTTPSessions[r], m>> : r \in 1..3, m \in {Post, Ok}}>>,
     <<<<O("cE"), [mac |-> "d"], O("p"), [regex |-> {}],
         O("f"), [regex |-> {}], Y>>,
       {MCHTTPSessions[2]} \X {Ok}>>,
     <<<<O("req"), O("res"), X>>, {}>>,
     <<<<O("cP")>>, {}>>}

MCCommands ==
    {<<"dumpHTTP", a[1]>> : a \in Asked}
        \cup {<<"dumpPJL", <<X, [file |-> "none"], Y>>>>,
              <<"countPJL", <<Y, X>>>>}
MCMeaning == [argument \in {a[1] : a \in Asked} |->
                 (CHOOSE a \in Asked : a[1] = argument)[2]]
MCDeletions == {<<x, <<1>>>>, <<y, <<2, 1>>>>}
MCReaderFaults == {"c_close", "open", "regcomp", "access", "c_get"}
=============================================================================
