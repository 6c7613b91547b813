------------------------------- MODULE MCProcess -------------------------------
(* Process.tla on configurations like the samples, and on what may be      *)
(* wrong with them.                                                        *)
EXTENDS Process

Is(option, words) == <<option, "=", "\"">> \o words \o <<"\"">>

Base == <<Is("logging", <<"on">>), Is("log", <<"sensor.log">>),
          Is("interface", <<"em0">>), Is("flushInterval", <<"10">>)>>
Loading(words) == Base \o <<Is("modules", words)>>

MCModuleCounts == 0..3

MCSensorFiles ==
    {Loading(<<"http", " ", "httpLog">>), Loading(<<"http">>),
     Loading(<<"http", " ", "http", " ", "httpLog">>),
     Loading(<<"pps", " ", "pps">>), Loading(<<" ", "pjl", " ", " ", "pps">>),
     Loading(<<"unknown">>), Base, Tail(Loading(<<"pps">>)),
     <<<<"logging">>>>, <<Is("logging", <<"maybe">>)>>}

On(words) == Is("dependencies", words)
Filter(word) == Is("filter", <<word>>)

MCModuleFiles ==
    [name \in {"http", "httpLog", "bt", "pjl", "pps"} |->
        CASE name = "http" -> {<<On(<<"packet">>), Filter("tcp")>>}
          [] name = "httpLog" ->
                 {<<On(<<"http">>)>>, <<On(<<"httpLog">>)>>, <<On(<<"bt">>)>>,
                  <<On(<<"packet">>)>>, <<>>}
          [] name = "bt" ->
                 {<<Filter("udp"), On(<<"packet", " ", "http">>)>>,
                  <<Filter("udp"), On(<<"http", " ", "http">>)>>}
          [] name = "pjl" ->
                 {<<On(<<"packet">>), Filter("tcp")>>, <<On(<<"http">>)>>}
          [] name = "pps" -> {<<On(<<"packet">>), Filter("ip")>>}]

MCFilterAccepts(filter, frame) ==
    filter = <<"ip">> \/ filter = <<frame.protocol>>

Of(protocol, fragmented, header, size) ==
    [protocol |-> protocol, fragmented |-> fragmented, header |-> header,
     size |-> size]

MCFrames ==
    {Of("tcp", FALSE, 2, 3), Of("tcp", TRUE, 2, -1), Of("other", FALSE, 0, 2)}

=============================================================================
