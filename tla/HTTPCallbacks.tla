----------------------------- MODULE HTTPCallbacks -----------------------------
(***************************************************************************)
(* The callbacks of sensor/modules/http/http.cpp, with which the HTTP      *)
(* parser assembles the messages of a session, as functions of the session *)
(* x and the packet's time t.  A message's strings are the set of those it *)
(* has; of its headers the number is kept.  HTTP.tla puts them under the   *)
(* threads of the module, HTTPStream.tla under the parser.                 *)
(***************************************************************************)
LOCAL INSTANCE Integers
LOCAL INSTANCE Sequences

Sides == {"client", "server"}

Message(t) == [time |-> t, strings |-> {}, statuses |-> 0, headers |-> 0]

NewSession(t) ==
    [time |-> t, parsers |-> <<"start", "start">>,
     requestState |-> "none", responseState |-> "none",
     requests |-> <<>>, responses |-> <<>>]

NewRequest(x, t)  == [x EXCEPT !.requests = Append(@, Message(t))]
NewResponse(x, t) == [x EXCEPT !.responses = Append(@, Message(t))]

Set(x, string) == [x EXCEPT !.requests[Len(x.requests)].strings =
                              @ \cup {string}]

url(x, t) ==
    LET y == IF x.requestState # "path" THEN NewRequest(x, t) ELSE x
    IN  [Set(y, "method") EXCEPT !.requestState = "url"]

path(x, t) ==
    LET y == IF x.requestState # "url" THEN NewRequest(x, t) ELSE x
    IN  [Set(y, "path") EXCEPT !.requestState = "path"]

queryString(x) == Set(x, "queryString")
fragment(x)    == Set(x, "fragment")

(* A bug for the mutation run: every part is a header of its own.          *)
headerFieldParts(x, side, t) ==
    IF side = "client"
    THEN [x EXCEPT !.requests[Len(x.requests)].headers = @ + 1,
                   !.requestState = "field"]
    ELSE LET y == IF x.responseState \notin {"field", "value"}
                  THEN NewResponse(x, t) ELSE x
         IN  [y EXCEPT !.responses[Len(y.responses)].headers = @ + 1,
                       !.responseState = "field"]

(* Part of a name continues the name before it only after another part.    *)
headerField(x, side, t) ==
    IF side = "client"
    THEN [x EXCEPT !.requests[Len(x.requests)].headers =
                       IF x.requestState = "field" THEN @ ELSE @ + 1,
                   !.requestState = "field"]
    ELSE LET y == IF x.responseState \notin {"field", "value"}
                  THEN NewResponse(x, t) ELSE x
         IN  [y EXCEPT !.responses[Len(y.responses)].headers =
                           IF y.responseState = "field" THEN @ ELSE @ + 1,
                       !.responseState = "field"]

headerValue(x, side) ==
    IF side = "client" THEN [x EXCEPT !.requestState = "value"]
                       ELSE [x EXCEPT !.responseState = "value"]

(* http_should_keep_alive() decides whether a response's state is reset.   *)
headersComplete(x, side, t, keepAlive) ==
    IF side = "client"
    THEN [Set(x, "version") EXCEPT !.requestState = "complete"]
    ELSE LET y == IF x.responseState # "value" THEN NewResponse(x, t) ELSE x
         IN  [y EXCEPT !.responses[Len(y.responses)].statuses = @ + 1,
                       !.responseState =
                           IF keepAlive THEN "complete" ELSE @]

(* The callbacks the module registers.                                     *)
Callback(x, call, side, t) ==
    CASE call = "url"         -> url(x, t)
      [] call = "path"        -> path(x, t)
      [] call = "queryString" -> queryString(x)
      [] call = "fragment"    -> fragment(x)
      [] call = "field"       -> headerField(x, side, t)
      [] call = "value"       -> headerValue(x, side)
      [] call = "complete"    -> headersComplete(x, side, t, TRUE)
      [] call = "closing"     -> headersComplete(x, side, t, FALSE)
      [] OTHER                -> x
=============================================================================
