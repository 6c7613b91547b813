----------------------------- MODULE MCHTTPParser -----------------------------
(* HTTPStream.tla with short words: they share the letters that the words *)
(* of the source share.  Lengths wrap at 17: the hexadecimal 20 is -2.    *)
EXTENDS HTTPStream, TLC
MCLetters == {"c", "o", "n", "t", "h", "p", "u", "k", "g", "e"}
MCDigits == {"0", "2"}
MCValue == "0" :> 0 @@ "2" :> 2 @@ "c" :> 12 @@ "e" :> 14 @@ "high" :> 0
MCSpelling ==
    "HTTP/" :> <<"h", "t", "/">>
    @@ "GET" :> <<"g">> @@ "HEAD" :> <<"h", "e">>
    @@ "CONNECT" :> <<"c", "o", "n">> @@ "COPY" :> <<"c", "o", "p">>
    @@ "CHECKOUT" :> <<"c", "h", "e">>
    @@ "connection" :> <<"c", "o", "n", "n", "e">>
    @@ "content-length" :> <<"c", "o", "n", "t", "e">>
    @@ "proxy-connection" :> <<"p", "n">>
    @@ "transfer-encoding" :> <<"t", "e">>
    @@ "upgrade" :> <<"u", "p">>
    @@ "chunked" :> <<"c", "h">>
    @@ "keep-alive" :> <<"k", "e">>
    @@ "close" :> <<"c", "o">>
=============================================================================
