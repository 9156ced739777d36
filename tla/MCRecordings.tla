------------------------------ MODULE MCRecordings ------------------------------
(***************************************************************************)
(* Two calls of every pair of methods, and two exchanges out of ten        *)
(* requests.  "ax", "ay" and "bx" are two headers of the name a and one of *)
(* the name b, and as query parameters likewise.                           *)
(***************************************************************************)
EXTENDS Recordings

MCNameOf == [t \in Texts |-> CASE t \in {"ax", "ay"} -> "a" [] t = "bx" -> "b" [] OTHER -> t]
MCRespond ==
    [f1 |-> [status |-> <<"ok">>, headers |-> <<"ax", "bx", "ay">>, body |-> <<"b0">>],
     f2 |-> [status |-> <<>>, headers |-> <<>>, body |-> <<"ax">>]]
MCDefault == [scheme \in Texts |-> IF scheme = "https" THEN "443" ELSE "80"]
MCUpper == [t \in Texts |-> IF t = "get" THEN "GET" ELSE t]
MCLower == [t \in Texts |-> CASE t = "GET" -> "get" [] t = "Localhost" -> "localhost" [] OTHER -> t]
MCRecordHeaders == <<"a">>

Request(method, query, headers, body) ==
    [proxied |-> FALSE, scheme |-> "http", host |-> "local", port |-> <<"80">>, method |-> method,
     path |-> "/", query |-> query, headers |-> headers, body |-> body]
Proxied(host, port) ==
    [Request("GET", <<>>, <<>>, "empty") EXCEPT !.proxied = TRUE, !.host = host, !.port = port]

MCRequests ==
    {Request("GET", <<>>, <<>>, "empty"),
     Request("GET", <<"ax">>, <<>>, "empty"),
     Request("POST", <<>>, <<"ax", "bx", "ay">>, "empty"),
     Request("POST", <<>>, <<"ay">>, "b0"),
     Request("LINK", <<>>, <<>>, "empty"),
     Request("GET", <<>>, <<>>, "ax"),
     Request("get", <<>>, <<>>, "empty"),
     Proxied("Localhost", <<"80">>), Proxied("127.0.0.1", <<>>), Proxied("literal", <<>>)}
=================================================================================
