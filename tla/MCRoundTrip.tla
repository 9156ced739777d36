------------------------------ MODULE MCRoundTrip ------------------------------
(***************************************************************************)
(* RoundTrip with two threads in the server and one cast at a time: a TLS  *)
(* client next to one that opens a tunnel, two TLS clients, a tunnel in a  *)
(* tunnel, and a blocking caller with a retry.  The casts of the second    *)
(* run: a caller with a retry next to a TLS client whose generation may    *)
(* panic, and one that calls twice.  An attempt whose line is not in the   *)
(* cast is refused.                                                        *)
(***************************************************************************)
EXTENDS RoundTrip

CONSTANTS l1, l2, l3, l4, c1, c2, c3, u1, u2, t1, d, here, there, zero

MCParts == <<1, 2>>
MCLines == [t \in Threads |-> SubSeq(<<l1, l2, l3, l4>>, 1, MaxJoins * (Retries + 1))]
MCCasts == {{c1, c2, u1}, {c1, c3}, {c2, u1, u2}, {l1, l2}}
MCCallParts == <<1>>
MCCallCasts == {{l1, l2, c3}, {l1, l3}}
MCCallServerNames == [s \in Streams |-> {d}]
MCSpeaks == [s \in Streams |-> IF s \in {c1, c3, u1, u2} THEN "tls" ELSE "http"]
MCForms ==
    [s \in Streams |-> CASE s = c1 -> {} [] s = c2 -> {"connect", "no host"} [] s = c3 -> {}
                         [] s = u1 -> {"origin", "connect"} [] s = u2 -> {"absolute", "broken off"}
                         [] OTHER -> {"origin"}]
MCServerNames == [s \in Streams |-> {d, NoName}]
===============================================================================
