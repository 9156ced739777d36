----------------------------- MODULE MCServerPool -----------------------------
(***************************************************************************)
(* ServerPool with two tests, local servers and one remote server.       *)
(***************************************************************************)
EXTENDS ServerPool

CONSTANTS t1, t2

Mixed == [t \in Tests |-> IF t = t1 THEN <<"start", "connect">> ELSE <<"connect", "start">>]
StartOne == [t \in Tests |-> <<"start">>]
===============================================================================
