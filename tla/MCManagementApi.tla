---------------------------- MODULE MCManagementApi ----------------------------
(***************************************************************************)
(* ManagementApi with one caller in the server's process and one that      *)
(* connects to it.  Requirement truth has an is_true function, lie an      *)
(* is_false function: in JSON it is plain.  Bad asks for a body on GET.    *)
(***************************************************************************)
EXTENDS ManagementApi, TLC

CONSTANTS near, far, plain, lie, truth, bad

MCMatches == [rr \in Requirements |-> {}]
MCWireForm == [rr \in Requirements |-> IF rr = lie THEN plain ELSE rr]
MCFiles == {<<plain, lie>>, <<plain, Malformed>>}
NoStaticMocks == <<>>

\* The kinds each caller works with.
MCUses == near :> {"mock", "proxy", "recording"} @@ far :> {"mock", "forwarding"}
FarRecords == near :> {"proxy"} @@ far :> {"recording"}
===============================================================================
