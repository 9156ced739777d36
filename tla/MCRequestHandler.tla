--------------------------- MODULE MCRequestHandler ---------------------------
(***************************************************************************)
(* RequestHandler on small instances: one requirement that accepts every   *)
(* request and one that accepts the first only.                            *)
(***************************************************************************)
EXTENDS RequestHandler, TLC

CONSTANTS q1, q2, q3, any, one, ok, opaque

MCMatches == any :> {q1, q2} @@ one :> {q1}
MCResponseOf == any :> ok @@ one :> Unbuildable
NoStaticMocks == <<>>
OneStaticMock == <<one>>

TaskSymmetry == Permutations(Tasks)
===============================================================================
