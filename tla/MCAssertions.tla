----------------------------- MODULE MCAssertions -----------------------------
(***************************************************************************)
(* Assertions, and the mocks and the history of StateManager below them:   *)
(* three requests; a requirement that accepts two of them, and two that    *)
(* accept one, one of which is equally far from the others; a static mock, *)
(* which shadows some mocks and not others, as does one that is played     *)
(* back.                                                                   *)
(***************************************************************************)
EXTENDS Assertions

CONSTANTS q1, q2, q3, any, one, two

MCMatches == [rr \in Requirements |-> IF rr = any THEN {q1, q2} ELSE {q1}]
MCDistance ==
    [rr \in Requirements |->
        [q \in Requests |-> IF q \in MCMatches[rr] THEN 0 ELSE IF rr = two /\ q = q2 THEN 2 ELSE 1]]
MCStaticMocks == <<one>>
MCFiles == {<<any, one>>}
===============================================================================
