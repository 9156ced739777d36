------------------------------ MODULE Assertions ------------------------------
(***************************************************************************)
(* Mock::assert_calls_async (src/src/api/mock.rs): a test compares the     *)
(* counter of a mock with the number of calls it expects and, if there are *)
(* too few, asks the server for the request of the history that comes      *)
(* closest (Manager::verify) and fails with a comparison (api/output.rs).  *)
(* The two questions are separate critical sections: requests are served,  *)
(* and the server is reset, in between.                                    *)
(*                                                                         *)
(* The distance of a request from a requirement, the sum over all          *)
(* matchers, is a table here.                                              *)
(***************************************************************************)
EXTENDS StateManager, Selections

CONSTANTS
    Testers,      \* threads that assert
    Distance,     \* requirement -> request -> distance
    MaxExpected,  \* bound of the model: calls a test expects
    Unasked       \* a requirement that stands for none

ASSUME AssertionAssumption ==
    /\ Distance \in [Requirements -> [Requests -> Nat]]
    /\ Unasked \notin Requirements
    /\ MaxExpected \in Nat

VARIABLES
    asked,        \* tester -> requirement of the mock it asks verify about, or asked last
    verdict,      \* tester -> how its last assertion ended
    shown,        \* tester -> the request it was shown: none or one
    seen          \* auxiliary: tester -> the history verify looked at

assertVars == <<asked, verdict, shown, seen>>

AssertInit ==
    /\ Init
    /\ asked = [t \in Testers |-> Unasked]
    /\ verdict = [t \in Testers |-> "none"]
    /\ shown = [t \in Testers |-> {}]
    /\ seen = [t \in Testers |-> <<>>]

Conclude(t, how) == verdict' = [verdict EXCEPT ![t] = how]

\* fetch_mock, and what its counter says.  The mock may have been deleted.
AssertCalls(t, id, hits) ==
    /\ verdict[t] # "verifying"
    /\ \/ id \notin DOMAIN mocks /\ Conclude(t, "no mock") /\ UNCHANGED asked
       \/ /\ id \in DOMAIN mocks
          /\ \/ mocks[id].calls = hits /\ Conclude(t, "passed") /\ UNCHANGED asked
             \/ mocks[id].calls > hits /\ Conclude(t, "too many") /\ UNCHANGED asked
             \/ /\ mocks[id].calls < hits /\ Conclude(t, "verifying")
                /\ asked' = [asked EXCEPT ![t] = mocks[id].requirements]
    /\ shown' = [shown EXCEPT ![t] = {}]
    /\ UNCHANGED <<vars, seen>>

\* verify: positions count in the list of the requests that do not match.
NonMatching(rr) == Selected(history, Requests \ Matches[rr])

\* get_min_distance_requests: the positions with the least distance.
BestMatches(rr, list) ==
    LET distance == [n \in DOMAIN list |-> Distance[rr][list[n]]]
    IN  {n \in DOMAIN list : \A m \in DOMAIN list : distance[n] <= distance[m]}

\* Their first, and the request at that position, if there is one.
InWholeHistory(rr) ==         \* wrong: the position taken in the whole history
    LET best == BestMatches(rr, NonMatching(rr))
    IN  {history[n] : n \in {m \in best : \A k \in best : m <= k}}

Closest(rr) ==
    LET best == BestMatches(rr, NonMatching(rr))
    IN  {NonMatching(rr)[n] : n \in {m \in best : \A k \in best : m <= k}}

\* fail_with: without a closest request, "No request has been received".
Verify(t) ==
    /\ verdict[t] = "verifying"
    /\ shown' = [shown EXCEPT ![t] = Closest(asked[t])]
    /\ Conclude(t, IF Closest(asked[t]) = {} THEN "no request" ELSE "too few")
    /\ seen' = [seen EXCEPT ![t] = history]
    /\ UNCHANGED <<vars, asked>>

\* What other tests and clients do to the server.
Background ==
    /\ \/ MockStep
       \/ \E c \in Callers : CallerStep(c)
    /\ UNCHANGED assertVars

AssertNext ==
    \/ \E t \in Testers :
          \/ \E id \in 0..(MaxMocks - 1), hits \in 0..MaxExpected : AssertCalls(t, id, hits)
          \/ Verify(t)
    \/ Background

AssertSpec == AssertInit /\ [][AssertNext]_<<vars, assertVars>>
-------------------------------------------------------------------------------
\* The request shown is one that verify found in the history, that the mock does
\* not accept, and than which no other such request in the history is nearer; of
\* several it is the one received first.  A test is told that there was no request
\* only if the mock accepts all that verify found.
ShownIsNearest ==
    \A t \in Testers :
        /\ verdict[t] = "too few" =>
              \E n \in DOMAIN seen[t] :
                  /\ shown[t] = {seen[t][n]} /\ seen[t][n] \notin Matches[asked[t]]
                  /\ \A m \in DOMAIN seen[t] :
                        seen[t][m] \notin Matches[asked[t]] =>
                           \/ Distance[asked[t]][seen[t][n]] < Distance[asked[t]][seen[t][m]]
                           \/ /\ Distance[asked[t]][seen[t][n]] = Distance[asked[t]][seen[t][m]]
                              /\ n <= m
        /\ verdict[t] = "no request" =>
              \A n \in DOMAIN seen[t] : seen[t][n] \in Matches[asked[t]]

===============================================================================
