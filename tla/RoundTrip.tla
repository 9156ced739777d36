------------------------------- MODULE RoundTrip -------------------------------
(***************************************************************************)
(* The blocking client API over the transport: threads that call a remote  *)
(* mock server (api/adapter/remote.rs through common/http.rs) wait in Join *)
(* for attempts that are requests on connections of module Connections,    *)
(* next to other clients of the server.  An attempt succeeds when its      *)
(* answer has come, and fails with an answer that reports an error, when   *)
(* the connection breaks, or when the server no longer listens.            *)
(***************************************************************************)
EXTENDS Connections, Blocking

CONSTANT Lines    \* thread -> the connections of its attempts, join by join, one each

LineNumbers == 1..(MaxJoins * (Retries + 1))
ASSUME LineAssumption == Lines \in [Threads -> [LineNumbers -> Streams \ Tunnels]]

roundTripVars == <<transportVars, joinVars>>

Line(t) == Lines[t][(joins[t] - 1) * (Retries + 1) + attempt[t]]
NextLine(t) == Lines[t][joins[t] * (Retries + 1) + 1]
Attempting(t) == pc[t] # "outside" /\ awaits[t] = "attempt" /\ event[t] = "none"
CallLines == {Lines[t][n] : t \in Threads, n \in LineNumbers}

RoundTripInit == ConnInit /\ JoinInit

\* What the clients do: those of the blocking API dial when an attempt begins, and
\* send one plain request.
OpenLine(s) ==
    \/ Dial(s) /\ (s \in CallLines => \E t \in Threads : Attempting(t) /\ Line(t) = s)
    \/ \E form \in Forms[s] : SendRequest(s, form)

Transport ==
    /\ \/ \E s \in Streams : OpenLine(s) \/ Arrive(s) \/ HangUp(s) \/ Accept(s) \/ ServerStep(s)
       \/ Shutdown
    /\ UNCHANGED joinVars

\* send, do_request: the outcome of an attempt.
Answered(t) == Attempting(t) /\ reply[Line(t)] = "answer" /\ Happen(t, "ok")
Broken(t) ==
    /\ Attempting(t)
    /\ \/ reply[Line(t)] = "error"
       \/ stage[Line(t)] = "closed" /\ reply[Line(t)] = None
       \/ ~listening /\ stage[Line(t)] \in {"none", "backlog"}
    /\ Happen(t, "error")
Outcome(t) == Answered(t) \/ Broken(t) \/ Happen(t, "elapsed")

Caller(t) ==
    /\ \/ StartJoin(t) /\ stage[NextLine(t)] # "closed"
       \/ ThreadStep(t) \/ Spurious(t) \/ Outcome(t) \/ Wake(t)
    /\ UNCHANGED transportVars

RoundTripNext == Transport \/ \E t \in Threads : Caller(t)

\* A thread that can go on does, wakers are called, and attempts and delays end.  As
\* long as some task of the server can go on, or a connection waits to be accepted,
\* the runtime runs one: the steps of a task are finite, so each gets its turn.  A
\* client that has connected sends the head of its stream, a caller its request.
CallFairness ==
    \A t \in Threads :
        /\ WF_roundTripVars(ThreadStep(t) /\ UNCHANGED transportVars)
        /\ WF_roundTripVars((Outcome(t) \/ Wake(t)) /\ UNCHANGED transportVars)

Work(s) == Accept(s) \/ ServerStep(s)
Input(s) == Arrive(s) \/ (s \in CallLines /\ OpenLine(s))
ServerFairness ==
    /\ WF_roundTripVars((\E s \in Streams : Work(s)) /\ UNCHANGED joinVars)
    /\ WF_roundTripVars((\E s \in Streams : Input(s)) /\ UNCHANGED joinVars)

RoundTripSpec ==
    RoundTripInit /\ [][RoundTripNext]_roundTripVars /\ CallFairness /\ ServerFairness
-------------------------------------------------------------------------------
\* Every call of the blocking API returns, whatever happens to its connections,
\* other clients' handshakes, and the order of polls, wake-ups and parks.
EveryCallReturns == \A t \in Threads : pc[t] # "outside" ~> pc[t] = "outside"
===============================================================================
