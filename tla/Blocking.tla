------------------------------- MODULE Blocking -------------------------------
(***************************************************************************)
(* The blocking side of the client API, src/src/common/util.rs: a thread   *)
(* runs a future to its end (Join), parking itself while the future is     *)
(* pending, and the future is with_retry over some operation, with a       *)
(* growing delay after every attempt that failed.  Whatever completes the  *)
(* operation or the delay does so on another thread and then calls the     *)
(* waker, that is unpark, which leaves a token for the next park.          *)
(***************************************************************************)
EXTENDS Integers, Sequences

CONSTANTS
    Threads,
    Retries,      \* of with_retry
    MaxJoins      \* bound of the model: futures one thread waits for

ASSUME BlockingAssumption == Retries \in Nat /\ MaxJoins \in Nat

VARIABLES
    pc,           \* thread -> where its join is
    awaits,       \* thread -> what with_retry waits for: an attempt or a delay
    event,        \* thread -> how that ended, if it has
    registered,   \* threads whose waker is kept with what they wait for
    waking,       \* threads whose waker is about to be called
    token,        \* threads whose park token is there
    attempt,      \* thread -> the number of the attempt
    result,       \* thread -> what join returned
    joins,        \* thread -> joins so far
    outcomes      \* auxiliary: thread -> how the attempts of this join ended

joinVars == <<pc, awaits, event, registered, waking, token, attempt, result, joins, outcomes>>

Places == {"outside", "polling", "pending", "parked"}

JoinInit ==
    /\ pc = [t \in Threads |-> "outside"]
    /\ awaits = [t \in Threads |-> "attempt"]
    /\ event = [t \in Threads |-> "none"]
    /\ registered = {} /\ waking = {} /\ token = {}
    /\ attempt = [t \in Threads |-> 0]
    /\ result = [t \in Threads |-> "none"]
    /\ joins = [t \in Threads |-> 0]
    /\ outcomes = [t \in Threads |-> <<>>]

GoTo(t, to) == pc' = [pc EXCEPT ![t] = to]
Await(t, what) ==
    /\ awaits' = [awaits EXCEPT ![t] = what]
    /\ event' = [event EXCEPT ![t] = "none"]

\* A thread calls a method of the blocking API.  A token of an earlier join, whose
\* waker was called late, may still be there.
StartJoin(t) ==
    /\ pc[t] = "outside" /\ joins[t] < MaxJoins
    /\ GoTo(t, "polling") /\ Await(t, "attempt")
    /\ registered' = registered \ {t}
    /\ attempt' = [attempt EXCEPT ![t] = 1]
    /\ result' = [result EXCEPT ![t] = "none"]
    /\ joins' = [joins EXCEPT ![t] = @ + 1]
    /\ outcomes' = [outcomes EXCEPT ![t] = <<>>]
    /\ UNCHANGED <<waking, token>>

-------------------------------------------------------------------------------
\* poll: as far as the future can go.

PollUnregistered(t) ==        \* wrong: with a waker that does nothing
    /\ pc[t] = "polling" /\ event[t] = "none"
    /\ GoTo(t, "pending")
    /\ UNCHANGED <<awaits, event, registered, waking, token, attempt, result, joins, outcomes>>

PollPending(t) ==
    /\ pc[t] = "polling" /\ event[t] = "none"
    /\ GoTo(t, "pending")
    /\ registered' = registered \cup {t}
    /\ UNCHANGED <<awaits, event, waking, token, attempt, result, joins, outcomes>>

\* with_retry: one attempt, and as many again as there are retries.
StopEarly(t) == event[t] = "ok" \/ (event[t] = "error" /\ attempt[t] >= Retries)
                              \* wrong: one attempt too few
Concluded(t) == event[t] = "ok" \/ (event[t] = "error" /\ attempt[t] = Retries + 1)

PollReady(t) ==
    /\ pc[t] = "polling" /\ awaits[t] = "attempt" /\ Concluded(t)
    /\ GoTo(t, "outside")
    /\ result' = [result EXCEPT ![t] = event[t]]
    /\ UNCHANGED <<awaits, event, registered, waking, token, attempt, joins, outcomes>>

PollRetry(t) ==
    /\ pc[t] = "polling" /\ awaits[t] = "attempt"
    /\ event[t] = "error" /\ ~Concluded(t)
    /\ Await(t, "delay")
    /\ UNCHANGED <<pc, registered, waking, token, attempt, result, joins, outcomes>>

PollElapsed(t) ==
    /\ pc[t] = "polling" /\ awaits[t] = "delay" /\ event[t] = "elapsed"
    /\ Await(t, "attempt")
    /\ attempt' = [attempt EXCEPT ![t] = @ + 1]
    /\ UNCHANGED <<pc, registered, waking, token, result, joins, outcomes>>

\* park returns at once if the token is there, and takes it.
SleepAnyway(t) ==             \* wrong: what was signalled before is forgotten
    /\ pc[t] = "pending"
    /\ GoTo(t, "parked")
    /\ token' = token \ {t}
    /\ UNCHANGED <<awaits, event, registered, waking, attempt, result, joins, outcomes>>

Park(t) ==
    /\ pc[t] = "pending"
    /\ GoTo(t, IF t \in token THEN "polling" ELSE "parked")
    /\ token' = token \ {t}
    /\ UNCHANGED <<awaits, event, registered, waking, attempt, result, joins, outcomes>>

Unparked(t) ==
    /\ pc[t] = "parked" /\ t \in token
    /\ GoTo(t, "polling")
    /\ token' = token \ {t}
    /\ UNCHANGED <<awaits, event, registered, waking, attempt, result, joins, outcomes>>

\* park may return for no reason; the loop polls again.
Spurious(t) ==
    /\ pc[t] = "parked"
    /\ GoTo(t, "polling")
    /\ UNCHANGED <<awaits, event, registered, waking, token, attempt, result, joins, outcomes>>

-------------------------------------------------------------------------------
\* The threads of the HTTP client, the timer and the server pool.

Happen(t, how) ==
    /\ pc[t] # "outside" /\ event[t] = "none"
    /\ how \in IF awaits[t] = "delay" THEN {"elapsed"} ELSE {"ok", "error"}
    /\ event' = [event EXCEPT ![t] = how]
    /\ registered' = registered \ {t}
    /\ waking' = IF t \in registered THEN waking \cup {t} ELSE waking
    /\ outcomes' = IF how = "elapsed" THEN outcomes
                   ELSE [outcomes EXCEPT ![t] = Append(@, how)]
    /\ UNCHANGED <<pc, awaits, token, attempt, result, joins>>

Wake(t) ==
    /\ t \in waking
    /\ waking' = waking \ {t}
    /\ token' = token \cup {t}
    /\ UNCHANGED <<pc, awaits, event, registered, attempt, result, joins, outcomes>>

-------------------------------------------------------------------------------
PollStep(t) == PollPending(t) \/ PollReady(t) \/ PollRetry(t) \/ PollElapsed(t)
ThreadStep(t) == PollStep(t) \/ Park(t) \/ Unparked(t)

JoinNext ==
    \E t \in Threads :
        \/ StartJoin(t) \/ ThreadStep(t) \/ Spurious(t)
        \/ (\E how \in {"ok", "error", "elapsed"} : Happen(t, how)) \/ Wake(t)

JoinSpec == JoinInit /\ [][JoinNext]_joinVars
-------------------------------------------------------------------------------
\* Every variable holds a value of its kind.
JoinTypeOK ==
    /\ pc \in [Threads -> Places]
    /\ awaits \in [Threads -> {"attempt", "delay"}]
    /\ event \in [Threads -> {"none", "ok", "error", "elapsed"}]
    /\ registered \subseteq Threads /\ waking \subseteq Threads /\ token \subseteq Threads
    /\ attempt \in [Threads -> 0..(Retries + 1)]
    /\ result \in [Threads -> {"none", "ok", "error"}]
    /\ joins \in [Threads -> 0..MaxJoins]
    /\ outcomes \in [Threads -> Seq({"ok", "error"})]

\* No wake-up is lost: a thread that sleeps while what it waits for has happened has
\* its token, or is about to get it, also when the waker is called between the poll
\* and the park.
NoLostWakeup ==
    \A t \in Threads :
        pc[t] = "parked" =>
            IF event[t] = "none" THEN t \in registered ELSE t \in token \cup waking

\* What join returns is the outcome of the last attempt; only failures came before
\* it, and a failure is returned only when the retries are used up.
LastAttemptCounts ==
    \A t \in Threads : pc[t] = "outside" /\ result[t] # "none" =>
        LET n == Len(outcomes[t])
        IN  /\ n \in 1..(Retries + 1)
            /\ outcomes[t][n] = result[t]
            /\ \A i \in 1..(n - 1) : outcomes[t][i] = "error"
            /\ result[t] = "error" => n = Retries + 1
===============================================================================
