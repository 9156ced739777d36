------------------------------ MODULE ServerPool ------------------------------
(***************************************************************************)
(* The two pools of mock servers in a process that runs tests, behind      *)
(* MockServer::start and MockServer::connect, src/src/api/server.rs.  A    *)
(* test takes a server from the pool, or creates one while the pool is     *)
(* below its size, resets it, uses it, and puts it back when the           *)
(* MockServer variable goes out of scope, by returning or by panicking.    *)
(* The pool is an external crate (async-object-pool), modelled from how it *)
(* is used.                                                                *)
(*                                                                         *)
(* Of a server's state only what one test can leave to the next is kept:   *)
(* whose mocks are registered, whose requests are in the history, which    *)
(* requests are still being handled, and whether a panic poisoned the      *)
(* mutex.  Module StateManager has the rest.                               *)
(***************************************************************************)
EXTENDS Integers, FiniteSets, Sequences

CONSTANTS
    Tests,      \* tests that run at the same time
    Servers,    \* the adapters the pools can hold: their sizes are their numbers
    Remotes,    \* those of the pool of connect
    Plan,       \* test -> what it calls, at most: "start" or "connect", one by one
    Faulty,     \* tests with a mock whose is_true or is_false function panics
    Retries,    \* how often with_retry repeats a reset
    None

CONSTANT MaxRequests  \* bound of the model: requests one test sends

ASSUME PoolAssumption ==
    /\ Remotes \subseteq Servers
    /\ Plan \in [Tests -> Seq({"start", "connect"})]
    /\ Faulty \subseteq Tests
    /\ Retries \in Nat
    /\ None \notin Servers
    /\ MaxRequests \in Nat

VARIABLES
    free,       \* servers in the pools
    created,    \* servers that exist
    holds,      \* test -> servers of its MockServer variables
    stage,      \* test -> what it is about to do
    starting,   \* test -> the server it has taken and not yet reset
    attempts,   \* test -> resets that have failed
    mocks,      \* server -> tests with mocks on it
    log,        \* server -> tests with requests in its history
    inFlight,   \* requests being handled: <<test, server>>
    sent,       \* test -> requests sent
    poisoned,   \* servers whose mutex is poisoned
    late        \* auxiliary: server -> tests with a request in flight at its last reset

poolVars == <<free, created, holds>>
testVars == <<stage, starting, attempts>>
serverVars == <<mocks, log, poisoned, late>>
requestVars == <<inFlight, sent>>
vars == <<poolVars, testVars, serverVars, requestVars>>

Stages == {"ready", "waiting", "resetting", "dropping", "over"}

Init ==
    /\ free = {} /\ created = {}
    /\ holds = [t \in Tests |-> {}]
    /\ stage = [t \in Tests |-> "ready"]
    /\ starting = [t \in Tests |-> None]
    /\ attempts = [t \in Tests |-> 0]
    /\ mocks = [s \in Servers |-> {}]
    /\ log = [s \in Servers |-> {}]
    /\ inFlight = {}
    /\ sent = [t \in Tests |-> 0]
    /\ poisoned = {}
    /\ late = [s \in Servers |-> {}]

GoTo(t, to) == stage' = [stage EXCEPT ![t] = to]

-------------------------------------------------------------------------------
\* start_async, connect_async: take_or_create, then MockServer::from.

\* Every call has a pool of its own.
Pool(call) == IF call = "connect" THEN Remotes ELSE Servers \ Remotes
Asked(t) == Pool(Plan[t][Cardinality(holds[t]) + 1])

Start(t) ==
    /\ stage[t] = "ready"
    /\ Cardinality(holds[t]) < Len(Plan[t])
    /\ GoTo(t, "waiting")
    /\ UNCHANGED <<poolVars, starting, attempts, serverVars, requestVars>>

Take(t, s) ==
    /\ GoTo(t, "resetting")
    /\ starting' = [starting EXCEPT ![t] = s]
    /\ attempts' = [attempts EXCEPT ![t] = 0]
    /\ holds' = [holds EXCEPT ![t] = @ \cup {s}]
    /\ UNCHANGED <<serverVars, requestVars>>

KeepInPool(t, s) ==           \* wrong: the server stays available to others
    /\ stage[t] = "waiting" /\ s \in free \cap Asked(t)
    /\ Take(t, s)
    /\ UNCHANGED <<free, created>>

TakeFree(t, s) ==
    /\ stage[t] = "waiting" /\ s \in free \cap Asked(t)
    /\ Take(t, s)
    /\ free' = free \ {s}
    /\ UNCHANGED created

CreateBelowSize(t, s) ==      \* wrong: one server fewer than the pool's size
    /\ stage[t] = "waiting" /\ free \cap Asked(t) = {} /\ s \in Asked(t) \ created
    /\ Cardinality(created \cap Asked(t)) + 1 < Cardinality(Asked(t))
    /\ Take(t, s)
    /\ created' = created \cup {s}
    /\ UNCHANGED free

Create(t, s) ==
    /\ stage[t] = "waiting" /\ free \cap Asked(t) = {} /\ s \in Asked(t) \ created
    /\ Take(t, s)
    /\ created' = created \cup {s}
    /\ UNCHANGED free

\* What a reset leaves on the server: nothing but the requests in flight.
Wipe(s) ==
    /\ mocks' = [mocks EXCEPT ![s] = {}]
    /\ log' = [log EXCEPT ![s] = {}]
    /\ late' = [late EXCEPT ![s] = {u \in Tests : <<u, s>> \in inFlight}]

ResetMocksOnly(t) ==          \* wrong: the history stays
    LET s == starting[t]
    IN  /\ stage[t] = "resetting" /\ s \notin poisoned
        /\ mocks' = [mocks EXCEPT ![s] = {}]
        /\ late' = [late EXCEPT ![s] = {u \in Tests : <<u, s>> \in inFlight}]
        /\ GoTo(t, "ready")
        /\ starting' = [starting EXCEPT ![t] = None]
        /\ UNCHANGED <<poolVars, attempts, log, poisoned, requestVars>>

Reset(t) ==
    /\ stage[t] = "resetting" /\ starting[t] \notin poisoned
    /\ Wipe(starting[t])
    /\ GoTo(t, "ready")
    /\ starting' = [starting EXCEPT ![t] = None]
    /\ UNCHANGED <<poolVars, attempts, poisoned, requestVars>>

\* A remote reset whose answer is lost, or that never got through: with_retry
\* repeats it, then reset_async panics.  A local reset fails only on a poisoned
\* mutex, and panics at once.
ResetFails(t) ==
    /\ stage[t] = "resetting"
    /\ starting[t] \in Remotes \cup poisoned
    /\ \/ starting[t] \notin poisoned /\ Wipe(starting[t])
       \/ UNCHANGED <<mocks, log, late>>
    /\ IF starting[t] \in Remotes /\ attempts[t] < Retries
       THEN /\ attempts' = [attempts EXCEPT ![t] = @ + 1]
            /\ UNCHANGED <<stage, starting>>
       ELSE /\ GoTo(t, "dropping")
            /\ starting' = [starting EXCEPT ![t] = None]
            /\ UNCHANGED attempts
    /\ UNCHANGED <<poolVars, poisoned, requestVars>>

-------------------------------------------------------------------------------
\* The test at work.

Using(t, s) == stage[t] = "ready" /\ s \in holds[t]

AddMock(t, s) ==
    /\ Using(t, s) /\ s \notin poisoned
    /\ mocks' = [mocks EXCEPT ![s] = @ \cup {t}]
    /\ UNCHANGED <<poolVars, testVars, log, poisoned, late, requestVars>>

Send(t, s) ==
    /\ Using(t, s)
    /\ sent[t] < MaxRequests /\ <<t, s>> \notin inFlight
    /\ inFlight' = inFlight \cup {<<t, s>>}
    /\ sent' = [sent EXCEPT ![t] = @ + 1]
    /\ UNCHANGED <<poolVars, testVars, serverVars>>

\* serve_mock runs when the server gets to the request, which may be after the
\* test that sent it is over.
Serve(t, s) ==
    /\ <<t, s>> \in inFlight
    /\ inFlight' = inFlight \ {<<t, s>>}
    /\ log' = [log EXCEPT ![s] = IF s \in poisoned THEN @ ELSE @ \cup {t}]
    /\ UNCHANGED <<poolVars, testVars, mocks, poisoned, late, sent>>

\* A function given to is_true panics while a request is matched, that is with
\* the mutex locked and the request in the history.  A remote server has no functions.
PanicWhileMatching(t, s) ==
    /\ <<t, s>> \in inFlight
    /\ s \notin Remotes \cup poisoned /\ mocks[s] \cap Faulty # {}
    /\ inFlight' = inFlight \ {<<t, s>>}
    /\ log' = [log EXCEPT ![s] = @ \cup {t}]
    /\ poisoned' = poisoned \cup {s}
    /\ UNCHANGED <<poolVars, testVars, mocks, late, sent>>

\* So does verify, in the test's own thread, on the requests of the history.
PanicWhileVerifying(t, s) ==
    /\ Using(t, s) /\ s \notin Remotes
    /\ t \in Faulty \cap mocks[s] /\ log[s] # {}
    /\ poisoned' = poisoned \cup {s}
    /\ GoTo(t, "dropping")
    /\ UNCHANGED <<poolVars, starting, attempts, mocks, log, late, requestVars>>

\* The test returns, fails an assertion, or has a call panic.
End(t) ==
    /\ stage[t] = "ready"
    /\ GoTo(t, "dropping")
    /\ UNCHANGED <<poolVars, starting, attempts, serverVars, requestVars>>

\* Drop: each MockServer puts its adapter back as it is.
PutBack(t, s) ==
    /\ stage[t] = "dropping" /\ s \in holds[t]
    /\ holds' = [holds EXCEPT ![t] = @ \ {s}]
    /\ free' = free \cup {s}
    /\ UNCHANGED <<created, testVars, serverVars, requestVars>>

Finish(t) ==
    /\ stage[t] = "dropping" /\ holds[t] = {}
    /\ GoTo(t, "over")
    /\ UNCHANGED <<poolVars, starting, attempts, serverVars, requestVars>>

-------------------------------------------------------------------------------
Obtain(t) == \E s \in Servers : TakeFree(t, s) \/ Create(t, s)
Settle(t) == Reset(t) \/ ResetFails(t)
Leave(t) == Finish(t) \/ \E s \in Servers : PutBack(t, s)
Work(t) == \E s \in Servers : AddMock(t, s) \/ Send(t, s) \/ PanicWhileVerifying(t, s)
Handle(t) == \E s \in Servers : Serve(t, s) \/ PanicWhileMatching(t, s)

\* All tests are over: the process ends.
AllOver == (\A t \in Tests : stage[t] = "over") /\ inFlight = {} /\ UNCHANGED vars

Next ==
    \/ \E t \in Tests : \/ Start(t) \/ Obtain(t) \/ Settle(t)
                        \/ Work(t) \/ Handle(t) \/ End(t) \/ Leave(t)
    \/ AllOver

Spec == Init /\ [][Next]_vars

\* A test that can go on does: it is a thread or a task of a runtime.  That every
\* test ends, or starts another server, is an assumption about the tests.
Fairness ==
    \A t \in Tests :
        /\ WF_vars(Obtain(t)) /\ WF_vars(Settle(t)) /\ WF_vars(Leave(t))
        /\ WF_vars(Start(t) \/ End(t))

FairSpec == Spec /\ Fairness
-------------------------------------------------------------------------------
\* Every variable holds a value of its kind.
TypeOK ==
    /\ free \subseteq Servers /\ created \subseteq Servers /\ poisoned \subseteq Servers
    /\ holds \in [Tests -> SUBSET Servers]
    /\ stage \in [Tests -> Stages]
    /\ starting \in [Tests -> Servers \cup {None}]
    /\ attempts \in [Tests -> 0..Retries]
    /\ mocks \in [Servers -> SUBSET Tests] /\ log \in [Servers -> SUBSET Tests]
    /\ late \in [Servers -> SUBSET Tests]
    /\ inFlight \subseteq Tests \X Servers
    /\ sent \in [Tests -> 0..MaxRequests]

\* A server belongs to one test at a time, and to nobody while it is in the pool;
\* and none gets lost, whether a test succeeds, fails or cannot reset it.
LeaseExclusive ==
    /\ \A s \in Servers :
          /\ \A t, u \in Tests : s \in holds[t] /\ s \in holds[u] => t = u
          /\ \A t \in Tests : s \in holds[t] => s \notin free
    /\ created = free \cup UNION {holds[t] : t \in Tests}

\* A test that works with a server finds on it its own mocks only, and in its
\* history its own requests and those of earlier tests that were still being
\* handled when the server was reset for it.
LeftoversWereInFlight ==
    \A t \in Tests : \A s \in holds[t] :
        stage[t] = "ready" => /\ mocks[s] \subseteq {t}
                              /\ log[s] \subseteq {t} \cup late[s]

\* If no test connects twice, and the pool of local servers has one for every call of
\* start that is open at a time, every test gets its servers and ends, in whichever
\* order it calls start and connect.
EveryTestEnds == \A t \in Tests : <>(stage[t] = "over")

\* What the guide to pooling promises: after a test, also a failed one, its server
\* is cleaned and made available to other tests.
NextTestCanStart ==
    \A t \in Tests : stage[t] = "resetting" => starting[t] \notin poisoned

===============================================================================
