------------------------- MODULE RequestHandlerProofs -------------------------
(***************************************************************************)
(* The request handler, for every set of tasks and requests.  It uses the  *)
(* Manager only through its methods, so what is proved of the Manager holds *)
(* of the server, and priority among rules and mocks survives the three    *)
(* separate look-ups.  Then the accounts: what the server has counted,     *)
(* logged and recorded, against the requests it has handled.  Each is      *)
(* counted once, by the mock it was given, each answer is recorded once,   *)
(* and a reset leaves nothing of the requests that were over when it began. *)
(***************************************************************************)
EXTENDS RequestHandler, StateManagerProofs, FiniteSetTheorems

-------------------------------------------------------------------------------
\* A response is recorded only once it is there.
AnswerReady ==
    \A t \in Tasks :
        /\ stage[t] = "answered" => answer[t] \in Responses
        /\ stage[t] \in {"delayed", "picked"} => answer[t] \in Responses \cup {Unbuildable}

LEMMA ServerStepIsManagerStep ==
    ASSUME HandlerTypeOK, AnswerReady, NEW t \in Tasks, ServerStep(t)
    PROVE  [Next]_vars
<1>1. request[t] \in Requests
  BY DEF HandlerTypeOK
<1>2. CASE FindForwardRule(t) \/ FindProxyRule(t) \/ BuildResponse(t)
  BY <1>2 DEF FindForwardRule, FindProxyRule, BuildResponse
<1>3. CASE ServeRequest(t)
  BY <1>1, <1>3 DEF ServeRequest, Next, MockStep
<1>4. ASSUME RecordAndReply(t), ~UNCHANGED vars
      PROVE  Next
  <2>1. Record(request[t], answer[t], route[t] = "proxy") /\ stage[t] = "answered"
    BY <1>4 DEF RecordAndReply, Move
  <2>2. answer[t] \in Responses
    BY <2>1 DEF AnswerReady
  <2>3. (route[t] = "proxy") \in BOOLEAN
    OBVIOUS
  <2>4. RecordingStep
    BY <1>1, <2>1, <2>2, <2>3 DEF RecordingStep
  <2>5. QED
    BY <2>4 DEF Next
<1>5. QED
  BY <1>2, <1>3, <1>4 DEF ServerStep

LEMMA HandlerStepIsManagerStep ==
    ASSUME HandlerTypeOK, AnswerReady, [HandlerNext]_handlerVars
    PROVE  [Next]_vars
<1>1. CASE ManagementStep
  BY <1>1 DEF ManagementStep, Next, MockStep, RecordingStep
<1>2. ASSUME NEW c \in Callers, StartReset(c)
      PROVE  Next
  BY <1>2 DEF StartReset, Next, CallerStep
<1>3. ASSUME NEW t \in Tasks, Receive(t) \/ UpstreamStep(t) \/ Disconnect(t)
      PROVE  UNCHANGED vars
  BY <1>3 DEF Receive, UpstreamStep, UpstreamAnswers, UpstreamFails, Disconnect
<1>4. CASE UNCHANGED handlerVars
  BY <1>4 DEF handlerVars
<1>5. QED
  BY <1>1, <1>2, <1>3, <1>4, ServerStepIsManagerStep DEF HandlerNext

-------------------------------------------------------------------------------
\* Typing.

LEMMA HandlerInitType == HandlerInit => HandlerTypeOK /\ AnswerReady
BY InitType
   DEF HandlerInit, HandlerTypeOK, AnswerReady, Stages, Counters

LEMMA TaskUnchanged ==
    ASSUME HandlerTypeOK, AnswerReady, TypeOK', UNCHANGED taskVars,
           ended' \in [Callers -> SUBSET Tasks]
    PROVE  (HandlerTypeOK /\ AnswerReady)'
BY DEF HandlerTypeOK, AnswerReady, taskVars

LEMMA FirstIds ==
    ASSUME NEW table, NEW req, NEW id \in First(table, req),
           \A i \in DOMAIN table : i \in Nat
    PROVE  id \in Nat /\ id \in DOMAIN table
BY DEF First, Matching

LEMMA TaskStepType ==
    ASSUME HandlerTypeOK, AnswerReady, IssuedIds, TypeOK', NEW t \in Tasks,
           Receive(t) \/ ServerStep(t) \/ UpstreamStep(t) \/ Disconnect(t)
    PROVE  (HandlerTypeOK /\ AnswerReady)'
<1> USE HandlerAssumption DEF Move, Reply, Choose, Stages
<1>1. CASE Receive(t)
  <2>1. since' \in [Tasks -> Counters]
    BY <1>1 DEF Receive, HandlerTypeOK, TypeOK, Counters
  <2>2. QED
    BY <1>1, <2>1 DEF Receive, HandlerTypeOK, AnswerReady
<1>2. CASE FindForwardRule(t)
  BY <1>2, FirstIds DEF FindForwardRule, HandlerTypeOK, AnswerReady, IssuedIds
<1>3. CASE FindProxyRule(t)
  BY <1>3, FirstIds DEF FindProxyRule, HandlerTypeOK, AnswerReady, IssuedIds
<1>4. CASE UpstreamAnswers(t)
  BY <1>4 DEF UpstreamAnswers, HandlerTypeOK, AnswerReady
<1>5. CASE UpstreamFails(t)
  BY <1>5 DEF UpstreamFails, HandlerTypeOK, AnswerReady
<1>6. CASE ServeRequest(t)
  <2>1. CASE Matching(mocks, request[t]) = {} /\ Move(t, "unproxied", "answered")
             /\ Reply(t, NotFound) /\ Choose(t, "unmatched", NoId)
    BY <1>6, <2>1 DEF ServeRequest, HandlerTypeOK, AnswerReady
  <2>2. ASSUME NEW id \in First(mocks, request[t]),
               Move(t, "unproxied",
                    IF mocks[id].requirements \in Delayed THEN "delayed" ELSE "picked"),
               Reply(t, ResponseOf[mocks[id].requirements]),
               Choose(t, "mock", id)
        PROVE  (HandlerTypeOK /\ AnswerReady)'
    <3>1. id \in Nat /\ id \in DOMAIN mocks
      BY FirstIds DEF IssuedIds
    <3>2. mocks[id] \in Mock
      BY <3>1 DEF HandlerTypeOK, TypeOK
    <3>3. ResponseOf[mocks[id].requirements] \in Responses \cup {Unbuildable}
      BY <3>2 DEF Mock
    <3>4. QED
      BY <1>6, <2>2, <3>1, <3>3 DEF ServeRequest, HandlerTypeOK, AnswerReady
  <2>3. QED
    BY <1>6, <2>1, <2>2 DEF ServeRequest
<1>7. CASE BuildResponse(t)
  BY <1>7 DEF BuildResponse, HandlerTypeOK, AnswerReady
<1>8. CASE RecordAndReply(t)
  BY <1>8 DEF RecordAndReply, HandlerTypeOK, AnswerReady
<1>9. CASE Disconnect(t)
  BY <1>9 DEF Disconnect, HandlerTypeOK, AnswerReady
<1>10. QED
  BY <1>1, <1>2, <1>3, <1>4, <1>5, <1>6, <1>7, <1>8, <1>9 DEF ServerStep, UpstreamStep

HandlerInv == HandlerTypeOK /\ AnswerReady /\ IssuedIds

LEMMA HandlerInvInit == HandlerInit => HandlerInv
BY HandlerInitType, IssuedIdsInit DEF HandlerInit, HandlerInv

LEMMA HandlerInvNext == HandlerInv /\ [HandlerNext]_handlerVars => HandlerInv'
<1> SUFFICES ASSUME HandlerInv, [HandlerNext]_handlerVars PROVE HandlerInv'
  OBVIOUS
<1>1. HandlerTypeOK /\ AnswerReady /\ IssuedIds /\ TypeOK
  BY DEF HandlerInv, HandlerTypeOK
<1>2. [Next]_vars
  BY <1>1, HandlerStepIsManagerStep
<1>3. TypeOK' /\ IssuedIds'
  BY <1>1, <1>2, TypeNext, IssuedIdsNext
<1>4. CASE ManagementStep
  <2>1. UNCHANGED taskVars /\ ended' \in [Callers -> SUBSET Tasks]
    BY <1>1, <1>4 DEF ManagementStep, HandlerTypeOK
  <2>2. QED
    BY <1>1, <1>3, <2>1, TaskUnchanged DEF HandlerInv
<1>5. ASSUME NEW c \in Callers, StartReset(c)
      PROVE  HandlerInv'
  <2>1. UNCHANGED taskVars /\ ended' \in [Callers -> SUBSET Tasks]
    BY <1>1, <1>5 DEF StartReset, HandlerTypeOK, Over
  <2>2. QED
    BY <1>1, <1>3, <2>1, TaskUnchanged DEF HandlerInv
<1>6. CASE UNCHANGED handlerVars
  <2>1. UNCHANGED taskVars /\ ended' \in [Callers -> SUBSET Tasks]
    BY <1>1, <1>6 DEF handlerVars, HandlerTypeOK
  <2>2. QED
    BY <1>1, <1>3, <2>1, TaskUnchanged DEF HandlerInv
<1>7. ASSUME NEW t \in Tasks, Receive(t) \/ ServerStep(t) \/ UpstreamStep(t) \/ Disconnect(t)
      PROVE  HandlerInv'
  BY <1>1, <1>3, <1>7, TaskStepType DEF HandlerInv
<1>8. QED
  BY <1>4, <1>5, <1>6, <1>7 DEF HandlerNext

\* Type correctness: every task is in a stage of catch_all and its request, rule
\* and answer are of their kinds, over a Manager in a well-typed state.
THEOREM HandlerTypeCorrect == HandlerSpec => []HandlerTypeOK
BY HandlerInvInit, HandlerInvNext, PTL DEF HandlerSpec, HandlerInv

\* The server implements the Manager's specification: whatever the requests and
\* the management calls do, the Manager sees its own methods only.
THEOREM HandlerImplementsManager == HandlerSpec => Spec
<1>1. HandlerInit => Init
  BY DEF HandlerInit
<1>2. HandlerInv /\ [HandlerNext]_handlerVars => [Next]_vars
  BY HandlerStepIsManagerStep DEF HandlerInv
<1>3. QED
  BY <1>1, <1>2, HandlerInvInit, HandlerInvNext, PTL DEF HandlerSpec, Spec

\* Hence what is proved of the Manager holds while requests are being handled.
COROLLARY ServerKeepsManager ==
    HandlerSpec => /\ []ShadowedNeverCounted /\ StaticMocksStay
                   /\ []ResetSweeps /\ []HistoryIsSuffix /\ HandlesStable
BY HandlerImplementsManager, FirstDefinedTakesPrecedence, StaticMocksSurvive,
   ResetSweepsOlder, HistoryKeepsLatest, HandlesNeverReused, PTL

-------------------------------------------------------------------------------
\* Priority.  What a look-up that found nothing leaves behind: no rule it could
\* have found is registered, and none that was registered before the request
\* arrived can come back, since ids are not reused.

Passed(t, table, threshold) ==
    \A i \in Matching(table, request[t]) : ~(i < threshold)

LookedUp(t) ==
    /\ stage[t] \in {"unsent", "received", "unforwarded", "unproxied"} => route[t] = "none"
    /\ stage[t] \in {"unforwarded", "unproxied"} =>
          Passed(t, forwardingRules, since[t].forwarding)
    /\ stage[t] = "unproxied" => Passed(t, proxyRules, since[t].proxy)

InOrder(t) ==
    /\ route[t] # "none" =>
          OlderWaits(t, forwardingRules, since[t].forwarding, "forward")
    /\ route[t] \in {"proxy", "mock", "unmatched"} =>
          OlderWaits(t, proxyRules, since[t].proxy, "proxy")
    /\ route[t] \in {"mock", "unmatched"} =>
          OlderWaits(t, mocks, since[t].mocks, "mock")

SinceIssued(t) ==
    /\ since[t].mocks <= nextMockId
    /\ since[t].forwarding <= nextForwardingRuleId
    /\ since[t].proxy <= nextProxyRuleId

TaskInv(t) == SinceIssued(t) /\ LookedUp(t) /\ InOrder(t)

PriorityInv == \A t \in Tasks : TaskInv(t)

LEMMA PriorityInit == HandlerInit => PriorityInv
BY DataAssumption
   DEF HandlerInit, Init, PriorityInv, TaskInv, SinceIssued, LookedUp, InOrder

\* A step on a table brings no new match below an older threshold.
LEMMA NoOlderMatch ==
    ASSUME NEW old, NEW new, NEW next \in Nat, NEW nextNew, NEW req,
           TableStep(old, new, next, nextNew),
           NEW threshold \in Nat, threshold <= next,
           NEW i \in Matching(new, req), i < threshold
    PROVE  i \in Matching(old, req)
BY DEF TableStep, Matching

LEMMA TablesStep ==
    ASSUME HandlerInv, [HandlerNext]_handlerVars, NEW t \in Tasks, SinceIssued(t)
    PROVE  /\ \A i \in Matching(mocks', request[t]) :
                 i < since[t].mocks => i \in Matching(mocks, request[t])
           /\ \A i \in Matching(forwardingRules', request[t]) :
                 i < since[t].forwarding => i \in Matching(forwardingRules, request[t])
           /\ \A i \in Matching(proxyRules', request[t]) :
                 i < since[t].proxy => i \in Matching(proxyRules, request[t])
           /\ nextMockId <= nextMockId'
           /\ nextForwardingRuleId <= nextForwardingRuleId'
           /\ nextProxyRuleId <= nextProxyRuleId'
<1>1. TypeOK /\ [Next]_vars
  BY HandlerStepIsManagerStep DEF HandlerInv, HandlerTypeOK
<1>2. /\ nextMockId \in Nat /\ nextForwardingRuleId \in Nat /\ nextProxyRuleId \in Nat
      /\ since[t] \in Counters
  BY <1>1 DEF HandlerInv, HandlerTypeOK, TypeOK
<1>3. since[t].mocks \in Nat /\ since[t].forwarding \in Nat /\ since[t].proxy \in Nat
  BY <1>2 DEF Counters
<1>4. /\ TableStep(mocks, mocks', nextMockId, nextMockId')
      /\ TableStep(forwardingRules, forwardingRules', nextForwardingRuleId, nextForwardingRuleId')
      /\ TableStep(proxyRules, proxyRules', nextProxyRuleId, nextProxyRuleId')
  BY <1>1, MockTableStep, RuleTableStep
<1>5. \A i \in Matching(mocks', request[t]) :
         i < since[t].mocks => i \in Matching(mocks, request[t])
  BY <1>2, <1>3, <1>4, NoOlderMatch DEF SinceIssued
<1>6. \A i \in Matching(forwardingRules', request[t]) :
         i < since[t].forwarding => i \in Matching(forwardingRules, request[t])
  BY <1>2, <1>3, <1>4, NoOlderMatch DEF SinceIssued
<1>7. \A i \in Matching(proxyRules', request[t]) :
         i < since[t].proxy => i \in Matching(proxyRules, request[t])
  BY <1>2, <1>3, <1>4, NoOlderMatch DEF SinceIssued
<1>8. /\ nextMockId <= nextMockId'
      /\ nextForwardingRuleId <= nextForwardingRuleId'
      /\ nextProxyRuleId <= nextProxyRuleId'
  BY <1>2, <1>4 DEF TableStep
<1>9. QED
  BY <1>5, <1>6, <1>7, <1>8

\* The counters only grow.
LEMMA SinceKept ==
    ASSUME HandlerInv, [HandlerNext]_handlerVars, NEW t \in Tasks, SinceIssued(t),
           since'[t] = since[t]
    PROVE  SinceIssued(t)'
<1>1. TypeOK /\ TypeOK' /\ since[t] \in Counters
  BY HandlerInvNext DEF HandlerInv, HandlerTypeOK
<1>2. /\ nextMockId \in Nat /\ nextForwardingRuleId \in Nat /\ nextProxyRuleId \in Nat
      /\ nextMockId' \in Nat /\ nextForwardingRuleId' \in Nat /\ nextProxyRuleId' \in Nat
      /\ since[t].mocks \in Nat /\ since[t].forwarding \in Nat /\ since[t].proxy \in Nat
  BY <1>1 DEF TypeOK, Counters
<1>3. /\ nextMockId <= nextMockId'
      /\ nextForwardingRuleId <= nextForwardingRuleId'
      /\ nextProxyRuleId <= nextProxyRuleId'
  BY TablesStep
<1>4. QED
  BY <1>2, <1>3 DEF SinceIssued

\* A task that keeps its request and its route, whatever stage it goes to.
LEMMA TaskKept ==
    ASSUME HandlerInv, [HandlerNext]_handlerVars, NEW t \in Tasks, TaskInv(t),
           request'[t] = request[t], route'[t] = route[t], pick'[t] = pick[t],
           since'[t] = since[t],
           \/ stage'[t] = stage[t]
           \/ stage'[t] \notin {"unsent", "received", "unforwarded", "unproxied"}
    PROVE  TaskInv(t)'
<1>1. SinceIssued(t)'
  BY SinceKept DEF TaskInv
<1>2. LookedUp(t)'
  BY TablesStep DEF TaskInv, LookedUp, Passed
<1>3. InOrder(t)'
  BY TablesStep DEF TaskInv, InOrder, OlderWaits
<1>4. QED
  BY <1>1, <1>2, <1>3 DEF TaskInv

\* A task's own step.
LEMMA TaskMoves ==
    ASSUME HandlerInv, [HandlerNext]_handlerVars, NEW t \in Tasks, TaskInv(t),
           Receive(t) \/ ServerStep(t) \/ UpstreamStep(t) \/ Disconnect(t)
    PROVE  TaskInv(t)'
<1> USE DEF Move, Choose
<1>1. /\ stage \in [Tasks -> Stages] /\ since \in [Tasks -> Counters]
      /\ DOMAIN route = Tasks /\ DOMAIN pick = Tasks
      /\ nextMockId \in Nat /\ nextForwardingRuleId \in Nat /\ nextProxyRuleId \in Nat
  BY DEF HandlerInv, HandlerTypeOK, TypeOK
<1>2. CASE Receive(t)
  <2>1. /\ stage[t] = "unsent" /\ stage'[t] \in {"received", "finished"}
        /\ UNCHANGED <<vars, request, route, pick>>
        /\ since'[t] = [mocks |-> nextMockId, forwarding |-> nextForwardingRuleId,
                        proxy |-> nextProxyRuleId, recordings |-> nextRecordingId]
    BY <1>1, <1>2 DEF Receive
  <2>2. route'[t] = "none"
    BY <2>1 DEF TaskInv, LookedUp
  <2>3. SinceIssued(t)'
    BY <1>1, <2>1 DEF SinceIssued, vars, mockVars, ruleVars
  <2>4. QED
    BY <2>1, <2>2, <2>3 DEF TaskInv, LookedUp, InOrder
<1>3. CASE FindForwardRule(t)
  <2>1. /\ stage[t] = "received" /\ route[t] = "none"
        /\ UNCHANGED <<request, since, forwardingRules>>
    BY <1>3 DEF FindForwardRule, TaskInv, LookedUp, vars, ruleVars
  <2>2. SinceIssued(t)'
    BY <2>1, SinceKept DEF TaskInv
  <2>3. CASE /\ Matching(forwardingRules, request[t]) = {}
             /\ stage'[t] = "unforwarded" /\ UNCHANGED <<route, pick>>
    BY <2>1, <2>2, <2>3 DEF TaskInv, LookedUp, InOrder, Passed
  <2>4. ASSUME NEW id \in First(forwardingRules, request[t]),
               stage'[t] = "upstream", route'[t] = "forward", pick'[t] = id
        PROVE  TaskInv(t)'
    BY <2>1, <2>2, <2>4 DEF TaskInv, LookedUp, InOrder, OlderWaits, First
  <2>5. QED
    BY <1>1, <1>3, <2>3, <2>4 DEF FindForwardRule
<1>4. CASE FindProxyRule(t)
  <2>1. /\ stage[t] = "unforwarded" /\ route[t] = "none"
        /\ UNCHANGED <<request, since, forwardingRules, proxyRules>>
        /\ Passed(t, forwardingRules, since[t].forwarding)
    BY <1>4 DEF FindProxyRule, TaskInv, LookedUp, vars, ruleVars
  <2>2. SinceIssued(t)'
    BY <2>1, SinceKept DEF TaskInv
  <2>3. CASE /\ Matching(proxyRules, request[t]) = {}
             /\ stage'[t] = "unproxied" /\ UNCHANGED <<route, pick>>
    BY <2>1, <2>2, <2>3 DEF TaskInv, LookedUp, InOrder, Passed
  <2>4. ASSUME NEW id \in First(proxyRules, request[t]),
               stage'[t] = "upstream", route'[t] = "proxy", pick'[t] = id
        PROVE  TaskInv(t)'
    BY <2>1, <2>2, <2>4 DEF TaskInv, LookedUp, InOrder, OlderWaits, Passed, First
  <2>5. QED
    BY <1>1, <1>4, <2>3, <2>4 DEF FindProxyRule
<1>5. CASE ServeRequest(t)
  <2>1. /\ stage[t] = "unproxied" /\ UNCHANGED <<request, since, ruleVars>>
        /\ Passed(t, forwardingRules, since[t].forwarding)
        /\ Passed(t, proxyRules, since[t].proxy)
    BY <1>5 DEF ServeRequest, ServeMock, TaskInv, LookedUp
  <2>2. SinceIssued(t)'
    BY <2>1, SinceKept DEF TaskInv
  <2>3. \A i \in Matching(mocks', request[t]) :
           i < since[t].mocks => i \in Matching(mocks, request[t])
    BY TablesStep DEF TaskInv
  <2>4. CASE /\ Matching(mocks, request[t]) = {}
             /\ stage'[t] = "answered" /\ route'[t] = "unmatched"
    BY <2>1, <2>2, <2>3, <2>4
       DEF TaskInv, LookedUp, InOrder, OlderWaits, Passed, ruleVars
  <2>5. ASSUME NEW id \in First(mocks, request[t]),
               stage'[t] \in {"delayed", "picked"}, route'[t] = "mock", pick'[t] = id
        PROVE  TaskInv(t)'
    BY <2>1, <2>2, <2>3, <2>5
       DEF TaskInv, LookedUp, InOrder, OlderWaits, Passed, First, ruleVars
  <2>6. QED
    BY <1>1, <1>5, <2>4, <2>5 DEF ServeRequest
<1>6. CASE UpstreamStep(t) \/ BuildResponse(t) \/ RecordAndReply(t) \/ Disconnect(t)
  <2>1. /\ stage'[t] \in {"answered", "finished", "cancelled"}
        /\ UNCHANGED <<request, route, pick, since>>
    BY <1>1, <1>6 DEF UpstreamStep, UpstreamAnswers, UpstreamFails, BuildResponse,
       RecordAndReply, Disconnect
  <2>2. QED
    BY <2>1, TaskKept
<1>7. QED
  BY <1>2, <1>3, <1>4, <1>5, <1>6 DEF ServerStep

LEMMA PriorityNext ==
    HandlerInv /\ PriorityInv /\ [HandlerNext]_handlerVars => PriorityInv'
<1> SUFFICES ASSUME HandlerInv, PriorityInv, [HandlerNext]_handlerVars,
                    NEW t \in Tasks
             PROVE  TaskInv(t)'
  BY DEF PriorityInv
<1>1. TaskInv(t)
  BY DEF PriorityInv
<1>2. CASE Receive(t) \/ ServerStep(t) \/ UpstreamStep(t) \/ Disconnect(t)
  BY <1>1, <1>2, TaskMoves
<1>3. CASE UNCHANGED <<stage[t], request[t], route[t], pick[t], since[t]>>
  BY <1>1, <1>3, TaskKept
<1>4. CASE ManagementStep \/ (\E c \in Callers : StartReset(c)) \/ UNCHANGED handlerVars
  BY <1>3, <1>4 DEF ManagementStep, StartReset, handlerVars, taskVars
<1>5. ASSUME NEW u \in Tasks, u # t,
             Receive(u) \/ ServerStep(u) \/ UpstreamStep(u) \/ Disconnect(u)
      PROVE  UNCHANGED <<stage[t], request[t], route[t], pick[t], since[t]>>
  <2> USE DEF HandlerInv, HandlerTypeOK, Move, Choose
  <2>1. CASE Receive(u) \/ UpstreamStep(u) \/ Disconnect(u)
    BY <1>5, <2>1 DEF Receive, UpstreamStep, UpstreamAnswers, UpstreamFails, Disconnect
  <2>2. CASE FindForwardRule(u) \/ FindProxyRule(u)
    BY <1>5, <2>2 DEF FindForwardRule, FindProxyRule
  <2>3. CASE ServeRequest(u) \/ BuildResponse(u) \/ RecordAndReply(u)
    BY <1>5, <2>3 DEF ServeRequest, BuildResponse, RecordAndReply
  <2>4. QED
    BY <1>5, <2>1, <2>2, <2>3 DEF ServerStep
<1>6. QED
  BY <1>2, <1>3, <1>4, <1>5 DEF HandlerNext

\* Priority: forwarding rules before proxy rules before mocks, and among each the
\* oldest first, although the three are looked up one after the other while other
\* callers add and delete them.
THEOREM PriorityHolds == HandlerSpec => []PriorityRespected
<1>1. PriorityInv => PriorityRespected
  BY DEF PriorityInv, TaskInv, InOrder, PriorityRespected
<1>2. QED
  BY <1>1, HandlerInvInit, HandlerInvNext, PriorityInit, PriorityNext, PTL DEF HandlerSpec

-------------------------------------------------------------------------------
\* Counting.  A mock that is yet to come has been picked by no task, so it starts
\* with as many calls as tasks that picked it: none.

Counted(i) == {t \in Tasks : route[t] = "mock" /\ pick[t] = i}

PicksIssued ==
    \A t \in Tasks : route[t] = "mock" => pick[t] \in Nat /\ pick[t] < nextMockId

CountInv == CountedOnce /\ PicksIssued

LEMMA CallsAreCounted ==
    CountedOnce <=> \A i \in DOMAIN mocks : mocks[i].calls = Cardinality(Counted(i))
BY DEF CountedOnce, Counted

\* The management calls, and a reset that begins, serve no request.
LEMMA ManagementOnMocks ==
    ASSUME ManagementStep \/ \E c \in Callers : StartReset(c)
    PROVE  MocksKept \/ MocksAdded \/ MocksRemoved
<1> USE DEF mockVars
<1>1. ASSUME NEW rr, AddMock(rr) PROVE MocksAdded
  BY <1>1 DEF AddMock, MocksAdded
<1>2. ASSUME NEW id, DeleteMock(id) PROVE MocksRemoved
  BY <1>2 DEF DeleteMock, MocksRemoved
<1>3. CASE DeleteAllMocks
  BY <1>3 DEF DeleteAllMocks, MocksRemoved
<1>4. ASSUME DeleteHistory \/ RuleStep \/ DeleteAllRecordings
             \/ (\E rr \in Requirements : CreateRecording(rr))
             \/ (\E id \in DOMAIN recordings : DeleteRecording(id))
      PROVE  MocksKept
  BY <1>4 DEF MocksKept, DeleteHistory, RuleStep, CreateForwardingRule, CreateProxyRule,
     DeleteForwardingRule, DeleteProxyRule, DeleteAllForwardingRules, DeleteAllProxyRules,
     CreateRecording, DeleteRecording, DeleteAllRecordings
<1>5. ASSUME NEW c, BeginReset(c) PROVE MocksRemoved
  BY <1>5 DEF BeginReset, MocksRemoved
<1>6. ASSUME NEW c, LoadNext(c) PROVE MocksAdded
  BY <1>6 DEF LoadNext, MocksAdded
<1>7. ASSUME NEW c, CallerStep(c), ~BeginReset(c), ~LoadNext(c) PROVE MocksKept
  BY <1>7 DEF CallerStep, MocksKept, ResetHistory, ResetForwardingRules, ResetProxyRules,
     ResetRecordings, BeginLoad, LoadFails
<1>8. QED
  BY <1>1, <1>2, <1>3, <1>4, <1>5, <1>6, <1>7 DEF ManagementStep, StartReset

\* A step in which no task is given a mock and no request is served.
LEMMA CountKept ==
    ASSUME TypeOK, CountInv, MocksKept \/ MocksAdded \/ MocksRemoved,
           \A t \in Tasks : \/ route'[t] = route[t] /\ pick'[t] = pick[t]
                            \/ route[t] # "mock" /\ route'[t] # "mock"
    PROVE  CountInv'
<1>1. \A i : Counted(i)' = Counted(i)
  BY DEF Counted
<1>2. nextMockId \in Nat /\ (nextMockId' = nextMockId \/ nextMockId' = nextMockId + 1)
  BY DEF TypeOK, MocksKept, MocksAdded, MocksRemoved, InsertMock, mockVars
<1>3. PicksIssued'
  BY <1>2 DEF CountInv, PicksIssued
<1>4. ASSUME NEW i \in DOMAIN mocks' PROVE mocks'[i].calls = Cardinality(Counted(i))
  <2>1. ASSUME i \in DOMAIN mocks, mocks'[i] = mocks[i]
        PROVE  mocks'[i].calls = Cardinality(Counted(i))
    BY <2>1, CallsAreCounted DEF CountInv
  <2>2. CASE MocksKept
    BY <2>1, <2>2 DEF MocksKept, mockVars
  <2>3. CASE MocksRemoved
    BY <2>1, <2>3 DEF MocksRemoved, Without, Restrict
  <2>4. CASE MocksAdded /\ i # nextMockId
    BY <2>1, <2>4 DEF MocksAdded, InsertMock, Put
  <2>5. CASE MocksAdded /\ i = nextMockId
    <3>1. mocks'[i].calls = 0
      BY <2>5 DEF MocksAdded, InsertMock, Put
    <3>2. Counted(i) = {}
      BY <1>2, <2>5 DEF Counted, CountInv, PicksIssued
    <3>3. QED
      BY <3>1, <3>2, FS_EmptySet
  <2>6. QED
    BY <2>2, <2>3, <2>4, <2>5
<1>5. CountedOnce'
  BY <1>1, <1>4 DEF CountedOnce, Counted
<1>6. QED
  BY <1>3, <1>5 DEF CountInv

\* A request is served: the mock it is given counts it, and no other does.
LEMMA CountServed ==
    ASSUME IsFiniteSet(Tasks), HandlerInv, CountInv, NEW t \in Tasks, route[t] = "none",
           ServeRequest(t)
    PROVE  CountInv'
<1> USE DEF Move, Choose
<1>1. /\ route \in [Tasks -> {"none", "forward", "proxy", "mock", "unmatched"}]
      /\ pick \in [Tasks -> Nat \cup {NoId}]
      /\ TypeOK /\ IssuedIds
  BY DEF HandlerInv, HandlerTypeOK
<1>2. /\ UNCHANGED nextMockId /\ DOMAIN mocks' = DOMAIN mocks
      /\ \A i \in DOMAIN mocks :
            /\ i \in First(mocks, request[t]) => mocks'[i].calls = mocks[i].calls + 1
            /\ i \notin First(mocks, request[t]) => mocks'[i].calls = mocks[i].calls
  <2>1. \A i \in DOMAIN mocks : mocks[i] \in Mock
    BY <1>1 DEF TypeOK
  <2>2. QED
    BY <2>1 DEF ServeRequest, ServeMock, Mock
<1>3. \A i : IsFiniteSet(Counted(i)) /\ Cardinality(Counted(i)) \in Nat
  BY FS_Subset, FS_CardinalityType DEF Counted
<1>4. CASE /\ Matching(mocks, request[t]) = {}
           /\ route' = [route EXCEPT ![t] = "unmatched"] /\ pick' = [pick EXCEPT ![t] = NoId]
  <2>1. \A i : Counted(i)' = Counted(i)
    BY <1>1, <1>4 DEF Counted
  <2>2. First(mocks, request[t]) = {}
    BY <1>4 DEF First
  <2>3. CountedOnce'
    BY <1>2, <2>1, <2>2, CallsAreCounted DEF CountInv, CountedOnce, Counted
  <2>4. QED
    BY <1>1, <1>2, <1>4, <2>3 DEF CountInv, PicksIssued
<1>5. ASSUME NEW id \in First(mocks, request[t]),
             route' = [route EXCEPT ![t] = "mock"], pick' = [pick EXCEPT ![t] = id]
      PROVE  CountInv'
  <2>1. id \in DOMAIN mocks /\ id \in Nat /\ id < nextMockId
    BY <1>1, <1>5 DEF First, Matching, IssuedIds
  <2>2. \A i \in First(mocks, request[t]) : i = id
    BY <1>1, <1>5 DEF First, Matching, IssuedIds
  <2>3. t \notin Counted(id) /\ Counted(id)' = Counted(id) \cup {t}
    BY <1>1, <1>5 DEF Counted
  <2>4. \A i : i # id => Counted(i)' = Counted(i)
    BY <1>1, <1>5 DEF Counted
  <2>5. Cardinality(Counted(id)') = Cardinality(Counted(id)) + 1
    BY <1>3, <2>3, FS_AddElement
  <2>6. \A i \in DOMAIN mocks : mocks[i].calls = Cardinality(Counted(i))
    BY CallsAreCounted DEF CountInv
  <2>7. \A i \in DOMAIN mocks' : mocks'[i].calls = Cardinality(Counted(i)')
    BY <1>2, <1>5, <2>1, <2>2, <2>4, <2>5, <2>6
  <2>8. CountedOnce'
    BY <2>7 DEF CountedOnce, Counted
  <2>9. QED
    BY <1>1, <1>2, <1>5, <2>1, <2>8 DEF CountInv, PicksIssued
<1>6. QED
  BY <1>4, <1>5 DEF ServeRequest

LEMMA CountInvNext ==
    ASSUME IsFiniteSet(Tasks), HandlerInv, PriorityInv, CountInv, [HandlerNext]_handlerVars
    PROVE  CountInv'
<1>1. TypeOK
  BY DEF HandlerInv, HandlerTypeOK
<1>2. CASE ManagementStep \/ \E c \in Callers : StartReset(c)
  BY <1>1, <1>2, ManagementOnMocks, CountKept
     DEF ManagementStep, StartReset, taskVars
<1>3. CASE UNCHANGED handlerVars
  BY <1>1, <1>3, CountKept DEF handlerVars, taskVars, vars, MocksKept
<1>4. ASSUME NEW t \in Tasks, Receive(t) \/ ServerStep(t) \/ UpstreamStep(t) \/ Disconnect(t)
      PROVE  CountInv'
  <2>1. CASE Receive(t) \/ BuildResponse(t) \/ UpstreamStep(t) \/ Disconnect(t)
    BY <1>1, <2>1, CountKept
       DEF Receive, BuildResponse, UpstreamStep, UpstreamAnswers, UpstreamFails, Disconnect,
           vars, MocksKept
  <2>2. CASE RecordAndReply(t)
    BY <1>1, <2>2, CountKept DEF RecordAndReply, Record, vars, MocksKept
  <2>3. CASE FindForwardRule(t) \/ FindProxyRule(t)
    <3>1. route[t] = "none"
      BY <2>3 DEF FindForwardRule, FindProxyRule, Move, PriorityInv, TaskInv, LookedUp
    <3>2. /\ MocksKept
          /\ \A u \in Tasks : \/ route'[u] = route[u] /\ pick'[u] = pick[u]
                              \/ route[u] # "mock" /\ route'[u] # "mock"
      BY <2>3, <3>1 DEF FindForwardRule, FindProxyRule, Choose, vars, MocksKept,
         HandlerInv, HandlerTypeOK
    <3>3. QED
      BY <1>1, <3>2, CountKept
  <2>4. CASE ServeRequest(t)
    <3>1. route[t] = "none"
      BY <2>4 DEF ServeRequest, Move, PriorityInv, TaskInv, LookedUp
    <3>2. QED
      BY <2>4, <3>1, CountServed
  <2>5. QED
    BY <1>4, <2>1, <2>2, <2>3, <2>4 DEF ServerStep
<1>5. QED
  BY <1>2, <1>3, <1>4 DEF HandlerNext

LEMMA HandlerInvAlways == HandlerSpec => [](HandlerInv /\ PriorityInv)
BY HandlerInvInit, HandlerInvNext, PriorityInit, PriorityNext, PTL DEF HandlerSpec

\* The calls of a mock, which its assertions compare with what the test expects,
\* are the requests that were given it: none is lost and none counts twice, with
\* any number of requests and management calls in between.
THEOREM EachRequestCountsOnce ==
    ASSUME IsFiniteSet(Tasks)
    PROVE  HandlerSpec => []CountedOnce
<1>1. HandlerInit => CountInv
  <2> SUFFICES ASSUME HandlerInit PROVE CountInv
    OBVIOUS
  <2>1. \A i : Counted(i) = {}
    BY DEF HandlerInit, Counted
  <2>2. \A i \in DOMAIN mocks : mocks[i].calls = 0
    BY DEF HandlerInit, Init
  <2>3. QED
    BY <2>1, <2>2, FS_EmptySet, CallsAreCounted DEF CountInv, PicksIssued, HandlerInit
<1>2. HandlerInv /\ PriorityInv /\ CountInv /\ [HandlerNext]_handlerVars => CountInv'
  BY CountInvNext
<1>3. CountInv => CountedOnce
  BY DEF CountInv
<1>4. QED
  BY <1>1, <1>2, <1>3, HandlerInvAlways, PTL DEF HandlerSpec

-------------------------------------------------------------------------------
\* The log.  Its entries stem from different requests: a one-to-one function takes
\* the places of the log to the requests, and it avoids those that were over when
\* a reset began that has cleared the log since.

Served(t) == route[t] \in {"mock", "unmatched"}

LogFrom(f) ==
    /\ f \in [1..Len(history) -> Tasks]
    /\ \A m, n \in 1..Len(history) : f[m] = f[n] => m = n
    /\ \A n \in 1..Len(history) :
          /\ Served(f[n]) /\ request[f[n]] = history[n]
          /\ \A c \in Callers : phase[c] # "history" => f[n] \notin ended[c]

EndedIsOver == \A c \in Callers : ended[c] \subseteq Over

LogInv == EndedIsOver /\ \E f : LogFrom(f)

\* What a step does to the resets under way: one leaves the section that clears the
\* log only by clearing it, and the tasks over at its beginning are noted then.
LEMMA ResetsMove ==
    ASSUME HandlerInv, [HandlerNext]_handlerVars, NEW c \in Callers
    PROVE  /\ \/ history' = <<>>
              \/ phase'[c] # "history" => phase[c] # "history"
           /\ \/ recordings' = <<>>
              \/ phase'[c] \notin ResetSections => phase[c] \notin ResetSections
           /\ \/ ended'[c] = ended[c]
              \/ phase'[c] = "history" /\ ended'[c] = Over
<1>1. phase \in [Callers -> Phases] /\ ended \in [Callers -> SUBSET Tasks]
  BY DEF HandlerInv, HandlerTypeOK, TypeOK
<1> USE DEF ResetSections, callerVars
<1>2. ASSUME NEW d \in Callers, CallerStep(d)
      PROVE  /\ history' = <<>> \/ (phase'[c] # "history" => phase[c] # "history")
             /\ \/ recordings' = <<>>
                \/ phase'[c] \notin ResetSections => phase[c] \notin ResetSections
  BY <1>1, <1>2 DEF CallerStep, BeginReset, ResetHistory, ResetForwardingRules,
     ResetProxyRules, ResetRecordings, BeginLoad, LoadNext, LoadFails
<1>3. CASE ManagementStep
  <2>1. UNCHANGED ended
    BY <1>3 DEF ManagementStep
  <2>2. ASSUME ~\E d \in Callers : CallerStep(d) PROVE UNCHANGED phase
    BY <1>3, <2>2 DEF ManagementStep, AddMock, DeleteMock, DeleteAllMocks, DeleteHistory,
       RuleStep, CreateForwardingRule, CreateProxyRule, DeleteForwardingRule,
       DeleteProxyRule, DeleteAllForwardingRules, DeleteAllProxyRules, CreateRecording,
       DeleteRecording, DeleteAllRecordings
  <2>3. QED
    BY <1>2, <2>1, <2>2
<1>4. ASSUME NEW d \in Callers, StartReset(d)
      PROVE  /\ history' = <<>> \/ (phase'[c] # "history" => phase[c] # "history")
             /\ \/ recordings' = <<>>
                \/ phase'[c] \notin ResetSections => phase[c] \notin ResetSections
             /\ \/ ended'[c] = ended[c]
                \/ phase'[c] = "history" /\ ended'[c] = Over
  BY <1>1, <1>4 DEF StartReset, BeginReset
<1>5. CASE UNCHANGED handlerVars
  BY <1>5 DEF handlerVars, vars
<1>6. ASSUME NEW t \in Tasks, Receive(t) \/ ServerStep(t) \/ UpstreamStep(t) \/ Disconnect(t)
      PROVE  UNCHANGED <<phase, ended>>
  BY <1>6 DEF Receive, ServerStep, FindForwardRule, FindProxyRule, ServeRequest, ServeMock,
     BuildResponse, RecordAndReply, Record, UpstreamStep, UpstreamAnswers, UpstreamFails,
     Disconnect, vars
<1>7. QED
  BY <1>3, <1>4, <1>5, <1>6 DEF HandlerNext

\* What a step does to the tasks: each stays over, and keeps its request.
LEMMA TasksStay ==
    ASSUME HandlerInv, [HandlerNext]_handlerVars, NEW t \in Tasks
    PROVE  /\ request'[t] = request[t]
           /\ stage[t] \in {"finished", "cancelled"} =>
                 stage'[t] = stage[t] /\ answer'[t] = answer[t]
                 /\ route'[t] = route[t] /\ since'[t] = since[t]
<1> USE DEF Move, Reply, Choose
<1>1. /\ stage \in [Tasks -> Stages] /\ since \in [Tasks -> Counters]
      /\ DOMAIN route = Tasks /\ DOMAIN answer = Tasks
  BY DEF HandlerInv, HandlerTypeOK
<1>2. CASE ManagementStep \/ (\E c \in Callers : StartReset(c)) \/ UNCHANGED handlerVars
  BY <1>2 DEF ManagementStep, StartReset, handlerVars, taskVars
<1>3. ASSUME NEW u \in Tasks, Receive(u) \/ ServerStep(u) \/ UpstreamStep(u) \/ Disconnect(u)
      PROVE  /\ UNCHANGED request
             /\ stage[t] \in {"finished", "cancelled"} =>
                   stage'[t] = stage[t] /\ answer'[t] = answer[t]
                   /\ route'[t] = route[t] /\ since'[t] = since[t]
  <2>1. CASE Receive(u) \/ UpstreamStep(u) \/ Disconnect(u)
    BY <1>1, <2>1 DEF Receive, UpstreamStep, UpstreamAnswers, UpstreamFails, Disconnect
  <2>2. CASE FindForwardRule(u) \/ FindProxyRule(u)
    BY <1>1, <2>2 DEF FindForwardRule, FindProxyRule
  <2>3. CASE ServeRequest(u)
    BY <1>1, <2>3 DEF ServeRequest
  <2>4. CASE BuildResponse(u) \/ RecordAndReply(u)
    BY <1>1, <2>4 DEF BuildResponse, RecordAndReply
  <2>5. QED
    BY <1>3, <2>1, <2>2, <2>3, <2>4 DEF ServerStep
<1>4. QED
  BY <1>2, <1>3 DEF HandlerNext

LEMMA EndedStaysOver ==
    ASSUME HandlerInv, EndedIsOver, [HandlerNext]_handlerVars
    PROVE  EndedIsOver'
<1>1. Over \subseteq Over'
  BY TasksStay DEF Over
<1>2. QED
  BY <1>1, ResetsMove DEF EndedIsOver

LEMMA RouteStays ==
    ASSUME HandlerInv, PriorityInv, [HandlerNext]_handlerVars, NEW t \in Tasks,
           route[t] # "none"
    PROVE  route'[t] = route[t]
<1> USE DEF Move, Choose
<1>1. DOMAIN route = Tasks /\ LookedUp(t)
  BY DEF HandlerInv, HandlerTypeOK, PriorityInv, TaskInv
<1>2. CASE ManagementStep \/ (\E c \in Callers : StartReset(c)) \/ UNCHANGED handlerVars
  BY <1>2 DEF ManagementStep, StartReset, handlerVars, taskVars
<1>3. ASSUME NEW u \in Tasks, Receive(u) \/ ServerStep(u) \/ UpstreamStep(u) \/ Disconnect(u)
      PROVE  route'[t] = route[t]
  <2>1. CASE Receive(u) \/ UpstreamStep(u) \/ Disconnect(u) \/ BuildResponse(u)
             \/ RecordAndReply(u)
    BY <2>1 DEF Receive, UpstreamStep, UpstreamAnswers, UpstreamFails, Disconnect,
       BuildResponse, RecordAndReply
  <2>2. CASE FindForwardRule(u) \/ FindProxyRule(u) \/ ServeRequest(u)
    BY <1>1, <2>2 DEF FindForwardRule, FindProxyRule, ServeRequest, LookedUp
  <2>3. QED
    BY <1>3, <2>1, <2>2 DEF ServerStep
<1>4. QED
  BY <1>2, <1>3 DEF HandlerNext

\* The log grows by a request only when that request is served.
LEMMA LogSteps ==
    ASSUME [HandlerNext]_handlerVars
    PROVE  \/ history' = history \/ history' = <<>>
           \/ \E t \in Tasks : ServeRequest(t)
<1> USE DEF historyVars
<1>1. CASE ManagementStep
  BY <1>1 DEF ManagementStep, AddMock, DeleteMock, DeleteAllMocks, DeleteHistory,
     RuleStep, CreateForwardingRule, CreateProxyRule, DeleteForwardingRule,
     DeleteProxyRule, DeleteAllForwardingRules, DeleteAllProxyRules, CreateRecording,
     DeleteRecording, DeleteAllRecordings, CallerStep, BeginReset, ResetHistory,
     ResetForwardingRules, ResetProxyRules, ResetRecordings, BeginLoad, LoadNext, LoadFails
<1>2. CASE (\E c \in Callers : StartReset(c)) \/ UNCHANGED handlerVars
  BY <1>2 DEF StartReset, BeginReset, handlerVars, vars
<1>3. ASSUME NEW t \in Tasks, ~ServeRequest(t),
             Receive(t) \/ ServerStep(t) \/ UpstreamStep(t) \/ Disconnect(t)
      PROVE  history' = history
  BY <1>3 DEF Receive, ServerStep, FindForwardRule, FindProxyRule, BuildResponse,
     RecordAndReply, Record, UpstreamStep, UpstreamAnswers, UpstreamFails, Disconnect, vars
<1>4. QED
  BY <1>1, <1>2, <1>3 DEF HandlerNext

LEMMA LogKept ==
    ASSUME HandlerInv, PriorityInv, [HandlerNext]_handlerVars, history' = history,
           NEW f, LogFrom(f)
    PROVE  \E g : LogFrom(g)'
<1>1. CASE history = <<>>
  <2>1. <<>> \in [1..0 -> Tasks] /\ Len(history') = 0 /\ 1..0 = {}
    BY <1>1
  <2>2. LogFrom(<<>>)'
    BY <2>1 DEF LogFrom
  <2>3. QED
    BY <2>2
<1>2. CASE history # <<>>
  <2>1. ASSUME NEW n \in 1..Len(history)
        PROVE  /\ Served(f[n])' /\ request'[f[n]] = history[n]
               /\ \A c \in Callers : phase'[c] # "history" => f[n] \notin ended'[c]
    <3>1. /\ f[n] \in Tasks /\ Served(f[n]) /\ request[f[n]] = history[n]
          /\ \A c \in Callers : phase[c] # "history" => f[n] \notin ended[c]
      BY <2>1 DEF LogFrom
    <3>2. Served(f[n])' /\ request'[f[n]] = history[n]
      BY <3>1, RouteStays, TasksStay DEF Served
    <3>3. history' # <<>>
      BY <1>2
    <3>4. QED
      BY <3>1, <3>2, <3>3, ResetsMove
  <2>2. LogFrom(f)'
    BY <2>1 DEF LogFrom
  <2>3. QED
    BY <2>2
<1>3. QED
  BY <1>1, <1>2

\* A request is appended, and the oldest entry may be dropped: then the places move
\* up by one.
LEMMA LogServed ==
    ASSUME HandlerInv, PriorityInv, EndedIsOver, [HandlerNext]_handlerVars,
           NEW t \in Tasks, ServeRequest(t), NEW f, LogFrom(f)
    PROVE  \E g : LogFrom(g)'
<1> DEFINE len == Len(history)
           new == Len(history')
           shift == len + 1 - new
           g == [n \in 1..new |-> IF n = new THEN t ELSE f[n + shift]]
<1>1. /\ history \in Seq(Requests) /\ len \in Nat /\ request[t] \in Requests
      /\ HistoryLimit \in Nat /\ stage[t] = "unproxied" /\ route[t] = "none"
      /\ stage \in [Tasks -> Stages] /\ route \in [Tasks -> {"none", "forward", "proxy",
                                                             "mock", "unmatched"}]
  BY DataAssumption DEF HandlerInv, HandlerTypeOK, TypeOK, ServeRequest, Move, PriorityInv,
     TaskInv, LookedUp
<1>2. history' = Logged(request[t])
  BY DEF ServeRequest, ServeMock
<1>3. /\ new \in Nat /\ new > 0 /\ shift \in {0, 1}
      /\ history'[new] = request[t]
      /\ \A n \in 1..(new - 1) : history'[n] = history[n + shift] /\ n + shift \in 1..len
  <2>1. CASE len > HistoryLimit
    <3>1. history # <<>> /\ history' = Append(Tail(history), request[t])
      BY <1>1, <1>2, <2>1 DEF Logged
    <3>2. /\ Tail(history) \in Seq(Requests) /\ Len(Tail(history)) = len - 1
          /\ \A n \in 1..(len - 1) : Tail(history)[n] = history[n + 1]
      BY <1>1, <3>1
    <3>3. new = len /\ history'[len] = request[t]
          /\ \A n \in 1..(len - 1) : history'[n] = Tail(history)[n]
      BY <1>1, <3>1, <3>2
    <3>4. QED
      BY <1>1, <2>1, <3>2, <3>3
  <2>2. CASE ~(len > HistoryLimit)
    <3>1. history' = Append(history, request[t])
      BY <1>1, <1>2, <2>2 DEF Logged
    <3>2. new = len + 1 /\ history'[len + 1] = request[t]
          /\ \A n \in 1..len : history'[n] = history[n]
      BY <1>1, <3>1
    <3>3. QED
      BY <1>1, <3>2
  <2>3. QED
    BY <2>1, <2>2
<1>4. /\ Served(t)' /\ request'[t] = request[t]
      /\ \A c \in Callers : phase'[c] # "history" => t \notin ended'[c]
  <2>1. route'[t] \in {"mock", "unmatched"}
    BY <1>1 DEF ServeRequest, Choose
  <2>2. UNCHANGED <<request, ended>>
    BY DEF ServeRequest
  <2>3. \A c \in Callers : t \notin ended[c]
    BY <1>1 DEF EndedIsOver, Over
  <2>4. QED
    BY <2>1, <2>2, <2>3 DEF Served
<1>5. ASSUME NEW n \in 1..len
      PROVE  /\ f[n] \in Tasks \ {t} /\ Served(f[n])' /\ request'[f[n]] = history[n]
             /\ \A c \in Callers : phase'[c] # "history" => f[n] \notin ended'[c]
  <2>1. /\ f[n] \in Tasks /\ Served(f[n]) /\ request[f[n]] = history[n]
        /\ \A c \in Callers : phase[c] # "history" => f[n] \notin ended[c]
    BY DEF LogFrom
  <2>2. f[n] # t
    BY <1>1, <2>1 DEF Served
  <2>3. Served(f[n])' /\ request'[f[n]] = history[n]
    BY <2>1, RouteStays, TasksStay DEF Served
  <2>4. history' # <<>>
    BY <1>3
  <2>5. QED
    BY <2>1, <2>2, <2>3, <2>4, ResetsMove
<1>6. \A m, n \in 1..len : f[m] = f[n] => m = n
  BY DEF LogFrom
<1>7. /\ g \in [1..new -> Tasks]
      /\ \A m, n \in 1..new : g[m] = g[n] => m = n
  <2>1. \A n \in 1..new : n = new \/ n \in 1..(new - 1)
    BY <1>3
  <2>2. \A n \in 1..(new - 1) : n + shift \in 1..len /\ g[n] = f[n + shift]
    BY <1>3
  <2>3. g[new] = t /\ \A n \in 1..(new - 1) : g[n] \in Tasks \ {t}
    BY <1>3, <1>5, <2>2
  <2>4. ASSUME NEW m \in 1..(new - 1), NEW n \in 1..(new - 1), g[m] = g[n] PROVE m = n
    <3>1. m + shift = n + shift
      BY <1>6, <2>2, <2>4
    <3>2. QED
      BY <1>3, <3>1
  <2>5. \A m, n \in 1..new : g[m] = g[n] => m = n
    BY <2>1, <2>3, <2>4
  <2>6. g \in [1..new -> Tasks]
    BY <2>1, <2>3
  <2>7. QED
    BY <2>5, <2>6
<1>8. PICK h : h = g
  OBVIOUS
<1>9. ASSUME NEW n \in 1..new
      PROVE  /\ Served(h[n])' /\ request'[h[n]] = history'[n]
             /\ \A c \in Callers : phase'[c] # "history" => h[n] \notin ended'[c]
  <2>1. CASE n = new
    <3>1. h[n] = t
      BY <1>3, <1>8, <2>1
    <3>2. QED
      BY <1>3, <1>4, <2>1, <3>1
  <2>2. CASE n \in 1..(new - 1)
    <3>1. /\ h[n] = f[n + shift] /\ n + shift \in 1..len
          /\ history'[n] = history[n + shift]
      BY <1>3, <1>8, <2>2
    <3>2. QED
      BY <1>5, <3>1
  <2>3. QED
    BY <1>3, <1>9, <2>1, <2>2
<1>10. LogFrom(h)'
  BY <1>7, <1>8, <1>9 DEF LogFrom
<1>11. QED
  BY <1>10

LEMMA LogInvNext ==
    ASSUME HandlerInv, PriorityInv, LogInv, [HandlerNext]_handlerVars
    PROVE  LogInv'
<1>1. EndedIsOver'
  BY EndedStaysOver DEF LogInv
<1>2. PICK f : LogFrom(f)
  BY DEF LogInv
<1>3. CASE history' = <<>>
  <2>1. <<>> \in [1..0 -> Tasks] /\ Len(history') = 0 /\ 1..0 = {}
    BY <1>3
  <2>2. LogFrom(<<>>)'
    BY <2>1 DEF LogFrom
  <2>3. QED
    BY <1>1, <2>2 DEF LogInv
<1>4. CASE history' = history
  BY <1>1, <1>2, <1>4, LogKept DEF LogInv
<1>5. CASE \E t \in Tasks : ServeRequest(t)
  BY <1>1, <1>2, <1>5, LogServed DEF LogInv
<1>6. QED
  BY <1>3, <1>4, <1>5, LogSteps

\* Counting the places through the function.
LEMMA LogCounts ==
    ASSUME IsFiniteSet(Tasks), HandlerInv, LogInv, NEW c \in Callers, phase[c] # "history",
           NEW r \in Requests
    PROVE  Cardinality({n \in DOMAIN history : history[n] = r})
             <= Cardinality({t \in Tasks \ ended[c] : Served(t) /\ request[t] = r})
<1> DEFINE P == {n \in DOMAIN history : history[n] = r}
           T == {t \in Tasks \ ended[c] : Served(t) /\ request[t] = r}
<1>1. PICK f : LogFrom(f)
  BY DEF LogInv
<1>2. DOMAIN history = 1..Len(history)
  BY DEF HandlerInv, HandlerTypeOK, TypeOK
<1>3. \A n \in P : f[n] \in T
  BY <1>1, <1>2 DEF LogFrom
<1>4. \A m, n \in P : f[m] = f[n] => m = n
  BY <1>1, <1>2 DEF LogFrom
<1>5. [n \in P |-> f[n]] \in Injection(P, T)
  BY <1>3, <1>4 DEF Injection, IsInjective
<1>6. IsFiniteSet(T)
  BY FS_Subset
<1>7. QED
  BY <1>5, <1>6, FS_Injection

-------------------------------------------------------------------------------
\* The recordings.  The entries of each stem from different requests that were
\* answered and that it accepts, among them all that came when it was there.

Entries(i) == recordings[i].mocks
Accepted(i) == {t \in Tasks : Answered(t) /\ request[t] \in Matches[recordings[i].requirements]}

RecordFrom(i, f) ==
    /\ f \in [1..Len(Entries(i)) -> Accepted(i)]
    /\ \A m, n \in 1..Len(Entries(i)) : f[m] = f[n] => m = n
    /\ \A n \in 1..Len(Entries(i)) :
          /\ Exchange(f[n]) = Entries(i)[n]
          /\ \A c \in Callers : phase[c] \notin ResetSections => f[n] \notin ended[c]
    /\ \A t \in Accepted(i) :
          i < since[t].recordings => \E n \in 1..Len(Entries(i)) : f[n] = t

RecordInv ==
    /\ \A t \in Tasks : since[t].recordings <= nextRecordingId
    /\ \A i \in DOMAIN recordings : \E f : RecordFrom(i, f)

LEMMA SinceRecordings ==
    ASSUME HandlerInv, [HandlerNext]_handlerVars, NEW t \in Tasks,
           since[t].recordings <= nextRecordingId
    PROVE  since'[t].recordings <= nextRecordingId'
<1>1. TypeOK /\ [Next]_vars /\ since \in [Tasks -> Counters]
  BY HandlerStepIsManagerStep DEF HandlerInv, HandlerTypeOK
<1>2. /\ nextRecordingId \in Nat /\ since[t].recordings \in Nat
      /\ nextRecordingId' \in Nat /\ nextRecordingId <= nextRecordingId'
  BY <1>1, RecordingTableStep DEF TypeOK, Counters, TableStep
<1>3. CASE since'[t] = since[t]
  BY <1>2, <1>3
<1>4. ASSUME NEW u \in Tasks, Receive(u) PROVE since'[t].recordings <= nextRecordingId'
  BY <1>1, <1>2, <1>4 DEF Receive
<1>5. CASE ~\E u \in Tasks : Receive(u)
  BY <1>3, <1>5 DEF HandlerNext, ManagementStep, StartReset, handlerVars, taskVars,
     ServerStep, FindForwardRule, FindProxyRule, ServeRequest, BuildResponse, RecordAndReply,
     UpstreamStep, UpstreamAnswers, UpstreamFails, Disconnect
<1>6. QED
  BY <1>4, <1>5

\* Only RecordAndReply answers a request with something else than an error.
LEMMA AnsweredStays ==
    ASSUME HandlerInv, [HandlerNext]_handlerVars, NEW t \in Tasks
    PROVE  /\ Answered(t) => /\ Answered(t)' /\ Exchange(t)' = Exchange(t)
                             /\ request'[t] = request[t] /\ since'[t] = since[t]
           /\ Answered(t)' => Answered(t) \/ RecordAndReply(t)
<1>1. Answered(t) => /\ Answered(t)' /\ Exchange(t)' = Exchange(t)
                     /\ request'[t] = request[t] /\ since'[t] = since[t]
  BY TasksStay DEF Answered, Exchange
<1> USE DEF Move, Reply
<1>2. /\ stage \in [Tasks -> Stages]
      /\ answer \in [Tasks -> Responses \cup {Unbuildable, Failed, Nothing}]
  BY DEF HandlerInv, HandlerTypeOK
<1>3. CASE ManagementStep \/ (\E c \in Callers : StartReset(c)) \/ UNCHANGED handlerVars
  BY <1>1, <1>3 DEF ManagementStep, StartReset, handlerVars, taskVars, Answered
<1>4. ASSUME NEW u \in Tasks, Receive(u) \/ ServerStep(u) \/ UpstreamStep(u) \/ Disconnect(u),
             Answered(t)'
      PROVE  Answered(t) \/ RecordAndReply(t)
  <2>1. CASE Receive(u) \/ UpstreamStep(u) \/ Disconnect(u) \/ BuildResponse(u)
    BY <1>2, <1>4, <2>1 DEF Receive, UpstreamStep, UpstreamAnswers, UpstreamFails,
       Disconnect, BuildResponse, Answered
  <2>2. CASE FindForwardRule(u) \/ FindProxyRule(u)
    BY <1>2, <1>4, <2>2 DEF FindForwardRule, FindProxyRule, Answered
  <2>3. CASE ServeRequest(u)
    <3>1. u = t => stage'[t] # "finished"
      BY <1>2, <2>3 DEF ServeRequest
    <3>2. u # t => stage'[t] = stage[t] /\ answer'[t] = answer[t]
      BY <1>2, <2>3 DEF ServeRequest
    <3>3. QED
      BY <1>4, <3>1, <3>2 DEF Answered
  <2>4. CASE RecordAndReply(u) /\ u # t
    BY <1>2, <1>4, <2>4 DEF RecordAndReply, Answered
  <2>5. QED
    BY <1>4, <2>1, <2>2, <2>3, <2>4 DEF ServerStep
<1>5. QED
  BY <1>1, <1>3, <1>4 DEF HandlerNext

LEMMA OneReplies ==
    ASSUME HandlerInv, NEW t \in Tasks, NEW u \in Tasks, RecordAndReply(t), RecordAndReply(u)
    PROVE  t = u
BY DEF HandlerInv, HandlerTypeOK, RecordAndReply, Move

\* What a step does to the recordings.
LEMMA RecordingSteps ==
    ASSUME [HandlerNext]_handlerVars
    PROVE  \/ recordings' = <<>>
           \/ recordings' = recordings
           \/ \E rr \in Requirements : CreateRecording(rr)
           \/ \E id \in DOMAIN recordings : DeleteRecording(id)
           \/ \E t \in Tasks :
                 RecordAndReply(t) /\ Record(request[t], answer[t], route[t] = "proxy")
<1> USE DEF recordingVars
<1>1. CASE ManagementStep
  BY <1>1 DEF ManagementStep, AddMock, DeleteMock, DeleteAllMocks, DeleteHistory,
     RuleStep, CreateForwardingRule, CreateProxyRule, DeleteForwardingRule,
     DeleteProxyRule, DeleteAllForwardingRules, DeleteAllProxyRules, DeleteAllRecordings,
     CallerStep, BeginReset, ResetHistory, ResetForwardingRules, ResetProxyRules,
     ResetRecordings, BeginLoad, LoadNext, LoadFails
<1>2. CASE (\E c \in Callers : StartReset(c)) \/ UNCHANGED handlerVars
  BY <1>2 DEF StartReset, BeginReset, handlerVars, vars
<1>3. ASSUME NEW t \in Tasks, ~RecordAndReply(t),
             Receive(t) \/ ServerStep(t) \/ UpstreamStep(t) \/ Disconnect(t)
      PROVE  recordings' = recordings
  BY <1>3 DEF Receive, ServerStep, FindForwardRule, FindProxyRule, BuildResponse,
     ServeRequest, ServeMock, UpstreamStep, UpstreamAnswers, UpstreamFails, Disconnect, vars
<1>4. ASSUME NEW t \in Tasks, RecordAndReply(t)
      PROVE  \/ recordings' = recordings
             \/ Record(request[t], answer[t], route[t] = "proxy")
  BY <1>4 DEF RecordAndReply, vars
<1>5. QED
  BY <1>1, <1>2, <1>3, <1>4 DEF HandlerNext

\* A recording that stays as it is, while no request that it accepts is answered.
LEMMA RecordKept ==
    ASSUME HandlerInv, [HandlerNext]_handlerVars, recordings' # <<>>,
           NEW i \in DOMAIN recordings, recordings'[i] = recordings[i],
           Accepted(i)' \subseteq Accepted(i), NEW f, RecordFrom(i, f)
    PROVE  RecordFrom(i, f)'
<1>1. Entries(i)' = Entries(i)
  BY DEF Entries
<1>2. Accepted(i)' = Accepted(i)
  BY AnsweredStays DEF Accepted
<1>3. ASSUME NEW n \in 1..Len(Entries(i))
      PROVE  /\ Exchange(f[n])' = Entries(i)[n]
             /\ \A c \in Callers : phase'[c] \notin ResetSections => f[n] \notin ended'[c]
  <2>1. /\ f[n] \in Accepted(i) /\ Exchange(f[n]) = Entries(i)[n]
        /\ \A c \in Callers : phase[c] \notin ResetSections => f[n] \notin ended[c]
    BY DEF RecordFrom
  <2>2. Exchange(f[n])' = Exchange(f[n])
    BY <2>1, AnsweredStays DEF Accepted, Exchange
  <2>3. QED
    BY <2>1, <2>2, ResetsMove DEF ResetSections
<1>4. ASSUME NEW t \in Accepted(i), i < since'[t].recordings
      PROVE  \E n \in 1..Len(Entries(i)) : f[n] = t
  BY <1>4, AnsweredStays DEF RecordFrom, Accepted
<1>5. QED
  BY <1>1, <1>2, <1>3, <1>4 DEF RecordFrom

\* The exchange of a request that is answered is appended.
LEMMA RecordAdded ==
    ASSUME HandlerInv, EndedIsOver, [HandlerNext]_handlerVars, NEW t \in Tasks,
           RecordAndReply(t), Record(request[t], answer[t], route[t] = "proxy"),
           NEW i \in Matching(recordings, request[t]), NEW f, RecordFrom(i, f)
    PROVE  \E g : RecordFrom(i, g)'
<1> DEFINE len == Len(Entries(i))
           g == [n \in 1..(len + 1) |-> IF n = len + 1 THEN t ELSE f[n]]
<1>1. /\ stage[t] = "answered" /\ stage'[t] = "finished" /\ UNCHANGED answer
      /\ UNCHANGED <<request, route, since, ended, phase>>
  BY DEF RecordAndReply, Move, HandlerInv, HandlerTypeOK, Record, callerVars
<1>2. /\ i \in DOMAIN recordings /\ recordings[i] \in Recording
      /\ request[t] \in Matches[recordings[i].requirements]
  BY DEF Matching, HandlerInv, HandlerTypeOK, TypeOK
<1>3. len \in Nat /\ Entries(i) \in Seq(RecordedMock)
  BY <1>2 DEF Recording, Entries
<1>4. answer[t] # Failed
  BY <1>1, HandlerAssumption DEF HandlerInv, AnswerReady
<1>5. /\ Entries(i)' = Append(Entries(i), Exchange(t))
      /\ recordings'[i].requirements = recordings[i].requirements
  <2>1. recordings'[i] = [recordings[i] EXCEPT !.mocks = Append(@, Exchange(t))]
    BY <1>2 DEF Record, Exchange
  <2>2. QED
    BY <1>2, <2>1 DEF Recording, Entries
<1>6. /\ Len(Entries(i)') = len + 1 /\ Entries(i)'[len + 1] = Exchange(t)
      /\ \A n \in 1..len : Entries(i)'[n] = Entries(i)[n]
  BY <1>3, <1>5
<1>7. Answered(t)' /\ ~Answered(t) /\ Exchange(t)' = Exchange(t)
  BY <1>1, <1>4 DEF Answered, Exchange
<1>8. Accepted(i)' = Accepted(i) \cup {t} /\ t \notin Accepted(i)
  <2>1. ASSUME NEW u \in Tasks \ {t} PROVE Answered(u)' <=> Answered(u)
    BY <2>1, AnsweredStays, OneReplies
  <2>2. QED
    BY <1>1, <1>2, <1>5, <1>7, <2>1 DEF Accepted
<1>9. \A c \in Callers : t \notin ended'[c]
  BY <1>1 DEF EndedIsOver, Over
<1>10. ASSUME NEW n \in 1..len
       PROVE  /\ f[n] \in Accepted(i) /\ f[n] # t /\ Exchange(f[n])' = Entries(i)[n]
              /\ \A c \in Callers : phase'[c] \notin ResetSections => f[n] \notin ended'[c]
  <2>1. /\ f[n] \in Accepted(i) /\ Exchange(f[n]) = Entries(i)[n]
        /\ \A c \in Callers : phase[c] \notin ResetSections => f[n] \notin ended[c]
    BY DEF RecordFrom
  <2>2. Exchange(f[n])' = Exchange(f[n])
    BY <2>1, AnsweredStays DEF Accepted, Exchange
  <2>3. QED
    BY <1>1, <1>8, <2>1, <2>2
<1>11. 1..(len + 1) = (1..len) \cup {len + 1} /\ len + 1 \notin 1..len
  BY <1>3
<1>12. PICK h : h = g
  OBVIOUS
<1>13. /\ h \in [1..(len + 1) -> Accepted(i)']
       /\ \A m, n \in 1..(len + 1) : h[m] = h[n] => m = n
  <2>1. h[len + 1] = t /\ \A n \in 1..len : h[n] = f[n]
    BY <1>11, <1>12
  <2>2. \A m, n \in 1..len : f[m] = f[n] => m = n
    BY DEF RecordFrom
  <2>3. \A m, n \in 1..(len + 1) : h[m] = h[n] => m = n
    BY <1>10, <1>11, <2>1, <2>2
  <2>4. \A n \in 1..(len + 1) : h[n] \in Accepted(i)'
    BY <1>8, <1>10, <1>11, <2>1
  <2>5. QED
    BY <1>12, <2>3, <2>4
<1>14. ASSUME NEW n \in 1..(len + 1)
       PROVE  /\ Exchange(h[n])' = Entries(i)'[n]
              /\ \A c \in Callers : phase'[c] \notin ResetSections => h[n] \notin ended'[c]
  <2>1. CASE n = len + 1
    <3>1. h[n] = t
      BY <1>11, <1>12, <2>1
    <3>2. QED
      BY <1>6, <1>7, <1>9, <2>1, <3>1 DEF Exchange
  <2>2. CASE n \in 1..len
    <3>1. h[n] = f[n]
      BY <1>11, <1>12, <2>2
    <3>2. QED
      BY <1>6, <1>10, <2>2, <3>1 DEF Exchange
  <2>3. QED
    BY <1>11, <2>1, <2>2
<1>15. ASSUME NEW u \in Accepted(i)', i < since'[u].recordings
       PROVE  \E n \in 1..(len + 1) : h[n] = u
  <2>1. CASE u = t
    BY <1>11, <1>12, <2>1
  <2>2. CASE u \in Accepted(i)
    <3>1. PICK n \in 1..len : f[n] = u
      BY <1>1, <1>15, <2>2 DEF RecordFrom
    <3>2. QED
      BY <1>11, <1>12, <3>1
  <2>3. QED
    BY <1>8, <2>1, <2>2
<1>16. RecordFrom(i, h)'
  BY <1>6, <1>13, <1>14, <1>15 DEF RecordFrom
<1>17. QED
  BY <1>16

\* A recording is created by a management call, which moves no task.
LEMMA NewRecordingId ==
    ASSUME [HandlerNext]_handlerVars, nextRecordingId' # nextRecordingId
    PROVE  UNCHANGED taskVars /\ ~\E t \in Tasks : RecordAndReply(t)
<1> USE DEF recordingVars
<1>1. ~UNCHANGED handlerVars
  BY DEF handlerVars, vars
<1>2. ASSUME NEW c \in Callers, StartReset(c) PROVE FALSE
  BY <1>2 DEF StartReset, BeginReset
<1>3. ASSUME NEW t \in Tasks, Receive(t) \/ ServerStep(t) \/ UpstreamStep(t) \/ Disconnect(t)
      PROVE  FALSE
  BY <1>3 DEF Receive, ServerStep, FindForwardRule, FindProxyRule, BuildResponse,
     ServeRequest, ServeMock, RecordAndReply, Record, UpstreamStep, UpstreamAnswers,
     UpstreamFails, Disconnect, vars
<1>4. QED
  BY <1>1, <1>2, <1>3 DEF HandlerNext, ManagementStep, ServerStep

LEMMA RecordInvNext ==
    ASSUME HandlerInv, EndedIsOver, RecordInv, [HandlerNext]_handlerVars
    PROVE  RecordInv'
<1>1. \A t \in Tasks : since'[t].recordings <= nextRecordingId'
  BY SinceRecordings DEF RecordInv
<1>2. ASSUME NEW i \in DOMAIN recordings' PROVE \E g : RecordFrom(i, g)'
  <2>1. recordings' # <<>>
    BY <1>2
  <2>2. i \in DOMAIN recordings => \E f : RecordFrom(i, f)
    BY DEF RecordInv
  <2>3. ASSUME i \in DOMAIN recordings, recordings'[i] = recordings[i],
               \A t \in Tasks : RecordAndReply(t) =>
                  \/ request[t] \notin Matches[recordings[i].requirements]
                  \/ ~Answered(t)'
        PROVE  \E g : RecordFrom(i, g)'
    <3>1. Accepted(i)' \subseteq Accepted(i)
      BY <2>3, AnsweredStays, TasksStay DEF Accepted
    <3>2. QED
      BY <2>1, <2>2, <2>3, <3>1, RecordKept
  <2>4. CASE \E rr \in Requirements : CreateRecording(rr)
    <3>1. UNCHANGED taskVars /\ ~\E t \in Tasks : RecordAndReply(t)
      <4>1. nextRecordingId' # nextRecordingId
        BY <2>4 DEF CreateRecording, HandlerInv, HandlerTypeOK, TypeOK
      <4>2. QED
        BY <4>1, NewRecordingId
    <3>2. CASE i \in DOMAIN recordings /\ i # nextRecordingId
      BY <2>3, <2>4, <3>1, <3>2 DEF CreateRecording, Put
    <3>3. CASE i = nextRecordingId
      <4>1. Entries(i)' = <<>>
        BY <2>4, <3>3 DEF CreateRecording, Put, Entries
      <4>2. \A t \in Tasks : ~(i < since'[t].recordings)
        <5>1. \A t \in Tasks : since[t] \in Counters
          BY DEF HandlerInv, HandlerTypeOK
        <5>2. QED
          BY <3>1, <3>3, <5>1
             DEF taskVars, RecordInv, Counters, HandlerInv, HandlerTypeOK, TypeOK
      <4>3. <<>> \in [1..0 -> Accepted(i)'] /\ 1..0 = {}
        OBVIOUS
      <4>4. RecordFrom(i, <<>>)'
        BY <4>1, <4>2, <4>3 DEF RecordFrom, Accepted
      <4>5. QED
        BY <4>4
    <3>4. QED
      BY <1>2, <2>4, <3>2, <3>3 DEF CreateRecording, Put
  <2>5. CASE \E id \in DOMAIN recordings : DeleteRecording(id)
    <3>1. ~\E t \in Tasks : RecordAndReply(t)
      <4>1. PICK id \in DOMAIN recordings : id \notin DOMAIN recordings'
        BY <2>5 DEF DeleteRecording, Without, Restrict
      <4>2. QED
        BY <4>1 DEF RecordAndReply, Record, vars, recordingVars
    <3>2. i \in DOMAIN recordings /\ recordings'[i] = recordings[i]
      BY <1>2, <2>5 DEF DeleteRecording, Without, Restrict
    <3>3. QED
      BY <2>3, <3>1, <3>2
  <2>6. CASE recordings' = recordings
    <3>1. ASSUME NEW t \in Tasks, RecordAndReply(t),
                 request[t] \in Matches[recordings[i].requirements]
          PROVE  ~Answered(t)'
      <4>1. i \in DOMAIN recordings /\ i \in Matching(recordings, request[t])
        BY <1>2, <2>6, <3>1 DEF Matching
      <4>2. ~Record(request[t], answer[t], route[t] = "proxy")
        <5>1. recordings[i] \in Recording
          BY <4>1 DEF HandlerInv, HandlerTypeOK, TypeOK
        <5>2. SUFFICES ASSUME Record(request[t], answer[t], route[t] = "proxy") PROVE FALSE
          OBVIOUS
        <5>3. recordings'[i].mocks = Append(recordings[i].mocks, Exchange(t))
          BY <4>1, <5>1, <5>2 DEF Record, Recording, Exchange
        <5>4. recordings[i].mocks \in Seq(RecordedMock)
          BY <5>1 DEF Recording
        <5>5. Len(recordings'[i].mocks) = Len(recordings[i].mocks) + 1
          BY <5>3, <5>4
        <5>6. QED
          BY <2>6, <5>4, <5>5
      <4>3. answer'[t] = Failed
        BY <3>1, <4>1, <4>2 DEF RecordAndReply, Reply, HandlerInv, HandlerTypeOK
      <4>4. QED
        BY <4>3 DEF Answered
    <3>2. QED
      BY <1>2, <2>3, <2>6, <3>1
  <2>7. ASSUME NEW t \in Tasks, RecordAndReply(t),
               Record(request[t], answer[t], route[t] = "proxy")
        PROVE  \E g : RecordFrom(i, g)'
    <3>1. i \in DOMAIN recordings
      BY <1>2, <2>7 DEF Record
    <3>2. CASE i \in Matching(recordings, request[t])
      BY <2>2, <2>7, <3>1, <3>2, RecordAdded
    <3>3. CASE i \notin Matching(recordings, request[t])
      <4>1. recordings'[i] = recordings[i]
        BY <2>7, <3>1, <3>3 DEF Record
      <4>2. \A u \in Tasks : RecordAndReply(u) =>
               request[u] \notin Matches[recordings[i].requirements]
        BY <2>7, <3>1, <3>3, OneReplies DEF Matching
      <4>3. QED
        BY <2>3, <3>1, <4>1, <4>2
    <3>4. QED
      BY <3>2, <3>3
  <2>8. QED
    BY <2>1, <2>4, <2>5, <2>6, <2>7, RecordingSteps
<1>3. QED
  BY <1>1, <1>2 DEF RecordInv

LEMMA AccountingInit == HandlerInit => LogInv /\ RecordInv
<1> SUFFICES ASSUME HandlerInit PROVE LogInv /\ RecordInv
  OBVIOUS
<1>1. <<>> \in [1..0 -> Tasks] /\ Len(history) = 0 /\ 1..0 = {}
  BY DEF HandlerInit, Init
<1>2. LogFrom(<<>>)
  BY <1>1 DEF LogFrom
<1>3. EndedIsOver
  BY DEF EndedIsOver, HandlerInit
<1>4. RecordInv
  BY DEF RecordInv, HandlerInit, Init
<1>5. QED
  BY <1>2, <1>3, <1>4 DEF LogInv

LEMMA AccountingAlways == HandlerSpec => [](HandlerInv /\ LogInv /\ RecordInv)
<1>1. /\ HandlerInv /\ PriorityInv /\ LogInv /\ RecordInv
      /\ [HandlerNext]_handlerVars
      => LogInv' /\ RecordInv'
  BY LogInvNext, RecordInvNext DEF LogInv
<1>2. QED
  BY <1>1, AccountingInit, HandlerInvAlways, PTL DEF HandlerSpec

\* Counting the entries of a recording through the function, in both directions.
LEMMA EntriesAreSequence ==
    ASSUME HandlerInv, NEW i \in DOMAIN recordings
    PROVE  Len(Entries(i)) \in Nat /\ DOMAIN Entries(i) = 1..Len(Entries(i))
<1>1. recordings[i] \in Recording
  BY DEF HandlerInv, HandlerTypeOK, TypeOK
<1>2. Entries(i) \in Seq(RecordedMock)
  BY <1>1 DEF Recording, Entries
<1>3. QED
  BY <1>2

LEMMA RecordingStemsFromLater ==
    ASSUME IsFiniteSet(Tasks), HandlerInv, RecordInv, NEW c \in Callers,
           phase[c] \notin ResetSections, NEW i \in DOMAIN recordings
    PROVE  Len(recordings[i].mocks) <= Cardinality({t \in Tasks \ ended[c] : Answered(t)})
<1> DEFINE P == 1..Len(Entries(i))
           T == {t \in Tasks \ ended[c] : Answered(t)}
<1>1. PICK f : RecordFrom(i, f)
  BY DEF RecordInv
<1>2. \A n \in P : f[n] \in T
  BY <1>1 DEF RecordFrom, Accepted
<1>3. f \in [P -> T] /\ \A m, n \in P : f[m] = f[n] => m = n
  BY <1>1, <1>2 DEF RecordFrom
<1>4. f \in Injection(P, T)
  BY <1>3 DEF Injection, IsInjective
<1>5. IsFiniteSet(T)
  BY FS_Subset
<1>6. Cardinality(P) <= Cardinality(T)
  BY <1>4, <1>5, FS_Injection
<1>7. Cardinality(P) = Len(Entries(i))
  <2>1. Len(Entries(i)) \in Nat
    BY EntriesAreSequence
  <2>2. \A n \in Nat : Cardinality(1..n) = n
    BY FS_Interval
  <2>3. QED
    BY <2>1, <2>2
<1>8. QED
  BY <1>6, <1>7 DEF Entries

LEMMA ExchangesAreRecorded ==
    ASSUME IsFiniteSet(Tasks), HandlerInv, RecordInv, NEW i \in DOMAIN recordings, NEW e
    PROVE  LET places == {n \in DOMAIN Entries(i) : Entries(i)[n] = e}
               same == {t \in Accepted(i) : Exchange(t) = e}
           IN  /\ Cardinality(places) <= Cardinality(same)
               /\ Cardinality(places) >= Cardinality({t \in same : i < since[t].recordings})
<1> DEFINE P == {n \in DOMAIN Entries(i) : Entries(i)[n] = e}
           T == {t \in Accepted(i) : Exchange(t) = e}
           S == {t \in T : i < since[t].recordings}
<1>1. PICK f : RecordFrom(i, f)
  BY DEF RecordInv
<1>2. Len(Entries(i)) \in Nat /\ DOMAIN Entries(i) = 1..Len(Entries(i))
  BY EntriesAreSequence
<1>3. IsFiniteSet(P) /\ IsFiniteSet(T) /\ IsFiniteSet(S)
  <2>1. IsFiniteSet(DOMAIN Entries(i))
    BY <1>2, FS_Interval
  <2>2. P \in SUBSET DOMAIN Entries(i)
    OBVIOUS
  <2>3. T \in SUBSET Tasks /\ S \in SUBSET Tasks
    BY DEF Accepted
  <2>4. QED
    BY <2>1, <2>2, <2>3, FS_Subset
<1>4. Cardinality(P) <= Cardinality(T)
  <2>1. \A n \in P : f[n] \in T
    BY <1>1, <1>2 DEF RecordFrom
  <2>2. \A m, n \in P : f[m] = f[n] => m = n
    BY <1>1, <1>2 DEF RecordFrom
  <2>3. [n \in P |-> f[n]] \in Injection(P, T)
    BY <2>1, <2>2 DEF Injection, IsInjective
  <2>4. QED
    BY <1>3, <2>3, FS_Injection
<1>5. Cardinality(S) <= Cardinality(P)
  <2> DEFINE Place(t) == CHOOSE n \in P : f[n] = t
             place == [t \in S |-> Place(t)]
  <2>1. ASSUME NEW t \in S PROVE \E n \in P : f[n] = t
    <3>1. PICK n \in 1..Len(Entries(i)) : f[n] = t
      BY <1>1 DEF RecordFrom
    <3>2. Entries(i)[n] = e
      BY <1>1, <3>1 DEF RecordFrom
    <3>3. QED
      BY <1>2, <3>1, <3>2
  <2>2. \A t \in S : place[t] \in P /\ f[place[t]] = t
    <3>1. \A t \in S : Place(t) \in P /\ f[Place(t)] = t
      BY <2>1
    <3>2. \A t \in S : place[t] = Place(t)
      OBVIOUS
    <3> HIDE DEF Place, place
    <3>3. QED
      BY <3>1, <3>2
  <2>3. place \in [S -> P] /\ \A t, u \in S : place[t] = place[u] => t = u
    <3>1. place = [t \in S |-> place[t]]
      OBVIOUS
    <3> HIDE DEF P, S, place
    <3>2. QED
      BY <2>2, <3>1
  <2>4. place \in Injection(S, P)
    BY <2>3 DEF Injection, IsInjective
  <2>5. QED
    BY <1>3, <2>4, FS_Injection
<1>6. Cardinality(P) \in Nat /\ Cardinality(S) \in Nat
  BY <1>3, FS_CardinalityType
<1>7. QED
  BY <1>4, <1>5, <1>6

\* A recording holds each exchange as often as a client got it: none twice, none
\* that no client got, and all of those whose request found the recording there,
\* with any number of requests in flight and recordings created and deleted.
THEOREM EachAnswerRecordsOnce ==
    ASSUME IsFiniteSet(Tasks)
    PROVE  HandlerSpec => []RecordingComplete
<1>1. ASSUME HandlerInv, RecordInv PROVE RecordingComplete
  BY <1>1, ExchangesAreRecorded DEF RecordingComplete, Entries, Accepted
<1>2. QED
  BY <1>1, AccountingAlways, PTL

\* When a reset has cleared the log, and then the recordings, what they hold stems
\* from requests that were in the handler when it began, or came later.
THEOREM ResetForgets ==
    ASSUME IsFiniteSet(Tasks)
    PROVE  HandlerSpec => []ResetForgetsFinished
<1>1. ASSUME HandlerInv, LogInv, RecordInv PROVE ResetForgetsFinished
  BY <1>1, LogCounts, RecordingStemsFromLater DEF ResetForgetsFinished, Served
<1>2. QED
  BY <1>1, AccountingAlways, PTL

===============================================================================
