---------------------------- MODULE RequestHandler ----------------------------
(***************************************************************************)
(* The life of one HTTP request in the server: Handler::catch_all of       *)
(* src/src/server/handler.rs, over the state of module StateManager.       *)
(*                                                                         *)
(* catch_all looks for a forwarding rule, for a proxy rule and for a mock  *)
(* in three critical sections, waits for an upstream server or for a       *)
(* mock's delay, and records the exchange in a fourth.  Between them other *)
(* requests run, and tests add and delete mocks, rules and recordings and  *)
(* reset the server through the management calls.  When the client goes    *)
(* away while the handler waits, the connection drops the request.         *)
(*                                                                         *)
(* A mock's response and delay are functions of its requirement here: what *)
(* a definition answers plays no part in which definition is chosen.       *)
(***************************************************************************)
EXTENDS StateManager, FiniteSets

CONSTANTS
    Tasks,         \* requests sent to the server, each by a client of its own
    Unreadable,    \* requests with a header that is not visible ASCII
    Delayed,       \* requirements of mocks with a delay
    ResponseOf,    \* requirement -> response of the mock, or Unbuildable
    Unbuildable,   \* a response definition that is no valid HTTP response
    NotFound,      \* the response to a request that nothing matches
    Upstream,      \* what upstream servers answer
    Nothing,       \* no response yet
    Failed         \* the 500 that reports an error of the handler

ASSUME HandlerAssumption ==
    /\ Unreadable \subseteq Requests
    /\ Delayed \subseteq Requirements
    /\ ResponseOf \in [Requirements -> (Responses \ Opaque) \cup {Unbuildable}]
    /\ NotFound \in Responses \ Opaque
    /\ Upstream \subseteq Responses
    /\ Unbuildable \notin Responses
    /\ Failed \notin Responses
    /\ Nothing \notin Responses \cup {Failed}

VARIABLES
    stage,         \* task -> what it does next
    request,       \* task -> the request
    route,         \* task -> who answers it
    pick,          \* task -> the id of the rule or mock that answers it
    answer,        \* task -> the response
    since,         \* auxiliary: task -> the id counters when it arrived
    ended          \* auxiliary: caller -> the tasks over when its reset began

taskVars == <<stage, request, route, pick, answer, since>>
handlerVars == <<vars, taskVars, ended>>

Stages == {"unsent", "received", "unforwarded", "unproxied", "upstream",
           "delayed", "picked", "answered", "finished", "cancelled"}
Over == {t \in Tasks : stage[t] \in {"finished", "cancelled"}}
NoId == -1

-------------------------------------------------------------------------------
HandlerInit ==
    /\ Init
    /\ stage = [t \in Tasks |-> "unsent"]
    /\ request \in [Tasks -> Requests]
    /\ route = [t \in Tasks |-> "none"]
    /\ pick = [t \in Tasks |-> NoId]
    /\ answer = [t \in Tasks |-> Nothing]
    /\ since = [t \in Tasks |->
                  [mocks |-> 0, forwarding |-> 0, proxy |-> 0, recordings |-> 0]]
    /\ ended = [c \in Callers |-> {}]

Move(t, from, to) ==
    /\ stage[t] = from
    /\ stage' = [stage EXCEPT ![t] = to]

Reply(t, res) == answer' = [answer EXCEPT ![t] = res]

Choose(t, who, id) ==
    /\ route' = [route EXCEPT ![t] = who]
    /\ pick' = [pick EXCEPT ![t] = id]

-------------------------------------------------------------------------------
\* The request arrives; a header that cannot be read as a string is an error.
Receive(t) ==
    /\ IF request[t] \in Unreadable
       THEN Move(t, "unsent", "finished") /\ Reply(t, Failed)
       ELSE Move(t, "unsent", "received") /\ UNCHANGED answer
    /\ since' = [since EXCEPT ![t] =
                   [mocks |-> nextMockId, forwarding |-> nextForwardingRuleId,
                    proxy |-> nextProxyRuleId, recordings |-> nextRecordingId]]
    /\ UNCHANGED <<vars, request, route, pick, ended>>

\* find_forward_rule: the rule is cloned, so its later deletion changes nothing.
FindForwardRule(t) ==
    /\ \/ /\ Matching(forwardingRules, request[t]) = {}
          /\ Move(t, "received", "unforwarded")
          /\ UNCHANGED <<route, pick>>
       \/ \E id \in First(forwardingRules, request[t]) :
             Move(t, "received", "upstream") /\ Choose(t, "forward", id)
    /\ UNCHANGED <<vars, request, answer, since, ended>>

SkipProxyRules(t) ==          \* wrong: proxy rules only apply when no mock does
    /\ \/ /\ Matching(proxyRules, request[t]) = {} \/ Matching(mocks, request[t]) # {}
          /\ Move(t, "unforwarded", "unproxied")
          /\ UNCHANGED <<route, pick>>
       \/ \E id \in First(proxyRules, request[t]) :
             /\ Matching(mocks, request[t]) = {}
             /\ Move(t, "unforwarded", "upstream") /\ Choose(t, "proxy", id)
    /\ UNCHANGED <<vars, request, answer, since, ended>>

FindProxyRule(t) ==
    /\ \/ /\ Matching(proxyRules, request[t]) = {}
          /\ Move(t, "unforwarded", "unproxied")
          /\ UNCHANGED <<route, pick>>
       \/ \E id \in First(proxyRules, request[t]) :
             Move(t, "unforwarded", "upstream") /\ Choose(t, "proxy", id)
    /\ UNCHANGED <<vars, request, answer, since, ended>>

\* The upstream server answers, or the rule's headers or the exchange with it
\* are in error: then nothing is recorded.
UpstreamAnswers(t) ==
    /\ Move(t, "upstream", "answered")
    /\ \E res \in Upstream : Reply(t, res)
    /\ UNCHANGED <<vars, request, route, pick, since, ended>>

UpstreamFails(t) ==
    /\ Move(t, "upstream", "finished")
    /\ Reply(t, Failed)
    /\ UNCHANGED <<vars, request, route, pick, since, ended>>

\* serve_mock: the request is logged and counted before the mock's delay.
ServeRequest(t) ==
    /\ ServeMock(request[t])
    /\ \/ /\ Matching(mocks, request[t]) = {}
          /\ Move(t, "unproxied", "answered")
          /\ Reply(t, NotFound)
          /\ Choose(t, "unmatched", NoId)
       \/ \E id \in First(mocks, request[t]) :
             /\ Move(t, "unproxied",
                     IF mocks[id].requirements \in Delayed THEN "delayed" ELSE "picked")
             /\ Reply(t, ResponseOf[mocks[id].requirements])
             /\ Choose(t, "mock", id)
    /\ UNCHANGED <<request, since, ended>>

\* The delay is over, if there was one, and the response is built.
ForgetUnbuildable(t) ==       \* wrong: a bad response is never reported
    /\ stage[t] \in {"delayed", "picked"}
    /\ answer[t] # Unbuildable
    /\ stage' = [stage EXCEPT ![t] = "answered"]
    /\ UNCHANGED <<vars, request, route, pick, answer, since, ended>>

BuildResponse(t) ==
    /\ stage[t] \in {"delayed", "picked"}
    /\ IF answer[t] = Unbuildable
       THEN stage' = [stage EXCEPT ![t] = "finished"] /\ Reply(t, Failed)
       ELSE stage' = [stage EXCEPT ![t] = "answered"] /\ UNCHANGED answer
    /\ UNCHANGED <<vars, request, route, pick, since, ended>>

\* record: when a recording matches, an answer that cannot be converted turns
\* into an error although the exchange took place.
RecordUpstreamOnly(t) ==      \* wrong: what a mock answers is not recorded
    /\ Move(t, "answered", "finished")
    /\ \/ Matching(recordings, request[t]) = {} /\ UNCHANGED <<vars, answer>>
       \/ /\ Matching(recordings, request[t]) # {} /\ answer[t] \in Opaque
          /\ Reply(t, Failed) /\ UNCHANGED vars
       \/ /\ route[t] \in {"forward", "proxy"}
          /\ Record(request[t], answer[t], route[t] = "proxy")
          /\ UNCHANGED answer
       \/ route[t] \in {"mock", "unmatched"} /\ UNCHANGED <<vars, answer>>
    /\ UNCHANGED <<request, route, pick, since, ended>>

RecordAndReply(t) ==
    /\ Move(t, "answered", "finished")
    /\ \/ Matching(recordings, request[t]) = {} /\ UNCHANGED <<vars, answer>>
       \/ /\ Matching(recordings, request[t]) # {} /\ answer[t] \in Opaque
          /\ Reply(t, Failed) /\ UNCHANGED vars
       \/ Record(request[t], answer[t], route[t] = "proxy") /\ UNCHANGED answer
    /\ UNCHANGED <<request, route, pick, since, ended>>

\* The client disconnects: the handler's future is dropped where it waits.
Disconnect(t) ==
    /\ stage[t] \in {"upstream", "delayed"}
    /\ stage' = [stage EXCEPT ![t] = "cancelled"]
    /\ UNCHANGED <<vars, request, route, pick, answer, since, ended>>

-------------------------------------------------------------------------------
\* The management calls, from the tests' adapters.
ManagementStep ==
    /\ \/ \E rr \in Requirements : AddMock(rr)
       \/ \E id \in DOMAIN mocks : DeleteMock(id)
       \/ DeleteAllMocks
       \/ DeleteHistory
       \/ RuleStep
       \/ \E rr \in Requirements : CreateRecording(rr)
       \/ \E id \in DOMAIN recordings : DeleteRecording(id)
       \/ DeleteAllRecordings
       \/ \E c \in Callers : CallerStep(c) /\ ~BeginReset(c)
    /\ UNCHANGED <<taskVars, ended>>

StartReset(c) ==
    /\ BeginReset(c)
    /\ ended' = [ended EXCEPT ![c] = Over]
    /\ UNCHANGED taskVars

\* What the server's runtime does for a request, and what the upstream does.
ServerStep(t) ==
    \/ FindForwardRule(t) \/ FindProxyRule(t) \/ ServeRequest(t)
    \/ BuildResponse(t) \/ RecordAndReply(t)
UpstreamStep(t) == UpstreamAnswers(t) \/ UpstreamFails(t)

HandlerNext ==
    \/ ManagementStep
    \/ \E c \in Callers : StartReset(c)
    \/ \E t \in Tasks :
          Receive(t) \/ ServerStep(t) \/ UpstreamStep(t) \/ Disconnect(t)

HandlerSpec == HandlerInit /\ [][HandlerNext]_handlerVars

\* The runtime polls every request that can go on, timers fire, and (this is an
\* assumption about the environment: the code has no timeout of its own) every
\* upstream server answers or closes the connection in the end.
Fairness ==
    \A t \in Tasks : WF_handlerVars(ServerStep(t)) /\ WF_handlerVars(UpstreamStep(t))

FairHandlerSpec == HandlerSpec /\ Fairness
-------------------------------------------------------------------------------
\* Every variable of the handler holds a value of its kind.
HandlerTypeOK ==
    /\ TypeOK
    /\ stage \in [Tasks -> Stages]
    /\ request \in [Tasks -> Requests]
    /\ route \in [Tasks -> {"none", "forward", "proxy", "mock", "unmatched"}]
    /\ pick \in [Tasks -> Nat \cup {NoId}]
    /\ answer \in [Tasks -> Responses \cup {Unbuildable, Failed, Nothing}]
    /\ since \in [Tasks -> Counters]
    /\ ended \in [Callers -> SUBSET Tasks]

\* Priority holds through the three separate look-ups: a request is not answered
\* by a proxy rule or a mock while a forwarding rule that accepts it has been
\* registered since before it arrived, nor by a mock while such a proxy rule has,
\* nor by a younger rule or mock than one that has been there all the time.
OlderWaits(t, table, threshold, who) ==
    \A i \in Matching(table, request[t]) :
        i < threshold => route[t] = who /\ pick[t] <= i

PriorityRespected ==
    \A t \in Tasks :
        /\ route[t] # "none" =>
              OlderWaits(t, forwardingRules, since[t].forwarding, "forward")
        /\ route[t] \in {"proxy", "mock", "unmatched"} =>
              OlderWaits(t, proxyRules, since[t].proxy, "proxy")
        /\ route[t] \in {"mock", "unmatched"} =>
              OlderWaits(t, mocks, since[t].mocks, "mock")

\* Every request a mock was picked for is counted once, by that mock, whatever
\* happens to it later: the client leaves, the response is invalid, the recorder
\* refuses it, the server is reset.
CountedOnce ==
    \A i \in DOMAIN mocks :
        mocks[i].calls = Cardinality({t \in Tasks : route[t] = "mock" /\ pick[t] = i})

Answered(t) == stage[t] = "finished" /\ answer[t] # Failed
Exchange(t) == [request |-> request[t], response |-> answer[t],
                proxied |-> route[t] = "proxy"]

\* A recording that was there before a request arrived, and still is, holds the
\* exchange if the client got an answer, however it was answered; and it holds
\* nothing else than exchanges that a client got, each of them once.
RecordingComplete ==
    \A i \in DOMAIN recordings :
        LET entries == recordings[i].mocks
            accepted == {t \in Tasks : /\ Answered(t)
                                       /\ request[t] \in Matches[recordings[i].requirements]}
        IN  \A e \in {Exchange(t) : t \in accepted} \cup {entries[n] : n \in DOMAIN entries} :
                LET times == Cardinality({n \in DOMAIN entries : entries[n] = e})
                    same == {t \in accepted : Exchange(t) = e}
                IN  /\ times <= Cardinality(same)
                    /\ times >= Cardinality({t \in same : i < since[t].recordings})

\* Once a reset has cleared the history, and then the recordings, nothing of the
\* requests that were over when it began is left: only requests that were still
\* in the handler, or came later, can show.
ResetForgetsFinished ==
    \A c \in Callers :
        LET later == Tasks \ ended[c]
        IN  /\ phase[c] # "history" =>
                  \A r \in Requests :
                      Cardinality({n \in DOMAIN history : history[n] = r})
                        <= Cardinality({t \in later : /\ route[t] \in {"mock", "unmatched"}
                                                      /\ request[t] = r})
            /\ phase[c] \notin ResetSections =>
                  \A i \in DOMAIN recordings :
                      Len(recordings[i].mocks) <= Cardinality({t \in later : Answered(t)})

\* Every request that reaches the server is answered, with an error if need be,
\* unless its client leaves first.
EveryRequestEnds ==
    \A t \in Tasks : stage[t] = "received" ~> stage[t] \in {"finished", "cancelled"}

===============================================================================
