----------------------------- MODULE ManagementApi -----------------------------
(***************************************************************************)
(* How tests drive a server: the MockServerAdapter calls behind Mock,      *)
(* ForwardingRule, ProxyRule, Recording, MockSet and MockServer::reset.    *)
(* The local adapter (src/src/api/adapter/local.rs) calls the Manager of   *)
(* module StateManager; the remote adapter (remote.rs) sends an HTTP       *)
(* request, which Handler::handle routes to the same methods.  Both kinds  *)
(* of client can use one server: the tests of the process that started it, *)
(* and those of a process that connected to its address.                   *)
(*                                                                         *)
(* A connection may break before the request reaches the server or before  *)
(* the answer reaches the client.  A call that fails panics in the test,   *)
(* which goes on if it catches the panic.  Requests to mocks play no part. *)
(***************************************************************************)
EXTENDS StateManager, FiniteSets

CONSTANTS
    Remote,        \* the callers that use the remote adapter
    Uses,          \* caller -> the kinds of things it creates and deletes
    LocalOnly,     \* definitions with an is_true function or a dynamic responder
    WireForm,      \* requirement -> what is left of it in JSON: is_false is skipped
    MaxInvocations \* bound of the model: calls of one caller

Kinds == {"mock", "forwarding", "proxy", "recording"}

ASSUME ApiAssumption ==
    /\ Remote \subseteq Callers
    /\ Uses \in [Callers -> SUBSET Kinds]
    /\ LocalOnly \subseteq Requirements
    /\ WireForm \in [Requirements -> Requirements]
    /\ MaxInvocations \in Nat

VARIABLES
    stage,         \* caller -> how far its call is
    call,          \* caller -> the call
    result,        \* caller -> the answer to it: [ok, ids]
    handles,       \* caller -> the things it has created: [kind, id, asked]
    invocations,   \* caller -> calls made
    abandoned,     \* auxiliary: <<kind, id>> of what failed calls have created
    deleted        \* auxiliary: <<kind, id>> of deletes that reported success

resultVars == <<handles, abandoned, deleted>>
apiVars == <<stage, call, result, invocations, resultVars>>
allVars == <<vars, apiVars>>

NoCall == [op |-> "none"]
Create(kind, rr) == [op |-> "create", kind |-> kind, rr |-> rr]
Delete(kind, id) == [op |-> "delete", kind |-> kind, id |-> id]
Export(id) == [op |-> "export", id |-> id]
Load(file) == [op |-> "load", file |-> file]
ResetAll == [op |-> "reset"]

ApiInit ==
    /\ Init
    /\ stage = [c \in Callers |-> "idle"]
    /\ call = [c \in Callers |-> NoCall]
    /\ result = [c \in Callers |-> [ok |-> FALSE, ids |-> <<>>]]
    /\ handles = [c \in Callers |-> {}]
    /\ invocations = [c \in Callers |-> 0]
    /\ abandoned = {} /\ deleted = {}

GoTo(c, to) == stage' = [stage EXCEPT ![c] = to]

-------------------------------------------------------------------------------
\* The four tables behind one view.

Registered(kind) ==
    CASE kind = "mock" -> NonStatic
      [] kind = "forwarding" -> DOMAIN forwardingRules
      [] kind = "proxy" -> DOMAIN proxyRules
      [] kind = "recording" -> DOMAIN recordings

RequirementsOf(kind, id) ==
    CASE kind = "mock" -> mocks[id].requirements
      [] kind = "forwarding" -> forwardingRules[id].requirements
      [] kind = "proxy" -> proxyRules[id].requirements
      [] kind = "recording" -> recordings[id].requirements

NextId(kind) ==
    CASE kind = "mock" -> nextMockId
      [] kind = "forwarding" -> nextForwardingRuleId
      [] kind = "proxy" -> nextProxyRuleId
      [] kind = "recording" -> nextRecordingId

CreateIn(kind, rr) ==
    \/ kind = "mock" /\ AddMock(rr)
    \/ kind = "forwarding" /\ CreateForwardingRule(rr)
    \/ kind = "proxy" /\ CreateProxyRule(rr)
    \/ kind = "recording" /\ CreateRecording(rr)

DeleteFrom(kind, id) ==
    \/ kind = "mock" /\ DeleteMock(id)
    \/ kind = "forwarding" /\ DeleteForwardingRule(id)
    \/ kind = "proxy" /\ DeleteProxyRule(id)
    \/ kind = "recording" /\ DeleteRecording(id)

SwappedRoutes(kind) ==        \* wrong: forwarding rules are taken for proxy rules
    IF kind \in {"forwarding", "recording"} THEN "proxy" ELSE kind

\* The table from which the handler of DELETE on an id deletes:
\* handle_delete_recording calls delete_proxy_rule.
RoutedTo(kind) == IF kind = "recording" THEN "proxy" ELSE kind

TableFor(c, kind) == IF c \in Remote THEN RoutedTo(kind) ELSE kind
Received(c, rr) == IF c \in Remote THEN WireForm[rr] ELSE rr
-------------------------------------------------------------------------------
\* The client's side.

Calls(c) ==
    {Create(kind, rr) : kind \in Uses[c], rr \in Requirements}
      \cup {Delete(h.kind, h.id) : h \in handles[c]}
      \cup {Export(h.id) : h \in {g \in handles[c] : g.kind = "recording"}}
      \cup {Load(file) : file \in Files}
      \cup {ResetAll}

\* The remote adapter refuses a definition it cannot send.
Refused(c, request) == c \in Remote /\ request.op = "create" /\ request.rr \in LocalOnly

Invoke(c, request) ==
    /\ stage[c] = "idle" /\ invocations[c] < MaxInvocations
    /\ invocations' = [invocations EXCEPT ![c] = @ + 1]
    /\ IF Refused(c, request)
       THEN UNCHANGED <<stage, call>>
       ELSE /\ GoTo(c, IF c \in Remote THEN "sent" ELSE "executing")
            /\ call' = [call EXCEPT ![c] = request]
    /\ UNCHANGED <<vars, result, resultVars>>

\* The request gets to the server, or the connection breaks on the way.
Arrive(c) ==
    /\ stage[c] = "sent"
    /\ GoTo(c, "executing")
    /\ UNCHANGED <<vars, call, result, invocations, resultVars>>

\* What a call has created, of which the caller learns nothing if the call fails.
Created(c) ==
    {<<call[c].kind, result[c].ids[n]>> : n \in {m \in DOMAIN result[c].ids : call[c].op = "create"}}
      \cup {<<"mock", load[c].ids[n]>> : n \in {m \in DOMAIN load[c].ids : call[c].op = "load"}}
Abandon(c) == abandoned' = abandoned \cup Created(c)

Break(c) ==
    /\ c \in Remote
    /\ \/ stage[c] = "sent" /\ UNCHANGED abandoned
       \/ stage[c] = "replying" /\ Abandon(c)
    /\ GoTo(c, "idle")
    /\ UNCHANGED <<vars, call, result, invocations, handles, deleted>>

\* The handles a successful call gives its caller.
KeepLast(c) ==                \* wrong: of a played back file, only the last id
    IF call[c].op = "create"
    THEN {[kind |-> call[c].kind, id |-> result[c].ids[1], asked |-> call[c].rr]}
    ELSE IF call[c].op = "load"
    THEN LET n == Len(result[c].ids)
         IN  {[kind |-> "mock", id |-> result[c].ids[n], asked |-> call[c].file[n]]}
    ELSE {}

NewHandles(c) ==
    IF call[c].op = "create"
    THEN {[kind |-> call[c].kind, id |-> result[c].ids[1], asked |-> call[c].rr]}
    ELSE IF call[c].op = "load"
    THEN {[kind |-> "mock", id |-> result[c].ids[n], asked |-> call[c].file[n]] :
            n \in DOMAIN result[c].ids}
    ELSE {}

Return(c) ==
    /\ stage[c] = "replying"
    /\ GoTo(c, "idle")
    /\ IF result[c].ok
       THEN /\ handles' = [handles EXCEPT ![c] = @ \cup NewHandles(c)]
            /\ deleted' = IF call[c].op = "delete"
                          THEN deleted \cup {<<call[c].kind, call[c].id>>} ELSE deleted
            /\ UNCHANGED abandoned
       ELSE Abandon(c) /\ UNCHANGED <<handles, deleted>>
    /\ UNCHANGED <<vars, call, result, invocations>>

-------------------------------------------------------------------------------
\* The server's side, or the local adapter's: one Manager method.

Executing(c, op) == stage[c] = "executing" /\ call[c].op = op

Answer(c, ok, ids) ==
    /\ GoTo(c, "replying")
    /\ result' = [result EXCEPT ![c] = [ok |-> ok, ids |-> ids]]
    /\ UNCHANGED <<call, invocations, resultVars>>

ExecuteCreate(c) ==
    LET kind == call[c].kind
        rr == Received(c, call[c].rr)
    IN  /\ Executing(c, "create")
        /\ \/ CreateIn(kind, rr) /\ Answer(c, TRUE, <<NextId(kind)>>)
           \/ /\ kind = "mock" /\ rr \in BodyMethodInvalid
              /\ Answer(c, FALSE, <<>>) /\ UNCHANGED vars

\* A thing that is not there: the server answers 404, which the remote adapter
\* reports as an error; the local adapter does not look.
ExecuteDelete(c) ==
    LET table == TableFor(c, call[c].kind)
        id == call[c].id
    IN  /\ Executing(c, "delete")
        /\ \/ /\ DeleteFrom(table, id) /\ Answer(c, TRUE, <<>>)
           \/ /\ id \notin Registered(table)
              /\ Answer(c, c \notin Remote, <<>>) /\ UNCHANGED vars

\* export_recording changes nothing.  A recording that cannot be converted is an error
\* (when it is one, module Recordings says), no recording to be found is none.
ExecuteExport(c) ==
    /\ Executing(c, "export")
    /\ \/ Answer(c, TRUE, <<>>)
       \/ call[c].id \in DOMAIN recordings /\ Answer(c, FALSE, <<>>)
    /\ UNCHANGED vars

BeginExecuteReset(c) ==
    /\ Executing(c, "reset") /\ BeginReset(c)
    /\ GoTo(c, "sweeping")
    /\ UNCHANGED <<call, result, invocations, resultVars>>

Sweep(c) ==
    /\ stage[c] = "sweeping"
    /\ \/ /\ ResetHistory(c) \/ ResetForwardingRules(c) \/ ResetProxyRules(c)
          /\ UNCHANGED apiVars
       \/ ResetRecordings(c) /\ Answer(c, TRUE, <<>>)

BeginExecuteLoad(c) ==
    /\ Executing(c, "load") /\ c \notin Remote /\ BeginLoad(c, call[c].file)
    /\ GoTo(c, "loading")
    /\ UNCHANGED <<call, result, invocations, resultVars>>

\* POST on the collection of recordings is handle_add_recording_matcher, which
\* cannot read a recording file: 500.
LoadMisrouted(c) ==
    /\ Executing(c, "load") /\ c \in Remote
    /\ Answer(c, FALSE, <<>>)
    /\ UNCHANGED vars

LoadEntry(c) ==
    /\ stage[c] = "loading"
    /\ \/ /\ LoadNext(c)
          /\ IF phase'[c] = "idle" THEN Answer(c, TRUE, load'[c].ids)
                                   ELSE UNCHANGED apiVars
       \/ LoadFails(c) /\ Answer(c, FALSE, <<>>)

-------------------------------------------------------------------------------
Execute(c) ==
    \/ ExecuteCreate(c) \/ ExecuteDelete(c) \/ ExecuteExport(c)
    \/ BeginExecuteReset(c) \/ Sweep(c)
    \/ BeginExecuteLoad(c) \/ LoadMisrouted(c) \/ LoadEntry(c)

\* All the calls the bound allows are made.
AllDone ==
    /\ \A c \in Callers : stage[c] = "idle" /\ invocations[c] = MaxInvocations
    /\ UNCHANGED allVars

ApiNext ==
    \/ \E c \in Callers :
          \/ \E request \in Calls(c) : Invoke(c, request)
          \/ Arrive(c) \/ Break(c) \/ Execute(c) \/ Return(c)
    \/ AllDone

ApiSpec == ApiInit /\ [][ApiNext]_allVars
-------------------------------------------------------------------------------
\* Every variable of the calls holds a value of its kind.
ApiTypeOK ==
    /\ TypeOK
    /\ stage \in [Callers -> {"idle", "sent", "executing", "sweeping", "loading", "replying"}]
    /\ result \in [Callers -> [ok: BOOLEAN, ids: Seq(Nat)]]
    /\ \A c \in Callers : handles[c] \subseteq [kind: Kinds, id: Nat, asked: Requirements]
    /\ invocations \in [Callers -> 0..MaxInvocations]
    /\ abandoned \subseteq Kinds \X Nat
    /\ deleted \subseteq Kinds \X Nat

\* A handle names the thing its owner asked for, in the form in which it got to the
\* server, as long as that thing is registered: no other caller's create, playback
\* or reset, and no lost answer, makes a Mock or rule object speak of another.
HandlesNameTheirThing ==
    \A c \in Callers : \A h \in handles[c] :
        h.id \in Registered(h.kind) => RequirementsOf(h.kind, h.id) = Received(c, h.asked)

\* A thing leaves the server only by its own delete call, or by a reset under way.
OnlyOwnDeletes ==
    [][\A kind \in Kinds : \A id \in Registered(kind) :
          \/ id \in Registered(kind)'
          \/ \E c \in Callers :
                \/ Executing(c, "delete") /\ call[c].kind = kind /\ call[c].id = id
                \/ Executing(c, "reset") \/ stage[c] = "sweeping"]_allVars

\* What Recording::delete documents ("ensuring that the recording is fully removed
\* before proceeding"), for everything a test can delete: a delete that reported
\* success has removed the thing, and it does not come back.
DeletedIsGone ==
    \A kind \in Kinds, id \in 0..(MaxMocks + MaxRules + MaxRecordings) :
        <<kind, id>> \in deleted => id \notin Registered(kind)

\* A test has a handle for everything on the server, or gets one with an answer or a
\* playback under way, save for what calls have created that failed: a remote create
\* whose answer was lost, and a playback that stopped at a bad entry.
OnlyFailuresOrphan ==
    \A kind \in Kinds : \A id \in Registered(kind) :
        \/ <<kind, id>> \in abandoned
        \/ \E c \in Callers :
              \/ \E h \in handles[c] : h.kind = kind /\ h.id = id
              \/ /\ stage[c] = "replying" /\ call[c].op = "create" /\ call[c].kind = kind
                 /\ result[c].ids = <<id>>
              \/ /\ kind = "mock" /\ call[c].op = "load" /\ stage[c] \in {"loading", "replying"}
                 /\ \E n \in DOMAIN load[c].ids : load[c].ids[n] = id

===============================================================================
