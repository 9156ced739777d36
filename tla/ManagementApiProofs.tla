-------------------------- MODULE ManagementApiProofs --------------------------
(***************************************************************************)
(* The calls of the tests, for every set of local and remote callers: each *)
(* step of a call is a step of the Manager, so what is proved of the       *)
(* Manager holds of a server that several processes drive, and a handle    *)
(* goes on naming what its owner asked for.  The same for the assertions   *)
(* of the tests, and that the request one fails with is the nearest.       *)
(***************************************************************************)
EXTENDS ManagementApi, Assertions, StateManagerProofs, SelectionsProofs

ApiStep(c) ==
    \/ \E request \in Calls(c) : Invoke(c, request)
    \/ Arrive(c) \/ Break(c) \/ Execute(c) \/ Return(c)

\* An id that was handed out, and that names rr if it still names anything.
Named(kind, id, rr) ==
    /\ id \in Nat /\ id < NextId(kind)
    /\ id \in Registered(kind) => RequirementsOf(kind, id) = rr

WellFormed(c) ==
    /\ call[c].op = "create" => call[c].kind \in Kinds /\ call[c].rr \in Requirements
    /\ call[c].op = "delete" =>
          call[c].kind \in Kinds /\ call[c].id \in Nat /\ call[c].id < NextId(call[c].kind)
    /\ call[c].op = "load" => call[c].file \in Files

\* A playback under way, or one that has succeeded and is about to return.
Playing(c) ==
    \/ stage[c] = "loading"
    \/ stage[c] = "replying" /\ call[c].op = "load" /\ result[c].ok

PlaybackNamed(c) ==
    Playing(c) =>
        /\ c \notin Remote /\ call[c].op = "load" /\ load[c].file = call[c].file
        /\ \A n \in DOMAIN load[c].ids :
              /\ Named("mock", load[c].ids[n], call[c].file[n])
              /\ call[c].file[n] \in Requirements
        /\ stage[c] = "replying" => result[c].ids = load[c].ids

CreatedNamed(c) ==
    stage[c] = "replying" /\ call[c].op = "create" /\ result[c].ok =>
        /\ Len(result[c].ids) = 1
        /\ Named(call[c].kind, result[c].ids[1], Received(c, call[c].rr))

HandlesNamed(c) ==
    \A h \in handles[c] : Named(h.kind, h.id, Received(c, h.asked))

CallerInv(c) ==
    /\ WellFormed(c)
    /\ stage[c] = "sweeping" => call[c].op = "reset"
    /\ PlaybackNamed(c) /\ CreatedNamed(c) /\ HandlesNamed(c)

\* ApiTypeOK gives the ranges of these functions, not their domains.
PerCaller ==
    /\ call = [c \in Callers |-> call[c]]
    /\ handles = [c \in Callers |-> handles[c]]

ApiInv ==
    /\ ApiTypeOK /\ IssuedIds /\ PerCaller
    /\ \A c \in Callers : CallerInv(c)

-------------------------------------------------------------------------------
\* The detailed steps are steps of the Manager.

LEMMA CreateIsManagerStep ==
    ASSUME NEW kind, NEW rr \in Requirements, CreateIn(kind, rr)
    PROVE  Next
BY DEF CreateIn, Next, MockStep, RuleStep, RecordingStep

LEMMA DeleteIsManagerStep ==
    ASSUME NEW kind, NEW id, DeleteFrom(kind, id)
    PROVE  Next
BY DEF DeleteFrom, Next, MockStep, RuleStep, RecordingStep, DeleteMock,
   DeleteForwardingRule, DeleteProxyRule, DeleteRecording, NonStatic

LEMMA ReceivedType ==
    ASSUME NEW c \in Callers, NEW rr \in Requirements
    PROVE  Received(c, rr) \in Requirements
BY ApiAssumption DEF Received

LEMMA ExecuteIsManagerStep ==
    ASSUME NEW c \in Callers, WellFormed(c), Execute(c)
    PROVE  [Next]_vars
<1>1. CASE ExecuteCreate(c)
  <2>1. Received(c, call[c].rr) \in Requirements
    BY <1>1, ReceivedType DEF ExecuteCreate, Executing, WellFormed
  <2>2. QED
    BY <1>1, <2>1, CreateIsManagerStep DEF ExecuteCreate
<1>2. CASE ExecuteDelete(c)
  BY <1>2, DeleteIsManagerStep DEF ExecuteDelete
<1>3. CASE ExecuteExport(c) \/ LoadMisrouted(c)
  BY <1>3 DEF ExecuteExport, LoadMisrouted
<1>4. CASE BeginExecuteReset(c) \/ Sweep(c)
  BY <1>4 DEF BeginExecuteReset, Sweep, Next, CallerStep
<1>5. CASE BeginExecuteLoad(c)
  BY <1>5 DEF BeginExecuteLoad, Executing, WellFormed, Next, CallerStep
<1>6. CASE LoadEntry(c)
  BY <1>6 DEF LoadEntry, Next, CallerStep
<1>7. QED
  BY <1>1, <1>2, <1>3, <1>4, <1>5, <1>6 DEF Execute

LEMMA ApiStepIsManagerStep ==
    ASSUME NEW c \in Callers, WellFormed(c), ApiStep(c)
    PROVE  [Next]_vars
<1>1. CASE Execute(c)
  BY <1>1, ExecuteIsManagerStep
<1>2. ASSUME ~Execute(c) PROVE UNCHANGED vars
  BY <1>2 DEF ApiStep, Invoke, Arrive, Break, Return
<1>3. QED
  BY <1>1, <1>2

LEMMA ApiSteps ==
    ASSUME [ApiNext]_allVars
    PROVE  UNCHANGED allVars \/ \E c \in Callers : ApiStep(c)
BY DEF ApiNext, ApiStep, AllDone

LEMMA ApiNextIsManagerStep == ApiInv /\ [ApiNext]_allVars => [Next]_vars
<1> SUFFICES ASSUME ApiInv, [ApiNext]_allVars PROVE [Next]_vars
  OBVIOUS
<1>1. ASSUME NEW c \in Callers, ApiStep(c) PROVE [Next]_vars
  BY <1>1, ApiStepIsManagerStep DEF ApiInv, CallerInv
<1>2. QED
  BY <1>1, ApiSteps DEF allVars

-------------------------------------------------------------------------------
\* The view of the four tables, case by case, in a state and in the next one.

LEMMA Counter ==
    /\ NextId("mock") = nextMockId
    /\ NextId("forwarding") = nextForwardingRuleId
    /\ NextId("proxy") = nextProxyRuleId
    /\ NextId("recording") = nextRecordingId
    /\ NextId("mock")' = nextMockId'
    /\ NextId("forwarding")' = nextForwardingRuleId'
    /\ NextId("proxy")' = nextProxyRuleId'
    /\ NextId("recording")' = nextRecordingId'
BY DEF NextId

LEMMA Table ==
    /\ Registered("mock") = NonStatic
    /\ Registered("forwarding") = DOMAIN forwardingRules
    /\ Registered("proxy") = DOMAIN proxyRules
    /\ Registered("recording") = DOMAIN recordings
    /\ Registered("mock")' = NonStatic'
    /\ Registered("forwarding")' = DOMAIN forwardingRules'
    /\ Registered("proxy")' = DOMAIN proxyRules'
    /\ Registered("recording")' = DOMAIN recordings'
BY DEF Registered

LEMMA Entry ==
    ASSUME NEW id
    PROVE  /\ RequirementsOf("mock", id) = mocks[id].requirements
           /\ RequirementsOf("forwarding", id) = forwardingRules[id].requirements
           /\ RequirementsOf("proxy", id) = proxyRules[id].requirements
           /\ RequirementsOf("recording", id) = recordings[id].requirements
           /\ RequirementsOf("mock", id)' = mocks'[id].requirements
           /\ RequirementsOf("forwarding", id)' = forwardingRules'[id].requirements
           /\ RequirementsOf("proxy", id)' = proxyRules'[id].requirements
           /\ RequirementsOf("recording", id)' = recordings'[id].requirements
BY DEF RequirementsOf

\* What a step of the Manager does to any of them.

LEMMA KindStep ==
    ASSUME TypeOK, IssuedIds, [Next]_vars, NEW kind \in Kinds
    PROVE  /\ NextId(kind) \in Nat /\ NextId(kind)' \in Nat /\ NextId(kind) <= NextId(kind)'
           /\ \A id \in Registered(kind)' :
                 \/ id = NextId(kind) /\ NextId(kind)' = NextId(kind) + 1
                 \/ /\ id \in Registered(kind)
                    /\ RequirementsOf(kind, id)' = RequirementsOf(kind, id)
<1> USE Counter, Table, Entry DEF TableStep
<1>1. /\ nextMockId \in Nat /\ nextForwardingRuleId \in Nat
      /\ nextProxyRuleId \in Nat /\ nextRecordingId \in Nat
  BY DEF TypeOK
<1>2. CASE kind = "mock"
  <2>1. \A i \in NonStatic' :
           \/ i = nextMockId /\ nextMockId' = nextMockId + 1
           \/ i \in NonStatic /\ mocks'[i].requirements = mocks[i].requirements
    BY <1>1, MockTableStep DEF NonStatic, IssuedIds
  <2>2. nextMockId' \in Nat /\ nextMockId <= nextMockId'
    BY <1>1, MockTableStep
  <2>3. QED
    BY <1>1, <1>2, <2>1, <2>2
<1>3. CASE kind = "forwarding"
  BY <1>1, <1>3, RuleTableStep
<1>4. CASE kind = "proxy"
  BY <1>1, <1>4, RuleTableStep
<1>5. CASE kind = "recording"
  BY <1>1, <1>5, RecordingTableStep
<1>6. QED
  BY <1>2, <1>3, <1>4, <1>5 DEF Kinds

LEMMA NamedKept ==
    ASSUME TypeOK, IssuedIds, [Next]_vars, NEW kind \in Kinds, NEW id, NEW rr,
           Named(kind, id, rr)
    PROVE  Named(kind, id, rr)'
BY KindStep DEF Named

-------------------------------------------------------------------------------
\* A step of one caller leaves the calls of the others alone.

SameCall(d) ==
    /\ stage'[d] = stage[d] /\ call'[d] = call[d] /\ result'[d] = result[d]
    /\ handles'[d] = handles[d] /\ load'[d] = load[d]

LEMMA TablesOnly ==
    ASSUME NEW kind, NEW x, CreateIn(kind, x) \/ DeleteFrom(kind, x)
    PROVE  UNCHANGED callerVars
BY DEF CreateIn, DeleteFrom, AddMock, CreateForwardingRule, CreateProxyRule,
   CreateRecording, DeleteMock, DeleteForwardingRule, DeleteProxyRule, DeleteRecording

LEMMA ExecuteFrame ==
    ASSUME ApiTypeOK, NEW c \in Callers, Execute(c)
    PROVE  /\ UNCHANGED <<call, invocations, resultVars>>
           /\ \A d \in Callers \ {c} :
                 stage'[d] = stage[d] /\ result'[d] = result[d] /\ load'[d] = load[d]
<1> USE DEF GoTo, Answer, apiVars, vars, callerVars, resultVars
<1>1. /\ stage = [d \in Callers |-> stage[d]]
      /\ result = [d \in Callers |-> result[d]]
      /\ load = [d \in Callers |-> load[d]]
  BY DEF ApiTypeOK, TypeOK
<1>2. CASE ExecuteCreate(c)
  BY <1>1, <1>2, TablesOnly DEF ExecuteCreate
<1>3. CASE ExecuteDelete(c)
  BY <1>1, <1>3, TablesOnly DEF ExecuteDelete
<1>4. CASE ExecuteExport(c) \/ LoadMisrouted(c)
  BY <1>1, <1>4 DEF ExecuteExport, LoadMisrouted
<1>5. CASE BeginExecuteReset(c)
  BY <1>1, <1>5 DEF BeginExecuteReset, BeginReset
<1>6. CASE Sweep(c)
  BY <1>1, <1>6 DEF Sweep, ResetHistory, ResetForwardingRules, ResetProxyRules,
     ResetRecordings
<1>7. CASE BeginExecuteLoad(c)
  BY <1>1, <1>7 DEF BeginExecuteLoad, BeginLoad
<1>8. CASE LoadEntry(c)
  BY <1>1, <1>8 DEF LoadEntry, LoadNext, LoadFails
<1>9. QED
  BY <1>2, <1>3, <1>4, <1>5, <1>6, <1>7, <1>8 DEF Execute

LEMMA OthersKept ==
    ASSUME ApiTypeOK, PerCaller, NEW c \in Callers, ApiStep(c), NEW d \in Callers \ {c}
    PROVE  SameCall(d)
<1> USE DEF GoTo, Abandon, vars, callerVars, resultVars, SameCall
<1>1. /\ stage = [e \in Callers |-> stage[e]]
      /\ call = [e \in Callers |-> call[e]]
      /\ handles = [e \in Callers |-> handles[e]]
  BY DEF ApiTypeOK, PerCaller
<1>2. CASE Execute(c)
  BY <1>2, ExecuteFrame
<1>3. ASSUME NEW request, Invoke(c, request) PROVE SameCall(d)
  BY <1>1, <1>3 DEF Invoke
<1>4. CASE Arrive(c) \/ Break(c)
  BY <1>1, <1>4 DEF Arrive, Break
<1>5. CASE Return(c)
  BY <1>1, <1>5 DEF Return
<1>6. QED
  BY <1>2, <1>3, <1>4, <1>5 DEF ApiStep

-------------------------------------------------------------------------------
\* A step in which a caller gets no new call and no new handles leaves these right.
LEMMA CallKept ==
    ASSUME ApiTypeOK, IssuedIds, [Next]_vars, NEW c \in Callers, CallerInv(c),
           call'[c] = call[c]
    PROVE  /\ WellFormed(c)'
           /\ handles'[c] = handles[c] => HandlesNamed(c)'
<1>1. TypeOK /\ handles[c] \subseteq [kind: Kinds, id: Nat, asked: Requirements]
  BY DEF ApiTypeOK
<1>2. ASSUME NEW kind \in Kinds, NEW id, NEW rr, Named(kind, id, rr)
      PROVE  Named(kind, id, rr)'
  BY <1>1, <1>2, NamedKept
<1>3. WellFormed(c)'
  <2>1. WellFormed(c)
    BY DEF CallerInv
  <2>2. ASSUME call[c].op = "delete" PROVE call[c].id < NextId(call[c].kind)'
    <3>1. /\ NextId(call[c].kind) \in Nat /\ NextId(call[c].kind)' \in Nat
          /\ NextId(call[c].kind) <= NextId(call[c].kind)'
      BY <1>1, <2>1, <2>2, KindStep DEF WellFormed
    <3>2. QED
      BY <2>1, <2>2, <3>1 DEF WellFormed
  <2>3. QED
    BY <2>1, <2>2 DEF WellFormed
<1>4. ASSUME handles'[c] = handles[c], NEW h \in handles[c]
      PROVE  Named(h.kind, h.id, Received(c, h.asked))'
  <2>1. h.kind \in Kinds /\ Named(h.kind, h.id, Received(c, h.asked))
    BY <1>1 DEF CallerInv, HandlesNamed
  <2>2. QED
    BY <1>2, <2>1 DEF Named, Received
<1>5. QED
  BY <1>3, <1>4 DEF HandlesNamed

\* The invariant of a caller that takes no part in the step.

LEMMA OtherCaller ==
    ASSUME ApiTypeOK, IssuedIds, [Next]_vars, NEW d \in Callers, CallerInv(d), SameCall(d)
    PROVE  CallerInv(d)'
<1> USE DEF SameCall
<1>1. TypeOK /\ handles[d] \subseteq [kind: Kinds, id: Nat, asked: Requirements]
  BY DEF ApiTypeOK
<1>2. WellFormed(d)' /\ HandlesNamed(d)'
  BY CallKept
<1>3. ASSUME NEW kind \in Kinds, NEW id, NEW rr, Named(kind, id, rr)
      PROVE  Named(kind, id, rr)'
  BY <1>1, <1>3, NamedKept
<1>4. PlaybackNamed(d)'
  <2>1. ASSUME Playing(d), NEW n \in DOMAIN load[d].ids
        PROVE  /\ Named("mock", load[d].ids[n], call[d].file[n])'
               /\ call[d].file[n] \in Requirements
    <3>1. Named("mock", load[d].ids[n], call[d].file[n]) /\ call[d].file[n] \in Requirements
      BY <2>1 DEF CallerInv, PlaybackNamed
    <3>2. QED
      BY <1>3, <3>1 DEF Named, Kinds
  <2>2. QED
    BY <2>1 DEF CallerInv, PlaybackNamed, Playing
<1>5. CreatedNamed(d)'
  <2>1. SUFFICES ASSUME stage[d] = "replying", call[d].op = "create", result[d].ok
                 PROVE  /\ Len(result[d].ids) = 1
                        /\ Named(call[d].kind, result[d].ids[1], Received(d, call[d].rr))'
    BY DEF CreatedNamed
  <2>2. /\ call[d].kind \in Kinds /\ Len(result[d].ids) = 1
        /\ Named(call[d].kind, result[d].ids[1], Received(d, call[d].rr))
    BY <2>1 DEF CallerInv, WellFormed, CreatedNamed
  <2>3. QED
    BY <1>3, <2>2 DEF Named, Received
<1>6. QED
  BY <1>2, <1>4, <1>5 DEF CallerInv

-------------------------------------------------------------------------------
\* The invariant of the caller whose step it is.

LEMMA CreateNames ==
    ASSUME TypeOK, NEW kind \in Kinds, NEW rr, CreateIn(kind, rr),
           NEW id, id = NextId(kind)
    PROVE  Named(kind, id, rr)'
<1> USE Counter, Table, Entry DEF Named, Put
<1>1. /\ nextMockId \in Nat /\ nextForwardingRuleId \in Nat /\ nextProxyRuleId \in Nat
      /\ nextRecordingId \in Nat
  BY DEF TypeOK
<1>2. CASE kind = "mock"
  BY <1>1, <1>2 DEF CreateIn, AddMock, InsertMock, NonStatic
<1>3. CASE kind = "forwarding"
  BY <1>1, <1>3 DEF CreateIn, CreateForwardingRule
<1>4. CASE kind = "proxy"
  BY <1>1, <1>4 DEF CreateIn, CreateProxyRule
<1>5. CASE kind = "recording"
  BY <1>1, <1>5 DEF CreateIn, CreateRecording
<1>6. QED
  BY <1>2, <1>3, <1>4, <1>5 DEF Kinds

LEMMA OwnInvoke ==
    ASSUME ApiInv, [Next]_vars, NEW c \in Callers, NEW request \in Calls(c), Invoke(c, request)
    PROVE  CallerInv(c)'
<1> USE DEF GoTo
<1>1. /\ stage = [e \in Callers |-> stage[e]] /\ call = [e \in Callers |-> call[e]]
      /\ ApiTypeOK /\ TypeOK /\ IssuedIds /\ CallerInv(c) /\ stage[c] = "idle"
      /\ handles[c] \subseteq [kind: Kinds, id: Nat, asked: Requirements]
      /\ Uses[c] \subseteq Kinds
  BY ApiAssumption DEF ApiInv, ApiTypeOK, PerCaller, Invoke
<1>2. handles'[c] = handles[c]
  BY DEF Invoke, resultVars
<1>3. HandlesNamed(c)'
  <2>1. UNCHANGED vars
    BY DEF Invoke
  <2>2. QED
    BY <1>1, <1>2, <2>1 DEF CallerInv, HandlesNamed, Named, NextId, Registered, RequirementsOf,
       NonStatic, vars, mockVars, ruleVars, recordingVars, Received
<1>4. stage'[c] \in {"idle", "sent", "executing"}
  BY <1>1 DEF Invoke
<1>5. WellFormed(c)'
  <2>1. CASE call'[c] = call[c]
    BY <1>1, <2>1, CallKept
  <2>2. CASE call'[c] = request
    <3>1. UNCHANGED vars
      BY DEF Invoke
    <3>2. \A kind : NextId(kind)' = NextId(kind)
      BY <3>1 DEF vars, mockVars, ruleVars, recordingVars, NextId
    <3>3. \A h \in handles[c] : h.kind \in Kinds /\ h.id \in Nat /\ h.id < NextId(h.kind)
      BY <1>1 DEF CallerInv, HandlesNamed, Named
    <3>4. QED
      BY <1>1, <2>2, <3>2, <3>3
         DEF Calls, WellFormed, Create, Delete, Export, Load, ResetAll
  <2>3. QED
    BY <1>1, <2>1, <2>2 DEF Invoke
<1>6. QED
  BY <1>3, <1>4, <1>5 DEF CallerInv, PlaybackNamed, Playing, CreatedNamed

LEMMA OwnTransport ==
    ASSUME ApiInv, [Next]_vars, NEW c \in Callers, Arrive(c) \/ Break(c)
    PROVE  CallerInv(c)'
<1>1. ApiTypeOK /\ IssuedIds /\ CallerInv(c) /\ stage = [e \in Callers |-> stage[e]]
  BY DEF ApiInv, ApiTypeOK
<1>2. /\ call'[c] = call[c] /\ handles'[c] = handles[c]
      /\ stage'[c] \in {"idle", "executing"}
  BY <1>1 DEF Arrive, Break, GoTo, resultVars
<1>3. QED
  BY <1>1, <1>2, CallKept DEF CallerInv, PlaybackNamed, Playing, CreatedNamed

LEMMA OwnReturn ==
    ASSUME ApiInv, [Next]_vars, NEW c \in Callers, Return(c)
    PROVE  CallerInv(c)'
<1> USE DEF GoTo, Abandon
<1>1. /\ stage = [e \in Callers |-> stage[e]] /\ handles = [e \in Callers |-> handles[e]]
      /\ ApiTypeOK /\ IssuedIds /\ CallerInv(c) /\ stage[c] = "replying"
  BY DEF ApiInv, ApiTypeOK, PerCaller, Return
<1>2. call'[c] = call[c] /\ stage'[c] = "idle" /\ UNCHANGED vars
  BY <1>1 DEF Return
<1>3. ASSUME NEW kind, NEW id, NEW rr, Named(kind, id, rr)
      PROVE  Named(kind, id, rr)'
  BY <1>2, <1>3 DEF Named, NextId, Registered, RequirementsOf, NonStatic,
     vars, mockVars, ruleVars, recordingVars
<1>4. ASSUME result[c].ok, NEW h \in NewHandles(c)
      PROVE  Named(h.kind, h.id, Received(c, h.asked))
  <2>1. CASE call[c].op = "create"
    BY <1>1, <1>4, <2>1 DEF NewHandles, CallerInv, CreatedNamed
  <2>2. CASE call[c].op = "load"
    <3>1. /\ c \notin Remote /\ result[c].ids = load[c].ids
          /\ \A n \in DOMAIN load[c].ids : Named("mock", load[c].ids[n], call[c].file[n])
      BY <1>1, <1>4, <2>2 DEF CallerInv, PlaybackNamed, Playing
    <3>2. PICK n \in DOMAIN result[c].ids :
             h = [kind |-> "mock", id |-> result[c].ids[n], asked |-> call[c].file[n]]
      BY <1>4, <2>2 DEF NewHandles
    <3>3. QED
      BY <3>1, <3>2 DEF Received
  <2>3. QED
    BY <1>4, <2>1, <2>2 DEF NewHandles
<1>5. ASSUME NEW h \in handles'[c]
      PROVE  Named(h.kind, h.id, Received(c, h.asked))
  <2>1. h \in handles[c] \/ (result[c].ok /\ h \in NewHandles(c))
    BY <1>1 DEF Return
  <2>2. QED
    BY <1>1, <1>4, <2>1 DEF CallerInv, HandlesNamed
<1>6. HandlesNamed(c)'
  BY <1>3, <1>5 DEF HandlesNamed, Received, Named
<1>7. QED
  BY <1>1, <1>2, <1>6, CallKept DEF CallerInv, PlaybackNamed, Playing, CreatedNamed

LEMMA PlaybackNames ==
    ASSUME TypeOK, IssuedIds, [Next]_vars, NEW c \in Callers, LoadNext(c),
           NEW file, load[c].file = file,
           \A n \in DOMAIN load[c].ids :
              Named("mock", load[c].ids[n], file[n]) /\ file[n] \in Requirements
    PROVE  (\A n \in DOMAIN load[c].ids :
              Named("mock", load[c].ids[n], file[n]) /\ file[n] \in Requirements)'
<1> DEFINE ids == load[c].ids
           last == Len(ids) + 1
<1>1. /\ load \in [Callers -> [file: Files \cup {<<>>}, ids: Seq(Nat)]]
      /\ ids \in Seq(Nat) /\ nextMockId \in Nat
  BY DEF TypeOK
<1>2. /\ load'[c].ids = Append(ids, nextMockId)
      /\ file[last] \in Requirements /\ nextMockId' = nextMockId + 1
      /\ mocks' = Put(mocks, nextMockId,
                      [requirements |-> file[last], calls |-> 0, isStatic |-> FALSE])
  BY <1>1 DEF LoadNext, InsertMock
<1>3. /\ DOMAIN load'[c].ids = DOMAIN ids \cup {last}
      /\ load'[c].ids[last] = nextMockId
      /\ \A n \in DOMAIN ids : load'[c].ids[n] = ids[n]
  BY <1>1, <1>2
<1>4. ASSUME NEW id, id = nextMockId, NEW rr, rr = file[last]
      PROVE  Named("mock", id, rr)'
  <2>1. id \in DOMAIN mocks' => mocks'[id].requirements = rr
    BY <1>2, <1>4 DEF Put
  <2>2. id \in Registered("mock")' => id \in DOMAIN mocks'
    BY Table DEF NonStatic
  <2>3. id \in Nat /\ id < NextId("mock")'
    BY <1>1, <1>2, <1>4, Counter
  <2>4. QED
    BY <2>1, <2>2, <2>3, Entry DEF Named
<1>5. ASSUME NEW id, NEW rr, Named("mock", id, rr) PROVE Named("mock", id, rr)'
  BY <1>5, NamedKept DEF Kinds
<1>6. ASSUME NEW n \in DOMAIN load'[c].ids
      PROVE  Named("mock", load[c].ids[n], file[n])' /\ file[n] \in Requirements
  <2>1. CASE n = last
    BY <1>2, <1>3, <1>4, <2>1 DEF Named
  <2>2. CASE n \in DOMAIN ids
    BY <1>3, <1>5, <2>2 DEF Named
  <2>3. QED
    BY <1>3, <1>6, <2>1, <2>2
<1>7. QED
  BY <1>6

LEMMA OwnExecute ==
    ASSUME ApiInv, [Next]_vars, NEW c \in Callers, Execute(c)
    PROVE  CallerInv(c)'
<1> USE DEF GoTo, Answer, Executing, resultVars
<1>1. /\ stage = [e \in Callers |-> stage[e]] /\ result = [e \in Callers |-> result[e]]
      /\ load \in [Callers -> [file: Files \cup {<<>>}, ids: Seq(Nat)]]
      /\ ApiTypeOK /\ TypeOK /\ IssuedIds /\ CallerInv(c)
  BY DEF ApiInv, ApiTypeOK, TypeOK
<1>2. call'[c] = call[c] /\ handles'[c] = handles[c]
  BY <1>1, ExecuteFrame DEF resultVars
<1>3. WellFormed(c)' /\ HandlesNamed(c)'
  BY <1>1, <1>2, CallKept
<1>4. CASE ExecuteCreate(c)
  <2> DEFINE kind == call[c].kind
             rr == Received(c, call[c].rr)
  <2>1. kind \in Kinds /\ call[c].op = "create" /\ stage'[c] = "replying"
    BY <1>1, <1>4 DEF ExecuteCreate, CallerInv, WellFormed
  <2>2. CASE CreateIn(kind, rr) /\ Answer(c, TRUE, <<NextId(kind)>>)
    <3>1. result'[c].ids = <<NextId(kind)>>
      BY <1>1, <2>2
    <3>2. Len(result'[c].ids) = 1 /\ result'[c].ids[1] = NextId(kind)
      BY <3>1
    <3>3. ASSUME NEW k \in Kinds, NEW i, NEW r, CreateIn(k, r), i = NextId(k)
          PROVE  Named(k, i, r)'
      BY <1>1, <3>3, CreateNames
    <3>4. Named(call[c].kind, result[c].ids[1], Received(c, call[c].rr))'
      BY <1>2, <2>1, <2>2, <3>2, <3>3 DEF Named, Received
    <3>5. QED
      BY <1>2, <1>3, <2>1, <3>2, <3>4
         DEF CallerInv, PlaybackNamed, Playing, CreatedNamed, Received
  <2>3. CASE Answer(c, FALSE, <<>>)
    BY <1>1, <1>2, <1>3, <2>1, <2>3 DEF CallerInv, PlaybackNamed, Playing, CreatedNamed
  <2>4. QED
    BY <1>4, <2>2, <2>3 DEF ExecuteCreate
<1>5. CASE ExecuteDelete(c) \/ ExecuteExport(c) \/ LoadMisrouted(c)
  BY <1>1, <1>2, <1>3, <1>5
     DEF ExecuteDelete, ExecuteExport, LoadMisrouted, CallerInv, PlaybackNamed, Playing,
         CreatedNamed
<1>6. CASE BeginExecuteReset(c)
  BY <1>1, <1>2, <1>3, <1>6
     DEF BeginExecuteReset, CallerInv, PlaybackNamed, Playing, CreatedNamed
<1>7. CASE Sweep(c)
  BY <1>1, <1>2, <1>3, <1>7
     DEF Sweep, CallerInv, PlaybackNamed, Playing, CreatedNamed, apiVars
<1>8. CASE BeginExecuteLoad(c)
  BY <1>1, <1>2, <1>3, <1>8
     DEF BeginExecuteLoad, BeginLoad, CallerInv, PlaybackNamed, Playing, CreatedNamed
<1>9. CASE LoadEntry(c)
  <2>1. /\ c \notin Remote /\ call[c].op = "load" /\ load[c].file = call[c].file
        /\ \A n \in DOMAIN load[c].ids :
              Named("mock", load[c].ids[n], call[c].file[n]) /\ call[c].file[n] \in Requirements
    BY <1>1, <1>9 DEF LoadEntry, CallerInv, PlaybackNamed, Playing
  <2>2. CASE LoadFails(c) /\ Answer(c, FALSE, <<>>)
    BY <1>1, <1>2, <1>3, <2>1, <2>2 DEF CallerInv, PlaybackNamed, Playing, CreatedNamed
  <2>3. CASE /\ LoadNext(c)
             /\ IF phase'[c] = "idle" THEN Answer(c, TRUE, load'[c].ids)
                                      ELSE UNCHANGED apiVars
    <3>1. load'[c].file = call[c].file
      BY <1>1, <2>1, <2>3 DEF LoadNext
    <3>2. ASSUME NEW file, call[c].file = file
          PROVE  (\A n \in DOMAIN load[c].ids :
                    Named("mock", load[c].ids[n], file[n]) /\ file[n] \in Requirements)'
      BY <1>1, <2>1, <2>3, <3>2, PlaybackNames
    <3>3. (\A n \in DOMAIN load[c].ids :
             /\ Named("mock", load[c].ids[n], call[c].file[n])
             /\ call[c].file[n] \in Requirements)'
      BY <1>2, <3>2 DEF Named
    <3>4. /\ stage'[c] \in {"loading", "replying"}
          /\ stage'[c] = "replying" => result'[c].ids = load'[c].ids
      BY <1>1, <1>9, <2>3 DEF LoadEntry, LoadNext, apiVars
    <3>5. QED
      BY <1>2, <1>3, <2>1, <3>1, <3>3, <3>4
         DEF CallerInv, PlaybackNamed, Playing, CreatedNamed
  <2>4. QED
    BY <1>9, <2>2, <2>3 DEF LoadEntry
<1>10. QED
  BY <1>4, <1>5, <1>6, <1>7, <1>8, <1>9 DEF Execute

-------------------------------------------------------------------------------
\* Types, and the invariant of all the callers.

LEMMA NewHandlesType ==
    ASSUME ApiInv, NEW c \in Callers, stage[c] = "replying", result[c].ok
    PROVE  NewHandles(c) \subseteq [kind: Kinds, id: Nat, asked: Requirements]
<1>1. CallerInv(c)
  BY DEF ApiInv
<1>2. CASE call[c].op = "create"
  BY <1>1, <1>2 DEF NewHandles, CallerInv, WellFormed, CreatedNamed, Named
<1>3. CASE call[c].op = "load"
  BY <1>1, <1>3 DEF NewHandles, CallerInv, PlaybackNamed, Playing, Named, Kinds
<1>4. QED
  BY <1>2, <1>3 DEF NewHandles

Stages == {"idle", "sent", "executing", "sweeping", "loading", "replying"}
Results == [ok: BOOLEAN, ids: Seq(Nat)]

LEMMA ExecuteType ==
    ASSUME ApiInv, TypeOK', NEW c \in Callers, Execute(c)
    PROVE  (ApiTypeOK /\ PerCaller)'
<1> USE DEF GoTo, Answer, apiVars, resultVars
<1>1. ApiTypeOK /\ PerCaller /\ TypeOK /\ CallerInv(c)
  BY DEF ApiInv, ApiTypeOK
<1>2. UNCHANGED <<call, invocations, resultVars>>
  BY <1>1, ExecuteFrame
<1>3. stage' \in [Callers -> Stages] /\ result' \in [Callers -> Results]
  <2>1. stage \in [Callers -> Stages] /\ result \in [Callers -> Results]
    BY <1>1 DEF ApiTypeOK, Stages, Results
  <2>2. ASSUME NEW ok \in BOOLEAN, NEW ids \in Seq(Nat), Answer(c, ok, ids)
        PROVE  stage' \in [Callers -> Stages] /\ result' \in [Callers -> Results]
    <3>1. [ok |-> ok, ids |-> ids] \in Results
      BY DEF Results
    <3>2. result' \in [Callers -> Results]
      BY <2>1, <2>2, <3>1
    <3>3. QED
      BY <2>1, <2>2, <3>2 DEF Stages
  <2>3. CASE ExecuteCreate(c)
    <3>1. NextId(call[c].kind) \in Nat
      BY <1>1, <2>3, Counter DEF ExecuteCreate, Executing, CallerInv, WellFormed, TypeOK, Kinds
    <3>2. <<NextId(call[c].kind)>> \in Seq(Nat) /\ <<>> \in Seq(Nat)
      BY <3>1
    <3>3. \E ok \in BOOLEAN, ids \in Seq(Nat) : Answer(c, ok, ids)
      BY <2>3, <3>2, Zenon DEF ExecuteCreate
    <3>4. QED
      BY <2>2, <3>3
  <2>4. CASE ExecuteDelete(c) \/ ExecuteExport(c) \/ LoadMisrouted(c)
    <3>1. \E ok \in BOOLEAN : Answer(c, ok, <<>>)
      BY <2>4, Zenon DEF ExecuteDelete, ExecuteExport, LoadMisrouted
    <3>2. <<>> \in Seq(Nat)
      OBVIOUS
    <3>3. QED
      BY <2>2, <3>1, <3>2, Zenon
  <2>5. CASE BeginExecuteReset(c) \/ BeginExecuteLoad(c)
    BY <2>1, <2>5 DEF BeginExecuteReset, BeginExecuteLoad, Stages
  <2>6. CASE Sweep(c)
    <3>1. UNCHANGED apiVars \/ Answer(c, TRUE, <<>>)
      BY <2>6, Zenon DEF Sweep
    <3>2. CASE UNCHANGED apiVars
      BY <2>1, <3>2
    <3>3. <<>> \in Seq(Nat)
      OBVIOUS
    <3>4. QED
      BY <2>2, <3>1, <3>2, <3>3, Zenon
  <2>7. CASE LoadEntry(c)
    <3>1. load'[c].ids \in Seq(Nat) /\ <<>> \in Seq(Nat)
      BY DEF TypeOK
    <3>2. UNCHANGED apiVars \/ Answer(c, TRUE, load'[c].ids) \/ Answer(c, FALSE, <<>>)
      BY <2>7, Zenon DEF LoadEntry
    <3>3. CASE UNCHANGED apiVars
      BY <2>1, <3>3
    <3>4. QED
      BY <2>2, <3>1, <3>2, <3>3, Zenon
  <2>8. QED
    BY <2>3, <2>4, <2>5, <2>6, <2>7 DEF Execute
<1>4. QED
  BY <1>1, <1>2, <1>3 DEF ApiTypeOK, PerCaller, Stages, Results

\* What a call has created, as sets the provers can take apart.
LEMMA CreatedAre ==
    ASSUME NEW c
    PROVE  \A kind, id :
              <<kind, id>> \in Created(c) <=>
                 \/ /\ call[c].op = "create" /\ kind = call[c].kind
                    /\ \E n \in DOMAIN result[c].ids : result[c].ids[n] = id
                 \/ /\ call[c].op = "load" /\ kind = "mock"
                    /\ \E n \in DOMAIN load[c].ids : load[c].ids[n] = id
BY DEF Created

LEMMA CreatedType ==
    ASSUME ApiInv, NEW c \in Callers
    PROVE  Created(c) \subseteq Kinds \X Nat
<1>1. result[c].ids \in Seq(Nat) /\ load[c].ids \in Seq(Nat)
  BY DEF ApiInv, ApiTypeOK, TypeOK
<1>2. call[c].op = "create" => call[c].kind \in Kinds
  BY DEF ApiInv, CallerInv, WellFormed
<1>3. "mock" \in Kinds
  BY DEF Kinds
<1>4. ASSUME NEW n \in DOMAIN result[c].ids PROVE result[c].ids[n] \in Nat
  BY <1>1
<1>5. ASSUME NEW n \in DOMAIN load[c].ids PROVE load[c].ids[n] \in Nat
  BY <1>1
<1> QED
  BY <1>2, <1>3, <1>4, <1>5 DEF Created

LEMMA ApiStepType ==
    ASSUME ApiInv, TypeOK', NEW c \in Callers, ApiStep(c)
    PROVE  (ApiTypeOK /\ PerCaller)'
<1> USE DEF GoTo, Abandon, resultVars
<1>1. ApiTypeOK /\ PerCaller /\ CallerInv(c)
  BY DEF ApiInv
<1>2. CASE Execute(c)
  BY <1>2, ExecuteType
<1>3. ASSUME NEW request, Invoke(c, request) PROVE (ApiTypeOK /\ PerCaller)'
  <2>1. /\ stage' \in [Callers -> Stages]
        /\ call' = [d \in Callers |-> call'[d]]
    BY <1>1, <1>3 DEF Invoke, ApiTypeOK, Stages, PerCaller
  <2>2. invocations' \in [Callers -> 0..MaxInvocations]
    BY <1>1, <1>3, ApiAssumption DEF Invoke, ApiTypeOK
  <2>3. UNCHANGED <<result, handles, abandoned, deleted>>
    BY <1>3 DEF Invoke
  <2>4. QED
    BY <1>1, <2>1, <2>2, <2>3 DEF ApiTypeOK, PerCaller, Stages
<1>4. CASE Arrive(c) \/ Break(c)
  <2>1. stage' \in [Callers -> Stages] /\ abandoned' \subseteq Kinds \X Nat
    BY <1>1, <1>4, CreatedType DEF Arrive, Break, ApiTypeOK, Stages
  <2>2. UNCHANGED <<call, result, invocations, handles, deleted>>
    BY <1>4 DEF Arrive, Break
  <2>3. QED
    BY <1>1, <2>1, <2>2 DEF ApiTypeOK, PerCaller, Stages
<1>5. CASE Return(c)
  <2>1. result[c].ok => NewHandles(c) \subseteq [kind: Kinds, id: Nat, asked: Requirements]
    BY <1>5, NewHandlesType DEF Return
  <2>2. deleted' \subseteq Kinds \X Nat
    BY <1>1, <1>5 DEF Return, ApiTypeOK, CallerInv, WellFormed
  <2>3. abandoned' \subseteq Kinds \X Nat
    BY <1>1, <1>5, CreatedType DEF Return, ApiTypeOK
  <2>4. QED
    BY <1>1, <1>5, <2>1, <2>2, <2>3, ZenonT(30) DEF Return, ApiTypeOK, PerCaller
<1>6. QED
  BY <1>2, <1>3, <1>4, <1>5 DEF ApiStep

LEMMA ApiInvInit == ApiInit => ApiInv
<1> SUFFICES ASSUME ApiInit PROVE ApiInv
  OBVIOUS
<1>1. TypeOK /\ IssuedIds
  BY InitType, IssuedIdsInit DEF ApiInit
<1>2. ApiTypeOK /\ PerCaller
  BY <1>1, ApiAssumption DEF ApiInit, ApiTypeOK, PerCaller
<1>3. ASSUME NEW c \in Callers PROVE CallerInv(c)
  BY DEF ApiInit, NoCall, CallerInv, WellFormed, PlaybackNamed, Playing, CreatedNamed,
     HandlesNamed
<1>4. QED
  BY <1>1, <1>2, <1>3 DEF ApiInv

LEMMA ApiInvNext == ApiInv /\ [ApiNext]_allVars => ApiInv'
<1> SUFFICES ASSUME ApiInv, [ApiNext]_allVars PROVE ApiInv'
  OBVIOUS
<1>1. [Next]_vars /\ ApiTypeOK /\ PerCaller /\ TypeOK /\ IssuedIds
  BY ApiNextIsManagerStep DEF ApiInv, ApiTypeOK
<1>2. TypeOK' /\ IssuedIds'
  BY <1>1, TypeNext, IssuedIdsNext
<1>3. CASE UNCHANGED allVars
  <2>1. ASSUME NEW d \in Callers PROVE CallerInv(d)'
    BY <1>1, <1>3, OtherCaller
       DEF ApiInv, SameCall, allVars, apiVars, resultVars, vars, callerVars
  <2>2. (ApiTypeOK /\ PerCaller)'
    BY <1>1, <1>2, <1>3 DEF ApiTypeOK, PerCaller, allVars, apiVars, resultVars
  <2>3. QED
    BY <1>2, <2>1, <2>2 DEF ApiInv
<1>4. ASSUME NEW c \in Callers, ApiStep(c) PROVE ApiInv'
  <2>1. (ApiTypeOK /\ PerCaller)'
    BY <1>2, <1>4, ApiStepType
  <2>2. ASSUME NEW d \in Callers PROVE CallerInv(d)'
    <3>1. CASE d # c
      BY <1>1, <1>4, <3>1, OthersKept, OtherCaller DEF ApiInv
    <3>2. CASE d = c
      BY <1>1, <1>4, <3>2, OwnInvoke, OwnTransport, OwnExecute, OwnReturn DEF ApiStep
    <3>3. QED
      BY <3>1, <3>2
  <2>3. QED
    BY <1>2, <2>1, <2>2 DEF ApiInv
<1>5. QED
  BY <1>3, <1>4, ApiSteps

LEMMA ApiInvAlways == ApiSpec => []ApiInv
BY ApiInvInit, ApiInvNext, PTL DEF ApiSpec

\* Every variable of the calls holds a value of its kind, for any set of local and
\* remote callers.
THEOREM ApiTypeCorrect == ApiSpec => []ApiTypeOK
BY ApiInvAlways, PTL DEF ApiInv

\* The adapters and the routes of the HTTP API change the server's state through
\* the Manager's methods only: the server that tests of several processes drive,
\* over connections that break, is a Manager.
THEOREM ApiImplementsManager == ApiSpec => Spec
<1>1. ApiInit => Init
  BY DEF ApiInit
<1>2. QED
  BY <1>1, ApiNextIsManagerStep, ApiInvAlways, PTL DEF ApiSpec, Spec

\* MockServer::reset over either adapter sweeps all that was registered before it,
\* whatever the other processes create meanwhile.
THEOREM ApiResetSweeps == ApiSpec => []ResetSweeps
BY ApiImplementsManager, ResetSweepsOlder, PTL

\* A Mock, rule or Recording object goes on naming what its owner asked for, in the
\* form that reached the server, whatever the other callers do and whichever
\* connections break.
THEOREM HandlesNameOwn == ApiSpec => []HandlesNameTheirThing
<1>1. ApiInv => HandlesNameTheirThing
  BY DEF ApiInv, CallerInv, HandlesNamed, Named, HandlesNameTheirThing
<1>2. QED
  BY <1>1, ApiInvAlways, PTL

-------------------------------------------------------------------------------
\* What leaves a table, and what enters it.

LEMMA CreateKeeps ==
    ASSUME IssuedIds, TypeOK, NEW kind \in Kinds, NEW rr, CreateIn(kind, rr),
           NEW other \in Kinds
    PROVE  /\ Registered(other) \subseteq Registered(other)'
           /\ other # kind => NextId(other)' = NextId(other)
<1> USE Counter, Table DEF Put
<1>1. CASE kind = "mock"
  <2>1. AddMock(rr)
    BY <1>1 DEF CreateIn
  <2>2. \A i \in DOMAIN mocks : i \in DOMAIN mocks' /\ mocks'[i] = mocks[i]
    BY <2>1 DEF AddMock, InsertMock, IssuedIds, TypeOK
  <2>3. QED
    BY <1>1, <2>1, <2>2 DEF AddMock, ruleVars, recordingVars, Kinds, NonStatic
<1>2. CASE kind = "forwarding"
  BY <1>2 DEF CreateIn, CreateForwardingRule, mockVars, recordingVars, Kinds, NonStatic
<1>3. CASE kind = "proxy"
  BY <1>3 DEF CreateIn, CreateProxyRule, mockVars, recordingVars, Kinds, NonStatic
<1>4. CASE kind = "recording"
  BY <1>4 DEF CreateIn, CreateRecording, mockVars, ruleVars, Kinds, NonStatic
<1>5. QED
  BY <1>1, <1>2, <1>3, <1>4 DEF Kinds

LEMMA DeleteRemoves ==
    ASSUME NEW kind \in Kinds, NEW id, DeleteFrom(kind, id), NEW other \in Kinds
    PROVE  /\ NextId(other)' = NextId(other)
           /\ Registered(other)' = IF other = kind THEN Registered(other) \ {id}
                                   ELSE Registered(other)
<1> USE Counter, Table DEF Without, Restrict
<1>1. CASE kind = "mock"
  BY <1>1 DEF DeleteFrom, DeleteMock, ruleVars, recordingVars, Kinds, NonStatic
<1>2. CASE kind = "forwarding"
  BY <1>2 DEF DeleteFrom, DeleteForwardingRule, mockVars, recordingVars, Kinds, NonStatic
<1>3. CASE kind = "proxy"
  BY <1>3 DEF DeleteFrom, DeleteProxyRule, mockVars, recordingVars, Kinds, NonStatic
<1>4. CASE kind = "recording"
  BY <1>4 DEF DeleteFrom, DeleteRecording, mockVars, ruleVars, Kinds, NonStatic
<1>5. QED
  BY <1>1, <1>2, <1>3, <1>4 DEF Kinds

LEMMA PlaybackKeeps ==
    ASSUME IssuedIds, TypeOK, NEW c \in Callers, LoadNext(c), NEW other \in Kinds
    PROVE  /\ Registered(other) \subseteq Registered(other)'
           /\ other # "mock" => NextId(other)' = NextId(other)
<1>1. \A i \in DOMAIN mocks : i \in DOMAIN mocks' /\ mocks'[i] = mocks[i]
  BY DEF LoadNext, InsertMock, Put, IssuedIds, TypeOK
<1>2. QED
  BY <1>1, Counter, Table DEF LoadNext, ruleVars, recordingVars, Kinds, NonStatic

LEMMA VarsKeep ==
    ASSUME UNCHANGED <<mockVars, ruleVars, recordingVars>>, NEW other \in Kinds
    PROVE  NextId(other)' = NextId(other) /\ Registered(other)' = Registered(other)
BY Counter, Table DEF mockVars, ruleVars, recordingVars, Kinds, NonStatic

LEMMA ResetKeepsIds ==
    ASSUME NEW c \in Callers, NEW other \in Kinds,
           \/ BeginReset(c) \/ ResetHistory(c) \/ ResetForwardingRules(c)
           \/ ResetProxyRules(c) \/ ResetRecordings(c)
    PROVE  NextId(other)' = NextId(other)
BY Counter DEF BeginReset, ResetHistory, ResetForwardingRules, ResetProxyRules,
   ResetRecordings, mockVars, ruleVars, recordingVars, Kinds

-------------------------------------------------------------------------------
\* Deletes.  The DELETE route of recordings leads to the proxy rules, so what
\* follows holds as long as no remote caller works with recordings.

RecordsLocally == \A c \in Remote : "recording" \notin Uses[c]

\* A delete looks for the thing in the table it is in.
RoutedRight(c) ==
    c \in Remote =>
        /\ call[c].op \in {"create", "delete"} => call[c].kind # "recording"
        /\ \A h \in handles[c] : h.kind # "recording"

Gone(kind, id) == id \in Nat /\ id < NextId(kind) /\ id \notin Registered(kind)

\* What a delete that reports success has found or made true.
DeleteReported(c) ==
    stage[c] = "replying" /\ call[c].op = "delete" /\ result[c].ok =>
        Gone(call[c].kind, call[c].id)

DeleteInv ==
    /\ \A c \in Callers : RoutedRight(c) /\ DeleteReported(c)
    /\ \A kind \in Kinds : \A id : <<kind, id>> \in deleted => Gone(kind, id)

LEMMA GoneKept ==
    ASSUME TypeOK, IssuedIds, [Next]_vars, NEW kind \in Kinds, NEW id, Gone(kind, id)
    PROVE  Gone(kind, id)'
BY KindStep DEF Gone

LEMMA TableForKind ==
    ASSUME NEW c \in Callers, RoutedRight(c), Executing(c, "delete")
    PROVE  TableFor(c, call[c].kind) = call[c].kind
BY DEF RoutedRight, Executing, TableFor, RoutedTo

LEMMA RoutedNext ==
    ASSUME RecordsLocally, ApiInv, NEW c \in Callers, RoutedRight(c), ApiStep(c)
    PROVE  RoutedRight(c)'
<1> USE DEF GoTo, Abandon, resultVars
<1>1. /\ call = [e \in Callers |-> call[e]] /\ handles = [e \in Callers |-> handles[e]]
      /\ ApiTypeOK /\ CallerInv(c)
  BY DEF ApiInv, PerCaller
<1>2. CASE call'[c] = call[c] /\ handles'[c] = handles[c]
  BY <1>2 DEF RoutedRight
<1>3. CASE Execute(c)
  BY <1>1, <1>2, <1>3, ExecuteFrame
<1>4. ASSUME NEW request \in Calls(c), Invoke(c, request) PROVE RoutedRight(c)'
  <2>1. handles'[c] = handles[c] /\ call'[c] \in {call[c], request}
    BY <1>1, <1>4 DEF Invoke
  <2>2. CASE c \notin Remote
    BY <2>2 DEF RoutedRight
  <2>3. CASE c \in Remote
    <3>1. "recording" \notin Uses[c] /\ \A h \in handles[c] : h.kind # "recording"
      BY <2>3 DEF RecordsLocally, RoutedRight
    <3>2. request.op \in {"create", "delete"} => request.kind # "recording"
      BY <3>1 DEF Calls, Create, Delete, Export, Load, ResetAll
    <3>3. QED
      BY <2>1, <3>2 DEF RoutedRight
  <2>4. QED
    BY <2>2, <2>3
<1>5. CASE Arrive(c) \/ Break(c)
  BY <1>2, <1>5 DEF Arrive, Break
<1>6. CASE Return(c)
  <2>1. call'[c] = call[c] /\ stage[c] = "replying"
    BY <1>6 DEF Return
  <2>2. c \in Remote /\ result[c].ok => \A h \in NewHandles(c) : h.kind # "recording"
    BY <1>1, <2>1 DEF NewHandles, RoutedRight, CallerInv, PlaybackNamed, Playing
  <2>3. \A h \in handles'[c] : h \in handles[c] \/ (result[c].ok /\ h \in NewHandles(c))
    BY <1>1, <1>6 DEF Return
  <2>4. QED
    BY <2>1, <2>2, <2>3 DEF RoutedRight
<1>7. QED
  BY <1>3, <1>4, <1>5, <1>6 DEF ApiStep

LEMMA DeleteReportedNext ==
    ASSUME ApiInv, [Next]_vars, NEW c \in Callers, RoutedRight(c), ApiStep(c)
    PROVE  DeleteReported(c)'
<1> USE DEF GoTo, Answer
<1>1. /\ stage = [e \in Callers |-> stage[e]] /\ result = [e \in Callers |-> result[e]]
      /\ ApiTypeOK /\ TypeOK /\ IssuedIds /\ CallerInv(c)
  BY DEF ApiInv, ApiTypeOK
<1>2. SUFFICES ASSUME stage'[c] = "replying", call'[c].op = "delete", result'[c].ok
               PROVE  Gone(call[c].kind, call[c].id)' /\ UNCHANGED call
  BY DEF DeleteReported, Gone
<1>3. CASE ExecuteDelete(c)
  <2> DEFINE kind == call[c].kind
             id == call[c].id
  <2>1. /\ kind \in Kinds /\ id \in Nat /\ id < NextId(kind) /\ UNCHANGED call
        /\ TableFor(c, kind) = kind
    BY <1>1, <1>3, TableForKind DEF ExecuteDelete, Executing, CallerInv, WellFormed
  <2>2. ASSUME NEW k \in Kinds, NEW i, i \in Nat, i < NextId(k), DeleteFrom(k, i)
        PROVE  Gone(k, i)'
    BY <2>2, DeleteRemoves DEF Gone
  <2>3. ASSUME NEW k \in Kinds, NEW i, i \in Nat, i < NextId(k), i \notin Registered(k)
        PROVE  Gone(k, i)'
    BY <1>1, <2>3, GoneKept DEF Gone
  <2>4. DeleteFrom(kind, id) \/ id \notin Registered(kind)
    BY <1>3, <2>1 DEF ExecuteDelete
  <2>5. QED
    BY <2>1, <2>2, <2>3, <2>4 DEF Gone
<1>4. CASE Execute(c) /\ ~ExecuteDelete(c)
  <2>1. UNCHANGED call
    BY <1>1, <1>4, ExecuteFrame
  <2>2. ~(stage[c] = "executing")
    BY <1>1, <1>2, <1>4, <2>1 DEF Execute, Executing, ExecuteCreate, ExecuteExport,
       BeginExecuteReset, Sweep, BeginExecuteLoad, LoadMisrouted, LoadEntry
  <2>3. QED
    BY <1>1, <1>2, <1>4, <2>1, <2>2
       DEF Execute, ExecuteCreate, ExecuteExport, BeginExecuteReset, Sweep,
           BeginExecuteLoad, LoadMisrouted, LoadEntry, Executing, CallerInv,
           PlaybackNamed, Playing
<1>5. CASE ~Execute(c)
  BY <1>1, <1>2, <1>5 DEF ApiStep, Invoke, Arrive, Break, Return
<1>6. QED
  BY <1>3, <1>4, <1>5 DEF Execute

LEMMA DeleteInvNext ==
    ASSUME RecordsLocally, ApiInv, DeleteInv, [ApiNext]_allVars
    PROVE  DeleteInv'
<1>1. [Next]_vars /\ ApiTypeOK /\ PerCaller /\ TypeOK /\ IssuedIds
  BY ApiNextIsManagerStep DEF ApiInv, ApiTypeOK
<1>2. ASSUME NEW kind \in Kinds, NEW id, Gone(kind, id) PROVE Gone(kind, id)'
  BY <1>1, <1>2, GoneKept
<1>3. ASSUME NEW d \in Callers, SameCall(d) PROVE RoutedRight(d)' /\ DeleteReported(d)'
  <2>1. RoutedRight(d)'
    BY <1>3 DEF DeleteInv, RoutedRight, SameCall
  <2>2. call[d].op = "delete" => call[d].kind \in Kinds
    BY DEF ApiInv, CallerInv, WellFormed
  <2>3. QED
    BY <1>2, <1>3, <2>1, <2>2 DEF DeleteInv, DeleteReported, SameCall, Gone
<1>4. CASE UNCHANGED allVars
  <2>1. \A d \in Callers : SameCall(d)
    BY <1>4 DEF SameCall, allVars, apiVars, resultVars, vars, callerVars
  <2>2. deleted' = deleted
    BY <1>4 DEF allVars, apiVars, resultVars
  <2>3. QED
    BY <1>2, <1>3, <2>1, <2>2 DEF DeleteInv
<1>5. ASSUME NEW c \in Callers, ApiStep(c) PROVE DeleteInv'
  <2>1. \A d \in Callers : RoutedRight(d)' /\ DeleteReported(d)'
    <3>1. RoutedRight(c)' /\ DeleteReported(c)'
      BY <1>1, <1>5, RoutedNext, DeleteReportedNext DEF DeleteInv
    <3>2. \A d \in Callers \ {c} : RoutedRight(d)' /\ DeleteReported(d)'
      BY <1>1, <1>3, <1>5, OthersKept
    <3>3. QED
      BY <3>1, <3>2
  <2>2. ASSUME NEW kind \in Kinds, NEW id, <<kind, id>> \in deleted' PROVE Gone(kind, id)
    <3>1. CASE <<kind, id>> \in deleted
      BY <3>1 DEF DeleteInv
    <3>2. CASE <<kind, id>> \notin deleted
      <4>1. Return(c)
        BY <1>1, <1>5, <2>2, <3>2, ExecuteFrame
           DEF ApiStep, Invoke, Arrive, Break, resultVars
      <4>2. /\ result[c].ok /\ call[c].op = "delete" /\ stage[c] = "replying"
            /\ kind = call[c].kind /\ id = call[c].id
        BY <2>2, <3>2, <4>1 DEF Return
      <4>3. QED
        BY <4>2 DEF DeleteInv, DeleteReported
    <3>3. QED
      BY <3>1, <3>2
  <2>3. QED
    BY <1>2, <2>1, <2>2 DEF DeleteInv
<1>6. QED
  BY <1>4, <1>5, ApiSteps

\* A delete that reported success has removed the thing for good, as long as the
\* callers that work with recordings are in the server's process.
THEOREM DeletesAreFinal ==
    ASSUME RecordsLocally
    PROVE  ApiSpec => []DeletedIsGone
<1>1. ApiInit => DeleteInv
  BY DEF ApiInit, NoCall, DeleteInv, RoutedRight, DeleteReported
<1>2. ApiInv /\ DeleteInv /\ [ApiNext]_allVars => DeleteInv'
  BY DeleteInvNext
<1>3. DeleteInv => DeletedIsGone
  BY DEF DeleteInv, Gone, DeletedIsGone
<1>4. QED
  BY <1>1, <1>2, <1>3, ApiInvAlways, PTL DEF ApiSpec

\* The step in which a thing leaves its table.
LEMMA RemovalIsOwn ==
    ASSUME ApiInv, NEW c \in Callers, RoutedRight(c), ApiStep(c),
           NEW kind \in Kinds, NEW id \in Registered(kind), id \notin Registered(kind)'
    PROVE  \/ Executing(c, "delete") /\ call[c].kind = kind /\ call[c].id = id
           \/ Executing(c, "reset") \/ stage[c] = "sweeping"
<1>1. TypeOK /\ IssuedIds /\ CallerInv(c)
  BY DEF ApiInv, ApiTypeOK
<1>2. ~UNCHANGED <<mockVars, ruleVars, recordingVars>>
  BY VarsKeep
<1>3. ~UNCHANGED vars
  BY <1>2 DEF vars
<1>4. Execute(c)
  BY <1>3 DEF ApiStep, Invoke, Arrive, Break, Return
<1>5. CASE ExecuteCreate(c)
  <2>1. call[c].kind \in Kinds
    BY <1>1, <1>5 DEF ExecuteCreate, Executing, CallerInv, WellFormed
  <2>2. QED
    BY <1>1, <1>3, <1>5, <2>1, CreateKeeps DEF ExecuteCreate
<1>6. CASE ExecuteDelete(c)
  <2>1. call[c].kind \in Kinds /\ TableFor(c, call[c].kind) = call[c].kind
    BY <1>1, <1>6, TableForKind DEF ExecuteDelete, Executing, CallerInv, WellFormed
  <2>2. Executing(c, "delete") /\ DeleteFrom(call[c].kind, call[c].id)
    BY <1>3, <1>6, <2>1 DEF ExecuteDelete
  <2>3. QED
    BY <2>1, <2>2, DeleteRemoves
<1>7. CASE ExecuteExport(c) \/ LoadMisrouted(c)
  BY <1>3, <1>7 DEF ExecuteExport, LoadMisrouted
<1>8. CASE BeginExecuteReset(c) \/ Sweep(c)
  BY <1>1, <1>8 DEF BeginExecuteReset, Sweep, Executing, CallerInv
<1>9. CASE BeginExecuteLoad(c)
  BY <1>2, <1>9 DEF BeginExecuteLoad, BeginLoad
<1>10. CASE LoadEntry(c)
  BY <1>1, <1>2, <1>10, PlaybackKeeps DEF LoadEntry, LoadFails
<1>11. QED
  BY <1>4, <1>5, <1>6, <1>7, <1>8, <1>9, <1>10 DEF Execute

\* Nothing disappears from the server but by its own delete call or by a reset,
\* as long as the callers that work with recordings are in the server's process.
THEOREM DeletesAreOwn ==
    ASSUME RecordsLocally
    PROVE  ApiSpec => OnlyOwnDeletes
<1>1. ApiInit => DeleteInv
  BY DEF ApiInit, NoCall, DeleteInv, RoutedRight, DeleteReported
<1>2. ApiInv /\ DeleteInv /\ [ApiNext]_allVars => DeleteInv'
  BY DeleteInvNext
<1>3. ASSUME ApiInv, DeleteInv, [ApiNext]_allVars,
             NEW kind \in Kinds, NEW id \in Registered(kind), id \notin Registered(kind)'
      PROVE  \E c \in Callers :
                \/ Executing(c, "delete") /\ call[c].kind = kind /\ call[c].id = id
                \/ Executing(c, "reset") \/ stage[c] = "sweeping"
  <2>1. ~UNCHANGED allVars
    BY <1>3, VarsKeep DEF allVars, vars
  <2>2. PICK c \in Callers : ApiStep(c)
    BY <1>3, <2>1, ApiSteps
  <2>3. QED
    BY <1>3, <2>2, RemovalIsOwn DEF DeleteInv
<1>4. ApiInv /\ DeleteInv /\ [ApiNext]_allVars =>
         [\A kind \in Kinds : \A id \in Registered(kind) :
             \/ id \in Registered(kind)'
             \/ \E c \in Callers :
                   \/ Executing(c, "delete") /\ call[c].kind = kind /\ call[c].id = id
                   \/ Executing(c, "reset") \/ stage[c] = "sweeping"]_allVars
  BY <1>3
<1>5. QED
  BY <1>1, <1>2, <1>4, ApiInvAlways, PTL DEF ApiSpec, OnlyOwnDeletes

-------------------------------------------------------------------------------
\* Nothing is forgotten.  A new entry is announced by the answer or the playback
\* of the caller that made it, and the handle takes over when the call returns.

KnownBy(c, kind, id) ==
    \/ \E h \in handles[c] : h.kind = kind /\ h.id = id
    \/ /\ stage[c] = "replying" /\ call[c].op = "create" /\ call[c].kind = kind
       /\ result[c].ids = <<id>>
    \/ /\ kind = "mock" /\ call[c].op = "load" /\ stage[c] \in {"loading", "replying"}
       /\ \E n \in DOMAIN load[c].ids : load[c].ids[n] = id

\* The caller goes on knowing it, unless its call fails.
LEMMA StaysKnown ==
    ASSUME ApiInv, NEW c \in Callers, ApiStep(c), NEW kind, NEW id, KnownBy(c, kind, id)
    PROVE  KnownBy(c, kind, id)' \/ <<kind, id>> \in abandoned'
<1> USE DEF GoTo, Abandon, resultVars
<1>1. /\ stage = [e \in Callers |-> stage[e]] /\ result = [e \in Callers |-> result[e]]
      /\ handles = [e \in Callers |-> handles[e]]
      /\ load \in [Callers -> [file: Files \cup {<<>>}, ids: Seq(Nat)]]
      /\ ApiTypeOK /\ CallerInv(c)
  BY DEF ApiInv, ApiTypeOK, PerCaller, TypeOK
<1>2. CASE \E h \in handles[c] : h.kind = kind /\ h.id = id
  <2>1. handles[c] \subseteq handles'[c]
    BY <1>1, ExecuteFrame DEF ApiStep, Invoke, Arrive, Break, Return
  <2>2. QED
    BY <1>2, <2>1 DEF KnownBy
<1>3. CASE stage[c] = "replying"
  <2>1. Break(c) \/ Return(c)
    BY <1>1, <1>3 DEF ApiStep, Invoke, Arrive, Execute, Executing, ExecuteCreate,
       ExecuteDelete, ExecuteExport, BeginExecuteReset, Sweep, BeginExecuteLoad,
       LoadMisrouted, LoadEntry
  <2>2. CASE Break(c) \/ ~result[c].ok
    <3>1. abandoned' = abandoned \cup Created(c)
      BY <1>3, <2>1, <2>2 DEF Break, Return
    <3>2. CASE call[c].op = "create" /\ call[c].kind = kind /\ result[c].ids = <<id>>
      <4>1. 1 \in DOMAIN result[c].ids /\ result[c].ids[1] = id
        BY <3>2
      <4> QED
        BY <3>1, <3>2, <4>1, CreatedAre
    <3>3. CASE kind = "mock" /\ call[c].op = "load" /\
               \E n \in DOMAIN load[c].ids : load[c].ids[n] = id
      BY <3>1, <3>3, CreatedAre
    <3> QED
      BY <1>2, <3>2, <3>3 DEF KnownBy
  <2>3. CASE Return(c) /\ result[c].ok
    <3>1. NewHandles(c) \subseteq handles'[c]
      BY <1>1, <2>3 DEF Return
    <3>2. CASE call[c].op = "create" /\ call[c].kind = kind /\ result[c].ids = <<id>>
      BY <3>1, <3>2 DEF NewHandles, KnownBy
    <3>3. CASE kind = "mock" /\ call[c].op = "load" /\
               \E n \in DOMAIN load[c].ids : load[c].ids[n] = id
      <4>1. PICK n \in DOMAIN load[c].ids : load[c].ids[n] = id
        BY <3>3
      <4>2. result[c].ids = load[c].ids
        BY <1>1, <1>3, <2>3, <3>3 DEF CallerInv, PlaybackNamed, Playing
      <4>3. [kind |-> "mock", id |-> id, asked |-> call[c].file[n]] \in NewHandles(c)
        BY <3>3, <4>1, <4>2 DEF NewHandles
      <4>4. QED
        BY <3>1, <3>3, <4>3 DEF KnownBy
    <3>4. QED
      BY <1>2, <3>2, <3>3 DEF KnownBy
  <2>4. QED
    BY <2>1, <2>2, <2>3
<1>4. CASE stage[c] = "loading" /\ kind = "mock" /\ call[c].op = "load" /\
           \E n \in DOMAIN load[c].ids : load[c].ids[n] = id
  <2>1. LoadEntry(c) /\ Execute(c)
    BY <1>1, <1>4 DEF ApiStep, Invoke, Arrive, Break, Return, Execute, Executing,
       ExecuteCreate, ExecuteDelete, ExecuteExport, BeginExecuteReset, Sweep,
       BeginExecuteLoad, LoadMisrouted
  <2>2. stage'[c] \in {"loading", "replying"} /\ UNCHANGED call
    BY <1>1, <1>4, <2>1, ExecuteFrame DEF LoadEntry, Answer, apiVars
  <2>3. \E n \in DOMAIN load'[c].ids : load'[c].ids[n] = id
    <3>1. load'[c].ids = load[c].ids \/ load'[c].ids = Append(load[c].ids, nextMockId)
      BY <1>1, <2>1 DEF LoadEntry, LoadNext, LoadFails
    <3>2. load[c].ids \in Seq(Nat) /\ nextMockId \in Nat
      BY <1>1 DEF ApiTypeOK, TypeOK
    <3>3. PICK n \in DOMAIN load[c].ids : load[c].ids[n] = id
      BY <1>4
    <3>4. ASSUME NEW s \in Seq(Nat), NEW x \in Nat, NEW m \in DOMAIN s
          PROVE  m \in DOMAIN Append(s, x) /\ Append(s, x)[m] = s[m]
      OBVIOUS
    <3>5. n \in DOMAIN load'[c].ids /\ load'[c].ids[n] = id
      BY <3>1, <3>2, <3>3, <3>4
    <3>6. QED
      BY <3>5
  <2>4. QED
    BY <1>4, <2>2, <2>3 DEF KnownBy
<1>5. QED
  BY <1>2, <1>3, <1>4 DEF KnownBy

\* A new entry is known to the caller that made it.
LEMMA NewIsKnown ==
    ASSUME ApiInv, NEW c \in Callers, ApiStep(c), NEW kind \in Kinds, NEW id,
           id = NextId(kind), NextId(kind)' # NextId(kind)
    PROVE  KnownBy(c, kind, id)'
<1> USE DEF GoTo, Answer
<1>1. /\ stage = [e \in Callers |-> stage[e]] /\ result = [e \in Callers |-> result[e]]
      /\ load \in [Callers -> [file: Files \cup {<<>>}, ids: Seq(Nat)]]
      /\ ApiTypeOK /\ TypeOK /\ IssuedIds /\ CallerInv(c)
  BY DEF ApiInv, ApiTypeOK, TypeOK
<1>2. ~UNCHANGED <<mockVars, ruleVars, recordingVars>>
  BY VarsKeep
<1>3. Execute(c) /\ UNCHANGED call /\ ~UNCHANGED vars
  BY <1>1, <1>2, ExecuteFrame DEF ApiStep, Invoke, Arrive, Break, Return, vars
<1>4. CASE ExecuteCreate(c)
  <2>1. call[c].kind \in Kinds
    BY <1>1, <1>4 DEF ExecuteCreate, Executing, CallerInv, WellFormed
  <2>2. /\ call[c].op = "create" /\ CreateIn(call[c].kind, Received(c, call[c].rr))
        /\ Answer(c, TRUE, <<NextId(call[c].kind)>>)
    BY <1>3, <1>4 DEF ExecuteCreate, Executing
  <2>3. call[c].kind = kind
    BY <1>1, <2>1, <2>2, CreateKeeps
  <2>4. stage'[c] = "replying" /\ result'[c].ids = <<id>>
    BY <1>1, <2>2, <2>3
  <2>5. QED
    BY <1>3, <2>2, <2>3, <2>4 DEF KnownBy
<1>5. CASE ExecuteDelete(c)
  <2>1. TableFor(c, call[c].kind) \in Kinds
    BY <1>1, <1>5 DEF ExecuteDelete, Executing, CallerInv, WellFormed, TableFor, RoutedTo, Kinds
  <2>2. QED
    BY <1>3, <1>5, <2>1, DeleteRemoves DEF ExecuteDelete
<1>6. CASE ExecuteExport(c) \/ LoadMisrouted(c)
  BY <1>3, <1>6 DEF ExecuteExport, LoadMisrouted
<1>7. CASE BeginExecuteReset(c) \/ Sweep(c)
  BY <1>7, ResetKeepsIds DEF BeginExecuteReset, Sweep
<1>8. CASE BeginExecuteLoad(c)
  BY <1>2, <1>8 DEF BeginExecuteLoad, BeginLoad
<1>9. CASE LoadEntry(c)
  <2>1. LoadNext(c)
    BY <1>2, <1>9 DEF LoadEntry, LoadFails
  <2>2. kind = "mock" /\ id = nextMockId
    BY <1>1, <2>1, PlaybackKeeps, Counter
  <2>3. call[c].op = "load" /\ stage[c] = "loading"
    BY <1>1, <1>9 DEF LoadEntry, CallerInv, PlaybackNamed, Playing
  <2>4. stage'[c] \in {"loading", "replying"}
    BY <1>1, <1>9, <2>3 DEF LoadEntry, apiVars
  <2>5. /\ load'[c].ids = Append(load[c].ids, id)
        /\ load[c].ids \in Seq(Nat) /\ id \in Nat
    BY <1>1, <2>1, <2>2 DEF LoadNext, TypeOK
  <2>6. /\ Len(load[c].ids) + 1 \in DOMAIN load'[c].ids
        /\ load'[c].ids[Len(load[c].ids) + 1] = id
    BY <2>5
  <2>7. QED
    BY <1>3, <2>2, <2>3, <2>4, <2>6 DEF KnownBy
<1>10. QED
  BY <1>3, <1>4, <1>5, <1>6, <1>7, <1>8, <1>9 DEF Execute

\* What is on the server and no test knows of was created by calls that failed, whatever
\* the callers create, play back, delete and reset in whichever order, and whichever of
\* their calls fail (the adapters in src/src/api/adapter, Manager::load_mocks_from_recording).
THEOREM NothingForgotten == ApiSpec => []OnlyFailuresOrphan
<1>1. OnlyFailuresOrphan <=>
         \A kind \in Kinds : \A id \in Registered(kind) :
            <<kind, id>> \in abandoned \/ \E c \in Callers : KnownBy(c, kind, id)
  BY DEF OnlyFailuresOrphan, KnownBy
<1>2. ApiInit => OnlyFailuresOrphan
  <2>1. Init => \A kind \in Kinds : Registered(kind) = {}
    <3> SUFFICES ASSUME Init PROVE \A kind \in Kinds : Registered(kind) = {}
      OBVIOUS
    <3>1. NonStatic = {} /\ DOMAIN forwardingRules = {} /\ DOMAIN proxyRules = {}
          /\ DOMAIN recordings = {}
      BY DEF Init, NonStatic
    <3>2. QED
      BY <3>1, Table DEF Kinds
  <2>2. QED
    BY <1>1, <2>1 DEF ApiInit
<1>3. ApiInv /\ OnlyFailuresOrphan /\ [ApiNext]_allVars => OnlyFailuresOrphan'
  <2> SUFFICES ASSUME ApiInv, OnlyFailuresOrphan, [ApiNext]_allVars,
                      NEW kind \in Kinds, NEW id \in Registered(kind)'
               PROVE  (<<kind, id>> \in abandoned \/ \E c \in Callers : KnownBy(c, kind, id))'
    BY DEF OnlyFailuresOrphan, KnownBy
  <2>1. [Next]_vars /\ ApiTypeOK /\ PerCaller /\ TypeOK /\ IssuedIds
    BY ApiNextIsManagerStep DEF ApiInv, ApiTypeOK
  <2>2. CASE UNCHANGED allVars
    <3>1. id \in Registered(kind) /\ abandoned' = abandoned
      BY <2>2, VarsKeep DEF allVars, vars, apiVars, resultVars
    <3>2. CASE <<kind, id>> \in abandoned
      BY <3>1, <3>2
    <3>3. CASE \E c \in Callers : KnownBy(c, kind, id)
      BY <2>2, <3>3 DEF KnownBy, allVars, apiVars, resultVars, vars, callerVars
    <3> QED
      BY <1>1, <3>1, <3>2, <3>3
  <2>3. ASSUME NEW c \in Callers, ApiStep(c)
        PROVE  (<<kind, id>> \in abandoned \/ \E d \in Callers : KnownBy(d, kind, id))'
    <3>1. abandoned \subseteq abandoned'
      BY <2>1, <2>3, ExecuteFrame
         DEF ApiStep, Invoke, Arrive, Break, Return, Abandon, resultVars
    <3>2. CASE id \in Registered(kind) /\ <<kind, id>> \notin abandoned
      <4>1. PICK d \in Callers : KnownBy(d, kind, id)
        BY <1>1, <3>2
      <4>2. CASE d = c
        BY <2>3, <4>1, <4>2, StaysKnown
      <4>3. CASE d # c
        BY <2>1, <2>3, <4>1, <4>3, OthersKept DEF SameCall, KnownBy
      <4>4. QED
        BY <4>2, <4>3
    <3>3. CASE id \notin Registered(kind)
      <4>1. id = NextId(kind) /\ NextId(kind)' # NextId(kind)
        BY <2>1, <3>3, KindStep
      <4>2. QED
        BY <2>3, <4>1, NewIsKnown
    <3>4. QED
      BY <3>1, <3>2, <3>3
  <2>4. QED
    BY <2>2, <2>3, ApiSteps
<1>4. QED
  BY <1>2, <1>3, ApiInvAlways, PTL DEF ApiSpec

-------------------------------------------------------------------------------
\* Assertions: testers that count calls and ask verify, in module Assertions.

\* What verify shows of list: a request that does not match, none nearer and none as
\* near received before.
IsNearest(requests, list, rr) ==
    \E n \in DOMAIN list :
        /\ requests = {list[n]} /\ list[n] \notin Matches[rr]
        /\ \A m \in DOMAIN list :
              list[m] \notin Matches[rr] =>
                  \/ Distance[rr][list[n]] < Distance[rr][list[m]]
                  \/ Distance[rr][list[n]] = Distance[rr][list[m]] /\ n <= m

AllMatch(list, rr) == \A n \in DOMAIN list : list[n] \in Matches[rr]

LEMMA ClosestIsNearest ==
    ASSUME history \in Seq(Requests), NEW rr \in Requirements
    PROVE  \/ Closest(rr) = {} /\ AllMatch(history, rr)
           \/ Closest(rr) # {} /\ IsNearest(Closest(rr), history, rr)
<1> DEFINE list == NonMatching(rr)
           far(k) == Distance[rr][list[k]]
           best == {k \in 1..Len(list) : \A j \in 1..Len(list) : far(k) <= far(j)}
<1>1. /\ Len(history) \in Nat /\ DOMAIN history = 1..Len(history)
      /\ \A n \in 1..Len(history) : history[n] \in Requests
  OBVIOUS
<1>2. /\ list \in Seq(Requests \ Matches[rr])
      /\ \E pos : Positions(history, Requests \ Matches[rr], list, Len(list), Len(history), pos)
  BY <1>1, SelectedEnumerates DEF NonMatching, Enumerates
<1>3. PICK pos : Positions(history, Requests \ Matches[rr], list, Len(list), Len(history), pos)
  BY <1>2
<1> HIDE DEF list
<1>4. Len(list) \in Nat /\ DOMAIN list = 1..Len(list)
  BY <1>2
<1>5. ASSUME NEW k \in 1..Len(list)
      PROVE  list[k] \in Requests /\ list[k] \notin Matches[rr] /\ far(k) \in Nat
  <2>1. list[k] \in Requests \ Matches[rr]
    BY <1>2, <1>4
  <2> QED
    BY <2>1, AssertionAssumption
<1>6. Closest(rr) = {list[k] : k \in {m \in best : \A j \in best : m <= j}}
  BY <1>4 DEF Closest, BestMatches, list
<1> HIDE DEF far
<1>7. CASE Len(list) = 0
  <2>1. best = {}
    BY <1>7
  <2>2. ASSUME NEW n \in 1..Len(history) PROVE history[n] \in Matches[rr]
    <3> SUFFICES ASSUME history[n] \notin Matches[rr] PROVE FALSE
      OBVIOUS
    <3>1. PICK j \in 1..Len(list) : pos[j] = n
      BY <1>1, <1>3 DEF Positions
    <3> QED
      BY <1>7, <3>1
  <2>3. AllMatch(history, rr)
    BY <1>1, <2>2 DEF AllMatch
  <2> QED
    BY <1>6, <2>1, <2>3
<1>8. CASE Len(list) # 0
  <2> DEFINE distances == {far(k) : k \in 1..Len(list)}
  <2>1. distances \in SUBSET Nat /\ distances # {}
    <3>1. 1 \in 1..Len(list)
      BY <1>4, <1>8
    <3> QED
      BY <1>5, <3>1
  <2>2. PICK least \in distances : \A d \in distances : least <= d
    <3> HIDE DEF distances
    <3> QED
      BY <2>1, LeastExists
  <2>3. best \in SUBSET Nat /\ best # {}
    <3>1. PICK k \in 1..Len(list) : far(k) = least
      BY <2>2
    <3> QED
      BY <2>2, <3>1, <1>4
  <2>4. PICK first \in best : \A j \in best : first <= j
    <3> HIDE DEF best
    <3> QED
      BY <2>3, LeastExists
  <2>5. {m \in best : \A j \in best : m <= j} = {first}
    <3> HIDE DEF best
    <3>1. ASSUME NEW m \in best, \A j \in best : m <= j PROVE m = first
      <4>1. m \in Nat /\ first \in Nat /\ m <= first /\ first <= m
        BY <2>3, <2>4, <3>1
      <4> QED
        BY <4>1
    <3> QED
      BY <2>4, <3>1
  <2>6. Closest(rr) = {list[first]}
    <3> HIDE DEF best
    <3> QED
      BY <1>6, <2>5
  <2>7. first \in 1..Len(list) /\ \A j \in 1..Len(list) : far(first) <= far(j)
    OBVIOUS
  <2>8. /\ pos[first] \in 1..Len(history) /\ list[first] = history[pos[first]]
        /\ far(first) = Distance[rr][history[pos[first]]]
    BY <1>3, <2>7 DEF Positions, far
  <2>9. ASSUME NEW m \in 1..Len(history), history[m] \notin Matches[rr]
        PROVE  \/ Distance[rr][history[pos[first]]] < Distance[rr][history[m]]
               \/ /\ Distance[rr][history[pos[first]]] = Distance[rr][history[m]]
                  /\ pos[first] <= m
    <3>1. PICK j \in 1..Len(list) : pos[j] = m
      BY <1>1, <1>3, <2>9 DEF Positions
    <3>2. far(j) = Distance[rr][history[m]]
      BY <1>3, <3>1 DEF Positions, far
    <3>3. far(first) <= far(j) /\ far(first) \in Nat /\ far(j) \in Nat
      BY <1>5, <2>7
    <3>4. CASE far(first) = far(j)
      <4>1. j \in best
        BY <2>7, <3>4
      <4>2. first <= j
        BY <2>4, <4>1
      <4>3. pos[first] <= pos[j]
        <5>1. pos[first] \in Nat
          BY <2>8, <1>1
        <5>2. CASE first = j
          BY <5>1, <5>2
        <5>3. CASE first < j
          <6>1. pos[first] < pos[j] /\ pos[j] \in Nat
            BY <1>1, <1>3, <2>7, <5>3, SMTT(30) DEF Positions
          <6> QED
            BY <5>1, <6>1
        <5> QED
          BY <1>4, <2>7, <4>2, <5>2, <5>3
      <4> QED
        BY <2>8, <3>1, <3>2, <3>4, <4>3
    <3> QED
      BY <2>8, <3>2, <3>3, <3>4
  <2> QED
    BY <1>1, <1>5, <2>6, <2>7, <2>8, <2>9 DEF IsNearest
<1> QED
  BY <1>4, <1>7, <1>8

\* What a tester is verifying, or has verified, is a requirement of a mock.
AssertInv ==
    /\ asked = [t \in Testers |-> asked[t]] /\ verdict = [t \in Testers |-> verdict[t]]
    /\ shown = [t \in Testers |-> shown[t]] /\ seen = [t \in Testers |-> seen[t]]
    /\ \A t \in Testers : verdict[t] \in {"verifying", "too few"} => asked[t] \in Requirements
    /\ ShownIsNearest

Nearest(t) ==
    /\ verdict[t] = "too few" => IsNearest(shown[t], seen[t], asked[t])
    /\ verdict[t] = "no request" => AllMatch(seen[t], asked[t])

LEMMA EachIsNearest == ShownIsNearest <=> \A t \in Testers : Nearest(t)
BY DEF ShownIsNearest, Nearest, IsNearest, AllMatch

LEMMA AssertCallsKeeps ==
    ASSUME AssertInv, TypeOK, NEW t \in Testers, NEW id, NEW hits, AssertCalls(t, id, hits)
    PROVE  AssertInv'
<1>1. /\ verdict'[t] \in {"no mock", "passed", "too many", "verifying"}
      /\ verdict' = [verdict EXCEPT ![t] = verdict'[t]]
      /\ asked' = [asked EXCEPT ![t] = asked'[t]]
      /\ verdict'[t] = "verifying" => asked'[t] \in Requirements
      /\ shown' = [shown EXCEPT ![t] = {}] /\ seen' = seen
  BY DEF AssertInv, TypeOK, Mock, AssertCalls, Conclude
<1>2. \A u \in Testers : u # t =>
         /\ asked'[u] = asked[u] /\ verdict'[u] = verdict[u]
         /\ shown'[u] = shown[u] /\ seen'[u] = seen[u]
  BY <1>1 DEF AssertInv
<1>3. verdict'[t] \notin {"too few", "no request"}
  BY <1>1
<1>4. ASSUME NEW u \in Testers PROVE Nearest(u)'
  BY <1>2, <1>3, EachIsNearest DEF AssertInv, Nearest
<1>5. ShownIsNearest'
  BY <1>4, EachIsNearest DEF ShownIsNearest, Nearest, IsNearest, AllMatch
<1> QED
  BY <1>1, <1>2, <1>5 DEF AssertInv

LEMMA VerifyKeeps ==
    ASSUME AssertInv, TypeOK, NEW t \in Testers, Verify(t)
    PROVE  AssertInv'
<1>1. /\ verdict' = [verdict EXCEPT ![t] = IF Closest(asked[t]) = {} THEN "no request"
                                           ELSE "too few"]
      /\ shown' = [shown EXCEPT ![t] = Closest(asked[t])]
      /\ seen' = [seen EXCEPT ![t] = history] /\ asked' = asked
      /\ asked[t] \in Requirements
  BY DEF AssertInv, Verify, Conclude
<1>2. \A u \in Testers : u # t =>
         verdict'[u] = verdict[u] /\ shown'[u] = shown[u] /\ seen'[u] = seen[u]
  BY <1>1 DEF AssertInv
<1>3. /\ verdict'[t] = IF Closest(asked[t]) = {} THEN "no request" ELSE "too few"
      /\ shown'[t] = Closest(asked[t]) /\ seen'[t] = history
  BY <1>1 DEF AssertInv
<1>4. Nearest(t)'
  <2>1. history \in Seq(Requests)
    BY DEF TypeOK
  <2>2. \/ Closest(asked[t]) = {} /\ AllMatch(history, asked[t])
        \/ Closest(asked[t]) # {} /\ IsNearest(Closest(asked[t]), history, asked[t])
    BY <1>1, <2>1, ClosestIsNearest
  <2>3. asked'[t] = asked[t]
    BY <1>1
  <2>4. verdict'[t] = "too few" => IsNearest(shown'[t], seen'[t], asked'[t])
    <3>1. CASE Closest(asked[t]) = {}
      BY <1>3, <3>1
    <3>2. CASE IsNearest(Closest(asked[t]), history, asked[t])
      BY <1>3, <2>3, <3>2, Zenon
    <3> QED
      BY <2>2, <3>1, <3>2
  <2>5. verdict'[t] = "no request" => AllMatch(seen'[t], asked'[t])
    <3>1. CASE Closest(asked[t]) # {}
      BY <1>3, <3>1
    <3>2. CASE AllMatch(history, asked[t])
      BY <1>3, <2>3, <3>2, Zenon
    <3> QED
      BY <2>2, <3>1, <3>2
  <2> QED
    BY <2>4, <2>5 DEF Nearest
<1>5. ASSUME NEW u \in Testers, u # t PROVE Nearest(u)'
  BY <1>1, <1>2, <1>5, EachIsNearest DEF AssertInv, Nearest
<1>6. \A u \in Testers : Nearest(u)'
  BY <1>4, <1>5, Zenon
<1>7. ShownIsNearest'
  BY <1>6, Zenon DEF ShownIsNearest, Nearest, IsNearest, AllMatch
<1> QED
  BY <1>1, <1>2, <1>7 DEF AssertInv

\* An assertion (assert_calls in src/src/api/mock.rs, Manager::verify) only reads: every
\* behaviour of testers and servers is one of the Manager.
THEOREM AssertionsImplementManager == AssertSpec => Spec
<1>1. AssertInit => Init
  BY DEF AssertInit
<1>2. [AssertNext]_<<vars, assertVars>> => [Next]_vars
  BY DEF AssertNext, AssertCalls, Verify, Background, Next
<1> QED
  BY <1>1, <1>2, PTL DEF AssertSpec, Spec

\* The request that Manager::verify picks (src/src/server/state.rs) and fail_with shows is
\* one that the mock did not accept, and the nearest of those, whatever the distances;
\* it reports none only if there is none.
THEOREM ShownRequestIsNearest == AssertSpec => []ShownIsNearest
<1>1. AssertInit => AssertInv
  BY DEF AssertInit, AssertInv, ShownIsNearest
<1>2. AssertInv /\ TypeOK /\ [AssertNext]_<<vars, assertVars>> => AssertInv'
  <2> SUFFICES ASSUME AssertInv, TypeOK, [AssertNext]_<<vars, assertVars>> PROVE AssertInv'
    OBVIOUS
  <2>1. CASE UNCHANGED assertVars
    <3>1. ASSUME NEW t \in Testers PROVE Nearest(t)'
      BY <2>1, EachIsNearest DEF assertVars, AssertInv, Nearest
    <3>2. ShownIsNearest'
      BY <3>1, Zenon DEF ShownIsNearest, Nearest, IsNearest, AllMatch
    <3> QED
      BY <2>1, <3>2 DEF assertVars, AssertInv
  <2> QED
    BY <2>1, AssertCallsKeeps, VerifyKeeps DEF AssertNext, Background
<1>3. AssertInv => ShownIsNearest
  BY DEF AssertInv
<1>4. AssertSpec => []TypeOK
  BY AssertionsImplementManager, TypeCorrect
<1> QED
  BY <1>1, <1>2, <1>3, <1>4, PTL DEF AssertSpec
===============================================================================
