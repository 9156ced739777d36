-------------------------- MODULE StateManagerProofs --------------------------
(***************************************************************************)
(* What the Manager guarantees for every set of requests, requirements and *)
(* callers, every history limit and every number of mocks and rules.       *)
(*                                                                         *)
(* The proofs go through the effect a step has on one table: it leaves it  *)
(* alone, adds one entry under the counter, removes some entries, or       *)
(* updates entries in place.  The lemmas on effects say which step has     *)
(* which effect; the invariants then need one case per effect.             *)
(***************************************************************************)
EXTENDS StateManager, TLAPS

-------------------------------------------------------------------------------
\* Typing.

LEMMA PutType ==
    ASSUME NEW T, NEW table, table \in [DOMAIN table -> T], NEW id, NEW v \in T
    PROVE  Put(table, id, v) \in [DOMAIN Put(table, id, v) -> T]
BY DEF Put

LEMMA WithoutType ==
    ASSUME NEW T, NEW table, table \in [DOMAIN table -> T], NEW ids
    PROVE  Without(table, ids) \in [DOMAIN Without(table, ids) -> T]
BY DEF Without, Restrict

LEMMA EmptyType ==
    ASSUME NEW T
    PROVE  <<>> \in [DOMAIN <<>> -> T]
OBVIOUS

LEMMA InitType == Init => TypeOK
<1> SUFFICES ASSUME Init PROVE TypeOK
  OBVIOUS
<1> USE DataAssumption
<1>1. mocks \in [DOMAIN mocks -> Mock] /\ nextMockId \in Nat
  BY DEF Init, Mock
<1>2. /\ forwardingRules \in [DOMAIN forwardingRules -> Rule]
      /\ proxyRules \in [DOMAIN proxyRules -> Rule]
      /\ recordings \in [DOMAIN recordings -> Recording]
  BY EmptyType DEF Init
<1>3. phase \in [Callers -> Phases] /\ cut \in [Callers -> Counters]
  BY DEF Init, Phases, Counters
<1>4. load \in [Callers -> [file: Files \cup {<<>>}, ids: Seq(Nat)]]
  BY DEF Init
<1>5. QED
  BY <1>1, <1>2, <1>3, <1>4 DEF Init, TypeOK

LEMMA InsertType ==
    ASSUME TypeOK, NEW rr, InsertMock(rr)
    PROVE  mocks' \in [DOMAIN mocks' -> Mock] /\ nextMockId' \in Nat
<1> DEFINE new == [requirements |-> rr, calls |-> 0, isStatic |-> FALSE]
<1>1. new \in Mock
  BY DEF InsertMock, Mock
<1>2. mocks' = Put(mocks, nextMockId, new) /\ nextMockId' = nextMockId + 1
  BY DEF InsertMock
<1>3. Put(mocks, nextMockId, new) \in [DOMAIN Put(mocks, nextMockId, new) -> Mock]
  <2>1. mocks \in [DOMAIN mocks -> Mock]
    BY DEF TypeOK
  <2> HIDE DEF new
  <2>2. QED
    BY <1>1, <2>1, PutType
<1>4. mocks' \in [DOMAIN mocks' -> Mock]
  <2> HIDE DEF new
  <2>1. QED
    BY <1>2, <1>3
<1>5. nextMockId' \in Nat
  BY DEF InsertMock, TypeOK
<1>6. QED
  BY <1>4, <1>5

LEMMA ServeType ==
    ASSUME TypeOK, NEW req \in Requests, ServeMock(req)
    PROVE  /\ mocks' \in [DOMAIN mocks' -> Mock]
           /\ history' \in Seq(Requests) /\ arrivals' \in Seq(Requests)
<1>1. ASSUME NEW i \in DOMAIN mocks
      PROVE  [mocks[i] EXCEPT !.calls = @ + 1] \in Mock
  <2>1. mocks[i] \in Mock
    BY DEF TypeOK
  <2>2. QED
    BY <2>1 DEF Mock
<1>2. mocks' \in [DOMAIN mocks' -> Mock]
  BY <1>1 DEF TypeOK, ServeMock
<1>3. history' \in Seq(Requests)
  <2>1. CASE Len(history) > HistoryLimit
    <3>1. history # <<>>
      BY <2>1, DataAssumption DEF TypeOK
    <3>2. Tail(history) \in Seq(Requests)
      BY <3>1 DEF TypeOK
    <3>3. QED
      BY <2>1, <3>2 DEF ServeMock, Logged
  <2>2. CASE ~(Len(history) > HistoryLimit)
    BY <2>2 DEF TypeOK, ServeMock, Logged
  <2>3. QED
    BY <2>1, <2>2
<1>4. arrivals' \in Seq(Requests)
  BY DEF TypeOK, ServeMock
<1>5. QED
  BY <1>2, <1>3, <1>4

LEMMA RecordType ==
    ASSUME TypeOK, NEW req \in Requests, NEW res \in Responses, NEW p \in BOOLEAN,
           Record(req, res, p)
    PROVE  recordings' \in [DOMAIN recordings' -> Recording]
<1> DEFINE new == [request |-> req, response |-> res, proxied |-> p]
<1>1. new \in RecordedMock
  BY DEF RecordedMock
<1>2. ASSUME NEW i \in DOMAIN recordings
      PROVE  [recordings[i] EXCEPT !.mocks = Append(@, new)] \in Recording
  <2>1. recordings[i] \in Recording
    BY DEF TypeOK
  <2>2. Append(recordings[i].mocks, new) \in Seq(RecordedMock)
    BY <1>1, <2>1 DEF Recording
  <2>3. QED
    BY <2>1, <2>2 DEF Recording
<1>3. QED
  BY <1>2 DEF TypeOK, Record

LEMMA MockStepType == TypeOK /\ MockStep => TypeOK'
<1> SUFFICES ASSUME TypeOK, MockStep PROVE TypeOK'
  OBVIOUS
<1> USE DEF mockVars, ruleVars, recordingVars, historyVars, callerVars
<1>1. ASSUME NEW rr \in Requirements, AddMock(rr) PROVE TypeOK'
  BY <1>1, InsertType DEF TypeOK, AddMock
<1>2. ASSUME NEW id \in DOMAIN mocks, DeleteMock(id) PROVE TypeOK'
  <2>1. mocks' \in [DOMAIN mocks' -> Mock]
    BY <1>2, WithoutType DEF TypeOK, DeleteMock
  <2>2. QED
    BY <1>2, <2>1 DEF TypeOK, DeleteMock
<1>3. CASE DeleteAllMocks
  <2>1. mocks' \in [DOMAIN mocks' -> Mock]
    BY <1>3, WithoutType DEF TypeOK, DeleteAllMocks
  <2>2. QED
    BY <1>3, <2>1 DEF TypeOK, DeleteAllMocks
<1>4. CASE DeleteHistory
  BY <1>4 DEF TypeOK, DeleteHistory
<1>5. ASSUME NEW req \in Requests, ServeMock(req) PROVE TypeOK'
  <2>1. UNCHANGED <<nextMockId, ruleVars, recordingVars, callerVars>>
    BY <1>5 DEF ServeMock
  <2>2. QED
    BY <1>5, <2>1, ServeType DEF TypeOK
<1>6. QED
  BY <1>1, <1>2, <1>3, <1>4, <1>5 DEF MockStep

LEMMA RuleStepType == TypeOK /\ RuleStep => TypeOK'
<1> SUFFICES ASSUME TypeOK, RuleStep PROVE TypeOK'
  OBVIOUS
<1> USE DEF mockVars, ruleVars, recordingVars, historyVars, callerVars
<1>1. ASSUME NEW rr \in Requirements PROVE [requirements |-> rr] \in Rule
  BY DEF Rule
<1>2. ASSUME NEW rr \in Requirements, CreateForwardingRule(rr) PROVE TypeOK'
  <2>1. forwardingRules' \in [DOMAIN forwardingRules' -> Rule]
    BY <1>1, <1>2, PutType DEF TypeOK, CreateForwardingRule
  <2>2. QED
    BY <1>2, <2>1 DEF TypeOK, CreateForwardingRule
<1>3. ASSUME NEW rr \in Requirements, CreateProxyRule(rr) PROVE TypeOK'
  <2>1. proxyRules' \in [DOMAIN proxyRules' -> Rule]
    BY <1>1, <1>3, PutType DEF TypeOK, CreateProxyRule
  <2>2. QED
    BY <1>3, <2>1 DEF TypeOK, CreateProxyRule
<1>4. ASSUME NEW id \in DOMAIN forwardingRules, DeleteForwardingRule(id) PROVE TypeOK'
  <2>1. forwardingRules' \in [DOMAIN forwardingRules' -> Rule]
    BY <1>4, WithoutType DEF TypeOK, DeleteForwardingRule
  <2>2. QED
    BY <1>4, <2>1 DEF TypeOK, DeleteForwardingRule
<1>5. ASSUME NEW id \in DOMAIN proxyRules, DeleteProxyRule(id) PROVE TypeOK'
  <2>1. proxyRules' \in [DOMAIN proxyRules' -> Rule]
    BY <1>5, WithoutType DEF TypeOK, DeleteProxyRule
  <2>2. QED
    BY <1>5, <2>1 DEF TypeOK, DeleteProxyRule
<1>6. CASE DeleteAllForwardingRules
  BY <1>6, EmptyType DEF TypeOK, DeleteAllForwardingRules
<1>7. CASE DeleteAllProxyRules
  BY <1>7, EmptyType DEF TypeOK, DeleteAllProxyRules
<1>8. QED
  BY <1>2, <1>3, <1>4, <1>5, <1>6, <1>7 DEF RuleStep

LEMMA RecordingStepType == TypeOK /\ RecordingStep => TypeOK'
<1> SUFFICES ASSUME TypeOK, RecordingStep PROVE TypeOK'
  OBVIOUS
<1> USE DEF mockVars, ruleVars, recordingVars, historyVars, callerVars
<1>1. ASSUME NEW rr \in Requirements, CreateRecording(rr) PROVE TypeOK'
  <2>1. [requirements |-> rr, mocks |-> <<>>] \in Recording
    BY DEF Recording
  <2>2. recordings' \in [DOMAIN recordings' -> Recording]
    BY <1>1, <2>1, PutType DEF TypeOK, CreateRecording
  <2>3. QED
    BY <1>1, <2>2 DEF TypeOK, CreateRecording
<1>2. ASSUME NEW id \in DOMAIN recordings, DeleteRecording(id) PROVE TypeOK'
  <2>1. recordings' \in [DOMAIN recordings' -> Recording]
    BY <1>2, WithoutType DEF TypeOK, DeleteRecording
  <2>2. QED
    BY <1>2, <2>1 DEF TypeOK, DeleteRecording
<1>3. CASE DeleteAllRecordings
  BY <1>3, EmptyType DEF TypeOK, DeleteAllRecordings
<1>4. ASSUME NEW req \in Requests, NEW res \in Responses, NEW p \in BOOLEAN,
             Record(req, res, p)
      PROVE  TypeOK'
  <2>1. UNCHANGED <<nextRecordingId, mockVars, ruleVars, historyVars, callerVars>>
    BY <1>4 DEF Record
  <2>2. QED
    BY <1>4, <2>1, RecordType DEF TypeOK
<1>5. QED
  BY <1>1, <1>2, <1>3, <1>4 DEF RecordingStep

LEMMA CallerStepType ==
    ASSUME TypeOK, NEW c \in Callers, CallerStep(c)
    PROVE  TypeOK'
<1> USE DEF mockVars, ruleVars, recordingVars, historyVars, callerVars
<1>1. CASE BeginReset(c)
  <2>1. mocks' \in [DOMAIN mocks' -> Mock]
    BY <1>1, WithoutType DEF TypeOK, BeginReset
  <2>2. cut' \in [Callers -> Counters]
    BY <1>1 DEF TypeOK, BeginReset, Counters
  <2>3. phase' \in [Callers -> Phases]
    BY <1>1 DEF TypeOK, BeginReset, Phases, ResetSections
  <2>4. QED
    BY <1>1, <2>1, <2>2, <2>3 DEF TypeOK, BeginReset
<1>2. CASE ResetHistory(c)
  BY <1>2 DEF TypeOK, ResetHistory, Phases, ResetSections
<1>3. CASE ResetForwardingRules(c)
  BY <1>3, EmptyType DEF TypeOK, ResetForwardingRules, Phases, ResetSections
<1>4. CASE ResetProxyRules(c)
  BY <1>4, EmptyType DEF TypeOK, ResetProxyRules, Phases, ResetSections
<1>5. CASE ResetRecordings(c)
  BY <1>5, EmptyType DEF TypeOK, ResetRecordings, Phases, ResetSections
<1>6. ASSUME NEW file \in Files, BeginLoad(c, file) PROVE TypeOK'
  BY <1>6 DEF TypeOK, BeginLoad, Phases
<1>7. CASE LoadNext(c)
  <2>1. mocks' \in [DOMAIN mocks' -> Mock] /\ nextMockId' \in Nat
    BY <1>7, InsertType DEF LoadNext
  <2>2. load' \in [Callers -> [file: Files \cup {<<>>}, ids: Seq(Nat)]]
    <3> DEFINE more == [load[c] EXCEPT !.ids = Append(@, nextMockId)]
    <3>1. load[c] \in [file: Files \cup {<<>>}, ids: Seq(Nat)]
      BY DEF TypeOK
    <3>2. Append(load[c].ids, nextMockId) \in Seq(Nat)
      BY <3>1 DEF TypeOK
    <3>3. more \in [file: Files \cup {<<>>}, ids: Seq(Nat)]
      BY <3>1, <3>2
    <3>4. load' = [load EXCEPT ![c] = more]
      BY <1>7 DEF LoadNext
    <3>5. QED
      BY <3>3, <3>4 DEF TypeOK
  <2>3. phase' \in [Callers -> Phases]
    BY <1>7 DEF TypeOK, LoadNext, Phases
  <2>4. QED
    BY <1>7, <2>1, <2>2, <2>3 DEF TypeOK, LoadNext
<1>8. CASE LoadFails(c)
  BY <1>8 DEF TypeOK, LoadFails, Phases
<1>9. QED
  BY <1>1, <1>2, <1>3, <1>4, <1>5, <1>6, <1>7, <1>8 DEF CallerStep

LEMMA TypeNext == TypeOK /\ [Next]_vars => TypeOK'
<1> SUFFICES ASSUME TypeOK, [Next]_vars PROVE TypeOK'
  OBVIOUS
<1>1. CASE UNCHANGED vars
  BY <1>1 DEF TypeOK, vars, mockVars, ruleVars, recordingVars, historyVars, callerVars
<1>2. QED
  BY <1>1, MockStepType, RuleStepType, RecordingStepType, CallerStepType DEF Next

\* Type correctness: in every reachable state of the Manager each counter,
\* table, history and caller's progress holds a value of its kind (what relates
\* the tables to their id counters is IssuedIds, proved below).
THEOREM TypeCorrect == Spec => []TypeOK
BY InitType, TypeNext, PTL DEF Spec

-------------------------------------------------------------------------------
\* Effects on the mocks.

MocksKept == UNCHANGED mockVars
MocksAdded == \E rr : InsertMock(rr)
MocksRemoved ==
    /\ UNCHANGED nextMockId
    /\ \E ids \in SUBSET NonStatic : mocks' = Without(mocks, ids)
MockCalled == \E req \in Requests : ServeMock(req)

LEMMA MockEffect ==
    ASSUME [Next]_vars
    PROVE  MocksKept \/ MocksAdded \/ MocksRemoved \/ MockCalled
<1> USE DEF mockVars
<1>1. CASE MockStep
  <2>1. ASSUME NEW rr \in Requirements, AddMock(rr) PROVE MocksAdded
    BY <2>1 DEF AddMock, MocksAdded
  <2>2. ASSUME NEW id \in DOMAIN mocks, DeleteMock(id) PROVE MocksRemoved
    BY <2>2 DEF DeleteMock, MocksRemoved
  <2>3. CASE DeleteAllMocks
    BY <2>3 DEF DeleteAllMocks, MocksRemoved
  <2>4. CASE DeleteHistory
    BY <2>4 DEF DeleteHistory, MocksKept
  <2>5. QED
    BY <1>1, <2>1, <2>2, <2>3, <2>4 DEF MockStep, MockCalled
<1>2. CASE RuleStep
  BY <1>2 DEF RuleStep, MocksKept, CreateForwardingRule, DeleteForwardingRule,
     DeleteAllForwardingRules, CreateProxyRule, DeleteProxyRule, DeleteAllProxyRules
<1>3. CASE RecordingStep
  BY <1>3 DEF RecordingStep, MocksKept, CreateRecording, DeleteRecording,
     DeleteAllRecordings, Record
<1>4. ASSUME NEW c \in Callers, CallerStep(c)
      PROVE  MocksKept \/ MocksAdded \/ MocksRemoved
  <2>1. CASE BeginReset(c)
    BY <2>1 DEF BeginReset, MocksRemoved
  <2>2. CASE LoadNext(c)
    BY <2>2 DEF LoadNext, MocksAdded
  <2>3. CASE ~BeginReset(c) /\ ~LoadNext(c)
    BY <1>4, <2>3 DEF CallerStep, MocksKept, ResetHistory, ResetForwardingRules,
       ResetProxyRules, ResetRecordings, BeginLoad, LoadFails
  <2>4. QED
    BY <2>1, <2>2, <2>3
<1>5. CASE UNCHANGED vars
  BY <1>5 DEF vars, MocksKept
<1>6. QED
  BY <1>1, <1>2, <1>3, <1>4, <1>5 DEF Next

-------------------------------------------------------------------------------
\* The mocks.  Neither property about them is inductive alone: that an older
\* mock takes precedence needs every registered id to be below the counter, so
\* that a new mock is younger than all the others.
IssuedMocks ==
    /\ \A i \in DOMAIN mocks : i \in Nat /\ i < nextMockId
    /\ Len(StaticMocks) <= nextMockId

MockInv == IssuedMocks /\ StaticMocksFirst /\ ShadowedNeverCounted

LEMMA MockInvInit == Init => MockInv
BY DataAssumption DEF Init, MockInv, IssuedMocks, StaticMocksFirst, ShadowedNeverCounted

LEMMA MocksAddedInv == TypeOK /\ MockInv /\ MocksAdded => MockInv'
<1> SUFFICES ASSUME TypeOK, MockInv, NEW rr, InsertMock(rr) PROVE MockInv'
  BY DEF MocksAdded
<1> USE DEF InsertMock, Put
<1>1. /\ nextMockId' = nextMockId + 1
      /\ nextMockId \in Nat
      /\ Len(StaticMocks) \in Nat
      /\ DOMAIN mocks' = DOMAIN mocks \cup {nextMockId}
      /\ mocks'[nextMockId] = [requirements |-> rr, calls |-> 0, isStatic |-> FALSE]
  BY DataAssumption DEF TypeOK
<1>2. \A i \in DOMAIN mocks : mocks'[i] = mocks[i] /\ i < nextMockId /\ i \in Nat
  BY <1>1 DEF MockInv, IssuedMocks
<1>3. IssuedMocks'
  BY <1>1, <1>2 DEF MockInv, IssuedMocks
<1>4. StaticMocksFirst'
  BY <1>1, <1>2 DEF MockInv, StaticMocksFirst
<1>5. ASSUME NEW i \in DOMAIN mocks', NEW j \in DOMAIN mocks', i < j,
             Matches[mocks'[j].requirements] \subseteq Matches[mocks'[i].requirements]
      PROVE  mocks'[j].calls = 0
  <2>1. CASE j = nextMockId
    BY <1>1, <2>1
  <2>2. CASE j \in DOMAIN mocks
    <3>1. i \in DOMAIN mocks
      BY <1>1, <1>2, <1>5, <2>2
    <3>2. QED
      BY <1>2, <1>5, <2>2, <3>1 DEF MockInv, ShadowedNeverCounted
  <2>3. QED
    BY <1>1, <2>1, <2>2
<1>6. QED
  BY <1>3, <1>4, <1>5, ZenonT(30) DEF MockInv, ShadowedNeverCounted

LEMMA MocksRemovedInv == TypeOK /\ MockInv /\ MocksRemoved => MockInv'
<1> SUFFICES ASSUME TypeOK, MockInv, UNCHANGED nextMockId,
                    NEW ids \in SUBSET NonStatic, mocks' = Without(mocks, ids)
             PROVE  MockInv'
  BY DEF MocksRemoved
<1>1. /\ DOMAIN mocks' = DOMAIN mocks \ ids
      /\ \A i \in DOMAIN mocks' : mocks'[i] = mocks[i]
  BY DEF Without, Restrict
<1>2. IssuedMocks'
  BY <1>1 DEF MockInv, IssuedMocks
<1>3. StaticMocksFirst'
  BY <1>1 DEF MockInv, StaticMocksFirst, NonStatic
<1>4. ShadowedNeverCounted'
  BY <1>1 DEF MockInv, ShadowedNeverCounted
<1>5. QED
  BY <1>2, <1>3, <1>4 DEF MockInv

\* The counter that grows is that of the first match, so no older registered
\* mock accepts the request: the called mock is not shadowed.
LEMMA MockCalledInv == TypeOK /\ MockInv /\ MockCalled => MockInv'
<1> SUFFICES ASSUME TypeOK, MockInv, NEW req \in Requests, ServeMock(req)
             PROVE  MockInv'
  BY DEF MockCalled
<1>1. /\ DOMAIN mocks' = DOMAIN mocks /\ nextMockId' = nextMockId
      /\ \A i \in DOMAIN mocks :
            /\ mocks'[i].requirements = mocks[i].requirements
            /\ mocks'[i].isStatic = mocks[i].isStatic
            /\ i \notin First(mocks, req) => mocks'[i] = mocks[i]
  BY DEF ServeMock, TypeOK, Mock
<1>2. IssuedMocks' /\ StaticMocksFirst'
  BY <1>1 DEF MockInv, IssuedMocks, StaticMocksFirst
<1>3. ASSUME NEW i \in DOMAIN mocks, NEW j \in DOMAIN mocks, i < j,
             Matches[mocks[j].requirements] \subseteq Matches[mocks[i].requirements]
      PROVE  j \notin First(mocks, req)
  <2>1. i \in Nat /\ j \in Nat
    BY DEF MockInv, IssuedMocks
  <2>2. ~(j <= i)
    BY <1>3, <2>1
  <2>3. j \in Matching(mocks, req) => i \in Matching(mocks, req)
    BY <1>3 DEF Matching
  <2>4. QED
    BY <2>2, <2>3 DEF First
<1>4. ShadowedNeverCounted'
  BY <1>1, <1>3 DEF MockInv, ShadowedNeverCounted
<1>5. QED
  BY <1>2, <1>4 DEF MockInv

LEMMA MockInvNext == TypeOK /\ MockInv /\ [Next]_vars => MockInv'
<1> SUFFICES ASSUME TypeOK, MockInv, [Next]_vars PROVE MockInv'
  OBVIOUS
<1>1. CASE MocksKept
  BY <1>1 DEF MocksKept, mockVars, MockInv, IssuedMocks, StaticMocksFirst,
     ShadowedNeverCounted
<1>2. QED
  BY <1>1, MockEffect, MocksAddedInv, MocksRemovedInv, MockCalledInv

LEMMA MockInvAlways == Spec => []MockInv
BY TypeCorrect, MockInvInit, MockInvNext, PTL DEF Spec

\* Precedence: a mock whose requests an older registered mock all accepts is
\* never called, through any sequence of registrations, deletions, resets,
\* playbacks and requests.
THEOREM FirstDefinedTakesPrecedence == Spec => []ShadowedNeverCounted
BY MockInvAlways, PTL DEF MockInv

-------------------------------------------------------------------------------
\* Effects on a table and its id counter, the same for all four tables: the
\* counter stays or grows by one, and an entry is either the new one, under the
\* old counter, or an old entry with the same requirements.
TableStep(old, new, next, nextNew) ==
    /\ nextNew = next \/ nextNew = next + 1
    /\ \A i \in DOMAIN new :
          \/ i = next /\ nextNew = next + 1
          \/ i \in DOMAIN old /\ new[i].requirements = old[i].requirements

LEMMA PutStep ==
    ASSUME NEW table, NEW next, NEW v
    PROVE  TableStep(table, Put(table, next, v), next, next + 1)
BY DEF TableStep, Put

LEMMA WithoutStep ==
    ASSUME NEW table, NEW next, NEW ids
    PROVE  TableStep(table, Without(table, ids), next, next)
BY DEF TableStep, Without, Restrict

LEMMA EmptyStep ==
    ASSUME NEW table, NEW next
    PROVE  TableStep(table, <<>>, next, next)
BY DEF TableStep

LEMMA KeptStep ==
    ASSUME NEW table, NEW next
    PROVE  TableStep(table, table, next, next)
BY DEF TableStep

LEMMA MockTableStep ==
    ASSUME TypeOK, [Next]_vars
    PROVE  /\ TableStep(mocks, mocks', nextMockId, nextMockId')
           /\ \A i \in DOMAIN mocks' :
                 \/ i = nextMockId
                 \/ /\ mocks'[i].isStatic = mocks[i].isStatic
                    /\ mocks'[i].calls >= mocks[i].calls
<1>1. ASSUME NEW i \in DOMAIN mocks
      PROVE  mocks[i] \in Mock /\ mocks[i].calls \in Nat
  BY DEF TypeOK, Mock
<1>2. CASE MocksKept
  BY <1>1, <1>2, KeptStep DEF MocksKept, mockVars
<1>3. ASSUME NEW rr, InsertMock(rr)
      PROVE  /\ TableStep(mocks, mocks', nextMockId, nextMockId')
             /\ \A i \in DOMAIN mocks' : i = nextMockId \/ mocks'[i] = mocks[i]
             /\ \A i \in DOMAIN mocks' : i = nextMockId \/ i \in DOMAIN mocks
  BY <1>3, PutStep DEF InsertMock, Put
<1>4. CASE MocksAdded
  BY <1>1, <1>3, <1>4 DEF MocksAdded
<1>5. ASSUME NEW ids, mocks' = Without(mocks, ids), UNCHANGED nextMockId
      PROVE  /\ TableStep(mocks, mocks', nextMockId, nextMockId')
             /\ \A i \in DOMAIN mocks' : i \in DOMAIN mocks /\ mocks'[i] = mocks[i]
  BY <1>5, WithoutStep DEF Without, Restrict
<1>6. CASE MocksRemoved
  BY <1>1, <1>5, <1>6 DEF MocksRemoved
<1>7. ASSUME NEW req \in Requests, ServeMock(req)
      PROVE  /\ TableStep(mocks, mocks', nextMockId, nextMockId')
             /\ \A i \in DOMAIN mocks' :
                   /\ mocks'[i].isStatic = mocks[i].isStatic
                   /\ mocks'[i].calls >= mocks[i].calls
  <2>1. /\ DOMAIN mocks' = DOMAIN mocks /\ nextMockId' = nextMockId
        /\ \A i \in DOMAIN mocks :
              mocks'[i] = IF i \in First(mocks, req)
                          THEN [mocks[i] EXCEPT !.calls = @ + 1] ELSE mocks[i]
    BY <1>7 DEF ServeMock
  <2>2. ASSUME NEW i \in DOMAIN mocks
        PROVE  /\ mocks'[i].requirements = mocks[i].requirements
               /\ mocks'[i].isStatic = mocks[i].isStatic
               /\ mocks'[i].calls >= mocks[i].calls
    BY <1>1, <2>1 DEF Mock
  <2>3. QED
    BY <2>1, <2>2 DEF TableStep
<1>8. CASE MockCalled
  BY <1>7, <1>8 DEF MockCalled
<1>9. QED
  BY <1>2, <1>4, <1>6, <1>8, MockEffect

LEMMA RuleTableStep ==
    ASSUME [Next]_vars
    PROVE  /\ TableStep(forwardingRules, forwardingRules',
                        nextForwardingRuleId, nextForwardingRuleId')
           /\ TableStep(proxyRules, proxyRules', nextProxyRuleId, nextProxyRuleId')
<1> USE DEF ruleVars
<1>1. CASE UNCHANGED ruleVars
  BY <1>1, KeptStep
<1>2. ASSUME NEW rr \in Requirements, CreateForwardingRule(rr) \/ CreateProxyRule(rr)
      PROVE  /\ TableStep(forwardingRules, forwardingRules',
                          nextForwardingRuleId, nextForwardingRuleId')
             /\ TableStep(proxyRules, proxyRules', nextProxyRuleId, nextProxyRuleId')
  BY <1>2, PutStep, KeptStep DEF CreateForwardingRule, CreateProxyRule
<1>3. CASE \/ \E id \in DOMAIN forwardingRules : DeleteForwardingRule(id)
           \/ \E id \in DOMAIN proxyRules : DeleteProxyRule(id)
  BY <1>3, WithoutStep, KeptStep DEF DeleteForwardingRule, DeleteProxyRule
<1>4. CASE \/ DeleteAllForwardingRules \/ DeleteAllProxyRules
           \/ \E c \in Callers : ResetForwardingRules(c) \/ ResetProxyRules(c)
  BY <1>4, EmptyStep, KeptStep
     DEF DeleteAllForwardingRules, DeleteAllProxyRules, ResetForwardingRules, ResetProxyRules
<1>5. MockStep \/ RecordingStep => UNCHANGED ruleVars
  BY DEF MockStep, AddMock, DeleteMock, DeleteAllMocks, DeleteHistory, ServeMock,
     RecordingStep, CreateRecording, DeleteRecording, DeleteAllRecordings, Record
<1>6. ASSUME NEW c \in Callers, CallerStep(c)
      PROVE  UNCHANGED ruleVars \/ ResetForwardingRules(c) \/ ResetProxyRules(c)
  BY <1>6 DEF CallerStep, BeginReset, ResetHistory, ResetRecordings, BeginLoad,
     LoadNext, LoadFails
<1>7. UNCHANGED vars => UNCHANGED ruleVars
  BY DEF vars
<1>8. QED
  BY <1>1, <1>2, <1>3, <1>4, <1>5, <1>6, <1>7 DEF Next, RuleStep

LEMMA RecordStep ==
    ASSUME TypeOK, NEW req \in Requests, NEW res \in Responses, NEW p \in BOOLEAN,
           Record(req, res, p)
    PROVE  /\ TableStep(recordings, recordings', nextRecordingId, nextRecordingId')
           /\ \A i \in DOMAIN recordings' :
                 Len(recordings'[i].mocks) >= Len(recordings[i].mocks)
<1> DEFINE new == [request |-> req, response |-> res, proxied |-> p]
<1>1. /\ DOMAIN recordings' = DOMAIN recordings /\ nextRecordingId' = nextRecordingId
      /\ \A i \in DOMAIN recordings :
            recordings'[i] = IF i \in Matching(recordings, req)
                             THEN [recordings[i] EXCEPT !.mocks = Append(@, new)]
                             ELSE recordings[i]
  BY DEF Record
<1>2. ASSUME NEW i \in DOMAIN recordings
      PROVE  /\ recordings'[i].requirements = recordings[i].requirements
             /\ Len(recordings'[i].mocks) >= Len(recordings[i].mocks)
  <2>1. recordings[i] \in Recording
    BY DEF TypeOK
  <2>2. /\ recordings[i].mocks \in Seq(RecordedMock) /\ new \in RecordedMock
        /\ Len(recordings[i].mocks) \in Nat
    BY <2>1 DEF Recording, RecordedMock
  <2>3. Len(Append(recordings[i].mocks, new)) = Len(recordings[i].mocks) + 1
    BY <2>2
  <2>4. QED
    BY <1>1, <2>1, <2>2, <2>3 DEF Recording
<1>3. QED
  BY <1>1, <1>2 DEF TableStep

LEMMA RecordingTableStep ==
    ASSUME TypeOK, [Next]_vars
    PROVE  /\ TableStep(recordings, recordings', nextRecordingId, nextRecordingId')
           /\ \A i \in DOMAIN recordings' :
                 \/ i = nextRecordingId
                 \/ Len(recordings'[i].mocks) >= Len(recordings[i].mocks)
<1> USE DEF recordingVars
<1>1. ASSUME NEW i \in DOMAIN recordings
      PROVE  Len(recordings[i].mocks) \in Nat
  <2>1. recordings[i] \in Recording
    BY DEF TypeOK
  <2>2. QED
    BY <2>1 DEF Recording
<1>2. CASE UNCHANGED recordingVars
  BY <1>1, <1>2, KeptStep
<1>3. ASSUME NEW rr \in Requirements, CreateRecording(rr)
      PROVE  /\ TableStep(recordings, recordings', nextRecordingId, nextRecordingId')
             /\ \A i \in DOMAIN recordings' :
                   i = nextRecordingId \/ (i \in DOMAIN recordings /\ recordings'[i] = recordings[i])
  BY <1>3, PutStep DEF CreateRecording, Put
<1>4. ASSUME NEW id, DeleteRecording(id)
      PROVE  /\ TableStep(recordings, recordings', nextRecordingId, nextRecordingId')
             /\ \A i \in DOMAIN recordings' : i \in DOMAIN recordings /\ recordings'[i] = recordings[i]
  BY <1>4, WithoutStep DEF DeleteRecording, Without, Restrict
<1>5. ASSUME recordings' = <<>>, UNCHANGED nextRecordingId
      PROVE  /\ TableStep(recordings, recordings', nextRecordingId, nextRecordingId')
             /\ DOMAIN recordings' = {}
  BY <1>5, EmptyStep
<1>6. CASE RecordingStep
  BY <1>1, <1>3, <1>4, <1>5, <1>6, RecordStep DEF RecordingStep, DeleteAllRecordings
<1>7. MockStep \/ RuleStep => UNCHANGED recordingVars
  BY DEF MockStep, AddMock, DeleteMock, DeleteAllMocks, DeleteHistory, ServeMock,
     RuleStep, CreateForwardingRule, CreateProxyRule, DeleteForwardingRule,
     DeleteProxyRule, DeleteAllForwardingRules, DeleteAllProxyRules
<1>8. ASSUME NEW c \in Callers, CallerStep(c)
      PROVE  UNCHANGED recordingVars \/ (recordings' = <<>> /\ UNCHANGED nextRecordingId)
  BY <1>8 DEF CallerStep, BeginReset, ResetHistory, ResetForwardingRules,
     ResetProxyRules, ResetRecordings, BeginLoad, LoadNext, LoadFails
<1>9. UNCHANGED vars => UNCHANGED recordingVars
  BY DEF vars
<1>10. QED
  BY <1>2, <1>5, <1>6, <1>7, <1>8, <1>9 DEF Next

-------------------------------------------------------------------------------
\* Every id in a table was handed out by its counter, and a reset's thresholds
\* were read from the counters.
IssuedIds ==
    /\ \A i \in DOMAIN mocks : i \in Nat /\ i < nextMockId
    /\ \A i \in DOMAIN forwardingRules : i \in Nat /\ i < nextForwardingRuleId
    /\ \A i \in DOMAIN proxyRules : i \in Nat /\ i < nextProxyRuleId
    /\ \A i \in DOMAIN recordings : i \in Nat /\ i < nextRecordingId

CutsIssued ==
    \A c \in Callers :
        /\ cut[c].mocks <= nextMockId
        /\ cut[c].forwarding <= nextForwardingRuleId
        /\ cut[c].proxy <= nextProxyRuleId
        /\ cut[c].recordings <= nextRecordingId

LEMMA IssuedStep ==
    ASSUME NEW old, NEW new, NEW next \in Nat, NEW nextNew,
           TableStep(old, new, next, nextNew),
           \A i \in DOMAIN old : i \in Nat /\ i < next
    PROVE  \A i \in DOMAIN new : i \in Nat /\ i < nextNew
BY DEF TableStep

LEMMA IssuedIdsInit == Init => IssuedIds
BY DataAssumption DEF Init, IssuedIds

LEMMA IssuedIdsNext == TypeOK /\ IssuedIds /\ [Next]_vars => IssuedIds'
<1> SUFFICES ASSUME TypeOK, IssuedIds, [Next]_vars PROVE IssuedIds'
  OBVIOUS
<1>1. /\ nextMockId \in Nat /\ nextForwardingRuleId \in Nat
      /\ nextProxyRuleId \in Nat /\ nextRecordingId \in Nat
  BY DEF TypeOK
<1>2. (\A i \in DOMAIN mocks : i \in Nat /\ i < nextMockId)'
  BY <1>1, MockTableStep, IssuedStep DEF IssuedIds
<1>3. (\A i \in DOMAIN forwardingRules : i \in Nat /\ i < nextForwardingRuleId)'
  BY <1>1, RuleTableStep, IssuedStep DEF IssuedIds
<1>4. (\A i \in DOMAIN proxyRules : i \in Nat /\ i < nextProxyRuleId)'
  BY <1>1, RuleTableStep, IssuedStep DEF IssuedIds
<1>5. (\A i \in DOMAIN recordings : i \in Nat /\ i < nextRecordingId)'
  BY <1>1, RecordingTableStep, IssuedStep DEF IssuedIds
<1>6. QED
  BY <1>2, <1>3, <1>4, <1>5 DEF IssuedIds

LEMMA IssuedIdsAlways == Spec => []IssuedIds
BY IssuedIdsInit, IssuedIdsNext, TypeCorrect, PTL DEF Spec

\* Handles: an id never changes its meaning and never comes back, so a Mock,
\* a rule or a Recording handle a test kept is either gone or still its own.
THEOREM HandlesNeverReused == Spec => HandlesStable
<1>1. ASSUME NEW old, NEW new, NEW next \in Nat, NEW nextNew,
             TableStep(old, new, next, nextNew),
             \A i \in DOMAIN old : i \in Nat /\ i < next
      PROVE  SameHandle(old, new, next, nextNew)
  BY <1>1 DEF TableStep, SameHandle
<1>2. ASSUME TypeOK, IssuedIds, [Next]_vars
      PROVE  /\ SameHandle(mocks, mocks', nextMockId, nextMockId')
             /\ SameHandle(forwardingRules, forwardingRules',
                           nextForwardingRuleId, nextForwardingRuleId')
             /\ SameHandle(proxyRules, proxyRules', nextProxyRuleId, nextProxyRuleId')
             /\ SameHandle(recordings, recordings', nextRecordingId, nextRecordingId')
  <2>1. /\ nextMockId \in Nat /\ nextForwardingRuleId \in Nat
        /\ nextProxyRuleId \in Nat /\ nextRecordingId \in Nat
    BY <1>2 DEF TypeOK
  <2>2. SameHandle(mocks, mocks', nextMockId, nextMockId')
    BY <1>1, <1>2, <2>1, MockTableStep DEF IssuedIds
  <2>3. SameHandle(forwardingRules, forwardingRules',
                nextForwardingRuleId, nextForwardingRuleId')
    BY <1>1, <1>2, <2>1, RuleTableStep DEF IssuedIds
  <2>4. SameHandle(proxyRules, proxyRules', nextProxyRuleId, nextProxyRuleId')
    BY <1>1, <1>2, <2>1, RuleTableStep DEF IssuedIds
  <2>5. SameHandle(recordings, recordings', nextRecordingId, nextRecordingId')
    BY <1>1, <1>2, <2>1, RecordingTableStep DEF IssuedIds
  <2>6. QED
    BY <2>2, <2>3, <2>4, <2>5
<1>3. ASSUME TypeOK, IssuedIds, [Next]_vars
      PROVE  /\ \A i \in DOMAIN mocks \cap DOMAIN mocks' : mocks'[i].calls >= mocks[i].calls
             /\ \A i \in DOMAIN recordings \cap DOMAIN recordings' :
                   Len(recordings'[i].mocks) >= Len(recordings[i].mocks)
  <2>1. /\ \A i \in DOMAIN mocks : i # nextMockId
        /\ \A i \in DOMAIN recordings : i # nextRecordingId
    BY <1>3 DEF IssuedIds, TypeOK
  <2>2. QED
    BY <1>3, <2>1, MockTableStep, RecordingTableStep
<1>4. QED
  BY <1>2, <1>3, TypeCorrect, IssuedIdsAlways, PTL DEF Spec, HandlesStable

\* Static mocks: those loaded at start-up are registered for ever, under the
\* first ids, no other mock counts as one, and no step takes from their counters.
THEOREM StaticMocksSurvive == Spec => StaticMocksStay
<1>1. TypeOK /\ MockInv /\ [Next]_vars
      => /\ StaticMocksFirst'
         /\ \A i \in 0..(Len(StaticMocks) - 1) : mocks'[i].calls >= mocks[i].calls
  <2> SUFFICES ASSUME TypeOK, MockInv, [Next]_vars,
                      NEW i \in 0..(Len(StaticMocks) - 1)
               PROVE  StaticMocksFirst' /\ mocks'[i].calls >= mocks[i].calls
    BY MockInvNext DEF MockInv
  <2>1. MockInv'
    BY MockInvNext
  <2>2. i \in DOMAIN mocks /\ i \in DOMAIN mocks' /\ i # nextMockId
    BY <2>1 DEF MockInv, StaticMocksFirst, IssuedMocks, TypeOK
  <2>3. QED
    BY <2>1, <2>2, MockTableStep DEF MockInv
<1>2. QED
  BY <1>1, TypeCorrect, MockInvAlways, PTL DEF Spec, StaticMocksStay

-------------------------------------------------------------------------------
\* Resets.  Between two of its sections the other callers may add entries, but
\* only under ids at or above the thresholds, and the tables already swept stay
\* free of older ids.
SweptBelow(table, threshold) == \A i \in table : i >= threshold

LEMMA SweptStep ==
    ASSUME NEW old, NEW new, NEW next \in Nat, NEW nextNew,
           TableStep(old, new, next, nextNew),
           NEW threshold \in Nat, threshold <= next, SweptBelow(DOMAIN old, threshold)
    PROVE  SweptBelow(DOMAIN new, threshold)
BY DEF TableStep, SweptBelow

SweepInv == CutsIssued /\ ResetSweeps

LEMMA SweepInvInit == Init => SweepInv
BY DataAssumption DEF Init, SweepInv, CutsIssued, ResetSweeps, NonStatic

\* The callers whose own reset does not advance in this step.
LEMMA SweptOthers ==
    ASSUME TypeOK, SweepInv, [Next]_vars, NEW c \in Callers, cut'[c] = cut[c]
    PROVE  /\ SweptBelow(NonStatic', cut'[c].mocks)
           /\ SweptBelow(DOMAIN forwardingRules, cut[c].forwarding) =>
                 SweptBelow(DOMAIN forwardingRules', cut'[c].forwarding)
           /\ SweptBelow(DOMAIN proxyRules, cut[c].proxy) =>
                 SweptBelow(DOMAIN proxyRules', cut'[c].proxy)
           /\ SweptBelow(DOMAIN recordings, cut[c].recordings) =>
                 SweptBelow(DOMAIN recordings', cut'[c].recordings)
<1>1. /\ nextMockId \in Nat /\ nextForwardingRuleId \in Nat
      /\ nextProxyRuleId \in Nat /\ nextRecordingId \in Nat
      /\ cut[c] \in Counters
  BY DEF TypeOK
<1>2. /\ cut[c].mocks \in Nat /\ cut[c].forwarding \in Nat
      /\ cut[c].proxy \in Nat /\ cut[c].recordings \in Nat
  BY <1>1 DEF Counters
<1>3. SweptBelow(NonStatic', cut[c].mocks)
  <2>1. \A i \in NonStatic' : i = nextMockId \/ i \in NonStatic
    BY MockTableStep DEF NonStatic, TableStep
  <2>2. QED
    BY <1>1, <1>2, <2>1 DEF SweepInv, CutsIssued, ResetSweeps, SweptBelow
<1>4. QED
  BY <1>1, <1>2, <1>3, RuleTableStep, RecordingTableStep, SweptStep
     DEF SweepInv, CutsIssued

LEMMA CutsIssuedNext == TypeOK /\ CutsIssued /\ [Next]_vars => CutsIssued'
<1> SUFFICES ASSUME TypeOK, CutsIssued, [Next]_vars, NEW c \in Callers
             PROVE  /\ cut'[c].mocks <= nextMockId'
                    /\ cut'[c].forwarding <= nextForwardingRuleId'
                    /\ cut'[c].proxy <= nextProxyRuleId'
                    /\ cut'[c].recordings <= nextRecordingId'
  BY DEF CutsIssued
<1>1. /\ nextMockId \in Nat /\ nextMockId' >= nextMockId
      /\ nextForwardingRuleId \in Nat /\ nextForwardingRuleId' >= nextForwardingRuleId
      /\ nextProxyRuleId \in Nat /\ nextProxyRuleId' >= nextProxyRuleId
      /\ nextRecordingId \in Nat /\ nextRecordingId' >= nextRecordingId
  BY MockTableStep, RuleTableStep, RecordingTableStep DEF TypeOK, TableStep
<1>2. cut[c] \in Counters
  BY DEF TypeOK
<1>3. /\ cut[c].mocks \in Nat /\ cut[c].forwarding \in Nat
      /\ cut[c].proxy \in Nat /\ cut[c].recordings \in Nat
  BY <1>2 DEF Counters
<1>4. CASE cut'[c] = cut[c]
  <2>1. nextMockId' \in Int /\ nextForwardingRuleId' \in Int
        /\ nextProxyRuleId' \in Int /\ nextRecordingId' \in Int
    BY <1>1, MockTableStep, RuleTableStep, RecordingTableStep DEF TableStep
  <2>2. QED
    BY <1>1, <1>3, <1>4, <2>1 DEF CutsIssued
<1>5. CASE \E d \in Callers : BeginReset(d)
  BY <1>1, <1>5, <1>4 DEF BeginReset, TypeOK, ruleVars, recordingVars
<1>6. UNCHANGED cut \/ \E d \in Callers : BeginReset(d)
  <2> USE DEF callerVars
  <2>1. MockStep \/ RuleStep \/ RecordingStep => UNCHANGED cut
    BY DEF MockStep, AddMock, DeleteMock, DeleteAllMocks, DeleteHistory, ServeMock,
       RuleStep, CreateForwardingRule, CreateProxyRule, DeleteForwardingRule,
       DeleteProxyRule, DeleteAllForwardingRules, DeleteAllProxyRules,
       RecordingStep, CreateRecording, DeleteRecording, DeleteAllRecordings, Record
  <2>2. ASSUME NEW d \in Callers, CallerStep(d)
        PROVE  UNCHANGED cut \/ BeginReset(d)
    BY <2>2 DEF CallerStep, ResetHistory, ResetForwardingRules, ResetProxyRules,
       ResetRecordings, BeginLoad, LoadNext, LoadFails
  <2>3. UNCHANGED vars => UNCHANGED cut
    BY DEF vars
  <2>4. QED
    BY <2>1, <2>2, <2>3 DEF Next
<1>7. QED
  BY <1>4, <1>5, <1>6

\* The obligation of ResetSweeps for one caller.
Swept(c) ==
    /\ SweptBelow(NonStatic, cut[c].mocks)
    /\ phase[c] \notin {"history", "forwarding"} =>
          SweptBelow(DOMAIN forwardingRules, cut[c].forwarding)
    /\ phase[c] \notin {"history", "forwarding", "proxy"} =>
          SweptBelow(DOMAIN proxyRules, cut[c].proxy)
    /\ phase[c] \notin ResetSections =>
          SweptBelow(DOMAIN recordings, cut[c].recordings)

LEMMA SweptNext ==
    ASSUME TypeOK, SweepInv, [Next]_vars, NEW c \in Callers
    PROVE  Swept(c)'
<1>1. Swept(c) /\ phase \in [Callers -> Phases] /\ cut \in [Callers -> Counters]
  BY DEF SweepInv, ResetSweeps, Swept, SweptBelow, TypeOK
<1> USE DEF ResetSections
<1>2. CASE phase'[c] = phase[c] /\ cut'[c] = cut[c]
  BY <1>1, <1>2, SweptOthers DEF Swept
<1>3. CASE BeginReset(c)
  <2>1. NonStatic' = {}
    BY <1>3 DEF BeginReset, NonStatic, Without, Restrict
  <2>2. phase'[c] = "history"
    BY <1>1, <1>3 DEF BeginReset
  <2>3. QED
    BY <2>1, <2>2 DEF Swept, SweptBelow
<1>4. CASE ResetHistory(c)
  BY <1>1, <1>4, SweptOthers DEF ResetHistory, Swept
<1>5. CASE ResetForwardingRules(c)
  <2>1. DOMAIN forwardingRules' = {} /\ phase'[c] = "proxy" /\ cut'[c] = cut[c]
    BY <1>1, <1>5 DEF ResetForwardingRules
  <2>2. QED
    BY <2>1, SweptOthers DEF Swept, SweptBelow
<1>6. CASE ResetProxyRules(c)
  <2>1. /\ DOMAIN proxyRules' = {} /\ phase'[c] = "recordings" /\ cut'[c] = cut[c]
        /\ phase[c] = "proxy"
    BY <1>1, <1>6 DEF ResetProxyRules
  <2>2. SweptBelow(DOMAIN forwardingRules, cut[c].forwarding)
    BY <1>1, <2>1 DEF Swept
  <2>3. QED
    BY <2>1, <2>2, SweptOthers DEF Swept, SweptBelow
<1>7. CASE ResetRecordings(c)
  <2>1. /\ DOMAIN recordings' = {} /\ phase'[c] = "idle" /\ cut'[c] = cut[c]
        /\ phase[c] = "recordings"
    BY <1>1, <1>7 DEF ResetRecordings
  <2>2. /\ SweptBelow(DOMAIN forwardingRules, cut[c].forwarding)
        /\ SweptBelow(DOMAIN proxyRules, cut[c].proxy)
    BY <1>1, <2>1 DEF Swept
  <2>3. QED
    BY <2>1, <2>2, SweptOthers DEF Swept, SweptBelow
<1>8. CASE (\E file \in Files : BeginLoad(c, file)) \/ LoadNext(c) \/ LoadFails(c)
  <2>1. cut'[c] = cut[c] /\ phase[c] \in {"idle", "loading"}
    BY <1>8 DEF BeginLoad, LoadNext, LoadFails
  <2>2. /\ SweptBelow(DOMAIN forwardingRules, cut[c].forwarding)
        /\ SweptBelow(DOMAIN proxyRules, cut[c].proxy)
        /\ SweptBelow(DOMAIN recordings, cut[c].recordings)
    BY <1>1, <2>1 DEF Swept
  <2>3. QED
    BY <2>1, <2>2, SweptOthers DEF Swept
<1>9. \/ phase'[c] = phase[c] /\ cut'[c] = cut[c]
      \/ CallerStep(c)
  <2> USE DEF callerVars
  <2>1. MockStep \/ RuleStep \/ RecordingStep => UNCHANGED <<phase, cut>>
    BY DEF MockStep, AddMock, DeleteMock, DeleteAllMocks, DeleteHistory, ServeMock,
       RuleStep, CreateForwardingRule, CreateProxyRule, DeleteForwardingRule,
       DeleteProxyRule, DeleteAllForwardingRules, DeleteAllProxyRules,
       RecordingStep, CreateRecording, DeleteRecording, DeleteAllRecordings, Record
  <2>2. ASSUME NEW d \in Callers, CallerStep(d), d # c
        PROVE  phase'[c] = phase[c] /\ cut'[c] = cut[c]
    BY <1>1, <2>2 DEF CallerStep, BeginReset, ResetHistory, ResetForwardingRules,
       ResetProxyRules, ResetRecordings, BeginLoad, LoadNext, LoadFails
  <2>3. UNCHANGED vars => UNCHANGED <<phase, cut>>
    BY DEF vars
  <2>4. QED
    BY <2>1, <2>2, <2>3 DEF Next
<1>10. QED
  BY <1>2, <1>3, <1>4, <1>5, <1>6, <1>7, <1>8, <1>9 DEF CallerStep

\* Reset: once a caller's reset has run a section, nothing that was registered
\* when it began is left in that section's table, whatever the others do.
THEOREM ResetSweepsOlder == Spec => []ResetSweeps
<1>1. TypeOK /\ SweepInv /\ [Next]_vars => SweepInv'
  <2> SUFFICES ASSUME TypeOK, SweepInv, [Next]_vars PROVE SweepInv'
    OBVIOUS
  <2>1. CutsIssued'
    BY CutsIssuedNext DEF SweepInv
  <2>2. ResetSweeps'
    BY SweptNext DEF ResetSweeps, Swept, SweptBelow
  <2>3. QED
    BY <2>1, <2>2 DEF SweepInv
<1>2. SweepInv => ResetSweeps
  BY DEF SweepInv
<1>3. QED
  BY <1>1, <1>2, SweepInvInit, TypeCorrect, PTL DEF Spec

-------------------------------------------------------------------------------
\* The history.  HistoryIsSuffix is inductive relative to the types: a request
\* is appended to both sequences, and the oldest entry goes exactly when the
\* history already holds HistoryLimit + 1.
LEMMA HistoryServed ==
    ASSUME TypeOK, HistoryIsSuffix, NEW req \in Requests, ServeMock(req)
    PROVE  HistoryIsSuffix'
<1>1. /\ history \in Seq(Requests) /\ arrivals \in Seq(Requests)
      /\ HistoryLimit \in Nat /\ Len(history) \in Nat /\ Len(arrivals) \in Nat
  BY DataAssumption DEF TypeOK
<1>2. /\ arrivals' = Append(arrivals, req)
      /\ Len(arrivals') = Len(arrivals) + 1
      /\ arrivals'[Len(arrivals) + 1] = req
      /\ \A i \in 1..Len(arrivals) : arrivals'[i] = arrivals[i]
  BY <1>1 DEF ServeMock
<1>3. CASE Len(history) > HistoryLimit
  <2>1. /\ history' = Append(Tail(history), req)
        /\ Len(history) = HistoryLimit + 1 /\ Len(arrivals) > HistoryLimit
    BY <1>1, <1>3 DEF ServeMock, Logged, HistoryIsSuffix
  <2>2. /\ Tail(history) \in Seq(Requests)
        /\ Len(Tail(history)) = HistoryLimit
        /\ \A i \in 1..HistoryLimit : Tail(history)[i] = history[i + 1]
    BY <1>1, <2>1
  <2>3. /\ Len(history') = HistoryLimit + 1
        /\ history'[HistoryLimit + 1] = req
        /\ \A i \in 1..HistoryLimit : history'[i] = history[i + 1]
    BY <1>1, <2>1, <2>2
  <2>4. ASSUME NEW i \in 1..HistoryLimit
        PROVE  history'[i] = arrivals'[Len(arrivals') - Len(history') + i]
    <3> DEFINE k == Len(arrivals) - Len(history) + (i + 1)
    <3>1. i + 1 \in 1..Len(history) /\ history'[i] = history[i + 1]
      BY <1>1, <2>1, <2>3
    <3>2. history[i + 1] = arrivals[k]
      BY <3>1 DEF HistoryIsSuffix
    <3>3. k \in 1..Len(arrivals)
      BY <1>1, <2>1
    <3>4. k = Len(arrivals') - Len(history') + i
      <4>1. Len(arrivals') = Len(arrivals) + 1 /\ Len(history') = Len(history)
        BY <1>2, <2>1, <2>3
      <4>2. i \in Int /\ Len(arrivals) \in Int /\ Len(history) \in Int
        BY <1>1
      <4>3. Len(arrivals) - Len(history) + (i + 1) = (Len(arrivals) + 1) - Len(history) + i
        BY <4>2
      <4>4. QED
        BY <4>1, <4>3
    <3> HIDE DEF k
    <3>5. arrivals'[k] = arrivals[k]
      BY <1>2, <3>3
    <3>6. QED
      BY <3>1, <3>2, <3>4, <3>5
  <2>5. history'[Len(history')] = arrivals'[Len(arrivals') - Len(history') + Len(history')]
    <3>1. Len(arrivals') - Len(history') + Len(history') = Len(arrivals) + 1
      BY <1>1, <1>2, <2>3
    <3>2. QED
      BY <1>2, <2>3, <3>1
  <2>6. 1..Len(history') = (1..HistoryLimit) \cup {Len(history')}
    BY <1>1, <2>3
  <2>7. Len(history') = IF Len(arrivals') <= HistoryLimit
                        THEN Len(arrivals') ELSE HistoryLimit + 1
    BY <1>1, <1>2, <2>1, <2>3
  <2>8. QED
    BY <2>4, <2>5, <2>6, <2>7 DEF HistoryIsSuffix
<1>4. CASE ~(Len(history) > HistoryLimit)
  <2>1. history' = Append(history, req) /\ Len(history) = Len(arrivals)
    BY <1>1, <1>4 DEF ServeMock, Logged, HistoryIsSuffix
  <2>2. /\ Len(history') = Len(history) + 1
        /\ history'[Len(history) + 1] = req
        /\ \A i \in 1..Len(history) : history'[i] = history[i]
    BY <1>1, <2>1
  <2>3. ASSUME NEW i \in 1..Len(history) PROVE history[i] = arrivals[i]
    <3>1. Len(arrivals) - Len(history) + i = i
      BY <1>1, <2>1
    <3>2. QED
      BY <3>1 DEF HistoryIsSuffix
  <2>4. ASSUME NEW i \in 1..Len(history')
        PROVE  history'[i] = arrivals'[Len(arrivals') - Len(history') + i]
    <3>1. Len(arrivals') - Len(history') + i = i
      BY <1>1, <1>2, <2>1, <2>2
    <3>2. CASE i = Len(history) + 1
      BY <1>2, <2>1, <2>2, <3>1, <3>2
    <3>3. CASE i \in 1..Len(history)
      BY <1>2, <2>1, <2>2, <2>3, <3>1, <3>3
    <3>4. QED
      BY <1>1, <2>2, <3>2, <3>3
  <2>5. Len(history') = IF Len(arrivals') <= HistoryLimit
                        THEN Len(arrivals') ELSE HistoryLimit + 1
    BY <1>1, <1>2, <1>4, <2>1, <2>2 DEF HistoryIsSuffix
  <2>6. QED
    BY <2>4, <2>5 DEF HistoryIsSuffix
<1>5. QED
  BY <1>3, <1>4

LEMMA HistoryEffect ==
    ASSUME [Next]_vars
    PROVE  \/ UNCHANGED historyVars
           \/ history' = <<>> /\ arrivals' = <<>>
           \/ \E req \in Requests : ServeMock(req)
<1> USE DEF historyVars
<1>1. MockStep => \/ UNCHANGED historyVars
                  \/ history' = <<>> /\ arrivals' = <<>>
                  \/ \E req \in Requests : ServeMock(req)
  BY DEF MockStep, AddMock, DeleteMock, DeleteAllMocks, DeleteHistory
<1>2. RuleStep \/ RecordingStep => UNCHANGED historyVars
  BY DEF RuleStep, CreateForwardingRule, CreateProxyRule, DeleteForwardingRule,
     DeleteProxyRule, DeleteAllForwardingRules, DeleteAllProxyRules,
     RecordingStep, CreateRecording, DeleteRecording, DeleteAllRecordings, Record
<1>3. ASSUME NEW c \in Callers, CallerStep(c)
      PROVE  UNCHANGED historyVars \/ (history' = <<>> /\ arrivals' = <<>>)
  BY <1>3 DEF CallerStep, BeginReset, ResetHistory, ResetForwardingRules,
     ResetProxyRules, ResetRecordings, BeginLoad, LoadNext, LoadFails
<1>4. QED
  BY <1>1, <1>2, <1>3 DEF Next, vars

\* History: it is always the most recent HistoryLimit + 1 requests since the
\* last clear, in order, so its length is bounded for every limit.
THEOREM HistoryKeepsLatest == Spec => []HistoryIsSuffix
<1>1. Init => HistoryIsSuffix
  BY DataAssumption DEF Init, HistoryIsSuffix
<1>2. TypeOK /\ HistoryIsSuffix /\ [Next]_vars => HistoryIsSuffix'
  <2> SUFFICES ASSUME TypeOK, HistoryIsSuffix, [Next]_vars PROVE HistoryIsSuffix'
    OBVIOUS
  <2>1. CASE UNCHANGED historyVars
    BY <2>1 DEF historyVars, HistoryIsSuffix
  <2>2. CASE history' = <<>> /\ arrivals' = <<>>
    BY <2>2, DataAssumption DEF HistoryIsSuffix
  <2>3. QED
    BY <2>1, <2>2, HistoryEffect, HistoryServed
<1>3. QED
  BY <1>1, <1>2, TypeCorrect, PTL DEF Spec

-------------------------------------------------------------------------------
\* Playback.  The order of the ids a call has collected needs them to be below
\* the counter: the next one is above them all.
Loaded(c) ==
    \A n \in 1..Len(load[c].ids) :
        /\ load[c].ids[n] \in Nat /\ load[c].ids[n] < nextMockId
        /\ \A m \in 1..(n - 1) : load[c].ids[m] < load[c].ids[n]
        /\ load[c].ids[n] \in DOMAIN mocks =>
              mocks[load[c].ids[n]].requirements = load[c].file[n]

LoadInv == \A c \in Callers : Loaded(c)

\* A caller that loads nothing in this step.
LEMMA LoadedKept ==
    ASSUME TypeOK, [Next]_vars, NEW c \in Callers, Loaded(c), load'[c] = load[c]
    PROVE  Loaded(c)'
<1>1. nextMockId \in Nat /\ nextMockId' \in Nat /\ nextMockId <= nextMockId'
  BY MockTableStep DEF TypeOK, TableStep
<1>2. ASSUME NEW i \in Nat, i < nextMockId, i \in DOMAIN mocks'
      PROVE  i \in DOMAIN mocks /\ mocks'[i].requirements = mocks[i].requirements
  BY <1>1, <1>2, MockTableStep DEF TableStep
<1>3. ASSUME NEW n \in 1..Len(load[c].ids)
      PROVE  /\ load[c].ids[n] \in Nat /\ load[c].ids[n] < nextMockId'
             /\ \A m \in 1..(n - 1) : load[c].ids[m] < load[c].ids[n]
             /\ load[c].ids[n] \in DOMAIN mocks' =>
                   mocks'[load[c].ids[n]].requirements = load[c].file[n]
  <2>1. load[c].ids[n] \in Nat /\ load[c].ids[n] < nextMockId
    BY DEF Loaded
  <2>2. load[c].ids[n] < nextMockId'
    BY <1>1, <2>1
  <2>3. QED
    BY <1>2, <2>1, <2>2 DEF Loaded
<1>4. QED
  BY <1>3 DEF Loaded

\* The entry that is added is the next one of the file.
LEMMA LoadedNext ==
    ASSUME TypeOK, NEW c \in Callers, Loaded(c), LoadNext(c)
    PROVE  Loaded(c)'
<1> DEFINE ids == load[c].ids
<1>1. /\ ids \in Seq(Nat) /\ Len(ids) \in Nat
      /\ nextMockId \in Nat /\ nextMockId' = nextMockId + 1
      /\ load[c] \in [file: Files \cup {<<>>}, ids: Seq(Nat)]
      /\ load \in [Callers -> [file: Files \cup {<<>>}, ids: Seq(Nat)]]
  BY DEF TypeOK, LoadNext, InsertMock
<1>2. load'[c].file = load[c].file /\ load'[c].ids = Append(ids, nextMockId)
  BY <1>1 DEF LoadNext
<1>3. /\ Len(load'[c].ids) = Len(ids) + 1
      /\ load'[c].ids[Len(ids) + 1] = nextMockId
      /\ \A n \in 1..Len(ids) : load'[c].ids[n] = ids[n]
  BY <1>1, <1>2
<1>4. /\ DOMAIN mocks' = DOMAIN mocks \cup {nextMockId}
      /\ mocks'[nextMockId].requirements = load[c].file[Len(ids) + 1]
      /\ \A i \in DOMAIN mocks : i # nextMockId => mocks'[i] = mocks[i]
  BY DEF LoadNext, InsertMock, Put
<1>5. \A n \in 1..Len(ids) : ids[n] \in Nat /\ ids[n] < nextMockId
  BY DEF Loaded
<1>6. ASSUME NEW n \in 1..Len(ids)
      PROVE  /\ load'[c].ids[n] \in Nat /\ load'[c].ids[n] < nextMockId'
             /\ \A m \in 1..(n - 1) : load'[c].ids[m] < load'[c].ids[n]
             /\ load'[c].ids[n] \in DOMAIN mocks' =>
                   mocks'[load'[c].ids[n]].requirements = load'[c].file[n]
  <2>1. ids[n] \in Nat /\ ids[n] < nextMockId /\ ids[n] # nextMockId
    BY <1>1, <1>5
  <2>2. \A m \in 1..(n - 1) : m \in 1..Len(ids) /\ ids[m] < ids[n]
    BY <1>1 DEF Loaded
  <2>3. ids[n] \in DOMAIN mocks => mocks[ids[n]].requirements = load[c].file[n]
    BY DEF Loaded
  <2>4. ids[n] \in DOMAIN mocks' => mocks'[ids[n]].requirements = load[c].file[n]
    BY <1>4, <2>1, <2>3
  <2>5. ids[n] < nextMockId'
    BY <1>1, <2>1
  <2>6. QED
    BY <1>2, <1>3, <2>1, <2>2, <2>4, <2>5
<1>7. /\ nextMockId \in Nat /\ nextMockId < nextMockId'
      /\ \A m \in 1..((Len(ids) + 1) - 1) : load'[c].ids[m] < nextMockId
      /\ mocks'[nextMockId].requirements = load'[c].file[Len(ids) + 1]
  BY <1>1, <1>2, <1>3, <1>4, <1>5
<1>8. 1..Len(load'[c].ids) = (1..Len(ids)) \cup {Len(ids) + 1}
  BY <1>1, <1>3
<1>9. QED
  <2> HIDE DEF ids
  <2>1. QED
    BY <1>3, <1>6, <1>7, <1>8 DEF Loaded

LEMMA LoadChanges ==
    ASSUME TypeOK, [Next]_vars, NEW c \in Callers
    PROVE  \/ load'[c] = load[c]
           \/ load'[c].ids = <<>>
           \/ LoadNext(c)
<1> USE DEF callerVars
<1>1. MockStep \/ RuleStep \/ RecordingStep => UNCHANGED load
  BY DEF MockStep, AddMock, DeleteMock, DeleteAllMocks, DeleteHistory, ServeMock,
     RuleStep, CreateForwardingRule, CreateProxyRule, DeleteForwardingRule,
     DeleteProxyRule, DeleteAllForwardingRules, DeleteAllProxyRules,
     RecordingStep, CreateRecording, DeleteRecording, DeleteAllRecordings, Record
<1>2. ASSUME NEW d \in Callers, CallerStep(d)
      PROVE  load'[c] = load[c] \/ load'[c].ids = <<>> \/ LoadNext(c)
  BY <1>2 DEF TypeOK, CallerStep, BeginReset, ResetHistory, ResetForwardingRules,
     ResetProxyRules, ResetRecordings, BeginLoad, LoadNext, LoadFails
<1>3. UNCHANGED vars => UNCHANGED load
  BY DEF vars
<1>4. QED
  BY <1>1, <1>2, <1>3 DEF Next

\* Playback: the ids a load has collected are those of the file's entries, in
\* the order of the file, however the other callers' calls fall between its
\* additions.
THEOREM PlaybackKeepsOrder == Spec => []LoadInFileOrder
<1>1. Init => LoadInv
  BY DEF Init, LoadInv, Loaded
<1>2. TypeOK /\ LoadInv /\ [Next]_vars => LoadInv'
  <2> SUFFICES ASSUME TypeOK, LoadInv, [Next]_vars, NEW c \in Callers PROVE Loaded(c)'
    BY DEF LoadInv
  <2>1. Loaded(c)
    BY DEF LoadInv
  <2>2. CASE load'[c].ids = <<>>
    BY <2>2 DEF Loaded
  <2>3. QED
    BY <2>1, <2>2, LoadChanges, LoadedKept, LoadedNext
<1>3. LoadInv => LoadInFileOrder
  BY DEF LoadInv, Loaded, LoadInFileOrder
<1>4. QED
  BY <1>1, <1>2, <1>3, TypeCorrect, PTL DEF Spec
===============================================================================
