----------------------------- MODULE StateManager -----------------------------
(***************************************************************************)
(* The mock server's shared state, src/src/server/state.rs.  A Manager     *)
(* guards one Inner record with one mutex.  Every method that takes the    *)
(* mutex once is one action here; reset() and load_mocks_from_recording()  *)
(* take it several times, so they are several actions, and the other       *)
(* callers run in between.                                                 *)
(*                                                                         *)
(* Matching is abstract: a requirement is a value, and Matches[rr] is the  *)
(* set of requests that every matcher accepts for it.  A call that the     *)
(* code answers with an error or "not found" before it changes anything    *)
(* is no step of this module.                                              *)
(*                                                                         *)
(* An operator marked "wrong" is a bug the code does not have, named so    *)
(* that the model checker can show which property would catch it.          *)
(***************************************************************************)
EXTENDS Integers, Sequences, Functions

CONSTANTS
    Requests,          \* what a client can send
    Requirements,      \* values of RequestRequirements
    Matches,           \* requirement -> set of the requests it accepts
    BodyMethodInvalid, \* the requirements that ask for a body on GET or HEAD
    Malformed,         \* a file entry the conversion to MockDefinition rejects
    Responses,         \* what an upstream server or a mock can answer
    Opaque,            \* the responses with a header that is not visible ASCII
    HistoryLimit,      \* Inner::history_limit
    StaticMocks,       \* requirements of the mocks loaded at start-up, in order
    Files,             \* contents of recording files that can be played back
    Callers            \* threads that run the methods with several sections

CONSTANTS              \* bounds of the model, not of the code
    MaxMocks, MaxRules, MaxRecordings, MaxCalls, MaxArrivals, MaxRecorded

ASSUME DataAssumption ==
    /\ Matches \in [Requirements -> SUBSET Requests]
    /\ BodyMethodInvalid \subseteq Requirements
    /\ Malformed \notin Requirements
    /\ Opaque \subseteq Responses
    /\ HistoryLimit \in Nat
    /\ StaticMocks \in Seq(Requirements \ BodyMethodInvalid)
    /\ Files \subseteq Seq(Requirements \cup {Malformed}) \ {<<>>}

ASSUME BoundAssumption ==
    /\ MaxMocks \in Nat /\ MaxRules \in Nat /\ MaxRecordings \in Nat
    /\ MaxCalls \in Nat /\ MaxArrivals \in Nat /\ MaxRecorded \in Nat

VARIABLES
    nextMockId, nextForwardingRuleId, nextProxyRuleId, nextRecordingId,
    mocks,             \* id -> registered mock
    history,           \* requests seen by serve_mock, oldest first
    forwardingRules,   \* id -> rule
    proxyRules,        \* id -> rule
    recordings,        \* id -> recording and what it has recorded
    phase,             \* caller -> the section it runs next
    load,              \* caller -> the file it plays back, the ids it got
    cut,               \* auxiliary: the id counters when a reset began
    arrivals           \* auxiliary: serve_mock's requests since the last clear

mockVars == <<nextMockId, mocks>>
ruleVars == <<nextForwardingRuleId, forwardingRules, nextProxyRuleId, proxyRules>>
recordingVars == <<nextRecordingId, recordings>>
historyVars == <<history, arrivals>>
callerVars == <<phase, load, cut>>
vars == <<mockVars, ruleVars, recordingVars, historyVars, callerVars>>

-------------------------------------------------------------------------------
Definitions == Requirements \cup {Malformed}

Mock == [requirements: Requirements, calls: Nat, isStatic: BOOLEAN]
Rule == [requirements: Requirements]
RecordedMock == [request: Requests, response: Responses, proxied: BOOLEAN]
Recording == [requirements: Requirements, mocks: Seq(RecordedMock)]

\* The sections of reset(), in order, after the one that deletes the mocks.
ResetSections == {"history", "forwarding", "proxy", "recordings"}
Phases == {"idle", "loading"} \cup ResetSections

Counters == [mocks: Nat, forwarding: Nat, proxy: Nat, recordings: Nat]

\* Inserting under a key, and removing a set of keys (BTreeMap insert, remove).
Put(table, id, value) ==
    [i \in DOMAIN table \cup {id} |-> IF i = id THEN value ELSE table[i]]
Without(table, ids) == Restrict(table, DOMAIN table \ ids)

\* request_matches over a table, and find() in the order of its keys: the set
\* holds the first match, or nothing.
Matching(table, req) ==
    {i \in DOMAIN table : req \in Matches[table[i].requirements]}
LastMatch(table, req) ==      \* wrong: the newest match
    {i \in Matching(table, req) : \A j \in Matching(table, req) : i >= j}
First(table, req) ==
    {i \in Matching(table, req) : \A j \in Matching(table, req) : i <= j}

EveryMock == DOMAIN mocks     \* wrong: static mocks are not spared
NonStatic == {i \in DOMAIN mocks : ~mocks[i].isStatic}

\* The history with a request appended, and the oldest entry dropped if need be.
LoggedEarly(req) ==           \* wrong: evicts one entry too soon
    Append(IF history # <<>> /\ Len(history) >= HistoryLimit THEN Tail(history) ELSE history, req)
Logged(req) ==
    Append(IF Len(history) > HistoryLimit THEN Tail(history) ELSE history, req)

-------------------------------------------------------------------------------
Init ==
    /\ nextMockId = Len(StaticMocks)
    /\ mocks = [i \in 0..(Len(StaticMocks) - 1) |->
                  [requirements |-> StaticMocks[i + 1], calls |-> 0, isStatic |-> TRUE]]
    /\ nextForwardingRuleId = 0 /\ forwardingRules = <<>>
    /\ nextProxyRuleId = 0 /\ proxyRules = <<>>
    /\ nextRecordingId = 0 /\ recordings = <<>>
    /\ history = <<>> /\ arrivals = <<>>
    /\ phase = [c \in Callers |-> "idle"]
    /\ load = [c \in Callers |-> [file |-> <<>>, ids |-> <<>>]]
    /\ cut = [c \in Callers |->
                [mocks |-> 0, forwarding |-> 0, proxy |-> 0, recordings |-> 0]]

-------------------------------------------------------------------------------
\* add_mock without its frame: load_mocks_from_recording() calls it too.
InsertUnchecked(rr) ==        \* wrong: adds what the conversion rejects
    /\ nextMockId < MaxMocks
    /\ mocks' = Put(mocks, nextMockId,
                    [requirements |-> rr, calls |-> 0, isStatic |-> FALSE])
    /\ nextMockId' = nextMockId + 1

InsertMock(rr) ==
    /\ rr \in Requirements \ BodyMethodInvalid
    /\ nextMockId < MaxMocks
    /\ mocks' = Put(mocks, nextMockId,
                    [requirements |-> rr, calls |-> 0, isStatic |-> FALSE])
    /\ nextMockId' = nextMockId + 1

AddMock(rr) ==
    /\ InsertMock(rr)
    /\ UNCHANGED <<ruleVars, recordingVars, historyVars, callerVars>>

DeleteMock(id) ==
    /\ id \in NonStatic
    /\ mocks' = Without(mocks, {id})
    /\ UNCHANGED <<nextMockId, ruleVars, recordingVars, historyVars, callerVars>>

DeleteAllMocks ==
    /\ mocks' = Without(mocks, NonStatic)
    /\ UNCHANGED <<nextMockId, ruleVars, recordingVars, historyVars, callerVars>>

DeleteHistory ==
    /\ history' = <<>> /\ arrivals' = <<>>
    /\ UNCHANGED <<mockVars, ruleVars, recordingVars, callerVars>>

CountEveryMatch(req) ==        \* wrong: counts for every mock that matches
    /\ Len(arrivals) < MaxArrivals
    /\ \A i \in Matching(mocks, req) : mocks[i].calls < MaxCalls
    /\ history' = Logged(req)
    /\ arrivals' = Append(arrivals, req)
    /\ mocks' = [i \in DOMAIN mocks |->
                   IF i \in Matching(mocks, req)
                   THEN [mocks[i] EXCEPT !.calls = @ + 1] ELSE mocks[i]]
    /\ UNCHANGED <<nextMockId, ruleVars, recordingVars, callerVars>>

\* serve_mock: the request is logged whether or not a mock matches it.
ServeMock(req) ==
    /\ Len(arrivals) < MaxArrivals
    /\ \A i \in First(mocks, req) : mocks[i].calls < MaxCalls
    /\ history' = Logged(req)
    /\ arrivals' = Append(arrivals, req)
    /\ mocks' = [i \in DOMAIN mocks |->
                   IF i \in First(mocks, req)
                   THEN [mocks[i] EXCEPT !.calls = @ + 1] ELSE mocks[i]]
    /\ UNCHANGED <<nextMockId, ruleVars, recordingVars, callerVars>>

CreateForwardingRule(rr) ==
    /\ nextForwardingRuleId < MaxRules
    /\ forwardingRules' = Put(forwardingRules, nextForwardingRuleId, [requirements |-> rr])
    /\ nextForwardingRuleId' = nextForwardingRuleId + 1
    /\ UNCHANGED <<nextProxyRuleId, proxyRules, mockVars, recordingVars, historyVars, callerVars>>

DeleteForwardingRule(id) ==
    /\ id \in DOMAIN forwardingRules
    /\ forwardingRules' = Without(forwardingRules, {id})
    /\ UNCHANGED <<nextForwardingRuleId, nextProxyRuleId, proxyRules,
                   mockVars, recordingVars, historyVars, callerVars>>

DeleteAllForwardingRules ==
    /\ forwardingRules' = <<>>
    /\ UNCHANGED <<nextForwardingRuleId, nextProxyRuleId, proxyRules,
                   mockVars, recordingVars, historyVars, callerVars>>

CreateProxyRule(rr) ==
    /\ nextProxyRuleId < MaxRules
    /\ proxyRules' = Put(proxyRules, nextProxyRuleId, [requirements |-> rr])
    /\ nextProxyRuleId' = nextProxyRuleId + 1
    /\ UNCHANGED <<nextForwardingRuleId, forwardingRules,
                   mockVars, recordingVars, historyVars, callerVars>>

DeleteProxyRule(id) ==
    /\ id \in DOMAIN proxyRules
    /\ proxyRules' = Without(proxyRules, {id})
    /\ UNCHANGED <<nextProxyRuleId, nextForwardingRuleId, forwardingRules,
                   mockVars, recordingVars, historyVars, callerVars>>

DeleteAllProxyRules ==
    /\ proxyRules' = <<>>
    /\ UNCHANGED <<nextProxyRuleId, nextForwardingRuleId, forwardingRules,
                   mockVars, recordingVars, historyVars, callerVars>>

CreateRecording(rr) ==
    /\ nextRecordingId < MaxRecordings
    /\ recordings' = Put(recordings, nextRecordingId, [requirements |-> rr, mocks |-> <<>>])
    /\ nextRecordingId' = nextRecordingId + 1
    /\ UNCHANGED <<mockVars, ruleVars, historyVars, callerVars>>

DeleteRecording(id) ==
    /\ id \in DOMAIN recordings
    /\ recordings' = Without(recordings, {id})
    /\ UNCHANGED <<nextRecordingId, mockVars, ruleVars, historyVars, callerVars>>

DeleteAllRecordings ==
    /\ recordings' = <<>>
    /\ UNCHANGED <<nextRecordingId, mockVars, ruleVars, historyVars, callerVars>>

\* record: every matching recording gets the exchange.  The response is only
\* converted, and only then can it be refused, when some recording matches.
Record(req, res, proxied) ==
    /\ Matching(recordings, req) # {}
    /\ res \notin Opaque
    /\ \A i \in Matching(recordings, req) : Len(recordings[i].mocks) < MaxRecorded
    /\ recordings' = [i \in DOMAIN recordings |->
          IF i \in Matching(recordings, req)
          THEN [recordings[i] EXCEPT !.mocks =
                  Append(@, [request |-> req, response |-> res, proxied |-> proxied])]
          ELSE recordings[i]]
    /\ UNCHANGED <<nextRecordingId, mockVars, ruleVars, historyVars, callerVars>>

-------------------------------------------------------------------------------
\* reset(): five critical sections, one per step.

BeginReset(c) ==
    /\ phase[c] = "idle"
    /\ mocks' = Without(mocks, NonStatic)
    /\ phase' = [phase EXCEPT ![c] = "history"]
    /\ cut' = [cut EXCEPT ![c] =
                 [mocks |-> nextMockId, forwarding |-> nextForwardingRuleId,
                  proxy |-> nextProxyRuleId, recordings |-> nextRecordingId]]
    /\ UNCHANGED <<nextMockId, ruleVars, recordingVars, historyVars, load>>

KeepHistory(c) ==              \* wrong: the section clears nothing
    /\ phase[c] = "history"
    /\ phase' = [phase EXCEPT ![c] = "forwarding"]
    /\ UNCHANGED <<mockVars, ruleVars, recordingVars, historyVars, load, cut>>

ResetHistory(c) ==
    /\ phase[c] = "history"
    /\ history' = <<>> /\ arrivals' = <<>>
    /\ phase' = [phase EXCEPT ![c] = "forwarding"]
    /\ UNCHANGED <<mockVars, ruleVars, recordingVars, load, cut>>

ResetForwardingRules(c) ==
    /\ phase[c] = "forwarding"
    /\ forwardingRules' = <<>>
    /\ phase' = [phase EXCEPT ![c] = "proxy"]
    /\ UNCHANGED <<nextForwardingRuleId, nextProxyRuleId, proxyRules,
                   mockVars, recordingVars, historyVars, load, cut>>

ForgetProxyRules(c) ==        \* wrong: the section clears nothing
    /\ phase[c] = "proxy"
    /\ phase' = [phase EXCEPT ![c] = "recordings"]
    /\ UNCHANGED <<mockVars, ruleVars, recordingVars, historyVars, load, cut>>

ResetProxyRules(c) ==
    /\ phase[c] = "proxy"
    /\ proxyRules' = <<>>
    /\ phase' = [phase EXCEPT ![c] = "recordings"]
    /\ UNCHANGED <<nextProxyRuleId, nextForwardingRuleId, forwardingRules,
                   mockVars, recordingVars, historyVars, load, cut>>

RestartRecordingIds(c) ==     \* wrong: starts the ids again
    /\ phase[c] = "recordings"
    /\ recordings' = <<>> /\ nextRecordingId' = 0
    /\ phase' = [phase EXCEPT ![c] = "idle"]
    /\ UNCHANGED <<mockVars, ruleVars, historyVars, load, cut>>

ResetRecordings(c) ==
    /\ phase[c] = "recordings"
    /\ recordings' = <<>>
    /\ phase' = [phase EXCEPT ![c] = "idle"]
    /\ UNCHANGED <<nextRecordingId, mockVars, ruleVars, historyVars, load, cut>>

\* load_mocks_from_recording(): the file is parsed as a whole, then each entry
\* is converted and added under its own lock.  The first bad entry ends the
\* call with an error, and the mocks added before it stay.

BeginLoad(c, file) ==
    /\ phase[c] = "idle"
    /\ phase' = [phase EXCEPT ![c] = "loading"]
    /\ load' = [load EXCEPT ![c] = [file |-> file, ids |-> <<>>]]
    /\ UNCHANGED <<mockVars, ruleVars, recordingVars, historyVars, cut>>

LoadBackwards(c) ==           \* wrong: takes the entries from the end
    /\ phase[c] = "loading"
    /\ LET n == Len(load[c].ids) + 1
       IN  /\ InsertMock(load[c].file[Len(load[c].file) + 1 - n])
           /\ load' = [load EXCEPT ![c].ids = Append(@, nextMockId)]
           /\ phase' = [phase EXCEPT ![c] =
                          IF n = Len(load[c].file) THEN "idle" ELSE "loading"]
    /\ UNCHANGED <<ruleVars, recordingVars, historyVars, cut>>

LoadNext(c) ==
    /\ phase[c] = "loading"
    /\ LET n == Len(load[c].ids) + 1
       IN  /\ InsertMock(load[c].file[n])
           /\ load' = [load EXCEPT ![c].ids = Append(@, nextMockId)]
           /\ phase' = [phase EXCEPT ![c] =
                          IF n = Len(load[c].file) THEN "idle" ELSE "loading"]
    /\ UNCHANGED <<ruleVars, recordingVars, historyVars, cut>>

LoadFails(c) ==
    /\ phase[c] = "loading"
    /\ load[c].file[Len(load[c].ids) + 1] \in BodyMethodInvalid \cup {Malformed}
    /\ phase' = [phase EXCEPT ![c] = "idle"]
    /\ UNCHANGED <<mockVars, ruleVars, recordingVars, historyVars, load, cut>>

-------------------------------------------------------------------------------
MockStep ==
    \/ \E rr \in Requirements : AddMock(rr)
    \/ \E id \in DOMAIN mocks : DeleteMock(id)
    \/ DeleteAllMocks
    \/ DeleteHistory
    \/ \E req \in Requests : ServeMock(req)

RuleStep ==
    \/ \E rr \in Requirements : CreateForwardingRule(rr) \/ CreateProxyRule(rr)
    \/ \E id \in DOMAIN forwardingRules : DeleteForwardingRule(id)
    \/ \E id \in DOMAIN proxyRules : DeleteProxyRule(id)
    \/ DeleteAllForwardingRules
    \/ DeleteAllProxyRules

RecordingStep ==
    \/ \E rr \in Requirements : CreateRecording(rr)
    \/ \E id \in DOMAIN recordings : DeleteRecording(id)
    \/ DeleteAllRecordings
    \/ \E req \in Requests, res \in Responses, p \in BOOLEAN : Record(req, res, p)

CallerStep(c) ==
    \/ BeginReset(c) \/ ResetHistory(c) \/ ResetForwardingRules(c)
    \/ ResetProxyRules(c) \/ ResetRecordings(c)
    \/ \E file \in Files : BeginLoad(c, file)
    \/ LoadNext(c) \/ LoadFails(c)

Next ==
    \/ MockStep
    \/ RuleStep
    \/ RecordingStep
    \/ \E c \in Callers : CallerStep(c)

Spec == Init /\ [][Next]_vars
-------------------------------------------------------------------------------
\* Every variable holds a value of its kind.
TypeOK ==
    /\ nextMockId \in Nat /\ nextForwardingRuleId \in Nat
    /\ nextProxyRuleId \in Nat /\ nextRecordingId \in Nat
    /\ mocks \in [DOMAIN mocks -> Mock]
    /\ forwardingRules \in [DOMAIN forwardingRules -> Rule]
    /\ proxyRules \in [DOMAIN proxyRules -> Rule]
    /\ recordings \in [DOMAIN recordings -> Recording]
    /\ history \in Seq(Requests) /\ arrivals \in Seq(Requests)
    /\ phase \in [Callers -> Phases]
    /\ load \in [Callers -> [file: Files \cup {<<>>}, ids: Seq(Nat)]]
    /\ cut \in [Callers -> Counters]

\* The history is the most recent HistoryLimit + 1 requests that reached
\* serve_mock since it was last cleared, in their order of arrival, whatever
\* the resets and evictions that happened in between.
HistoryIsSuffix ==
    /\ Len(history) = IF Len(arrivals) <= HistoryLimit
                      THEN Len(arrivals) ELSE HistoryLimit + 1
    /\ \A i \in 1..Len(history) :
          history[i] = arrivals[Len(arrivals) - Len(history) + i]

\* A reset removes everything that was registered when it began, although it
\* takes five critical sections and other callers add and delete in between:
\* no id handed out before the reset resolves once its section has run.
ResetSweeps ==
    \A c \in Callers :
        /\ \A i \in NonStatic : i >= cut[c].mocks
        /\ phase[c] \notin {"history", "forwarding"} =>
              \A i \in DOMAIN forwardingRules : i >= cut[c].forwarding
        /\ phase[c] \notin {"history", "forwarding", "proxy"} =>
              \A i \in DOMAIN proxyRules : i >= cut[c].proxy
        /\ phase[c] \notin ResetSections =>
              \A i \in DOMAIN recordings : i >= cut[c].recordings

\* The first defined mock takes precedence: a mock all of whose requests an
\* older registered mock also accepts is never the one that is called.
ShadowedNeverCounted ==
    \A i, j \in DOMAIN mocks :
        i < j /\ Matches[mocks[j].requirements] \subseteq Matches[mocks[i].requirements]
        => mocks[j].calls = 0

\* The mocks loaded at start-up survive every delete and every reset with their
\* counters, and stay the oldest: every mock a test creates or plays back comes
\* after them, so it never takes a request from one of them.
StaticMocksFirst ==
    /\ \A i \in 0..(Len(StaticMocks) - 1) :
          i \in DOMAIN mocks /\ mocks[i].requirements = StaticMocks[i + 1]
    /\ \A i \in DOMAIN mocks : mocks[i].isStatic <=> i < Len(StaticMocks)

StaticMocksStay ==
    [][ /\ StaticMocksFirst'
        /\ \A i \in 0..(Len(StaticMocks) - 1) : mocks'[i].calls >= mocks[i].calls
      ]_vars

\* A played back file gives mocks in the order of the file, so precedence among
\* them is what the recording says, even when other callers add mocks meanwhile;
\* the n-th id the call returns is the mock of the n-th entry.
LoadInFileOrder ==
    \A c \in Callers :
        \A n \in 1..Len(load[c].ids) :
            /\ \A m \in 1..(n - 1) : load[c].ids[m] < load[c].ids[n]
            /\ load[c].ids[n] \in DOMAIN mocks =>
                  mocks[load[c].ids[n]].requirements = load[c].file[n]

\* An id means one thing for ever: what is registered under it does not change,
\* its counter and its recorded mocks only grow, and an id that is gone does not
\* appear again, since the counters only grow and new ids come from them.
SameHandle(old, new, next, nextNew) ==
    /\ next <= nextNew
    /\ \A i \in DOMAIN new \ DOMAIN old : next <= i /\ i < nextNew
    /\ \A i \in DOMAIN new \cap DOMAIN old :
          new[i].requirements = old[i].requirements

HandlesStable ==
    [][ /\ SameHandle(mocks, mocks', nextMockId, nextMockId')
        /\ SameHandle(forwardingRules, forwardingRules',
                      nextForwardingRuleId, nextForwardingRuleId')
        /\ SameHandle(proxyRules, proxyRules', nextProxyRuleId, nextProxyRuleId')
        /\ SameHandle(recordings, recordings', nextRecordingId, nextRecordingId')
        /\ \A i \in DOMAIN mocks \cap DOMAIN mocks' : mocks'[i].calls >= mocks[i].calls
        /\ \A i \in DOMAIN recordings \cap DOMAIN recordings' :
              Len(recordings'[i].mocks) >= Len(recordings[i].mocks)
      ]_vars

===============================================================================
