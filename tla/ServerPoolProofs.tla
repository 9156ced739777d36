--------------------------- MODULE ServerPoolProofs ---------------------------
(***************************************************************************)
(* The pools of servers, for every number of tests, servers and retries:   *)
(* a server has one owner, and a test finds on it nothing of earlier tests *)
(* but the requests that were in flight when it was reset.                 *)
(***************************************************************************)
EXTENDS ServerPool, TLAPS

-------------------------------------------------------------------------------
\* Typing.

LEMMA InitType == Init => TypeOK
BY PoolAssumption DEF Init, TypeOK, Stages

LEMMA StartEndType ==
    ASSUME TypeOK, NEW t \in Tests, Start(t) \/ End(t) \/ Finish(t)
    PROVE  TypeOK'
BY DEF TypeOK, Stages, Start, End, Finish, GoTo, poolVars, serverVars, requestVars

LEMMA ObtainType ==
    ASSUME TypeOK, NEW t \in Tests, NEW s \in Servers, TakeFree(t, s) \/ Create(t, s)
    PROVE  TypeOK'
<1>1. free' \subseteq Servers /\ created' \subseteq Servers
  BY PoolAssumption DEF TypeOK, TakeFree, Create
<1>3. Take(t, s)
  BY DEF TakeFree, Create
<1>4. /\ holds' \in [Tests -> SUBSET Servers] /\ stage' \in [Tests -> Stages]
      /\ starting' \in [Tests -> Servers \cup {None}]
  BY <1>3 DEF TypeOK, Take, GoTo, Stages
<1>5. attempts' \in [Tests -> 0..Retries]
  BY <1>3, PoolAssumption DEF TypeOK, Take
<1>6. QED
  BY <1>1, <1>3, <1>4, <1>5 DEF TypeOK, Take, serverVars, requestVars

LEMMA WipeType ==
    ASSUME TypeOK, NEW s \in Servers \cup {None}, Wipe(s)
    PROVE  /\ mocks' \in [Servers -> SUBSET Tests] /\ log' \in [Servers -> SUBSET Tests]
           /\ late' \in [Servers -> SUBSET Tests]
BY DEF TypeOK, Wipe

LEMMA SettleType ==
    ASSUME TypeOK, NEW t \in Tests, Settle(t)
    PROVE  TypeOK'
<1>1. starting[t] \in Servers \cup {None}
  BY DEF TypeOK
<1>2. /\ mocks' \in [Servers -> SUBSET Tests] /\ log' \in [Servers -> SUBSET Tests]
      /\ late' \in [Servers -> SUBSET Tests]
  <2>1. CASE Wipe(starting[t])
    BY <1>1, <2>1, WipeType
  <2>2. CASE UNCHANGED <<mocks, log, late>>
    BY <2>2 DEF TypeOK
  <2>3. QED
    BY <2>1, <2>2 DEF Settle, Reset, ResetFails
<1>3. UNCHANGED <<poolVars, poisoned, requestVars>>
  BY DEF Settle, Reset, ResetFails
<1>4. stage' \in [Tests -> Stages] /\ starting' \in [Tests -> Servers \cup {None}]
  BY DEF Settle, Reset, ResetFails, TypeOK, GoTo, Stages
<1>5. attempts' \in [Tests -> 0..Retries]
  <2>1. CASE UNCHANGED attempts
    BY <2>1 DEF TypeOK
  <2>2. CASE attempts[t] < Retries /\ attempts' = [attempts EXCEPT ![t] = @ + 1]
    <3>1. attempts[t] + 1 \in 0..Retries
      BY <2>2, PoolAssumption DEF TypeOK
    <3>2. QED
      BY <2>2, <3>1 DEF TypeOK
  <2>3. QED
    BY <2>1, <2>2 DEF Settle, Reset, ResetFails
<1>6. QED
  BY <1>2, <1>3, <1>4, <1>5 DEF TypeOK, poolVars, requestVars

LEMMA WorkType ==
    ASSUME TypeOK, NEW t \in Tests, NEW s \in Servers,
           AddMock(t, s) \/ Send(t, s) \/ PanicWhileVerifying(t, s)
    PROVE  TypeOK'
<1>1. CASE AddMock(t, s)
  BY <1>1 DEF AddMock, TypeOK, poolVars, testVars, requestVars
<1>2. CASE Send(t, s)
  <2>1. sent[t] + 1 \in 0..MaxRequests
    BY <1>2, PoolAssumption DEF Send, TypeOK
  <2>2. sent' \in [Tests -> 0..MaxRequests]
    BY <1>2, <2>1 DEF Send, TypeOK
  <2>3. QED
    BY <1>2, <2>2 DEF Send, TypeOK, poolVars, testVars, serverVars
<1>3. CASE PanicWhileVerifying(t, s)
  BY <1>3 DEF PanicWhileVerifying, GoTo, TypeOK, Stages, poolVars, requestVars
<1>4. QED
  BY <1>1, <1>2, <1>3

LEMMA HandleType ==
    ASSUME TypeOK, NEW t \in Tests, NEW s \in Servers,
           Serve(t, s) \/ PanicWhileMatching(t, s)
    PROVE  TypeOK'
BY DEF Serve, PanicWhileMatching, TypeOK, poolVars, testVars

LEMMA PutBackType ==
    ASSUME TypeOK, NEW t \in Tests, NEW s \in Servers, PutBack(t, s)
    PROVE  TypeOK'
BY DEF PutBack, TypeOK, testVars, serverVars, requestVars

LEMMA NextType == TypeOK /\ [Next]_vars => TypeOK'
<1> SUFFICES ASSUME TypeOK, [Next]_vars PROVE TypeOK'
  OBVIOUS
<1>1. ASSUME NEW t \in Tests, Obtain(t) PROVE TypeOK'
  BY <1>1, ObtainType DEF Obtain
<1>2. ASSUME NEW t \in Tests, Settle(t) PROVE TypeOK'
  BY <1>2, SettleType
<1>3. ASSUME NEW t \in Tests, Work(t) PROVE TypeOK'
  BY <1>3, WorkType DEF Work
<1>4. ASSUME NEW t \in Tests, Handle(t) PROVE TypeOK'
  BY <1>4, HandleType DEF Handle
<1>5. ASSUME NEW t \in Tests, Start(t) \/ End(t) \/ Leave(t) PROVE TypeOK'
  BY <1>5, StartEndType, PutBackType DEF Leave
<1>6. CASE UNCHANGED vars
  BY <1>6 DEF TypeOK, vars, poolVars, testVars, serverVars, requestVars
<1>7. QED
  BY <1>1, <1>2, <1>3, <1>4, <1>5, <1>6 DEF Next, AllOver

\* Every value stays of its kind: in particular no reset is tried more often than
\* with_retry allows.
THEOREM PoolTypeCorrect == Spec => []TypeOK
BY InitType, NextType, PTL DEF Spec

-------------------------------------------------------------------------------
\* One owner for each server.

LEMMA InitLease == Init => LeaseExclusive
BY DEF Init, LeaseExclusive

\* The parts of the invariant, one by one.
OneOwner == \A s \in Servers : \A t, u \in Tests : s \in holds[t] /\ s \in holds[u] => t = u
NotInPool == \A s \in Servers : \A t \in Tests : s \in holds[t] => s \notin free
NoneLost == \A s : s \in created <=> s \in free \/ \E t \in Tests : s \in holds[t]

LEMMA LeaseParts ==
    /\ LeaseExclusive <=> OneOwner /\ NotInPool /\ NoneLost
    /\ LeaseExclusive' <=> OneOwner' /\ NotInPool' /\ NoneLost'
BY DEF LeaseExclusive, OneOwner, NotInPool, NoneLost

LEMMA ObtainLease ==
    ASSUME TypeOK, LeaseExclusive, NEW t \in Tests, NEW s \in Servers,
           TakeFree(t, s) \/ Create(t, s)
    PROVE  LeaseExclusive'
<1>1. holds' = [holds EXCEPT ![t] = @ \cup {s}]
  BY DEF TakeFree, Create, Take
<1>2. \A u \in Tests : holds'[u] = IF u = t THEN holds[u] \cup {s} ELSE holds[u]
  BY <1>1 DEF TypeOK
<1>3. \A u \in Tests : s \notin holds[u]
  BY LeaseParts DEF TakeFree, Create, NotInPool, NoneLost
<1>4. free' = free \ {s} /\ created' = created \cup {s}
  BY LeaseParts DEF TakeFree, Create, NoneLost
<1>5. OneOwner'
  <2>1. OneOwner
    BY LeaseParts
  <2>2. SUFFICES ASSUME NEW r \in Servers, NEW u \in Tests, NEW w \in Tests,
                        r \in holds'[u], r \in holds'[w]
                 PROVE  u = w
    BY DEF OneOwner
  <2>3. CASE r = s
    BY <1>2, <1>3, <2>2, <2>3
  <2>4. CASE r # s
    BY <1>2, <2>1, <2>2, <2>4 DEF OneOwner
  <2>5. QED
    BY <2>3, <2>4
<1>6. NotInPool'
  BY <1>2, <1>4, LeaseParts DEF NotInPool
<1>7. NoneLost'
  BY <1>2, <1>4, LeaseParts DEF NoneLost
<1>8. QED
  BY <1>5, <1>6, <1>7, LeaseParts

LEMMA PutBackLease ==
    ASSUME TypeOK, LeaseExclusive, NEW t \in Tests, NEW s \in Servers, PutBack(t, s)
    PROVE  LeaseExclusive'
<1>1. \A u \in Tests : holds'[u] = IF u = t THEN holds[u] \ {s} ELSE holds[u]
  BY DEF PutBack, TypeOK
<1>2. /\ free' = free \cup {s} /\ created' = created
      /\ s \in holds[t]
  BY DEF PutBack
<1>3. OneOwner'
  BY <1>1, LeaseParts DEF OneOwner
<1>4. NotInPool'
  BY <1>1, <1>2, LeaseParts DEF OneOwner, NotInPool
<1>5. NoneLost'
  BY <1>1, <1>2, LeaseParts DEF NoneLost
<1>6. QED
  BY <1>3, <1>4, <1>5, LeaseParts

LEMMA NextLease == TypeOK /\ LeaseExclusive /\ [Next]_vars => LeaseExclusive'
<1> SUFFICES ASSUME TypeOK, LeaseExclusive, [Next]_vars PROVE LeaseExclusive'
  OBVIOUS
<1>1. ASSUME UNCHANGED <<free, created, holds>> PROVE LeaseExclusive'
  BY <1>1 DEF LeaseExclusive
<1>2. ASSUME NEW t \in Tests, Obtain(t) PROVE LeaseExclusive'
  BY <1>2, ObtainLease DEF Obtain
<1>3. ASSUME NEW t \in Tests, NEW s \in Servers, PutBack(t, s) PROVE LeaseExclusive'
  BY <1>3, PutBackLease
<1>4. ASSUME NEW t \in Tests, Start(t) \/ End(t) \/ Finish(t)
      PROVE  LeaseExclusive'
  BY <1>1, <1>4 DEF Start, End, Finish, poolVars
<1>5. ASSUME NEW t \in Tests, Settle(t) \/ Work(t) \/ Handle(t)
      PROVE  LeaseExclusive'
  BY <1>1, <1>5 DEF Settle, Reset, ResetFails, Work, AddMock, Send, PanicWhileVerifying,
                    Handle, Serve, PanicWhileMatching, poolVars
<1>6. CASE UNCHANGED vars
  BY <1>1, <1>6 DEF vars, poolVars
<1>7. QED
  BY <1>2, <1>3, <1>4, <1>5, <1>6 DEF Next, Leave, AllOver

\* No server is ever shared, in the pool while in use, or lost, however many tests
\* take, fail to reset and give back how many servers.
THEOREM LeasesStayExclusive == Spec => []LeaseExclusive
BY InitType, NextType, InitLease, NextLease, PTL DEF Spec

-------------------------------------------------------------------------------
\* What a test finds on its servers.  Also while it waits for another server, and
\* resets that one, the servers it has keep only what is its own or was late.

Usable(t) ==
    IF stage[t] \in {"ready", "waiting", "resetting"} THEN holds[t] \ {starting[t]} ELSE {}

Clean ==
    \A t \in Tests : \A s \in Usable(t) :
        /\ mocks[s] \subseteq {t}
        /\ log[s] \subseteq {t} \cup late[s]
        /\ \A u \in Tests : <<u, s>> \in inFlight => u \in {t} \cup late[s]

\* A test that resets a server holds it.
StartingHeld ==
    \A t \in Tests : IF stage[t] = "resetting" THEN starting[t] \in holds[t]
                                               ELSE starting[t] = None

PoolInv == TypeOK /\ LeaseExclusive /\ StartingHeld /\ Clean

LEMMA InitPool == Init => StartingHeld /\ Clean
BY DEF Init, StartingHeld, Clean, Usable

LEMMA NextStarting == PoolInv /\ [Next]_vars => StartingHeld'
<1> SUFFICES ASSUME PoolInv, [Next]_vars PROVE StartingHeld'
  OBVIOUS
<1> USE DEF PoolInv, StartingHeld, TypeOK, GoTo
<1>1. ASSUME NEW t \in Tests, Start(t) \/ End(t) \/ Finish(t) PROVE StartingHeld'
  BY <1>1 DEF Start, End, Finish, poolVars
<1>2. ASSUME NEW t \in Tests, Obtain(t) PROVE StartingHeld'
  BY <1>2 DEF Obtain, TakeFree, Create, Take
<1>3. ASSUME NEW t \in Tests, Settle(t) PROVE StartingHeld'
  BY <1>3 DEF Settle, Reset, ResetFails, poolVars
<1>4. ASSUME NEW t \in Tests, Work(t) \/ Handle(t) PROVE StartingHeld'
  <2>1. CASE UNCHANGED <<holds, stage, starting>>
    BY <2>1
  <2>2. ASSUME NEW s \in Servers, PanicWhileVerifying(t, s) PROVE StartingHeld'
    BY <2>2 DEF PanicWhileVerifying, Using, poolVars
  <2>3. QED
    BY <1>4, <2>1, <2>2 DEF Work, AddMock, Send, Handle, Serve, PanicWhileMatching,
                            poolVars, testVars
<1>5. ASSUME NEW t \in Tests, NEW s \in Servers, PutBack(t, s) PROVE StartingHeld'
  BY <1>5 DEF PutBack, testVars
<1>6. CASE UNCHANGED vars
  BY <1>6 DEF vars, poolVars, testVars
<1>7. QED
  BY <1>1, <1>2, <1>3, <1>4, <1>5, <1>6 DEF Next, Leave, AllOver

\* A step that leaves the servers alone keeps them clean if no test comes to use
\* one it could not use before.
LEMMA FewerUsable ==
    ASSUME Clean, UNCHANGED <<mocks, log, late, inFlight>>,
           \A t \in Tests : Usable(t)' \subseteq Usable(t)
    PROVE  Clean'
BY DEF Clean

LEMMA WipeClean ==
    ASSUME PoolInv, NEW t \in Tests, NEW s \in Servers, s \in holds[t], Wipe(s),
           UNCHANGED inFlight, \A u \in Tests : s \notin Usable(u),
           \A u \in Tests : Usable(u)' \subseteq Usable(u) \cup (IF u = t THEN {s} ELSE {})
    PROVE  Clean'
<1>1. /\ mocks'[s] = {} /\ log'[s] = {}
      /\ late'[s] = {u \in Tests : <<u, s>> \in inFlight}
  BY DEF PoolInv, TypeOK, Wipe
<1>2. \A r \in Servers \ {s} : mocks'[r] = mocks[r] /\ log'[r] = log[r] /\ late'[r] = late[r]
  BY DEF PoolInv, TypeOK, Wipe
<1>3. \A u \in Tests : Usable(u) \subseteq Servers
  BY DEF PoolInv, TypeOK, Usable
<1> SUFFICES ASSUME NEW u \in Tests, NEW r \in Usable(u)'
             PROVE  /\ mocks'[r] \subseteq {u} /\ log'[r] \subseteq {u} \cup late'[r]
                    /\ \A w \in Tests : <<w, r>> \in inFlight' => w \in {u} \cup late'[r]
  BY DEF Clean
<1>4. CASE r = s
  BY <1>1, <1>4
<1>5. CASE r # s
  <2>1. r \in Usable(u) /\ r \in Servers \ {s}
    BY <1>3, <1>5
  <2>2. QED
    BY <1>2, <2>1 DEF PoolInv, Clean
<1>6. QED
  BY <1>4, <1>5

LEMMA SettleClean ==
    ASSUME PoolInv, NEW t \in Tests, Settle(t)
    PROVE  Clean'
<1> DEFINE s == starting[t]
<1>1. s \in holds[t] /\ s \in Servers /\ stage[t] = "resetting"
  BY DEF PoolInv, StartingHeld, TypeOK, Settle, Reset, ResetFails
<1>2. \A u \in Tests : s \notin Usable(u)
  BY <1>1 DEF PoolInv, LeaseExclusive, Usable
<1>3. \A u \in Tests : Usable(u)' \subseteq Usable(u) \cup (IF u = t THEN {s} ELSE {})
  BY <1>1 DEF PoolInv, TypeOK, Usable, Settle, Reset, ResetFails, GoTo, poolVars
<1>4. CASE Wipe(s)
  BY <1>1, <1>2, <1>3, <1>4, WipeClean DEF Settle, Reset, ResetFails, requestVars
<1>5. CASE ResetFails(t) /\ UNCHANGED <<mocks, log, late>>
  <2>1. \A u \in Tests : Usable(u)' \subseteq Usable(u)
    BY <1>1, <1>5 DEF PoolInv, TypeOK, Usable, ResetFails, GoTo, poolVars
  <2>2. QED
    BY <1>5, <2>1, FewerUsable DEF PoolInv, ResetFails, requestVars
<1>6. QED
  BY <1>4, <1>5 DEF Settle, Reset, ResetFails

LEMMA ObtainClean ==
    ASSUME PoolInv, NEW t \in Tests, NEW s \in Servers, TakeFree(t, s) \/ Create(t, s)
    PROVE  Clean'
<1>1. Take(t, s) /\ stage[t] = "waiting"
  BY DEF TakeFree, Create
<1>2. \A u \in Tests : Usable(u)' \subseteq Usable(u)
  BY <1>1, PoolAssumption DEF PoolInv, StartingHeld, TypeOK, Take, GoTo, Usable
<1>3. QED
  BY <1>1, <1>2, FewerUsable DEF PoolInv, Take, serverVars, requestVars

LEMMA WorkClean ==
    ASSUME PoolInv, NEW t \in Tests, NEW s \in Servers,
           AddMock(t, s) \/ Send(t, s) \/ PanicWhileVerifying(t, s)
    PROVE  Clean'
<1>1. Using(t, s)
  BY DEF AddMock, Send, PanicWhileVerifying
<1>2. \A u \in Tests : s \in Usable(u) => u = t
  BY <1>1 DEF PoolInv, LeaseExclusive, Usable, Using
<1>3. \A u \in Tests : Usable(u)' \subseteq Usable(u)
  BY DEF PoolInv, TypeOK, Usable, AddMock, Send, PanicWhileVerifying, GoTo, poolVars, testVars
<1>4. \A u \in Tests : Usable(u) \subseteq Servers
  BY DEF PoolInv, TypeOK, Usable
<1>5. UNCHANGED <<log, late>>
  BY DEF AddMock, Send, PanicWhileVerifying, serverVars
<1>6. \A r \in Servers : mocks'[r] \subseteq mocks[r] \cup (IF r = s THEN {t} ELSE {})
  BY DEF PoolInv, TypeOK, AddMock, Send, PanicWhileVerifying, serverVars
<1>7. inFlight' \subseteq inFlight \cup {<<t, s>>}
  BY DEF AddMock, Send, PanicWhileVerifying, requestVars
<1> SUFFICES ASSUME NEW u \in Tests, NEW r \in Usable(u)'
             PROVE  /\ mocks'[r] \subseteq {u} /\ log'[r] \subseteq {u} \cup late'[r]
                    /\ \A w \in Tests : <<w, r>> \in inFlight' => w \in {u} \cup late'[r]
  BY DEF Clean
<1>8. r \in Usable(u) /\ r \in Servers
  BY <1>3, <1>4
<1>9. /\ mocks[r] \subseteq {u} /\ log[r] \subseteq {u} \cup late[r]
      /\ \A w \in Tests : <<w, r>> \in inFlight => w \in {u} \cup late[r]
  BY <1>8 DEF PoolInv, Clean
<1>10. mocks'[r] \subseteq {u}
  BY <1>2, <1>6, <1>8, <1>9
<1>11. ASSUME NEW w \in Tests, <<w, r>> \in inFlight'
       PROVE  w \in {u} \cup late'[r]
  BY <1>2, <1>5, <1>7, <1>8, <1>9, <1>11
<1>12. QED
  BY <1>5, <1>9, <1>10, <1>11

LEMMA HandleClean ==
    ASSUME PoolInv, NEW t \in Tests, NEW s \in Servers,
           Serve(t, s) \/ PanicWhileMatching(t, s)
    PROVE  Clean'
<1>1. <<t, s>> \in inFlight /\ inFlight' \subseteq inFlight
  BY DEF Serve, PanicWhileMatching
<1>2. UNCHANGED <<mocks, late, holds, stage, starting>>
  BY DEF Serve, PanicWhileMatching, poolVars, testVars
<1>3. \A r \in Servers : log'[r] \subseteq log[r] \cup (IF r = s THEN {t} ELSE {})
  BY DEF PoolInv, TypeOK, Serve, PanicWhileMatching
<1> SUFFICES ASSUME NEW u \in Tests, NEW r \in Usable(u)'
             PROVE  /\ mocks'[r] \subseteq {u} /\ log'[r] \subseteq {u} \cup late'[r]
                    /\ \A w \in Tests : <<w, r>> \in inFlight' => w \in {u} \cup late'[r]
  BY DEF Clean
<1>4. r \in Usable(u) /\ r \in Servers
  BY <1>2 DEF PoolInv, TypeOK, Usable
<1>5. QED
  BY <1>1, <1>2, <1>3, <1>4 DEF PoolInv, Clean

LEMMA NextClean == PoolInv /\ [Next]_vars => Clean'
<1> SUFFICES ASSUME PoolInv, [Next]_vars PROVE Clean'
  OBVIOUS
<1>1. ASSUME NEW t \in Tests, Start(t) \/ End(t) \/ Finish(t) PROVE Clean'
  <2>1. \A u \in Tests : Usable(u)' \subseteq Usable(u)
    BY <1>1 DEF PoolInv, TypeOK, Start, End, Finish, GoTo, Usable, poolVars
  <2>2. QED
    BY <1>1, <2>1, FewerUsable DEF PoolInv, Start, End, Finish, serverVars, requestVars
<1>2. ASSUME NEW t \in Tests, NEW s \in Servers, PutBack(t, s) PROVE Clean'
  <2>1. \A u \in Tests : Usable(u)' \subseteq Usable(u)
    BY <1>2 DEF PoolInv, TypeOK, PutBack, Usable, testVars
  <2>2. QED
    BY <1>2, <2>1, FewerUsable DEF PoolInv, PutBack, serverVars, requestVars
<1>3. ASSUME NEW t \in Tests, Obtain(t) PROVE Clean'
  BY <1>3, ObtainClean DEF Obtain
<1>4. ASSUME NEW t \in Tests, Settle(t) PROVE Clean'
  BY <1>4, SettleClean
<1>5. ASSUME NEW t \in Tests, Work(t) PROVE Clean'
  BY <1>5, WorkClean DEF Work
<1>6. ASSUME NEW t \in Tests, Handle(t) PROVE Clean'
  BY <1>6, HandleClean DEF Handle
<1>7. CASE UNCHANGED vars
  <2>1. \A u \in Tests : Usable(u)' = Usable(u)
    BY <1>7 DEF vars, poolVars, testVars, Usable
  <2>2. QED
    BY <1>7, <2>1, FewerUsable DEF PoolInv, vars, serverVars, requestVars
<1>8. QED
  BY <1>1, <1>2, <1>3, <1>4, <1>5, <1>6, <1>7 DEF Next, Leave, AllOver

\* A test never works with what an earlier test left on its server, other than
\* requests that were still being handled at the reset, whatever becomes of the
\* resets of a remote server and of their answers.
THEOREM OnlyLateRequestsLeak == Spec => []LeftoversWereInFlight
<1>1. Init => PoolInv
  BY InitType, InitLease, InitPool DEF PoolInv
<1>2. PoolInv /\ [Next]_vars => PoolInv'
  BY NextType, NextLease, NextStarting, NextClean DEF PoolInv
<1>3. PoolInv => LeftoversWereInFlight
  <2>1. None \notin Servers
    BY PoolAssumption
  <2>2. ASSUME PoolInv, NEW t \in Tests, stage[t] = "ready"
        PROVE  Usable(t) = holds[t]
    BY <2>1, <2>2 DEF PoolInv, TypeOK, StartingHeld, Usable
  <2>3. QED
    BY <2>2 DEF PoolInv, Clean, LeftoversWereInFlight
<1>4. QED
  BY <1>1, <1>2, <1>3, PTL DEF Spec

===============================================================================
