---------------------------- MODULE RoundTripProofs ----------------------------
(***************************************************************************)
(* A round trip and its parts, for any number of handshakes, hosts,        *)
(* connections, threads and retries.  The certificate cache hands out      *)
(* fitting certificates, never fails one handshake for the panic of        *)
(* another, and implements CertificateStore; and so it does below the      *)
(* transport, which uses it for connections and tunnels.  The transport    *)
(* detects TLS, tells the handler the scheme and gets each stream a        *)
(* certificate for the host its client reached.  No thread that blocks on  *)
(* a call loses its wakeup, and the last attempt counts.  RoundTrip        *)
(* composes the two soundly.                                               *)
(***************************************************************************)
EXTENDS RoundTrip, SequenceTheorems, TLAPS

-------------------------------------------------------------------------------
\* The certificate cache.

\* Between Lock and Unlock.
Locked == {"looking again", "generating", "inserting", "returning"}

\* The names of a certificate that is right for host n.
Fits(n, names) ==
    /\ n # Unspecified => n \in names
    /\ n \in Addresses \ {Unspecified} => LocalNames \subseteq names
    /\ names \subseteq {n} \cup LocalNames

Own(h) == [maker |-> h, names |-> SubjectNames(h)]

\* A handshake that is past the mutex holds it; until it has inserted, the cache has
\* nothing for its host, so that the insertion overwrites nothing; and what was given
\* away is what the cache has.
Exclusive == \A h \in Handshakes : step[h] \in Locked => owner[HostOf(h)] = {h}
Absent == \A h \in Handshakes :
    step[h] \in {"generating", "inserting"} => store[HostOf(h)] = NoCertificate
Made == \A h \in Handshakes :
    /\ step[h] = "inserting" => made[h] = Own(h)
    /\ step[h] = "returning" => made[h] = store[HostOf(h)] /\ made[h] \in Certificate
Given == \A h \in Handshakes :
    /\ step[h] # "through" => given[h] = NoCertificate
    /\ given[h] \in Certificate => given[h] = store[HostOf(h)]
StoreFits == \A n \in Hosts : store[n] # NoCertificate => Fits(n, store[n].names)

CertInv ==
    CertTypeOK /\ Exclusive /\ Absent /\ Made /\ Given /\ StoreFits /\ FailuresAreIndividual

-------------------------------------------------------------------------------
LEMMA HostIsHost ==
    ASSUME CertTypeOK, NEW h \in Handshakes
    PROVE  HostOf(h) \in Hosts
BY CertificateAssumption DEF CertTypeOK, HostOf, Hosts

\* What a handshake generates is a certificate that fits its host.
LEMMA OwnFits ==
    ASSUME CertTypeOK, NEW h \in Handshakes
    PROVE  Own(h) \in Certificate /\ Fits(HostOf(h), Own(h).names)
<1>1. HostOf(h) \in Hosts
  BY HostIsHost
<1>2. SubjectNames(h) \in SUBSET (Hosts \cup LocalNames)
  BY <1>1 DEF SubjectNames
<1>3. HostOf(h) \in Addresses \ {Unspecified} => LocalOnly(h)
  BY CertificateAssumption DEF HostOf, LocalOnly, Hosts, CertTypeOK
<1>4. Fits(HostOf(h), SubjectNames(h))
  BY <1>1, <1>3 DEF Fits, SubjectNames
<1> QED
  BY <1>2, <1>4 DEF Own, Certificate

\* Only Resolve says what a handshake is for.
LEMMA HostStable ==
    ASSUME NEW h \in Handshakes, UNCHANGED <<sni, authority>>
    PROVE  HostOf(h)' = HostOf(h)
BY DEF HostOf

LEMMA InitCertInv == CertInit => CertInv
<1> SUFFICES ASSUME CertInit PROVE CertInv
  OBVIOUS
<1>1. CertTypeOK
  BY DEF CertInit, CertTypeOK, Steps
<1>2. Exclusive /\ Absent /\ Made
  BY DEF CertInit, Exclusive, Absent, Made, Locked
<1>3. Given /\ FailuresAreIndividual
  BY CertificateAssumption DEF CertInit, Given, FailuresAreIndividual
<1>4. StoreFits
  BY DEF CertInit, StoreFits
<1> QED
  BY <1>1, <1>2, <1>3, <1>4 DEF CertInv

-------------------------------------------------------------------------------
LEMMA ResolveKeeps ==
    ASSUME CertInv, NEW h \in Handshakes,
           NEW name \in Domains \cup {NoName}, NEW auth \in Hosts \cup {NoName},
           Resolve(h, name, auth)
    PROVE  CertInv'
<1> USE DEF CertInv
<1>1. CertTypeOK'
  BY DEF CertTypeOK, Resolve, GoOn, Steps
<1>2. \A g \in Handshakes : g # h => HostOf(g)' = HostOf(g) /\ step'[g] = step[g]
  BY DEF HostOf, Resolve, GoOn, CertTypeOK
<1>3. step'[h] = "looking" /\ step[h] = "idle"
  BY DEF Resolve, GoOn, CertTypeOK
<1>4. UNCHANGED <<owner, made, store, given>>
  BY DEF Resolve
<1>5. Exclusive' /\ Absent'
  BY <1>2, <1>3, <1>4 DEF Exclusive, Absent, Locked
<1>6. Made'
  <2>1. \A g \in Handshakes : g # h => Own(g)' = Own(g)
    BY DEF Own, SubjectNames, HostOf, LocalOnly, Resolve, CertTypeOK
  <2> QED
    BY <1>2, <1>3, <1>4, <2>1 DEF Made
<1>7. Given'
  BY <1>2, <1>3, <1>4, CertificateAssumption DEF Given
<1>8. StoreFits' /\ FailuresAreIndividual'
  BY <1>4 DEF StoreFits, FailuresAreIndividual
<1> QED
  BY <1>1, <1>5, <1>6, <1>7, <1>8

LEMMA LookUpKeeps ==
    ASSUME CertInv, NEW h \in Handshakes, LookUp(h)
    PROVE  CertInv'
<1> USE DEF CertInv
<1> HostOf(h) \in Hosts
  BY HostIsHost
<1>1. CertTypeOK'
  BY DEF CertTypeOK, LookUp, GoOn, Steps
<1>2. \A g \in Handshakes : HostOf(g)' = HostOf(g) /\ Own(g)' = Own(g)
  BY HostStable DEF LookUp, Own, SubjectNames, HostOf, LocalOnly
<1>3. /\ \A g \in Handshakes : g # h => step'[g] = step[g] /\ given'[g] = given[g]
      /\ step'[h] \in {"locking", "through"}
      /\ UNCHANGED <<owner, made, store>>
  BY DEF LookUp, GoOn, CertTypeOK
<1>4. Exclusive' /\ Absent' /\ Made'
  BY <1>2, <1>3 DEF Exclusive, Absent, Made, Locked
<1>5. given'[h] = store[HostOf(h)] \/ (given'[h] = given[h] /\ step'[h] = "locking" /\ step[h] = "looking")
  BY DEF LookUp, GoOn, CertTypeOK
<1>6. step'[h] = "locking" => given'[h] = NoCertificate
  BY DEF LookUp, GoOn, CertTypeOK, Given
<1>7. Given'
  BY <1>2, <1>3, <1>5, <1>6, CertificateAssumption DEF Given
<1>8. StoreFits'
  BY <1>3 DEF StoreFits
<1>9. FailuresAreIndividual'
  <2>1. given'[h] # Failure
    BY <1>5, CertificateAssumption DEF CertTypeOK, Given
  <2> QED
    BY <2>1, <1>3 DEF FailuresAreIndividual
<1> QED
  BY <1>1, <1>4, <1>7, <1>8, <1>9

LEMMA LockKeeps ==
    ASSUME CertInv, NEW h \in Handshakes, Lock(h)
    PROVE  CertInv'
<1> USE DEF CertInv
<1> HostOf(h) \in Hosts
  BY HostIsHost
<1>1. CertTypeOK'
  BY DEF CertTypeOK, Lock, GoOn, Steps
<1>2. \A g \in Handshakes : HostOf(g)' = HostOf(g) /\ Own(g)' = Own(g)
  BY HostStable DEF Lock, Own, SubjectNames, HostOf, LocalOnly
<1>3. /\ \A g \in Handshakes : g # h => step'[g] = step[g]
      /\ step'[h] = "looking again" /\ step[h] = "locking"
      /\ UNCHANGED <<made, store, given>>
      /\ owner' = [owner EXCEPT ![HostOf(h)] = {h}] /\ owner[HostOf(h)] = {}
  BY DEF Lock, GoOn, CertTypeOK
<1>4. Exclusive'
  <2> SUFFICES ASSUME NEW g \in Handshakes, step'[g] \in Locked
               PROVE  owner'[HostOf(g)] = {g}
    BY <1>2 DEF Exclusive
  <2>1. HostOf(g) \in Hosts
    BY HostIsHost
  <2>2. CASE g = h
    BY <2>2, <1>3, <2>1 DEF CertTypeOK
  <2>3. CASE g # h
    <3>1. owner[HostOf(g)] = {g}
      BY <2>3, <1>3 DEF Exclusive
    <3> QED
      BY <3>1, <1>3, <2>1 DEF CertTypeOK
  <2> QED
    BY <2>2, <2>3
<1>5. Absent' /\ Made'
  BY <1>2, <1>3 DEF Absent, Made
<1>6. Given' /\ FailuresAreIndividual' /\ StoreFits'
  BY <1>2, <1>3 DEF Given, FailuresAreIndividual, StoreFits
<1> QED
  BY <1>1, <1>4, <1>5, <1>6

\* While h holds the mutex of its host, no other handshake past the mutex is for it.
LEMMA OthersElsewhere ==
    ASSUME CertInv, NEW h \in Handshakes, NEW g \in Handshakes, g # h,
           step[h] \in Locked, step[g] \in Locked
    PROVE  HostOf(g) # HostOf(h)
BY DEF CertInv, Exclusive

LEMMA UnlockKeepsExclusive ==
    ASSUME CertInv, NEW h \in Handshakes, step[h] \in Locked, step'[h] \notin Locked,
           \A g \in Handshakes : g # h => step'[g] = step[g],
           \A g \in Handshakes : HostOf(g)' = HostOf(g), Unlock(h)
    PROVE  Exclusive'
<1> SUFFICES ASSUME NEW g \in Handshakes, step'[g] \in Locked
             PROVE  owner'[HostOf(g)] = {g}
  BY DEF Exclusive
<1>1. g # h /\ step[g] \in Locked
  OBVIOUS
<1>2. HostOf(g) # HostOf(h) /\ owner[HostOf(g)] = {g}
  BY <1>1, OthersElsewhere DEF CertInv, Exclusive
<1>3. HostOf(g) \in Hosts
  BY HostIsHost DEF CertInv
<1> QED
  BY <1>2, <1>3 DEF Unlock, CertInv, CertTypeOK

LEMMA LookAgainKeeps ==
    ASSUME CertInv, NEW h \in Handshakes, LookAgain(h)
    PROVE  CertInv'
<1> USE DEF CertInv
<1> HostOf(h) \in Hosts
  BY HostIsHost
<1>1. CertTypeOK'
  BY DEF CertTypeOK, LookAgain, GoOn, Steps, Unlock
<1>2. \A g \in Handshakes : HostOf(g)' = HostOf(g) /\ Own(g)' = Own(g)
  BY HostStable DEF LookAgain, Own, SubjectNames, HostOf, LocalOnly
<1>3. /\ \A g \in Handshakes : g # h => step'[g] = step[g] /\ given'[g] = given[g]
      /\ step[h] = "looking again"
      /\ UNCHANGED <<made, store>>
  BY DEF LookAgain, GoOn, CertTypeOK
<1>4. CASE store[HostOf(h)] # NoCertificate
  <2>1. step'[h] = "through" /\ given'[h] = store[HostOf(h)] /\ Unlock(h)
    BY <1>4 DEF LookAgain, GoOn, CertTypeOK
  <2>2. Exclusive'
    BY <2>1, <1>2, <1>3, UnlockKeepsExclusive DEF Locked
  <2>3. Absent' /\ Made' /\ Given' /\ StoreFits'
    BY <2>1, <1>2, <1>3, ZenonT(30) DEF Absent, Made, Given, StoreFits
  <2>4. FailuresAreIndividual'
    BY <2>1, <1>3, <1>4, CertificateAssumption DEF CertTypeOK, FailuresAreIndividual
  <2> QED
    BY <1>1, <2>2, <2>3, <2>4
<1>5. CASE store[HostOf(h)] = NoCertificate
  <2>1. step'[h] = "generating" /\ UNCHANGED <<owner, given>>
    BY <1>5 DEF LookAgain, GoOn, CertTypeOK
  <2>2. Exclusive' /\ Absent' /\ Made'
    BY <2>1, <1>2, <1>3, <1>5 DEF Exclusive, Absent, Made, Locked
  <2>3. Given' /\ StoreFits' /\ FailuresAreIndividual'
    BY <2>1, <1>2, <1>3 DEF Given, StoreFits, FailuresAreIndividual
  <2> QED
    BY <1>1, <2>2, <2>3
<1> QED
  BY <1>4, <1>5

LEMMA GenerateKeeps ==
    ASSUME CertInv, NEW h \in Handshakes, Generate(h)
    PROVE  CertInv'
<1> USE DEF CertInv
<1> Own(h) \in Certificate
  BY OwnFits
<1>1. CertTypeOK'
  BY DEF CertTypeOK, Generate, GoOn, Steps, Own
<1>2. \A g \in Handshakes : HostOf(g)' = HostOf(g) /\ Own(g)' = Own(g)
  BY HostStable DEF Generate, Own, SubjectNames, HostOf, LocalOnly
<1>3. /\ \A g \in Handshakes : g # h => step'[g] = step[g] /\ made'[g] = made[g]
      /\ step[h] = "generating" /\ step'[h] = "inserting" /\ made'[h] = Own(h)
      /\ UNCHANGED <<owner, store, given>>
  BY DEF Generate, GoOn, CertTypeOK, Own
<1>4. Exclusive' /\ Absent'
  BY <1>2, <1>3 DEF Exclusive, Absent, Locked
<1>5. Made'
  BY <1>2, <1>3 DEF Made
<1>6. Given' /\ StoreFits' /\ FailuresAreIndividual'
  BY <1>2, <1>3 DEF Given, StoreFits, FailuresAreIndividual
<1> QED
  BY <1>1, <1>4, <1>5, <1>6

LEMMA GenerationFailsKeeps ==
    ASSUME CertInv, NEW h \in Handshakes, GenerationFails(h)
    PROVE  CertInv'
<1> USE DEF CertInv
<1> HostOf(h) \in Hosts
  BY HostIsHost
<1>1. CertTypeOK'
  BY DEF CertTypeOK, GenerationFails, GoOn, Steps, Unlock
<1>2. \A g \in Handshakes : HostOf(g)' = HostOf(g) /\ Own(g)' = Own(g)
  BY HostStable DEF GenerationFails, Own, SubjectNames, HostOf, LocalOnly
<1>3. /\ \A g \in Handshakes : g # h => step'[g] = step[g] /\ given'[g] = given[g]
      /\ step[h] = "generating" /\ step'[h] = "through" /\ given'[h] = Failure
      /\ h \in Breakable /\ Unlock(h)
      /\ UNCHANGED <<made, store>>
  BY DEF GenerationFails, GoOn, CertTypeOK
<1>4. Exclusive'
  BY <1>2, <1>3, UnlockKeepsExclusive DEF Locked
<1>5. Absent' /\ Made'
  BY <1>2, <1>3 DEF Absent, Made
<1>6. Given' /\ StoreFits' /\ FailuresAreIndividual'
  BY <1>2, <1>3, CertificateAssumption DEF Given, StoreFits, FailuresAreIndividual
<1> QED
  BY <1>1, <1>4, <1>5, <1>6

LEMMA InsertKeeps ==
    ASSUME CertInv, NEW h \in Handshakes, Insert(h)
    PROVE  CertInv'
<1> USE DEF CertInv
<1> HostOf(h) \in Hosts
  BY HostIsHost
<1>1. /\ \A g \in Handshakes : g # h => step'[g] = step[g]
      /\ step[h] = "inserting" /\ step'[h] = "returning"
      /\ store' = [store EXCEPT ![HostOf(h)] = made[h]]
      /\ UNCHANGED <<sni, authority, owner, made, given>>
  BY DEF Insert, GoOn, CertTypeOK
<1>2. \A g \in Handshakes : HostOf(g)' = HostOf(g) /\ Own(g)' = Own(g)
  BY <1>1, HostStable DEF Own, SubjectNames, HostOf, LocalOnly
<1>3. made[h] \in Certificate /\ Fits(HostOf(h), made[h].names)
  BY <1>1, OwnFits DEF Made
<1>4. store[HostOf(h)] = NoCertificate
  BY <1>1 DEF Absent
<1>5. \A g \in Handshakes : HostOf(g) \in Hosts
  BY HostIsHost
<1>6. store'[HostOf(h)] = made[h] /\ \A n \in Hosts : n # HostOf(h) => store'[n] = store[n]
  BY <1>1 DEF CertTypeOK
<1>7. CertTypeOK'
  BY <1>3, <1>1 DEF CertTypeOK, Steps, Insert, GoOn
<1>8. Exclusive'
  BY <1>1, <1>2 DEF Exclusive, Locked
<1>9. \A g \in Handshakes : g # h /\ step[g] \in Locked => store'[HostOf(g)] = store[HostOf(g)]
  BY <1>1, <1>5, <1>6, OthersElsewhere DEF Locked
<1>10. Absent' /\ Made'
  BY <1>1, <1>2, <1>3, <1>6, <1>9 DEF Absent, Made, Locked
<1>11. Given'
  <2>1. \A g \in Handshakes : given[g] \in Certificate => HostOf(g) # HostOf(h)
    BY <1>4, CertificateAssumption DEF Given
  <2> QED
    BY <1>1, <1>2, <1>5, <1>6, <2>1 DEF Given
<1>12. StoreFits'
  BY <1>3, <1>6 DEF StoreFits, Fits
<1>13. FailuresAreIndividual'
  BY <1>1 DEF FailuresAreIndividual
<1> QED
  BY <1>7, <1>8, <1>10, <1>11, <1>12, <1>13

LEMMA ReturnOwnKeeps ==
    ASSUME CertInv, NEW h \in Handshakes, ReturnOwn(h)
    PROVE  CertInv'
<1> USE DEF CertInv
<1> HostOf(h) \in Hosts
  BY HostIsHost
<1>1. /\ \A g \in Handshakes : g # h => step'[g] = step[g] /\ given'[g] = given[g]
      /\ step[h] = "returning" /\ step'[h] = "through" /\ given'[h] = made[h]
      /\ Unlock(h)
      /\ UNCHANGED <<sni, authority, made, store>>
  BY DEF ReturnOwn, GoOn, CertTypeOK
<1>2. \A g \in Handshakes : HostOf(g)' = HostOf(g) /\ Own(g)' = Own(g)
  BY <1>1, HostStable DEF Own, SubjectNames, HostOf, LocalOnly
<1>3. made[h] = store[HostOf(h)] /\ made[h] \in Certificate
  BY <1>1 DEF Made
<1>4. CertTypeOK'
  BY <1>3 DEF CertTypeOK, ReturnOwn, GoOn, Steps, Unlock
<1>5. Exclusive'
  BY <1>1, <1>2, UnlockKeepsExclusive DEF Locked
<1>6. Absent' /\ Made' /\ Given' /\ StoreFits'
  BY <1>1, <1>2, <1>3 DEF Absent, Made, Given, StoreFits
<1>7. FailuresAreIndividual'
  BY <1>1, <1>3, CertificateAssumption DEF FailuresAreIndividual
<1> QED
  BY <1>4, <1>5, <1>6, <1>7

LEMMA NextCertInv == CertInv /\ [CertNext]_certVars => CertInv'
<1> SUFFICES ASSUME CertInv, [CertNext]_certVars PROVE CertInv'
  OBVIOUS
<1>1. CASE UNCHANGED certVars
  BY <1>1 DEF certVars, CertInv, CertTypeOK, Exclusive, Absent, Made, Given, StoreFits,
              FailuresAreIndividual, HostOf, Own, SubjectNames, LocalOnly
<1>2. ASSUME NEW h \in Handshakes, NEW name \in Domains \cup {NoName},
             NEW auth \in Hosts \cup {NoName}, Resolve(h, name, auth)
      PROVE  CertInv'
  BY <1>2, ResolveKeeps
<1>3. ASSUME NEW h \in Handshakes, HandshakeStep(h) PROVE CertInv'
  BY <1>3, LookUpKeeps, LockKeeps, LookAgainKeeps, GenerateKeeps, GenerationFailsKeeps,
     InsertKeeps, ReturnOwnKeeps DEF HandshakeStep
<1> QED
  BY <1>1, <1>2, <1>3 DEF CertNext

LEMMA CertInvariant == CertSpec => []CertInv
<1> QED
  BY InitCertInv, NextCertInv, PTL DEF CertSpec

-------------------------------------------------------------------------------
\* Every certificate a client of the cache gets fits the host it was asked for.
THEOREM CertificatesFit == CertSpec => []CertificateFits
<1>1. CertInv => CertificateFits
  <2> SUFFICES ASSUME CertInv, NEW h \in Handshakes, given[h] \in Certificate
               PROVE  Fits(HostOf(h), given[h].names)
    BY DEF CertificateFits, Fits
  <2>1. HostOf(h) \in Hosts
    BY HostIsHost DEF CertInv
  <2>2. given[h] = store[HostOf(h)]
    BY DEF CertInv, Given
  <2> QED
    BY <2>1, <2>2, CertificateAssumption DEF CertInv, StoreFits
<1> QED
  BY <1>1, CertInvariant, PTL

\* A poisoned mutex fails nobody: a handshake fails by its own generation only.
THEOREM FailuresStayIndividual == CertSpec => []FailuresAreIndividual
<1>1. CertInv => FailuresAreIndividual
  BY DEF CertInv
<1> QED
  BY <1>1, CertInvariant, PTL

LEMMA InitStore == CertInit => Store!StoreInit
BY DEF CertInit, Store!StoreInit, Asked

LEMMA StepStore ==
    ASSUME CertInv, CertInv', [CertNext]_certVars
    PROVE  [Store!StoreNext]_(Store!storeVars)
<1> USE DEF Store!storeVars
<1>1. CASE UNCHANGED certVars
  BY <1>1 DEF certVars, Asked, HostOf
<1>2. ASSUME NEW h \in Handshakes, NEW name \in Domains \cup {NoName},
             NEW auth \in Hosts \cup {NoName}, Resolve(h, name, auth)
      PROVE  Store!StoreNext
  <2>1. HostOf(h)' \in Hosts
    BY HostIsHost, CertificateAssumption, <1>2 DEF CertInv, CertTypeOK, HostOf, Hosts, Resolve
  <2>2. Asked[h] = NoName /\ Asked' = [Asked EXCEPT ![h] = HostOf(h)']
    BY <1>2 DEF Asked, Resolve, GoOn, HostOf, CertInv, CertTypeOK
  <2>3. UNCHANGED <<store, given>>
    BY <1>2 DEF Resolve
  <2>4. Store!Ask(h, HostOf(h)')
    BY <2>2, <2>3 DEF Store!Ask
  <2> QED
    BY <2>1, <2>4 DEF Store!StoreNext
<1>3. ASSUME NEW h \in Handshakes, HandshakeStep(h)
      PROVE  Store!StoreNext \/ UNCHANGED <<store, Asked, given>>
  <2> HostOf(h) \in Hosts
    BY HostIsHost DEF CertInv
  <2>1. UNCHANGED <<sni, authority>> /\ step[h] # "idle" /\ step'[h] # "idle"
        /\ \A g \in Handshakes : g # h => step'[g] = step[g]
    BY <1>3 DEF HandshakeStep, LookUp, Lock, LookAgain, Generate, GenerationFails, Insert,
                ReturnOwn, GoOn, CertInv, CertTypeOK
  <2>2. Asked' = Asked /\ Asked[h] = HostOf(h) /\ Asked[h] # NoName
    BY <2>1, CertificateAssumption DEF Asked, HostOf
  <2>3. given[h] = NoCertificate
    BY <1>3 DEF HandshakeStep, LookUp, Lock, LookAgain, Generate, GenerationFails, Insert,
                ReturnOwn, GoOn, CertInv, Given
  <2>4. CASE LookUp(h)
    BY <2>2, <2>3, <2>4 DEF LookUp, Store!StoreNext, Store!Give
  <2>5. CASE LookAgain(h)
    BY <2>2, <2>3, <2>5 DEF LookAgain, Store!StoreNext, Store!Give
  <2>6. CASE Lock(h) \/ Generate(h)
    BY <2>2, <2>6 DEF Lock, Generate
  <2>7. CASE GenerationFails(h)
    BY <2>2, <2>3, <2>7 DEF GenerationFails, Store!StoreNext, Store!Fail
  <2>8. CASE Insert(h)
    <3>1. store[HostOf(h)] = NoCertificate /\ store' = [store EXCEPT ![HostOf(h)] = made[h]]
          /\ UNCHANGED given
      BY <2>8 DEF Insert, GoOn, CertInv, Absent
    <3>2. made[h] \in Certificate
      BY <2>8, OwnFits DEF Insert, GoOn, CertInv, Made
    <3>3. Store!Publish(HostOf(h))
      BY <2>2, <3>1, <3>2 DEF Store!Publish, CertInv, CertTypeOK
    <3> QED
      BY <3>3 DEF Store!StoreNext
  <2>9. CASE ReturnOwn(h)
    <3>1. made[h] = store[HostOf(h)] /\ made[h] \in Certificate
          /\ given' = [given EXCEPT ![h] = made[h]] /\ UNCHANGED store
      BY <2>9 DEF ReturnOwn, GoOn, CertInv, Made
    <3>2. Store!Give(h)
      BY <2>2, <2>3, <3>1, CertificateAssumption DEF Store!Give
    <3> QED
      BY <3>2 DEF Store!StoreNext
  <2> QED
    BY <1>3, <2>4, <2>5, <2>6, <2>7, <2>8, <2>9 DEF HandshakeStep
<1> QED
  BY <1>1, <1>2, <1>3 DEF CertNext

\* The cache, with its two look-ups and the mutex per host, implements the abstract
\* store: one certificate per host for ever, and the same for every handshake.
THEOREM CacheImplementsStore == CertSpec => OneCertificatePerHost
<1>1. CertSpec => []CertInv
  BY CertInvariant
<1>2. CertInv /\ CertInv' /\ [CertNext]_certVars => [Store!StoreNext]_(Store!storeVars)
  BY StepStore
<1>3. CertInit => Store!StoreInit
  BY InitStore
<1> QED
  BY <1>1, <1>2, <1>3, PTL DEF CertSpec, OneCertificatePerHost, Store!StoreSpec
-------------------------------------------------------------------------------
TargetOK == target \in [Streams -> Targets \cup {NoName}]

LEMMA TargetInvariant == ConnSpec => []TargetOK
<1>1. ConnInit => TargetOK
  BY DEF ConnInit, TargetOK
<1>2. TargetOK /\ [ConnNext]_transportVars => TargetOK'
  <2> SUFFICES ASSUME TargetOK, [ConnNext]_transportVars PROVE TargetOK'
    OBVIOUS
  <2>1. ASSUME NEW s \in Streams, NEW u \in Tunnels, Connect(s, u) PROVE TargetOK'
    BY <2>1 DEF Connect, TargetOK
  <2>2. CASE UNCHANGED tunnelVars
    BY <2>2 DEF TargetOK, tunnelVars
  <2> QED
    BY <2>1, <2>2 DEF ConnNext, transportVars, connVars, ClientStep, Dial, Arrive, HangUp,
       SendRequest, Accept, ServerStep, Peek, Detect, ReadHello, Handshake, EndHandshake,
       Garbled, Flush, Upgrade, Refuse, HandOver, Shutdown
<1> QED
  BY <1>1, <1>2, PTL DEF ConnSpec

\* Every behaviour of the transport is one of the certificate cache: a connection
\* resolves at most one handshake, with its own authority or that of its tunnel.
THEOREM TransportImplementsCertificates == ConnSpec => CertSpec
<1>1. ConnInit => CertInit
  BY DEF ConnInit
<1>2. TargetOK /\ [ConnNext]_transportVars => [CertNext]_certVars
  <2> SUFFICES ASSUME TargetOK, [ConnNext]_transportVars PROVE [CertNext]_certVars
    OBVIOUS
  <2>1. ASSUME NEW s \in Streams, ReadHello(s) PROVE [CertNext]_certVars
    <3>1. CASE UNCHANGED certVars
      BY <3>1
    <3>2. ASSUME NEW name \in ServerNames[s],
                 Resolve(s, name, IF s \in Tunnels THEN target[s] ELSE LocalAddress)
          PROVE  CertNext
      <4>1. name \in Domains \cup {NoName}
        BY ConnectionAssumption DEF Streams
      <4>2. (IF s \in Tunnels THEN target[s] ELSE LocalAddress) \in Hosts \cup {NoName}
        BY ConnectionAssumption DEF TargetOK, Hosts, Streams
      <4> QED
        BY <3>2, <4>1, <4>2 DEF CertNext, Streams
    <3> QED
      BY <2>1, <3>1, <3>2 DEF ReadHello
  <2>2. ASSUME NEW s \in Streams, Handshake(s) PROVE [CertNext]_certVars
    BY <2>2 DEF Handshake, CertNext, Streams
  <2>3. CASE UNCHANGED certVars
    BY <2>3
  <2> QED
    BY <2>1, <2>2, <2>3 DEF ConnNext, transportVars, ClientStep, Dial, Arrive, HangUp,
       SendRequest, Accept, ServerStep, Peek, Detect, EndHandshake, Garbled, Connect,
       Flush, Upgrade, Refuse, HandOver, Shutdown
<1> QED
  BY <1>1, <1>2, TargetInvariant, PTL DEF ConnSpec, CertSpec
-------------------------------------------------------------------------------
\* The transport's own invariants.

\* Of a stream no part of which was peeked too early, the buffer holds the part that
\* has been peeked, byte by byte.
PeekedRight(s) ==
    s \notin split =>
        \/ peeked[s] = 0
        \/ peeked[s] = Parts[part[s]] /\ \A i \in 1..Parts[part[s]] : buffer[s][i] = i

\* What a connection was taken for, and who is right about it.
TakenFor(s) ==
    /\ stage[s] = "serving" => scheme[s] \in {"http", "https"}
    /\ stage[s] = "upgrading" => s \in Tunnels
    /\ Speaks[s] = "tls" /\ scheme[s] = "http" => s \in split
    /\ s \notin Tunnels /\ Speaks[s] = "http" =>
          stage[s] \notin {"hello", "handshake"} /\ scheme[s] # "https"

\* Requests come from clients that speak what their connection was taken for.
Understood(s) ==
    request[s] # None =>
        /\ stage[s] \in {"serving", "upgraded", "closed"}
        /\ scheme[s] = "https" <=> Speaks[s] = "tls"

\* The authority with which a certificate is looked up is still the one of the stream.
Reached(s) == IF s \in Tunnels THEN target[s] ELSE LocalAddress
Addressed(s) ==
    /\ s \in Tunnels /\ stage[s] \notin {"none", "closed"} => target[s] \in Targets
    /\ step[s] # "idle" =>
          /\ stage[s] \in {"handshake", "serving", "upgraded", "closed"}
          /\ authority[s] = Reached(s) /\ Reached(s) \in Hosts

ConnTypes ==
    /\ stage \in [Streams -> StreamStages]
    /\ arrived \in [Streams -> Nat] /\ peeked \in [Streams -> Nat]
    /\ buffer = [s \in Streams |-> buffer[s]]
    /\ part \in [Streams -> DOMAIN Parts]
    /\ scheme \in [Streams -> {None, "http", "https"}]
    /\ request \in [Streams -> AllForms \cup {None}]
    /\ target \in [Streams -> Targets \cup {NoName}]
    /\ step \in [Streams -> Steps]
    /\ authority \in [Streams -> Hosts \cup {NoName}]

ConnInv ==
    /\ ConnTypes /\ HandlerSeesScheme
    /\ \A s \in Streams : PeekedRight(s) /\ TakenFor(s) /\ Understood(s) /\ Addressed(s)

LEMMA ConnInvInit == ConnInit => ConnInv
<1> SUFFICES ASSUME ConnInit PROVE ConnInv
  OBVIOUS
<1>1. \A s \in Streams : stage[s] \in {"none", "closed"}
  BY DEF ConnInit
<1>2. ConnTypes
  <2>1. stage \in [Streams -> StreamStages]
    BY DEF ConnInit, StreamStages
  <2>2. 1 \in DOMAIN Parts
    BY ConnectionAssumption
  <2>3. QED
    BY <2>1, <2>2 DEF ConnInit, ConnTypes, CertInit, Streams, Steps
<1>3. HandlerSeesScheme
  BY DEF ConnInit, HandlerSeesScheme
<1>4. ASSUME NEW s \in Streams
      PROVE  PeekedRight(s) /\ TakenFor(s) /\ Understood(s) /\ Addressed(s)
  BY <1>1, ConnectionAssumption
     DEF ConnInit, CertInit, Streams, PeekedRight, TakenFor, Understood, Addressed
<1> QED
  BY <1>2, <1>3, <1>4 DEF ConnInv

\* The steps that look at no byte and send no request.
LEMMA OtherStepsKeep ==
    ASSUME ConnInv, NEW s \in Streams,
           \/ Dial(s) \/ HangUp(s) \/ Accept(s) \/ Garbled(s) \/ Flush(s) \/ Upgrade(s)
           \/ Refuse(s) \/ EndHandshake(s) \/ Shutdown
    PROVE  ConnInv'
<1> USE DEF Become, Serve, peekVars, serviceVars, tunnelVars, certVars
<1>1. /\ UNCHANGED <<arrived, buffer, part, peeked, split, target, handed, step, authority>>
      /\ \A t \in Streams : t # s =>
            stage'[t] = stage[t] /\ scheme'[t] = scheme[t] /\ request'[t] = request[t]
  BY DEF ConnInv, ConnTypes, Dial, HangUp, Accept, Garbled, Flush, Upgrade, Refuse, Respond,
         EndHandshake, Shutdown
<1>2. ConnTypes'
  BY DEF ConnInv, ConnTypes, Dial, HangUp, Accept, Garbled, Flush, Upgrade, Refuse, Respond,
         EndHandshake, Shutdown, StreamStages
<1>3. HandlerSeesScheme'
  BY <1>1 DEF ConnInv, HandlerSeesScheme
<1>4. ASSUME NEW t \in Streams
      PROVE  PeekedRight(t)' /\ TakenFor(t)' /\ Understood(t)' /\ Addressed(t)'
  <2>1. PeekedRight(t)'
    BY <1>1 DEF ConnInv, PeekedRight
  <2>2. Reached(t)' = Reached(t)
    BY <1>1 DEF Reached
  <2>3. CASE t # s
    BY <1>1, <2>1, <2>2, <2>3 DEF ConnInv, TakenFor, Understood, Addressed
  <2>4. CASE t = s
    <3> Speaks[s] \in {"tls", "http"}
      BY ConnectionAssumption
    <3>1. ASSUME \/ Dial(s) \/ Accept(s) \/ HangUp(s) \/ Garbled(s)
                 \/ Flush(s) \/ Upgrade(s)
          PROVE  TakenFor(s)' /\ Understood(s)'
      BY <1>1, <3>1 DEF ConnInv, ConnTypes, TakenFor, Understood, Dial, HangUp, Accept,
         Garbled, Flush, Upgrade
    <3>2. ASSUME Refuse(s) \/ Shutdown PROVE TakenFor(s)' /\ Understood(s)'
      BY <1>1, <3>2 DEF ConnInv, ConnTypes, TakenFor, Understood, Refuse, Respond, Shutdown
    <3>3. ASSUME EndHandshake(s) PROVE TakenFor(s)' /\ Understood(s)'
      BY <1>1, <3>3 DEF ConnInv, ConnTypes, TakenFor, Understood, EndHandshake
    <3>4. Addressed(s)'
      BY <1>1, <2>2, <2>4 DEF ConnInv, ConnTypes, TakenFor, Addressed, Dial, HangUp,
         Accept, Garbled, Flush, Upgrade, Refuse, Respond, EndHandshake, Shutdown
    <3> QED
      BY <2>1, <2>4, <3>1, <3>2, <3>3, <3>4
  <2> QED
    BY <2>3, <2>4
<1> QED
  BY <1>2, <1>3, <1>4 DEF ConnInv

\* The bytes of the head.  A part that is peeked at once is copied as it is; the next
\* one begins anew.
LEMMA DetectionKeeps ==
    ASSUME ConnInv, NEW s \in Streams, Arrive(s) \/ Peek(s) \/ Detect(s)
    PROVE  ConnInv'
<1> USE DEF Become, Serve, peekVars, serviceVars, tunnelVars, certVars
<1> Parts \in Seq(Nat \ {0}) /\ Speaks[s] \in {"tls", "http"}
  BY ConnectionAssumption
<1>1. /\ UNCHANGED <<target, handed, step, authority, request>>
      /\ stage'[s] # stage[s] => stage[s] = "peeking" /\ stage'[s] \in {"serving", "hello"}
      /\ \A t \in Streams : t # s =>
            /\ stage'[t] = stage[t] /\ scheme'[t] = scheme[t]
            /\ peeked'[t] = peeked[t] /\ part'[t] = part[t] /\ buffer'[t] = buffer[t]
      /\ split \subseteq split' /\ split' \subseteq split \cup {s}
  BY DEF ConnInv, ConnTypes, Arrive, Peek, Detect
<1>2. /\ Len(Parts) \in Nat /\ DOMAIN Parts = 1..Len(Parts)
      /\ \A i \in DOMAIN Parts : Parts[i] \in Nat \ {0}
  OBVIOUS
<1>3. /\ peeked[s] \in Nat /\ arrived[s] \in Nat
      /\ part[s] \in DOMAIN Parts /\ Parts[part[s]] \in Nat \ {0}
  BY <1>2 DEF ConnInv, ConnTypes
<1>4. ConnTypes'
  <2>1. CASE Arrive(s)
    <3>1. HeadLength \in Nat
      BY <1>2, ConnectionAssumption DEF HeadLength
    <3> QED
      BY <2>1, <3>1, <1>3 DEF ConnInv, ConnTypes, Arrive
  <2>2. CASE Peek(s)
    <3>1. peeked[s] + Copied(s) \in Nat
      BY <1>3, <2>2 DEF Peek, Copied, Room
    <3> QED
      BY <2>2, <3>1 DEF ConnInv, ConnTypes, Peek
  <2>3. CASE Detect(s)
    <3>1. part[s] < Len(Parts) => part[s] + 1 \in DOMAIN Parts
      BY <1>2, <1>3
    <3>2. part' \in [Streams -> DOMAIN Parts] /\ peeked' \in [Streams -> Nat]
      <4>1. \/ UNCHANGED <<part, peeked>>
            \/ /\ part[s] + 1 \in DOMAIN Parts
               /\ part' = [part EXCEPT ![s] = @ + 1] /\ peeked' = [peeked EXCEPT ![s] = 0]
        BY <2>3, <3>1 DEF Detect
      <4>2. part \in [Streams -> DOMAIN Parts] /\ peeked \in [Streams -> Nat]
        BY DEF ConnInv, ConnTypes
      <4>3. part' \in [Streams -> DOMAIN Parts]
        BY <4>1, <4>2, Zenon
      <4>4. peeked' \in [Streams -> Nat]
        BY <4>1, <4>2
      <4> QED
        BY <4>3, <4>4
    <3>3. stage' \in [Streams -> StreamStages] /\ scheme' \in [Streams -> {None, "http", "https"}]
      BY <2>3 DEF ConnInv, ConnTypes, Detect, StreamStages
    <3> QED
      BY <2>3, <3>2, <3>3 DEF ConnInv, ConnTypes, Detect
  <2> QED
    BY <2>1, <2>2, <2>3
<1>5. PeekedRight(s)'
  <2>1. CASE Arrive(s)
    BY <2>1 DEF ConnInv, PeekedRight, Arrive
  <2>2. CASE Detect(s)
    BY <2>2 DEF ConnInv, ConnTypes, PeekedRight, Detect
  <2>3. ASSUME Peek(s), s \notin split' PROVE PeekedRight(s)'
    <3>1. s \notin split /\ peeked[s] < Parts[part[s]] /\ Copied(s) >= Parts[part[s]]
      BY <1>3, <2>3 DEF Peek, Copied, Room
    <3>2. peeked[s] = 0
      BY <1>3, <3>1 DEF ConnInv, PeekedRight
    <3>3. Copied(s) = Parts[part[s]]
      BY <1>3, <3>1, <3>2 DEF Copied, Room
    <3>4. peeked'[s] = Parts[part[s]] /\ part' = part
      BY <1>3, <2>3, <3>2, <3>3 DEF ConnInv, ConnTypes, Peek
    <3>5. \A i \in 1..Parts[part[s]] : buffer'[s][i] = i
      BY <1>3, <2>3, <3>2, <3>3 DEF ConnInv, ConnTypes, Peek
    <3> QED
      BY <3>4, <3>5 DEF PeekedRight
  <2> QED
    BY <2>1, <2>2, <2>3 DEF PeekedRight
<1>6. TakenFor(s)'
  <2>1. CASE Arrive(s) \/ Peek(s)
    BY <1>1, <2>1 DEF ConnInv, TakenFor, Arrive, Peek
  <2>2. CASE Detect(s)
    <3>1. LooksEncrypted(s) => Speaks[s] = "tls"
      BY DEF LooksEncrypted
    <3>2. Speaks[s] = "tls" /\ ~LooksEncrypted(s) => s \in split
      BY <1>3, <2>2 DEF ConnInv, PeekedRight, Detect, LooksEncrypted
    <3> QED
      BY <2>2, <3>1, <3>2 DEF ConnInv, ConnTypes, TakenFor, Detect
  <2> QED
    BY <2>1, <2>2
<1>7. Understood(s)' /\ Addressed(s)'
  BY <1>1 DEF ConnInv, Understood, Addressed, Reached, Arrive, Peek, Detect
<1>8. ASSUME NEW t \in Streams, t # s
      PROVE  PeekedRight(t)' /\ TakenFor(t)' /\ Understood(t)' /\ Addressed(t)'
  BY <1>1, <1>8 DEF ConnInv, PeekedRight, TakenFor, Understood, Addressed, Reached
<1>9. HandlerSeesScheme'
  BY <1>1 DEF ConnInv, HandlerSeesScheme
<1> QED
  BY <1>4, <1>5, <1>6, <1>7, <1>8, <1>9 DEF ConnInv

\* Requests, and the CONNECT that makes a tunnel of a stream not used so far.
LEMMA RequestsKeep ==
    ASSUME ConnInv, NEW s \in Streams,
           \/ \E form \in Forms[s] : SendRequest(s, form)
           \/ HandOver(s)
           \/ \E u \in Tunnels : Connect(s, u)
    PROVE  ConnInv'
<1> USE DEF peekVars, tunnelVars, certVars, Respond
<1> /\ Forms[s] \in SUBSET AllForms /\ Tunnels \subseteq Streams /\ Targets \subseteq Hosts
    /\ \A t \in Streams : Speaks[t] \in {"tls", "http"}
  BY ConnectionAssumption
<1>1. UNCHANGED <<arrived, buffer, part, peeked, split, scheme, step, authority>>
  BY DEF SendRequest, HandOver, Connect
<1>2. CASE \E form \in Forms[s] : SendRequest(s, form)
  <2>1. UNCHANGED <<stage, target, handed>>
    BY <1>2 DEF SendRequest
  <2>2. ConnTypes' /\ HandlerSeesScheme'
    BY <1>1, <1>2, <2>1 DEF ConnInv, ConnTypes, HandlerSeesScheme, SendRequest
  <2>3. ASSUME NEW t \in Streams PROVE Understood(t)'
    BY <1>1, <1>2, <2>1 DEF ConnInv, ConnTypes, Understood, SendRequest
  <2>4. \A t \in Streams : PeekedRight(t)' /\ TakenFor(t)' /\ Addressed(t)'
    BY <1>1, <2>1 DEF ConnInv, PeekedRight, TakenFor, Addressed, Reached
  <2> QED
    BY <2>2, <2>3, <2>4 DEF ConnInv
<1>3. CASE HandOver(s)
  <2>1. UNCHANGED <<stage, target>>
    BY <1>3 DEF HandOver
  <2>2. ConnTypes'
    BY <1>1, <1>3, <2>1 DEF ConnInv, ConnTypes, HandOver
  <2>3. AbsoluteScheme(s) = IF Speaks[s] = "tls" THEN "https" ELSE "http"
    <3>1. request[s] # None /\ stage[s] = "serving"
      BY <1>3, ConnectionAssumption DEF HandOver, AllForms
    <3> QED
      BY <3>1 DEF ConnInv, TakenFor, Understood, AbsoluteScheme
  <2>4. HandlerSeesScheme'
    <3> DEFINE how == IF request[s] = "origin" THEN AbsoluteScheme(s) ELSE "its own"
               new == <<s, request[s], how>>
    <3>1. handed' = handed \cup {new}
      BY <1>3 DEF HandOver
    <3>2. new[1] = s /\ new[2] = request[s]
          /\ (request[s] = "origin" => new[3] = AbsoluteScheme(s))
      OBVIOUS
    <3> HIDE DEF new
    <3> QED
      BY <2>3, <3>1, <3>2 DEF ConnInv, HandlerSeesScheme
  <2>5. \A t \in Streams : PeekedRight(t)' /\ TakenFor(t)' /\ Understood(t)' /\ Addressed(t)'
    <3>1. \A t \in Streams : request'[t] = request[t] \/ request'[t] = None
      BY <1>3 DEF ConnInv, ConnTypes, HandOver
    <3> QED
      BY <1>1, <2>1, <3>1
         DEF ConnInv, PeekedRight, TakenFor, Understood, Addressed, Reached
  <2> QED
    BY <2>2, <2>4, <2>5 DEF ConnInv
<1>4. ASSUME NEW u \in Tunnels, Connect(s, u) PROVE ConnInv'
  <2>1. /\ stage[u] = "none" /\ stage'[u] = "upgrading" /\ target'[u] \in Targets
        /\ UNCHANGED handed /\ u # s /\ request'[u] = request[u]
    BY <1>4 DEF Connect, ConnInv, ConnTypes
  <2>2. \A t \in Streams : t # u => stage'[t] = stage[t] /\ target'[t] = target[t]
    BY <1>4 DEF Connect, ConnInv, ConnTypes
  <2>3. \A t \in Streams : request'[t] = request[t] \/ request'[t] = None
    BY <1>4 DEF Connect, ConnInv, ConnTypes
  <2>4. ConnTypes' /\ HandlerSeesScheme'
    BY <1>1, <1>4, <2>1 DEF Connect, ConnInv, ConnTypes, StreamStages, HandlerSeesScheme
  <2>5. ASSUME NEW t \in Streams
        PROVE  PeekedRight(t)' /\ TakenFor(t)' /\ Understood(t)' /\ Addressed(t)'
    <3>1. CASE t # u
      BY <1>1, <2>2, <2>3, <3>1
         DEF ConnInv, PeekedRight, TakenFor, Understood, Addressed, Reached
    <3>2. CASE t = u
      BY <1>1, <2>1, <3>2
         DEF ConnInv, PeekedRight, TakenFor, Understood, Addressed, Reached
    <3> QED
      BY <3>1, <3>2
  <2> QED
    BY <2>4, <2>5 DEF ConnInv
<1> QED
  BY <1>2, <1>3, <1>4

\* A certificate is looked up with the authority of the stream.
LEMMA ResolvingKeeps ==
    ASSUME ConnInv, NEW s \in Streams, ReadHello(s) \/ Handshake(s)
    PROVE  ConnInv'
<1> USE DEF Become, peekVars, serviceVars, tunnelVars, connVars
<1> /\ Targets \subseteq Hosts /\ LocalAddress \in Hosts /\ Speaks[s] \in {"tls", "http"}
  BY ConnectionAssumption DEF Hosts
<1>1. UNCHANGED <<arrived, buffer, part, peeked, split, scheme, request, target, handed>>
  BY DEF ReadHello, Handshake
<1>2. HandlerSeesScheme' /\ \A t \in Streams : Reached(t)' = Reached(t) /\ PeekedRight(t)'
  BY <1>1 DEF ConnInv, HandlerSeesScheme, Reached, PeekedRight
<1>3. CASE Handshake(s)
  <2>1. UNCHANGED <<stage, authority>>
    BY <1>3 DEF Handshake, HandshakeStep, LookUp, Lock, LookAgain, Generate,
       GenerationFails, Insert, ReturnOwn
  <2>2. step[s] # "idle" /\ step' \in [Streams -> Steps]
        /\ \A t \in Streams : step'[t] # "idle" => step[t] # "idle"
    BY <1>3 DEF ConnInv, ConnTypes, Handshake, HandshakeStep, LookUp, Lock, LookAgain,
       Generate, GenerationFails, Insert, ReturnOwn, GoOn, Steps
  <2>3. ConnTypes'
    BY <1>1, <2>1, <2>2 DEF ConnInv, ConnTypes
  <2>4. \A t \in Streams : TakenFor(t)' /\ Understood(t)' /\ Addressed(t)'
    BY <1>1, <1>2, <2>1, <2>2 DEF ConnInv, TakenFor, Understood, Addressed
  <2> QED
    BY <1>2, <2>3, <2>4 DEF ConnInv
<1>4. CASE ReadHello(s)
  <2>1. stage[s] = "hello" /\ stage'[s] \in {"handshake", "closed"}
        /\ stage' \in [Streams -> StreamStages]
        /\ \A t \in Streams : t # s => stage'[t] = stage[t]
    BY <1>4 DEF ConnInv, ConnTypes, ReadHello, StreamStages
  <2>2. Reached(s) \in Hosts
    BY <2>1 DEF ConnInv, Addressed, Reached
  <2>3. \/ UNCHANGED certVars /\ stage'[s] = "closed"
        \/ /\ stage'[s] = "handshake" /\ step' = [step EXCEPT ![s] = "looking"]
           /\ authority' = [authority EXCEPT ![s] = Reached(s)]
    BY <1>4 DEF ConnInv, ConnTypes, ReadHello, Resolve, GoOn, Reached
  <2>4. ConnTypes'
    <3>1. step' \in [Streams -> Steps] /\ authority' \in [Streams -> Hosts \cup {NoName}]
      <4>1. step \in [Streams -> Steps] /\ authority \in [Streams -> Hosts \cup {NoName}]
        BY DEF ConnInv, ConnTypes
      <4>2. CASE UNCHANGED certVars
        BY <4>1, <4>2 DEF certVars
      <4>3. CASE /\ step' = [step EXCEPT ![s] = "looking"]
                 /\ authority' = [authority EXCEPT ![s] = Reached(s)]
        <5>1. "looking" \in Steps
          BY DEF Steps
        <5> QED
          BY <2>2, <4>1, <4>3, <5>1
      <4> QED
        BY <2>3, <4>2, <4>3
    <3> QED
      BY <1>1, <2>1, <3>1 DEF ConnInv, ConnTypes
  <2>5. \A t \in Streams : TakenFor(t)' /\ Understood(t)'
    BY <1>1, <2>1 DEF ConnInv, TakenFor, Understood
  <2>6. \A t \in Streams : Addressed(t)'
    BY <1>1, <1>2, <2>1, <2>2, <2>3 DEF ConnInv, ConnTypes, Addressed, certVars
  <2> QED
    BY <1>2, <2>4, <2>5, <2>6 DEF ConnInv
<1> QED
  BY <1>3, <1>4

LEMMA ConnInvariant == ConnSpec => []ConnInv
<1>1. ConnInv /\ [ConnNext]_transportVars => ConnInv'
  <2> SUFFICES ASSUME ConnInv, [ConnNext]_transportVars PROVE ConnInv'
    OBVIOUS
  <2>1. CASE UNCHANGED transportVars
    <3>1. ConnTypes' /\ HandlerSeesScheme'
      BY <2>1 DEF transportVars, connVars, certVars, peekVars, serviceVars, tunnelVars,
         ConnInv, ConnTypes, HandlerSeesScheme
    <3>2. \A s \in Streams : PeekedRight(s)' /\ TakenFor(s)' /\ Understood(s)' /\ Addressed(s)'
      BY <2>1 DEF transportVars, connVars, certVars, peekVars, serviceVars, tunnelVars,
         ConnInv, PeekedRight, TakenFor, Understood, Addressed, Reached
    <3> QED
      BY <3>1, <3>2 DEF ConnInv
  <2>2. ASSUME NEW s \in Streams, ClientStep(s) \/ Accept(s) \/ ServerStep(s) PROVE ConnInv'
    BY <2>2, OtherStepsKeep, DetectionKeeps, RequestsKeep, ResolvingKeeps
       DEF ClientStep, ServerStep
  <2>3. CASE Shutdown
    <3>1. CASE Streams = {}
      BY <2>3, <3>1 DEF ConnInv, ConnTypes, HandlerSeesScheme, Shutdown, peekVars,
         serviceVars, tunnelVars, certVars
    <3>2. CASE Streams # {}
      BY <2>3, <3>2, OtherStepsKeep
    <3> QED
      BY <3>1, <3>2
  <2> QED
    BY <2>1, <2>2, <2>3 DEF ConnNext
<1> QED
  BY <1>1, ConnInvInit, PTL DEF ConnSpec

\* A TLS client is served as one of HTTP only if a part of its head was peeked before
\* it had arrived, and an HTTP client is never taken for one of TLS.
THEOREM DetectionRight == ConnSpec => []DetectedUnlessSplit
<1>1. ConnInv => DetectedUnlessSplit
  BY DEF ConnInv, TakenFor, DetectedUnlessSplit
<1> QED
  BY <1>1, ConnInvariant, PTL

\* What the handler sees of a request in origin form has the scheme of the client's
\* own connection, in tunnels of any depth.
THEOREM SchemesReachHandler == ConnSpec => []HandlerSeesScheme
<1>1. ConnInv => HandlerSeesScheme
  BY DEF ConnInv
<1> QED
  BY <1>1, ConnInvariant, PTL

\* The certificate a stream gets from the cache all streams share names the host its
\* client reached, named or not.
THEOREM ReachedHostsCertified == ConnSpec => []ReachedHostCertified
<1>1. ConnInv /\ CertInv => ReachedHostCertified
  <2> SUFFICES ASSUME ConnInv, CertInv, NEW s \in Streams, given[s] \in Certificate,
                      ~(sni[s] = NoName /\ Reached(s) \in Domains \cup {Unspecified})
               PROVE  (IF sni[s] # NoName THEN sni[s] ELSE Reached(s)) \in given[s].names
    BY DEF ReachedHostCertified, Reached
  <2>1. step[s] # "idle"
    BY CertificateAssumption DEF CertInv, Given, Streams
  <2>2. authority[s] = Reached(s) /\ Reached(s) \in Hosts
    BY <2>1 DEF ConnInv, Addressed
  <2>3. HostOf(s) = IF sni[s] # NoName THEN sni[s] ELSE Reached(s)
    BY <2>2 DEF HostOf, Hosts
  <2>4. HostOf(s) \in Hosts \ {Unspecified}
    BY <2>2, <2>3, CertificateAssumption DEF CertInv, CertTypeOK, Streams, Hosts
  <2>5. Fits(HostOf(s), given[s].names)
    BY <2>4, CertificateAssumption DEF CertInv, Given, StoreFits, Streams
  <2> QED
    BY <2>3, <2>4, <2>5 DEF Fits
<1>2. ConnSpec => []CertInv
  BY TransportImplementsCertificates, CertInvariant, PTL
<1> QED
  BY <1>1, <1>2, ConnInvariant, PTL
-------------------------------------------------------------------------------
\* The types of the transport.  A part is peeked at most to its end, which is what
\* keeps the number of bytes peeked and every byte of the buffer within the head.
OwnTypes ==
    /\ listening \in BOOLEAN
    /\ stage \in [Streams -> StreamStages]
    /\ scheme \in [Streams -> {None, "http", "https"}]
    /\ request \in [Streams -> AllForms \cup {None}]
    /\ reply \in [Streams -> {None, "established", "answer", "error"}]
    /\ count \in [Streams -> 0..MaxRequests]
    /\ within \in [Streams -> Streams \cup {None}]
    /\ target \in [Streams -> Targets \cup {NoName}]
    /\ split \subseteq Streams
    /\ handed \subseteq Streams \X {"origin", "absolute"} \X {"http", "https", "its own"}

PeekTypes ==
    /\ arrived \in [Streams -> 0..HeadLength]
    /\ buffer \in [Streams -> Seq(0..HeadLength)]
    /\ part \in [Streams -> DOMAIN Parts] /\ peeked \in [Streams -> 0..HeadLength]
    /\ \A s \in Streams : peeked[s] <= Parts[part[s]]

LEMMA HeadIsLongest ==
    /\ HeadLength \in Nat /\ 1 \in DOMAIN Parts
    /\ Len(Parts) \in Nat /\ DOMAIN Parts = 1..Len(Parts)
    /\ \A i \in DOMAIN Parts : Parts[i] \in Nat \ {0} /\ Parts[i] <= HeadLength
<1>1. /\ Parts \in Seq(Nat \ {0}) /\ Parts # <<>>
      /\ \A i \in DOMAIN Parts : Parts[i] <= HeadLength
  BY ConnectionAssumption
<1>2. Len(Parts) \in Nat \ {0} /\ DOMAIN Parts = 1..Len(Parts)
  BY <1>1
<1>3. \A i \in DOMAIN Parts : Parts[i] \in Nat \ {0}
  BY <1>1
<1> QED
  BY <1>1, <1>2, <1>3 DEF HeadLength

LEMMA PeekTypesKept ==
    ASSUME PeekTypes, NEW s \in Streams, Peek(s)
    PROVE  PeekTypes'
<1> DEFINE length == Parts[part[s]]
           filled == [i \in 1..length |->
                         IF i > peeked[s] /\ i <= peeked[s] + Copied(s) THEN i - peeked[s]
                         ELSE IF i <= Len(buffer[s]) THEN buffer[s][i] ELSE 0]
<1>1. /\ HeadLength \in Nat /\ length \in Nat \ {0} /\ length <= HeadLength
      /\ arrived[s] \in 0..HeadLength /\ peeked[s] \in 0..HeadLength
      /\ buffer[s] \in Seq(0..HeadLength)
  BY HeadIsLongest DEF PeekTypes
<1>2. /\ Copied(s) \in Nat /\ peeked[s] + Copied(s) <= length
  BY <1>1 DEF PeekTypes, Peek, Copied, Room
<1>3. /\ buffer' = [buffer EXCEPT ![s] = filled]
      /\ peeked' = [peeked EXCEPT ![s] = peeked[s] + Copied(s)]
      /\ UNCHANGED <<arrived, part>>
  <2>1. buffer' = [buffer EXCEPT ![s] = filled]
    BY DEF Peek
  <2>2. peeked' = [peeked EXCEPT ![s] = peeked[s] + Copied(s)] /\ UNCHANGED <<arrived, part>>
    BY DEF Peek
  <2> QED
    BY <2>1, <2>2
<1>4. filled \in Seq(0..HeadLength)
  <2> DEFINE byte(i) == IF i > peeked[s] /\ i <= peeked[s] + Copied(s) THEN i - peeked[s]
                        ELSE IF i <= Len(buffer[s]) THEN buffer[s][i] ELSE 0
  <2>1. ASSUME NEW i \in 1..length PROVE byte(i) \in 0..HeadLength
    <3>1. i \in Nat /\ i >= 1 /\ i <= HeadLength
      BY <1>1
    <3>2. CASE i > peeked[s] /\ i <= peeked[s] + Copied(s)
      BY <1>1, <1>2, <3>1, <3>2
    <3>3. CASE ~(i > peeked[s] /\ i <= peeked[s] + Copied(s)) /\ i <= Len(buffer[s])
      <4>1. i \in 1..Len(buffer[s])
        BY <1>1, <3>1, <3>3
      <4>2. buffer[s][i] \in 0..HeadLength
        BY <1>1, <4>1, ElementOfSeq
      <4> QED
        BY <3>3, <4>2
    <3>4. CASE ~(i > peeked[s] /\ i <= peeked[s] + Copied(s)) /\ ~(i <= Len(buffer[s]))
      BY <1>1, <3>4
    <3> QED
      BY <3>2, <3>3, <3>4
  <2>2. filled = [i \in 1..length |-> byte(i)]
    OBVIOUS
  <2> HIDE DEF byte, filled
  <2>3. filled \in [1..length -> 0..HeadLength]
    BY <2>1, <2>2
  <2> QED
    BY <1>1, <2>3, SeqDef
<1> HIDE DEF filled
<1>5. buffer' \in [Streams -> Seq(0..HeadLength)]
  BY <1>3, <1>4 DEF PeekTypes
<1>6. peeked' \in [Streams -> 0..HeadLength] /\ \A t \in Streams : peeked'[t] <= Parts[part'[t]]
  BY <1>1, <1>2, <1>3 DEF PeekTypes
<1> QED
  BY <1>3, <1>5, <1>6 DEF PeekTypes

LEMMA DetectTypesKept ==
    ASSUME PeekTypes, NEW s \in Streams, Detect(s)
    PROVE  PeekTypes'
<1>1. UNCHANGED <<arrived, buffer>>
  BY DEF Detect
<1>2. CASE UNCHANGED <<part, peeked>>
  BY <1>1, <1>2 DEF PeekTypes
<1>3. CASE /\ part[s] < Len(Parts)
           /\ part' = [part EXCEPT ![s] = @ + 1] /\ peeked' = [peeked EXCEPT ![s] = 0]
  <2>1. part[s] + 1 \in DOMAIN Parts
    BY <1>3, HeadIsLongest DEF PeekTypes
  <2>2. part' \in [Streams -> DOMAIN Parts]
    BY <1>3, <2>1, Zenon DEF PeekTypes
  <2>3. peeked' \in [Streams -> 0..HeadLength]
    BY <1>3, HeadIsLongest DEF PeekTypes
  <2>4. ASSUME NEW t \in Streams PROVE peeked'[t] <= Parts[part'[t]]
    <3>1. CASE t = s
      BY <1>3, <2>2, <3>1, HeadIsLongest DEF PeekTypes
    <3>2. CASE t # s
      BY <1>3, <3>2 DEF PeekTypes
    <3> QED
      BY <3>1, <3>2
  <2> QED
    BY <1>1, <2>2, <2>3, <2>4 DEF PeekTypes
<1> QED
  BY <1>2, <1>3 DEF Detect

LEMMA OneMore == \A m \in Nat : \A n \in 0..m : n < m => n + 1 \in 0..m
OBVIOUS

LEMMA OwnTypesKept ==
    ASSUME OwnTypes, ConnInv, [ConnNext]_transportVars
    PROVE  OwnTypes'
<1> USE DEF OwnTypes, Become, Serve, Respond, StreamStages, peekVars, serviceVars, tunnelVars
<1> MaxRequests \in Nat /\ Tunnels \subseteq Streams
  BY ConnectionAssumption
<1>1. CASE UNCHANGED transportVars
  BY <1>1 DEF transportVars, connVars
<1>2. CASE Shutdown
  BY <1>2 DEF Shutdown
<1>3. ASSUME NEW s \in Streams,
             \/ Dial(s) \/ Arrive(s) \/ HangUp(s) \/ Accept(s) \/ ReadHello(s) \/ Handshake(s)
             \/ Garbled(s) \/ Flush(s) \/ Upgrade(s) \/ Refuse(s)
      PROVE  OwnTypes'
  BY <1>3 DEF Dial, Arrive, HangUp, Accept, ReadHello, Handshake, connVars, Garbled, Flush,
              Upgrade, Refuse
<1>4. ASSUME NEW s \in Streams, Peek(s) PROVE OwnTypes'
  BY <1>4 DEF Peek
<1>5. ASSUME NEW s \in Streams, Detect(s) \/ EndHandshake(s) PROVE OwnTypes'
  BY <1>5 DEF Detect, EndHandshake
<1>6. ASSUME NEW s \in Streams, NEW form \in Forms[s], SendRequest(s, form) PROVE OwnTypes'
  <2>1. form \in AllForms
    BY ConnectionAssumption, <1>6
  <2>2. count' \in [Streams -> 0..MaxRequests]
    <3>1. count' = [count EXCEPT ![s] = count[s] + 1] /\ count[s] < MaxRequests
      BY <1>6 DEF SendRequest
    <3>2. count[s] + 1 \in 0..MaxRequests
      <4>1. count[s] \in 0..MaxRequests
        OBVIOUS
      <4> QED
        BY <3>1, <4>1, OneMore, Zenon
    <3> QED
      BY <3>1, <3>2
  <2> QED
    BY <1>6, <2>1, <2>2 DEF SendRequest
<1>7. ASSUME NEW s \in Streams, NEW u \in Tunnels, Connect(s, u) PROVE OwnTypes'
  BY <1>7 DEF Connect
<1>8. ASSUME NEW s \in Streams, HandOver(s) PROVE OwnTypes'
  <2>1. scheme[s] \in {"http", "https"}
    BY <1>8 DEF HandOver, ConnInv, TakenFor
  <2>2. <<s, request[s], IF request[s] = "origin" THEN AbsoluteScheme(s) ELSE "its own">>
           \in Streams \X {"origin", "absolute"} \X {"http", "https", "its own"}
    BY <1>8, <2>1 DEF HandOver, AbsoluteScheme
  <2>3. handed' \subseteq Streams \X {"origin", "absolute"} \X {"http", "https", "its own"}
    BY <1>8, <2>2 DEF HandOver
  <2>4. /\ UNCHANGED <<listening, stage, scheme, count, within, target, split>>
        /\ request' = [request EXCEPT ![s] = None]
    BY <1>8 DEF HandOver
  <2>5. PICK with \in {"answer", "error"} : reply' = [reply EXCEPT ![s] = with]
    BY <1>8 DEF HandOver
  <2>6. reply' \in [Streams -> {None, "established", "answer", "error"}]
    BY <2>5
  <2> QED
    BY <2>3, <2>4, <2>6
<1> QED
  BY <1>1, <1>2, <1>3, <1>4, <1>5, <1>6, <1>7, <1>8 DEF ConnNext, ClientStep, ServerStep

\* Every variable of the transport holds a value of its kind: in particular, peeking
\* never takes more bytes than the head has, whatever has arrived and however often.
THEOREM TransportTypes == ConnSpec => []ConnTypeOK
<1>1. ConnInit => OwnTypes /\ PeekTypes
  <2> SUFFICES ASSUME ConnInit PROVE OwnTypes /\ PeekTypes
    OBVIOUS
  <2>1. OwnTypes
    <3>1. stage \in [Streams -> StreamStages]
      BY DEF ConnInit, StreamStages
    <3> QED
      BY <3>1, ConnectionAssumption DEF ConnInit, OwnTypes
  <2>2. PeekTypes
    BY HeadIsLongest DEF ConnInit, PeekTypes
  <2> QED
    BY <2>1, <2>2
<1>2. OwnTypes /\ PeekTypes /\ ConnInv /\ [ConnNext]_transportVars => OwnTypes' /\ PeekTypes'
  <2> SUFFICES ASSUME OwnTypes, PeekTypes, ConnInv, [ConnNext]_transportVars
               PROVE  OwnTypes' /\ PeekTypes'
    OBVIOUS
  <2>1. CASE UNCHANGED <<arrived, buffer, part, peeked>>
    BY <2>1, OwnTypesKept DEF PeekTypes
  <2>2. ASSUME NEW s \in Streams, Arrive(s) PROVE PeekTypes'
    <3>1. PICK n \in (arrived[s] + 1)..HeadLength : arrived' = [arrived EXCEPT ![s] = n]
      BY <2>2 DEF Arrive
    <3>2. n \in 0..HeadLength
      BY HeadIsLongest DEF PeekTypes
    <3> QED
      BY <2>2, <3>1, <3>2 DEF Arrive, PeekTypes
  <2>3. ASSUME NEW s \in Streams, Peek(s) PROVE PeekTypes'
    BY <2>3, PeekTypesKept
  <2>4. ASSUME NEW s \in Streams, Detect(s) PROVE PeekTypes'
    BY <2>4, DetectTypesKept
  <2> QED
    BY <2>1, <2>2, <2>3, <2>4, OwnTypesKept DEF ConnNext, transportVars, connVars, peekVars,
       ClientStep, Dial, HangUp, SendRequest, Accept, ServerStep, ReadHello, Handshake,
       EndHandshake, Garbled, Connect, Flush, Upgrade, Refuse, HandOver, Shutdown
<1>3. OwnTypes /\ PeekTypes /\ CertInv => ConnTypeOK
  BY DEF OwnTypes, PeekTypes, CertInv, ConnTypeOK
<1> QED
  BY <1>1, <1>2, <1>3, ConnInvariant, TransportImplementsCertificates, CertInvariant, PTL
     DEF ConnSpec

-------------------------------------------------------------------------------
\* Waiting and trying again.

\* A thread that has polled, and not polled again, has its waker where it is needed,
\* or has been signalled; also before it parks.
WakeupKept(t) ==
    pc[t] \in {"pending", "parked"} =>
        IF event[t] = "none" THEN t \in registered ELSE t \in token \cup waking

\* Where an attempt or a delay is waited for, the outcomes say so.
TriesRecorded(t) ==
    pc[t] # "outside" =>
        /\ attempt[t] \in 1..(Retries + 1)
        /\ awaits[t] = "attempt" /\ event[t] = "none" => Len(outcomes[t]) = attempt[t] - 1
        /\ awaits[t] = "attempt" /\ event[t] # "none" =>
              /\ Len(outcomes[t]) = attempt[t]
              /\ event[t] \in {"ok", "error"}
              /\ outcomes[t][attempt[t]] = event[t]
        /\ awaits[t] = "delay" =>
              /\ Len(outcomes[t]) = attempt[t] /\ attempt[t] <= Retries
              /\ outcomes[t][attempt[t]] = "error"
        /\ \A i \in 1..Len(outcomes[t]) : i < attempt[t] => outcomes[t][i] = "error"

JoinInv ==
    /\ JoinTypeOK
    /\ \A t \in Threads : WakeupKept(t) /\ TriesRecorded(t)
    /\ LastAttemptCounts

LEMMA InitiallyInv == JoinInit => JoinInv
  BY BlockingAssumption
     DEF JoinInit, JoinInv, JoinTypeOK, Places, WakeupKept, TriesRecorded, LastAttemptCounts

\* A step that leaves what the attempts are told by alone.
LEMMA SameTries ==
  ASSUME JoinInv, NEW t \in Threads, NEW to \in Places,
         pc[t] # "outside", to # "outside", pc' = [pc EXCEPT ![t] = to],
         UNCHANGED <<awaits, event, attempt, result, joins, outcomes>>
  PROVE  (\A u \in Threads : TriesRecorded(u)') /\ LastAttemptCounts'
  <1>1. ASSUME NEW u \in Threads PROVE TriesRecorded(u)'
    <2>1. pc'[u] # "outside" => pc[u] # "outside"
      BY DEF JoinInv, JoinTypeOK
    <2> QED
      BY <2>1 DEF JoinInv, TriesRecorded
  <1>2. LastAttemptCounts'
    BY DEF JoinInv, JoinTypeOK, LastAttemptCounts
  <1> QED
    BY <1>1, <1>2

LEMMA StepKeepsType ==
  ASSUME JoinTypeOK, \A t \in Threads : TriesRecorded(t), JoinNext
  PROVE  JoinTypeOK'
  <1> USE BlockingAssumption DEF JoinTypeOK
  <1> PICK t \in Threads :
        \/ StartJoin(t) \/ ThreadStep(t) \/ Spurious(t)
        \/ (\E how \in {"ok", "error", "elapsed"} : Happen(t, how)) \/ Wake(t)
    BY DEF JoinNext
  <1>1. CASE StartJoin(t)
    BY <1>1 DEF StartJoin, GoTo, Await, Places
  <1>2. CASE PollPending(t)
    BY <1>2 DEF PollPending, GoTo, Places
  <1>3. CASE PollReady(t)
    BY <1>3 DEF PollReady, Concluded, GoTo, Places
  <1>4. CASE PollRetry(t)
    BY <1>4 DEF PollRetry, Await
  <1>5. CASE PollElapsed(t)
    <2>1. attempt[t] <= Retries
      BY <1>5 DEF PollElapsed, TriesRecorded
    <2> QED
      BY <1>5, <2>1 DEF PollElapsed, Await
  <1>6. CASE Park(t) \/ Unparked(t) \/ Spurious(t)
    BY <1>6 DEF Park, Unparked, Spurious, GoTo, Places
  <1>7. ASSUME NEW how \in {"ok", "error", "elapsed"}, Happen(t, how)
        PROVE  JoinTypeOK'
    <2>1. outcomes' \in [Threads -> Seq({"ok", "error"})]
      BY <1>7 DEF Happen
    <2> QED
      BY <1>7, <2>1 DEF Happen
  <1>8. CASE Wake(t)
    BY <1>8 DEF Wake
  <1> QED
    BY <1>1, <1>2, <1>3, <1>4, <1>5, <1>6, <1>7, <1>8 DEF ThreadStep, PollStep

LEMMA StepKeepsInv ==
  ASSUME JoinInv, JoinNext
  PROVE  JoinInv'
  <1>0. JoinTypeOK'
    BY StepKeepsType DEF JoinInv
  <1> USE BlockingAssumption
  <1> PICK t \in Threads :
        \/ StartJoin(t) \/ ThreadStep(t) \/ Spurious(t)
        \/ (\E how \in {"ok", "error", "elapsed"} : Happen(t, how)) \/ Wake(t)
    BY DEF JoinNext
  <1>1. CASE StartJoin(t)
    <2>1. ASSUME NEW u \in Threads PROVE WakeupKept(u)'
      BY <1>1 DEF StartJoin, GoTo, Await, JoinInv, JoinTypeOK, WakeupKept
    <2>2. ASSUME NEW u \in Threads PROVE TriesRecorded(u)'
      BY <1>1 DEF StartJoin, GoTo, Await, JoinInv, JoinTypeOK, TriesRecorded
    <2>3. LastAttemptCounts'
      BY <1>1 DEF StartJoin, GoTo, JoinInv, JoinTypeOK, LastAttemptCounts
    <2> QED
      BY <1>0, <2>1, <2>2, <2>3 DEF JoinInv
  <1>2. CASE PollPending(t)
    <2>1. ASSUME NEW u \in Threads PROVE WakeupKept(u)'
      BY <1>2 DEF PollPending, GoTo, JoinInv, JoinTypeOK, WakeupKept
    <2>2. (\A u \in Threads : TriesRecorded(u)') /\ LastAttemptCounts'
      BY <1>2, SameTries DEF PollPending, GoTo, Places
    <2> QED
      BY <1>0, <2>1, <2>2 DEF JoinInv
  <1>3. CASE PollReady(t)
    <2>1. ASSUME NEW u \in Threads PROVE WakeupKept(u)'
      BY <1>3 DEF PollReady, GoTo, JoinInv, JoinTypeOK, WakeupKept
    <2>2. ASSUME NEW u \in Threads PROVE TriesRecorded(u)'
      BY <1>3 DEF PollReady, GoTo, JoinInv, JoinTypeOK, TriesRecorded
    <2>3. LastAttemptCounts'
      <3>1. /\ TriesRecorded(t) /\ event[t] \in {"ok", "error"} /\ pc[t] # "outside"
            /\ awaits[t] = "attempt"
            /\ event[t] = "error" => attempt[t] = Retries + 1
            /\ outcomes' = outcomes
        BY <1>3 DEF PollReady, Concluded, JoinInv
      <3>2. /\ Len(outcomes[t]) = attempt[t] /\ attempt[t] \in 1..(Retries + 1)
            /\ outcomes[t][attempt[t]] = event[t]
            /\ \A i \in 1..(attempt[t] - 1) : outcomes[t][i] = "error"
        <4>1. /\ attempt[t] \in 1..(Retries + 1) /\ Len(outcomes[t]) = attempt[t]
              /\ outcomes[t][attempt[t]] = event[t]
              /\ \A i \in 1..Len(outcomes[t]) : i < attempt[t] => outcomes[t][i] = "error"
          BY <3>1 DEF TriesRecorded
        <4>2. Retries \in Nat
          BY BlockingAssumption
        <4> QED
          BY <4>1, <4>2
      <3>3. /\ result'[t] = event[t]
            /\ \A u \in Threads \ {t} : result'[u] = result[u] /\ pc'[u] = pc[u]
        BY <1>3 DEF PollReady, GoTo, JoinInv, JoinTypeOK
      <3> QED
        BY <3>1, <3>2, <3>3 DEF JoinInv, LastAttemptCounts
    <2> QED
      BY <1>0, <2>1, <2>2, <2>3 DEF JoinInv
  <1>4. CASE PollRetry(t)
    <2>1. ASSUME NEW u \in Threads PROVE WakeupKept(u)'
      BY <1>4 DEF PollRetry, Await, JoinInv, JoinTypeOK, WakeupKept
    <2>2. ASSUME NEW u \in Threads PROVE TriesRecorded(u)'
      BY <1>4 DEF PollRetry, Concluded, Await, JoinInv, JoinTypeOK, TriesRecorded
    <2>3. LastAttemptCounts'
      BY <1>4 DEF PollRetry, JoinInv, LastAttemptCounts
    <2> QED
      BY <1>0, <2>1, <2>2, <2>3 DEF JoinInv
  <1>5. CASE PollElapsed(t)
    <2>1. ASSUME NEW u \in Threads PROVE WakeupKept(u)'
      BY <1>5 DEF PollElapsed, Await, JoinInv, JoinTypeOK, WakeupKept
    <2>2. ASSUME NEW u \in Threads PROVE TriesRecorded(u)'
      BY <1>5 DEF PollElapsed, Await, JoinInv, JoinTypeOK, TriesRecorded
    <2>3. LastAttemptCounts'
      BY <1>5 DEF PollElapsed, JoinInv, LastAttemptCounts
    <2> QED
      BY <1>0, <2>1, <2>2, <2>3 DEF JoinInv
  <1>6. CASE Park(t) \/ Unparked(t) \/ Spurious(t)
    <2>1. ASSUME NEW u \in Threads PROVE WakeupKept(u)'
      BY <1>6 DEF Park, Unparked, Spurious, GoTo, JoinInv, JoinTypeOK, WakeupKept
    <2>2. (\A u \in Threads : TriesRecorded(u)') /\ LastAttemptCounts'
      <3>1. PICK to \in {"polling", "parked"} : pc' = [pc EXCEPT ![t] = to]
        BY <1>6 DEF Park, Unparked, Spurious, GoTo
      <3> QED
        BY <1>6, <3>1, SameTries DEF Park, Unparked, Spurious, Places
    <2> QED
      BY <1>0, <2>1, <2>2 DEF JoinInv
  <1>7. ASSUME NEW how \in {"ok", "error", "elapsed"}, Happen(t, how)
        PROVE  JoinInv'
    <2>1. ASSUME NEW u \in Threads PROVE WakeupKept(u)'
      BY <1>7 DEF Happen, JoinInv, JoinTypeOK, WakeupKept
    <2>2. ASSUME NEW u \in Threads PROVE TriesRecorded(u)'
      <3>1. CASE u # t
        BY <1>7, <3>1 DEF Happen, JoinInv, JoinTypeOK, TriesRecorded
      <3>2. CASE u = t /\ how = "elapsed"
        BY <1>7, <3>2 DEF Happen, JoinInv, JoinTypeOK, TriesRecorded
      <3>3. CASE u = t /\ how # "elapsed"
        BY <1>7, <3>3 DEF Happen, JoinInv, JoinTypeOK, TriesRecorded
      <3> QED
        BY <3>1, <3>2, <3>3
    <2>3. LastAttemptCounts'
      BY <1>7 DEF Happen, JoinInv, JoinTypeOK, LastAttemptCounts
    <2> QED
      BY <1>0, <2>1, <2>2, <2>3 DEF JoinInv
  <1>8. CASE Wake(t)
    <2>1. ASSUME NEW u \in Threads PROVE WakeupKept(u)'
      BY <1>8 DEF Wake, JoinInv, WakeupKept
    <2>2. (\A u \in Threads : TriesRecorded(u)') /\ LastAttemptCounts'
      BY <1>8 DEF Wake, JoinInv, TriesRecorded, LastAttemptCounts
    <2> QED
      BY <1>0, <2>1, <2>2 DEF JoinInv
  <1> QED
    BY <1>1, <1>2, <1>3, <1>4, <1>5, <1>6, <1>7, <1>8 DEF ThreadStep, PollStep

LEMMA StutterKeepsInv == JoinInv /\ UNCHANGED joinVars => JoinInv'
  BY DEF joinVars, JoinInv, JoinTypeOK, WakeupKept, TriesRecorded, LastAttemptCounts

\* What the invariant says of a thread that has polled holds in every state, whatever
\* threads, timers and wakers do (Join::join, src/src/common/util.rs).
THEOREM JoinInvariant == JoinSpec => []JoinInv
  <1>1. JoinInv /\ [JoinNext]_joinVars => JoinInv'
    BY StepKeepsInv, StutterKeepsInv
  <1> QED
    BY <1>1, InitiallyInv, PTL DEF JoinSpec

\* A signal that comes between the poll and the park wakes the thread like one that
\* comes later.
THEOREM NoWakeupIsLost == JoinSpec => []NoLostWakeup
  <1>1. JoinInv => NoLostWakeup
    BY DEF JoinInv, WakeupKept, NoLostWakeup
  <1> QED
    BY <1>1, JoinInvariant, PTL

\* with_retry returns its last outcome, at once if that is a success.
THEOREM RetriesReturnTheLast == JoinSpec => []LastAttemptCounts
  <1>1. JoinInv => LastAttemptCounts
    BY DEF JoinInv
  <1> QED
    BY <1>1, JoinInvariant, PTL

\* The variables keep their types, and no more attempts are made than there are
\* retries and one.
THEOREM JoinTypeCorrect == JoinSpec => []JoinTypeOK
  <1>1. JoinInv => JoinTypeOK
    BY DEF JoinInv
  <1> QED
    BY <1>1, JoinInvariant, PTL
-------------------------------------------------------------------------------
\* The composition.  Its steps are steps of the one part, while the other one stands
\* still.

LEMMA CallerIsJoinStep ==
    ASSUME NEW t \in Threads, Caller(t)
    PROVE  JoinNext /\ UNCHANGED transportVars
BY DEF Caller, Outcome, Answered, Broken, JoinNext

LEMMA TransportIsConnStep ==
    ASSUME Transport
    PROVE  ConnNext /\ UNCHANGED joinVars
BY DEF Transport, OpenLine, ConnNext, ClientStep

\* A server that is called by blocking clients is one of those of which the theorems
\* on connections and certificates speak, and its callers are threads of which the
\* theorems on wake-ups and retries do.
THEOREM RoundTripImplementsParts == RoundTripSpec => ConnSpec /\ JoinSpec
<1>1. RoundTripInit => ConnInit /\ JoinInit
  BY DEF RoundTripInit
<1>2. [RoundTripNext]_roundTripVars => [ConnNext]_transportVars /\ [JoinNext]_joinVars
  BY CallerIsJoinStep, TransportIsConnStep DEF RoundTripNext, roundTripVars
<1> QED
  BY <1>1, <1>2, PTL DEF RoundTripSpec, ConnSpec, JoinSpec

================================================================================
