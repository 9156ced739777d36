----------------------------- MODULE Certificates -----------------------------
(***************************************************************************)
(* The certificates a mock server generates for TLS clients,               *)
(* src/src/server/tls.rs.  The host name is the server name of the client  *)
(* hello, or the address of the connection's authority, or 0.0.0.0.  The   *)
(* cache is looked up, a mutex of the host is locked, the cache is looked  *)
(* up again and filled.  All of it is synchronous: a handshake occupies a  *)
(* thread of the runtime until it is through, also while it waits.         *)
(*                                                                         *)
(* A certificate is its maker, which stands for its key pair, and the      *)
(* names it is valid for.                                                  *)
(***************************************************************************)
EXTENDS Integers, FiniteSets

CONSTANTS
    Handshakes,    \* TLS handshakes, one per resolver
    Domains,       \* DNS names a client asks for
    Addresses,     \* IP addresses
    Unspecified,   \* 0.0.0.0, one of them
    NoName,        \* no server name, no authority
    LocalNames,    \* localhost, loopback, local interfaces, HTTPMOCK_EXTRA_SANS
    Breakable,     \* the handshakes whose generation can fail
    Workers,       \* threads of the runtime
    NoCertificate, Failure

Hosts == Domains \cup Addresses
Certificate == [maker: Handshakes, names: SUBSET (Hosts \cup LocalNames)]

ASSUME CertificateAssumption ==
    /\ Unspecified \in Addresses
    /\ Domains \cap Addresses = {}
    /\ NoName \notin Hosts
    /\ Breakable \subseteq Handshakes
    /\ Workers \in Nat \ {0}
    /\ NoCertificate \notin Certificate /\ Failure \notin Certificate
    /\ NoCertificate # Failure
    /\ IsFiniteSet(Handshakes)

VARIABLES
    step,        \* handshake -> where generate is
    sni,         \* handshake -> server name of the client hello
    authority,   \* handshake -> host of the authority the resolver was built with
    owner,       \* host -> handshakes that hold its mutex: none or one
    made,        \* handshake -> the certificate it generated
    store,       \* SharedState::certificates
    given        \* handshake -> what resolve returned

certVars == <<step, sni, authority, owner, made, store, given>>

Steps == {"idle", "looking", "locking", "looking again", "generating",
          "inserting", "returning", "through"}

\* resolve: the key of the cache.
HostOf(h) ==
    IF sni[h] # NoName THEN sni[h]
    ELSE IF authority[h] \in Addresses THEN authority[h] ELSE Unspecified

\* The names generate_host_certificate puts into a certificate.
LocalOnly(h) == authority[h] = NoName \/ authority[h] = HostOf(h)
UnconditionalNames(h) == LocalNames       \* wrong: the host itself is left out
SubjectNames(h) ==
    ({HostOf(h)} \ {Unspecified})
        \cup IF HostOf(h) \in Addresses /\ LocalOnly(h) THEN LocalNames ELSE {}

\* Handshakes that have the cache locked for reading.
ReadersUntilLock == {h \in Handshakes : step[h] \in {"looking", "locking", "looking again"}}
                              \* wrong: the guard lives on while the mutex is locked
Readers == {h \in Handshakes : step[h] \in {"looking", "looking again"}}

Busy == {h \in Handshakes : step[h] \notin {"idle", "through"}}

CertInit ==
    /\ step = [h \in Handshakes |-> "idle"]
    /\ sni = [h \in Handshakes |-> NoName]
    /\ authority = [h \in Handshakes |-> NoName]
    /\ owner = [n \in Hosts |-> {}]
    /\ made = [h \in Handshakes |-> NoCertificate]
    /\ store = [n \in Hosts |-> NoCertificate]
    /\ given = [h \in Handshakes |-> NoCertificate]

GoOn(h, from, to) ==
    /\ step[h] = from
    /\ step' = [step EXCEPT ![h] = to]

-------------------------------------------------------------------------------
\* A client hello has been read, and the resolver is called.
Resolve(h, name, auth) ==
    /\ Cardinality(Busy) < Workers
    /\ GoOn(h, "idle", "looking")
    /\ sni' = [sni EXCEPT ![h] = name]
    /\ authority' = [authority EXCEPT ![h] = auth]
    /\ UNCHANGED <<owner, made, store, given>>

LookUp(h) ==
    /\ \/ /\ store[HostOf(h)] # NoCertificate
          /\ GoOn(h, "looking", "through")
          /\ given' = [given EXCEPT ![h] = store[HostOf(h)]]
       \/ /\ store[HostOf(h)] = NoCertificate
          /\ GoOn(h, "looking", "locking")
          /\ UNCHANGED given
    /\ UNCHANGED <<sni, authority, owner, made, store>>

LockUnlessPoisoned(h) ==      \* wrong: lock().unwrap()
    LET host == HostOf(h)
        poisoned == \E g \in Handshakes : step[g] = "through" /\ HostOf(g) = host /\ given[g] = Failure
    IN  /\ owner[host] = {}
        /\ IF poisoned
           THEN /\ GoOn(h, "locking", "through")
                /\ given' = [given EXCEPT ![h] = Failure]
                /\ UNCHANGED owner
           ELSE /\ GoOn(h, "locking", "looking again")
                /\ owner' = [owner EXCEPT ![host] = {h}]
                /\ UNCHANGED given
        /\ UNCHANGED <<sni, authority, made, store>>

\* get_lock_for_hostname, and lock(), which is entered also when a panic of
\* another handshake has poisoned the mutex.
Lock(h) ==
    /\ owner[HostOf(h)] = {}
    /\ GoOn(h, "locking", "looking again")
    /\ owner' = [owner EXCEPT ![HostOf(h)] = {h}]
    /\ UNCHANGED <<sni, authority, made, store, given>>

Unlock(h) == owner' = [owner EXCEPT ![HostOf(h)] = {}]

TrustFirstLook(h) ==          \* wrong: does not look again under the mutex
    /\ GoOn(h, "looking again", "generating")
    /\ UNCHANGED <<sni, authority, owner, made, store, given>>

LookAgain(h) ==
    /\ \/ /\ store[HostOf(h)] # NoCertificate
          /\ GoOn(h, "looking again", "through")
          /\ given' = [given EXCEPT ![h] = store[HostOf(h)]]
          /\ Unlock(h)
       \/ /\ store[HostOf(h)] = NoCertificate
          /\ GoOn(h, "looking again", "generating")
          /\ UNCHANGED <<owner, given>>
    /\ UNCHANGED <<sni, authority, made, store>>

Generate(h) ==
    /\ GoOn(h, "generating", "inserting")
    /\ made' = [made EXCEPT ![h] = [maker |-> h, names |-> SubjectNames(h)]]
    /\ UNCHANGED <<sni, authority, owner, store, given>>

\* unwrap: the panic ends the task of the connection and releases the mutex.
GenerationFails(h) ==
    /\ h \in Breakable
    /\ GoOn(h, "generating", "through")
    /\ given' = [given EXCEPT ![h] = Failure]
    /\ Unlock(h)
    /\ UNCHANGED <<sni, authority, made, store>>

Insert(h) ==
    /\ Readers = {}
    /\ GoOn(h, "inserting", "returning")
    /\ store' = [store EXCEPT ![HostOf(h)] = made[h]]
    /\ UNCHANGED <<sni, authority, owner, made, given>>

ReturnOwn(h) ==
    /\ GoOn(h, "returning", "through")
    /\ given' = [given EXCEPT ![h] = made[h]]
    /\ Unlock(h)
    /\ UNCHANGED <<sni, authority, made, store>>

HandshakeStep(h) ==
    \/ LookUp(h) \/ Lock(h) \/ LookAgain(h)
    \/ Generate(h) \/ GenerationFails(h) \/ Insert(h) \/ ReturnOwn(h)

CertNext ==
    \E h \in Handshakes :
        \/ \E name \in Domains \cup {NoName}, auth \in Hosts \cup {NoName} :
              Resolve(h, name, auth)
        \/ HandshakeStep(h)

CertSpec == CertInit /\ [][CertNext]_certVars
-------------------------------------------------------------------------------
\* Every variable holds a value of its kind.
CertTypeOK ==
    /\ step \in [Handshakes -> Steps]
    /\ sni \in [Handshakes -> Domains \cup {NoName}]
    /\ authority \in [Handshakes -> Hosts \cup {NoName}]
    /\ owner \in [Hosts -> SUBSET Handshakes]
    /\ made \in [Handshakes -> Certificate \cup {NoCertificate}]
    /\ store \in [Hosts -> Certificate \cup {NoCertificate}]
    /\ given \in [Handshakes -> Certificate \cup {NoCertificate, Failure}]

\* Although the cache is keyed by host name alone and every handshake has an
\* authority of its own, the certificate a client gets fits it: it is valid for the
\* server name it asked for, or for the address it connected to; and, at an
\* address, for the other names of this machine too.
CertificateFits ==
    \A h \in Handshakes : given[h] \in Certificate =>
        LET host == HostOf(h)
        IN  /\ host # Unspecified => host \in given[h].names
            /\ host \in Addresses \ {Unspecified} => LocalNames \subseteq given[h].names
            /\ given[h].names \subseteq {host} \cup LocalNames

\* A handshake fails only by its own generation of a certificate, never because
\* an earlier one for the same host panicked with the mutex locked.
FailuresAreIndividual ==
    \A h \in Handshakes : given[h] = Failure => h \in Breakable

\* The cache implements the abstract store: one certificate per host for ever, and
\* each handshake that succeeds gets the one of its host.
Asked == [h \in Handshakes |-> IF step[h] = "idle" THEN NoName ELSE HostOf(h)]
Store == INSTANCE CertificateStore WITH Certificates <- Certificate, asked <- Asked
OneCertificatePerHost == Store!StoreSpec
===============================================================================
