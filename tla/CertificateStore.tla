---------------------------- MODULE CertificateStore ----------------------------
(***************************************************************************)
(* What the certificate cache of src/src/server/tls.rs promises: a host    *)
(* name is given one certificate, once and for all, and every handshake    *)
(* for it that ends well gets that one.                                    *)
(***************************************************************************)
CONSTANTS Handshakes, Hosts, Certificates, NoName, NoCertificate, Failure

VARIABLES
    store,    \* host -> its certificate
    asked,    \* handshake -> the host it is for
    given     \* handshake -> what it got

storeVars == <<store, asked, given>>

StoreInit ==
    /\ store = [n \in Hosts |-> NoCertificate]
    /\ asked = [h \in Handshakes |-> NoName]
    /\ given = [h \in Handshakes |-> NoCertificate]

Ask(h, n) ==
    /\ asked[h] = NoName
    /\ asked' = [asked EXCEPT ![h] = n]
    /\ UNCHANGED <<store, given>>

Publish(n) ==
    /\ store[n] = NoCertificate
    /\ store'[n] \in Certificates
    /\ store' = [store EXCEPT ![n] = store'[n]]
    /\ UNCHANGED <<asked, given>>

Give(h) ==
    /\ asked[h] # NoName /\ given[h] = NoCertificate
    /\ store[asked[h]] # NoCertificate
    /\ given' = [given EXCEPT ![h] = store[asked[h]]]
    /\ UNCHANGED <<store, asked>>

Fail(h) ==
    /\ asked[h] # NoName /\ given[h] = NoCertificate
    /\ given' = [given EXCEPT ![h] = Failure]
    /\ UNCHANGED <<store, asked>>

StoreNext ==
    \/ \E n \in Hosts : Publish(n)
    \/ \E h \in Handshakes, n \in Hosts : Ask(h, n)
    \/ \E h \in Handshakes : Give(h) \/ Fail(h)

StoreSpec == StoreInit /\ [][StoreNext]_storeVars
=================================================================================
