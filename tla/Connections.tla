------------------------------ MODULE Connections ------------------------------
(***************************************************************************)
(* The transport of the mock server, src/src/server/transport.rs: the      *)
(* accept loop, the detection of TLS by peeking, TLS connections with a    *)
(* certificate of module Certificates, requests that are buffered and      *)
(* brought into absolute form before they reach the handler, and CONNECT,  *)
(* which turns a connection into a tunnel with a TLS connection inside.    *)
(*                                                                         *)
(* A stream is a TCP connection or the inside of a tunnel.  What tells TLS *)
(* from HTTP is the head of the stream, a few bytes that arrive at once or *)
(* in pieces; tls_detect, an external crate, reads ever longer parts of it *)
(* through the peek buffer (Parts) and compares.                           *)
(***************************************************************************)
EXTENDS Certificates, Sequences

CONSTANTS
    Tunnels,       \* the streams that are not TCP connections
    Parts,         \* lengths of the parts of the head that are looked at
    LocalAddress,  \* of the server
    Targets,       \* hosts of CONNECT requests
    ServerNames,   \* stream -> the server names its client may send
    Speaks,        \* stream -> "tls" or "http"
    Forms,         \* stream -> kinds of requests its client may send
    None,          \* no stream, no request, no reply
    MaxRequests,   \* bound of the model: requests on one stream
    Casts          \* bound of the model: the streams there can be at a time

Streams == Handshakes
HeadLength == Parts[Len(Parts)]
AllForms == {"connect", "origin", "absolute", "no host", "broken off"}

ASSUME ConnectionAssumption ==
    /\ Tunnels \subseteq Streams
    /\ Parts \in Seq(Nat \ {0}) /\ Parts # <<>>
    /\ \A i \in DOMAIN Parts : Parts[i] <= HeadLength
    /\ LocalAddress \in Addresses
    /\ Targets \subseteq Hosts
    /\ ServerNames \in [Streams -> SUBSET (Domains \cup {NoName})]
    /\ Speaks \in [Streams -> {"tls", "http"}]
    /\ Forms \in [Streams -> SUBSET AllForms]
    /\ None \notin Streams \cup AllForms \cup {"http", "https"}
    /\ MaxRequests \in Nat
    /\ Casts \subseteq SUBSET Streams

VARIABLES
    listening,   \* the accept loop runs
    stage,       \* stream -> what its task does
    arrived,     \* stream -> bytes of the head that have arrived
    buffer,      \* stream -> the peek buffer: which bytes of the head it holds
    part,        \* stream -> the part of the head it is about to peek
    peeked,      \* stream -> total_peeked of TcpStreamPeekBuffer::advance
    scheme,      \* stream -> the scheme its requests get
    request,     \* stream -> the request being handled
    reply,       \* stream -> the last reply
    count,       \* stream -> requests sent
    within,      \* tunnel -> the stream that was upgraded
    target,      \* tunnel -> the authority of its CONNECT
    split,       \* auxiliary: streams of which a part was peeked before it was there
    handed       \* auxiliary: what the handler saw: stream, form and scheme

peekVars == <<arrived, buffer, part, peeked, split>>
serviceVars == <<request, reply, count, handed>>
tunnelVars == <<within, target>>
connVars == <<listening, stage, peekVars, scheme, serviceVars, tunnelVars>>
transportVars == <<certVars, connVars>>

StreamStages == {"none", "backlog", "peeking", "hello", "handshake", "serving",
                 "upgrading", "upgraded", "closed"}

ConnInit ==
    /\ CertInit
    /\ listening = TRUE
    /\ stage \in {[s \in Streams |-> IF s \in cast THEN "none" ELSE "closed"] : cast \in Casts}
    /\ arrived = [s \in Streams |-> 0]
    /\ buffer = [s \in Streams |-> <<>>]
    /\ part = [s \in Streams |-> 1]
    /\ peeked = [s \in Streams |-> 0]
    /\ scheme = [s \in Streams |-> None]
    /\ request = [s \in Streams |-> None]
    /\ reply = [s \in Streams |-> None]
    /\ count = [s \in Streams |-> 0]
    /\ within = [s \in Streams |-> None]
    /\ target = [s \in Streams |-> NoName]
    /\ split = {} /\ handed = {}

Become(s, to) == stage' = [stage EXCEPT ![s] = to]
Serve(s, how) == Become(s, "serving") /\ scheme' = [scheme EXCEPT ![s] = how]

-------------------------------------------------------------------------------
\* The clients and the network.

Dial(s) ==
    /\ s \notin Tunnels /\ stage[s] = "none"
    /\ Become(s, "backlog")
    /\ UNCHANGED <<certVars, listening, peekVars, scheme, serviceVars, tunnelVars>>

Arrive(s) ==
    /\ s \notin Tunnels /\ stage[s] \in {"backlog", "peeking"}
    /\ \E n \in (arrived[s] + 1)..HeadLength : arrived' = [arrived EXCEPT ![s] = n]
    /\ UNCHANGED <<certVars, listening, stage, buffer, part, peeked, split, scheme,
                   serviceVars, tunnelVars>>

SendRequest(s, form) ==
    /\ stage[s] = "serving" /\ Speaks[s] = IF scheme[s] = "https" THEN "tls" ELSE "http"
    /\ request[s] = None /\ reply[s] # "established" /\ count[s] < MaxRequests
    /\ form = "connect" =>   \* as long as the model has a tunnel for it
          Cardinality({t \in Streams : request[t] = "connect"})
             < Cardinality({u \in Tunnels : stage[u] = "none"})
    /\ request' = [request EXCEPT ![s] = form]
    /\ reply' = [reply EXCEPT ![s] = None]
    /\ count' = [count EXCEPT ![s] = @ + 1]
    /\ UNCHANGED <<certVars, listening, stage, peekVars, scheme, handed, tunnelVars>>

\* The client closes the connection, or the network does.
HangUp(s) ==
    /\ stage[s] \in {"peeking", "hello", "serving"}
    /\ Become(s, "closed")
    /\ UNCHANGED <<certVars, listening, peekVars, scheme, serviceVars, tunnelVars>>

-------------------------------------------------------------------------------
\* The accept loop.  Connections it has accepted are tasks of their own and go on
\* after it ended, as long as the program does.

Accept(s) ==
    /\ listening /\ stage[s] = "backlog"
    /\ Become(s, "peeking")
    /\ UNCHANGED <<certVars, listening, peekVars, scheme, serviceVars, tunnelVars>>

Shutdown ==
    /\ listening
    /\ listening' = FALSE
    /\ UNCHANGED <<certVars, stage, peekVars, scheme, serviceVars, tunnelVars>>

-------------------------------------------------------------------------------
\* TcpStreamPeekBuffer::advance: the buffer is made long enough and filled by
\* peeking.  A peek copies what has arrived, and always begins at the first byte
\* of the stream: the second peek for one part puts that byte behind the first
\* peek's bytes.
Room(s) == Parts[part[s]] - peeked[s]
WholePeek(s) == arrived[s]    \* wrong: more than there is room for
Copied(s) == IF arrived[s] < Room(s) THEN arrived[s] ELSE Room(s)

OneShort(s) ==                \* wrong: resized to the offset, not to offset + 1
    /\ stage[s] = "peeking" /\ peeked[s] < Parts[part[s]] /\ arrived[s] > 0
    /\ buffer' = [buffer EXCEPT ![s] =
          [i \in 1..Parts[part[s]] |->
              IF i > peeked[s] /\ i < peeked[s] + Copied(s) THEN i - peeked[s]
              ELSE IF i <= Len(@) THEN @[i] ELSE 0]]
    /\ peeked' = [peeked EXCEPT ![s] = @ + Copied(s)]
    /\ split' = IF Copied(s) < Parts[part[s]] THEN split \cup {s} ELSE split
    /\ UNCHANGED <<certVars, listening, stage, arrived, part, scheme, serviceVars, tunnelVars>>

Peek(s) ==
    /\ stage[s] = "peeking" /\ peeked[s] < Parts[part[s]] /\ arrived[s] > 0
    /\ buffer' = [buffer EXCEPT ![s] =
          [i \in 1..Parts[part[s]] |->
              IF i > peeked[s] /\ i <= peeked[s] + Copied(s) THEN i - peeked[s]
              ELSE IF i <= Len(@) THEN @[i] ELSE 0]]
    /\ peeked' = [peeked EXCEPT ![s] = @ + Copied(s)]
    /\ split' = IF Copied(s) < Parts[part[s]] THEN split \cup {s} ELSE split
    /\ UNCHANGED <<certVars, listening, stage, arrived, part, scheme, serviceVars, tunnelVars>>

\* is_encrypted: what is there must be the head of a TLS stream, byte by byte.
LooksEncrypted(s) ==
    Speaks[s] = "tls" /\ \A i \in 1..Parts[part[s]] : buffer[s][i] = i

Detect(s) ==
    /\ stage[s] = "peeking" /\ peeked[s] = Parts[part[s]]
    /\ \/ ~LooksEncrypted(s) /\ Serve(s, "http") /\ UNCHANGED <<part, peeked>>
       \/ /\ LooksEncrypted(s) /\ part[s] = Len(Parts)
          /\ Become(s, "hello") /\ UNCHANGED <<scheme, part, peeked>>
       \/ /\ LooksEncrypted(s) /\ part[s] < Len(Parts)
          /\ part' = [part EXCEPT ![s] = @ + 1]
          /\ peeked' = [peeked EXCEPT ![s] = 0]
          /\ UNCHANGED <<stage, scheme>>
    /\ UNCHANGED <<certVars, listening, arrived, buffer, split, serviceVars, tunnelVars>>

-------------------------------------------------------------------------------
\* serve_tls_connection.  The authority is the server's own address or, inside a
\* tunnel, the one of the CONNECT request.

ReadHelloLocally(s) ==        \* wrong: the authority is always the server's address
    /\ stage[s] = "hello"
    /\ \/ /\ Speaks[s] = "tls"
          /\ \E name \in ServerNames[s] : Resolve(s, name, LocalAddress)
          /\ Become(s, "handshake")
       \/ Speaks[s] = "http" /\ Become(s, "closed") /\ UNCHANGED certVars
    /\ UNCHANGED <<listening, peekVars, scheme, serviceVars, tunnelVars>>

ReadHello(s) ==
    /\ stage[s] = "hello"
    /\ \/ /\ Speaks[s] = "tls"
          /\ \E name \in ServerNames[s] :
                Resolve(s, name, IF s \in Tunnels THEN target[s] ELSE LocalAddress)
          /\ Become(s, "handshake")
       \/ Speaks[s] = "http" /\ Become(s, "closed") /\ UNCHANGED certVars
    /\ UNCHANGED <<listening, peekVars, scheme, serviceVars, tunnelVars>>

Handshake(s) ==
    /\ HandshakeStep(s)
    /\ UNCHANGED connVars

\* A panic in the resolver ends the task of the connection.
EndHandshake(s) ==
    /\ stage[s] = "handshake" /\ step[s] = "through"
    /\ \/ given[s] = Failure /\ Become(s, "closed") /\ UNCHANGED scheme
       \/ given[s] # Failure /\ Serve(s, "https")
    /\ UNCHANGED <<certVars, listening, peekVars, serviceVars, tunnelVars>>

-------------------------------------------------------------------------------
\* service.

Respond(s, with) ==
    /\ request' = [request EXCEPT ![s] = None]
    /\ reply' = [reply EXCEPT ![s] = with]

\* A TLS client on a connection taken for HTTP: hyper cannot parse what it sends.
Garbled(s) ==
    /\ stage[s] = "serving" /\ scheme[s] = "http" /\ Speaks[s] = "tls"
    /\ Become(s, "closed")
    /\ UNCHANGED <<certVars, listening, peekVars, scheme, serviceVars, tunnelVars>>

\* CONNECT: a task that waits for the upgrade is spawned, and the reply is given.
AwaitUpgrade(s, u) ==         \* wrong: waits for the upgrade before it replies
    /\ stage[s] = "serving" /\ request[s] = "connect"
    /\ u \in Tunnels /\ stage[u] = "none"
    /\ stage' = [stage EXCEPT ![u] = "upgrading"]
    /\ within' = [within EXCEPT ![u] = s]
    /\ \E n \in Targets : target' = [target EXCEPT ![u] = n]
    /\ UNCHANGED <<certVars, listening, peekVars, scheme, serviceVars>>

Connect(s, u) ==
    /\ stage[s] = "serving" /\ request[s] = "connect"
    /\ u \in Tunnels /\ stage[u] = "none"
    /\ stage' = [stage EXCEPT ![u] = "upgrading"]
    /\ within' = [within EXCEPT ![u] = s]
    /\ \E n \in Targets : target' = [target EXCEPT ![u] = n]
    /\ Respond(s, "established")
    /\ UNCHANGED <<certVars, listening, peekVars, scheme, count, handed>>

\* The reply has been sent, and the connection is handed over as raw bytes.
Flush(s) ==
    /\ stage[s] = "serving" /\ reply[s] = "established"
    /\ Become(s, "upgraded")
    /\ UNCHANGED <<certVars, listening, peekVars, scheme, serviceVars, tunnelVars>>

\* on_upgrade resolves: with the stream, or with an error if it is gone.
Upgrade(u) ==
    /\ stage[u] = "upgrading"
    /\ \/ stage[within[u]] = "upgraded" /\ Become(u, "hello")
       \/ stage[within[u]] = "closed" /\ Become(u, "closed")
    /\ UNCHANGED <<certVars, listening, peekVars, scheme, serviceVars, tunnelVars>>

\* buffer_request or to_absolute_form_uri fails.
Refuse(s) ==
    /\ stage[s] = "serving" /\ request[s] \in {"broken off", "no host"}
    /\ Respond(s, "error")
    /\ UNCHANGED <<certVars, listening, stage, peekVars, scheme, count, handed, tunnelVars>>

\* to_absolute_form_uri: a request in origin form gets the connection's scheme.
AlwaysPlain(s) == "http"      \* wrong: the metadata of the connection is not used
AbsoluteScheme(s) == scheme[s]

HandOver(s) ==
    /\ stage[s] = "serving" /\ request[s] \in {"origin", "absolute"}
    /\ handed' = handed \cup
          {<<s, request[s], IF request[s] = "origin" THEN AbsoluteScheme(s) ELSE "its own">>}
    /\ \E with \in {"answer", "error"} : Respond(s, with)
    /\ UNCHANGED <<certVars, listening, stage, peekVars, scheme, count, tunnelVars>>

-------------------------------------------------------------------------------
ClientStep(s) ==
    Dial(s) \/ Arrive(s) \/ HangUp(s) \/ \E form \in Forms[s] : SendRequest(s, form)

ServerStep(s) ==
    \/ Peek(s) \/ Detect(s)
    \/ ReadHello(s) \/ Handshake(s) \/ EndHandshake(s)
    \/ Garbled(s) \/ (\E u \in Tunnels : Connect(s, u)) \/ Flush(s) \/ Upgrade(s)
    \/ Refuse(s) \/ HandOver(s)

ConnNext ==
    \/ \E s \in Streams : ClientStep(s) \/ Accept(s) \/ ServerStep(s)
    \/ Shutdown

ConnSpec == ConnInit /\ [][ConnNext]_transportVars
-------------------------------------------------------------------------------
\* Every variable holds a value of its kind.
ConnTypeOK ==
    /\ CertTypeOK
    /\ listening \in BOOLEAN
    /\ stage \in [Streams -> StreamStages]
    /\ arrived \in [Streams -> 0..HeadLength]
    /\ buffer \in [Streams -> Seq(0..HeadLength)]
    /\ part \in [Streams -> DOMAIN Parts] /\ peeked \in [Streams -> 0..HeadLength]
    /\ scheme \in [Streams -> {None, "http", "https"}]
    /\ request \in [Streams -> AllForms \cup {None}]
    /\ reply \in [Streams -> {None, "established", "answer", "error"}]
    /\ count \in [Streams -> 0..MaxRequests]
    /\ within \in [Streams -> Streams \cup {None}]
    /\ target \in [Streams -> Targets \cup {NoName}]
    /\ split \subseteq Streams
    /\ handed \subseteq Streams \X {"origin", "absolute"} \X {"http", "https", "its own"}

\* The guide to HTTPS says that the port detects TLS by itself.  It does for every
\* client whose head has arrived when it is looked at, and never takes HTTP for TLS.
DetectedUnlessSplit ==
    \A s \in Streams \ Tunnels :
        /\ Speaks[s] = "tls" /\ scheme[s] = "http" => s \in split
        /\ Speaks[s] = "http" => stage[s] \notin {"hello", "handshake"} /\ scheme[s] # "https"

\* The scheme matchers and the recorder see is that of the client's own connection,
\* directly or in a tunnel, however deep, unless the request itself names one.
HandlerSeesScheme ==
    \A e \in handed :
        e[2] = "origin" => e[3] = IF Speaks[e[1]] = "tls" THEN "https" ELSE "http"

\* A TLS client is shown a certificate for the host it wants to talk to: the one it
\* names or, without a name, the address of its tunnel or of the server, although all
\* streams share one cache.
ReachedHostCertified ==
    \A s \in Streams : given[s] \in Certificate =>
        LET reached == IF sni[s] # NoName THEN sni[s]
                       ELSE IF s \in Tunnels THEN target[s] ELSE LocalAddress
        IN  \/ reached \in given[s].names
            \/ sni[s] = NoName /\ reached \in Domains \cup {Unspecified}

\* Every TLS client that is accepted is served, as a TLS client or by mistake as one
\* of HTTP, or closed in the end, although handshakes lock the cache and each other
\* out and may panic.
EveryHandshakeEnds ==
    \A s \in {t \in Streams : Speaks[t] = "tls"} :
        stage[s] \in {"peeking", "hello", "handshake"} ~> stage[s] \in {"serving", "upgraded", "closed"}

\* Every CONNECT request is answered and its tunnel opened, or the client is gone.
EveryTunnelOpens ==
    \A s \in {t \in Streams : "connect" \in Forms[t]} :
        stage[s] = "serving" /\ request[s] = "connect" ~>
            \/ stage[s] = "closed"
            \/ \E u \in Tunnels : within[u] = s /\ stage[u] \in {"serving", "closed"}
===============================================================================
