------------------------------- MODULE Recordings -------------------------------
(***************************************************************************)
(* From an exchange to its playback: a server answers requests and keeps a *)
(* recording of them (build_mock_definition in src/src/server/state.rs),   *)
(* the recording is exported as a file (src/src/server/persistence.rs),    *)
(* also while it goes on, and another server loads the file and answers    *)
(* from it.  The answers are those of a mock that module Definitions puts  *)
(* together call by call, so that they may change between two requests; a  *)
(* mock without conditions, so that every request gets one.                *)
(***************************************************************************)
EXTENDS Definitions

CONSTANTS
    Requests,     \* [proxied, scheme, host, port, method, path, query, headers, body]
    NameOf,       \* name of a pair: of a header or a query parameter
    RecordHeaders,\* names in the configuration of the recording
    RecordDelays, \* whether it keeps how long an answer took
    Durations,    \* how long that may be
    Bodyless,     \* GET and HEAD
    Literals,     \* hosts that are IPv6 addresses
    Respond,      \* what the functions given to respond_with return
    Default,      \* scheme -> its port
    Lower,        \* a text in lower case
    Loopback,     \* localhost and 127.0.0.1
    Ok, Empty, Bracket,
    MaxExchanges  \* bound of the model: requests that are recorded

ASSUME RecordingAssumption ==
    /\ Requests \subseteq
          [proxied: BOOLEAN, scheme: Texts, host: Texts, port: Seq(Texts), method: Texts,
           path: Texts, query: Seq(Texts), headers: Seq(Texts), body: Texts \cup Binaries]
    /\ Texts \subseteq DOMAIN NameOf
    /\ {Ok, Empty} \cup Durations \cup Bodyless \cup Literals \subseteq Texts
    /\ RecordHeaders \in Seq({NameOf[t] : t \in Texts}) /\ Default \in [Texts -> Texts]
    /\ Lower \in [Texts -> Texts] /\ \A r \in Requests : Lower[Upper[r.method]] = Lower[r.method]
    /\ Respond \in [Functions -> [status: Seq(Texts), headers: Seq(Texts),
                                 body: {<<>>} \cup {<<b>> : b \in Texts \cup Binaries}]]
    /\ MaxExchanges \in Nat

VARIABLES
    exchanges,    \* auxiliary: what was recorded, as [request, response]
    recording,    \* the definitions of the recording
    file,         \* what was exported
    exported,     \* auxiliary: exchanges at the time
    played,       \* the definitions the other server has loaded
    outcome       \* how loading them ended

recVars == <<exchanges, recording, file, exported, played, outcome>>
vars == <<definition, calls, recVars>>

RecInit ==
    /\ exchanges = <<>> /\ recording = <<>> /\ file = <<>> /\ exported = 0
    /\ played = <<>> /\ outcome = "none"

Init == DefInit /\ RecInit

-------------------------------------------------------------------------------
\* Only what is called before a request can show in its recording.
Define(method, v) ==
    /\ outcome = "none" /\ Len(exchanges) < MaxExchanges                    \* bounds
    /\ recording = <<>> \/ method \in ThenMethods
    /\ v \in ValuesOf(method)
    /\ Call(method, v)
    /\ UNCHANGED recVars

\* serve_mock: a function answers for itself, and must give a status.
Answer(d) ==
    IF d["then.respond_with"] # <<>> THEN Respond[d["then.respond_with"][1]]
    ELSE [status |-> IF d["then.status"] = <<>> THEN <<Ok>> ELSE d["then.status"],
          headers |-> d["then.header"], body |-> d["then.body"]]

\* The map of headers lists those of one name behind one another.
Appended(headers, h) ==
    LET same == {i \in DOMAIN headers : NameOf[headers[i]] = NameOf[h]}
    IN  InsertAt(headers, 1 + IF same = {} THEN Len(headers) ELSE Max(same), h)
Grouped(headers) ==
    LET upTo[n \in 0..Len(headers)] ==
            IF n = 0 THEN <<>> ELSE Appended(upTo[n - 1], headers[n])
    IN  upTo[Len(headers)]

Delivered(response) ==
    [status |-> response.status, headers |-> Grouped(response.headers),
     body |-> IF response.body = <<>> THEN <<Empty>> ELSE response.body]

\* build_mock_definition.  Of a repeated header the first value is taken.
FirstHeaders(r) ==
    LET At(name) == {i \in DOMAIN r.headers : NameOf[r.headers[i]] = name}
        names == Selected(RecordHeaders, {NameOf[h] : h \in ToSet(r.headers)})
    IN  [n \in DOMAIN names |-> r.headers[Min(At(names[n]))]]

Kept(body) == IF body = <<Empty>> THEN <<>> ELSE body

BuildMockDefinition(r, response, took) ==
    [f \in Fields |->
        CASE f = "scheme" /\ r.proxied -> <<r.scheme>>
          [] f = "host" /\ r.proxied -> <<r.host>>
          [] f = "port" /\ r.proxied -> r.port
          [] f = "path" -> <<r.path>>
          [] f = "method" -> <<r.method>>
          [] f = "header" -> FirstHeaders(r)
          [] f = "body" -> Kept(<<r.body>>)
          [] f = "query_param" -> r.query
          [] f = "then.status" -> response.status
          [] f = "then.header" -> response.headers
          [] f = "then.body" -> Kept(response.body)
          [] f = "then.delay" /\ RecordDelays -> <<took>>
          [] OTHER -> <<>>]

Unconditional == \A f \in WhenMethods \cap Fields : definition[f] = <<>>

Record(r, took) ==
    /\ Unconditional
    /\ Len(exchanges) < MaxExchanges /\ Len(calls) <= Len(exchanges) + 1    \* bounds
    /\ Answer(definition).status # <<>>
    /\ LET response == Delivered(Answer(definition))
       IN  /\ exchanges' = Append(exchanges, [request |-> r, response |-> response])
           /\ recording' = Append(recording, BuildMockDefinition(r, response, took))
    /\ UNCHANGED <<definition, calls, file, exported, played, outcome>>

-------------------------------------------------------------------------------
\* export_recording, save_to: one document for each exchange.  If one cannot be
\* converted there is no file.  Exports after the file was loaded are left out.
Export ==
    /\ outcome = "none"
    /\ file' = IF \A n \in DOMAIN recording : Convertible(recording[n])
               THEN [n \in DOMAIN recording |-> ToFile(recording[n])] ELSE <<>>
    /\ exported' = Len(exchanges)
    /\ UNCHANGED <<definition, calls, exchanges, recording, played, outcome>>

\* load_mocks_from_recording: what add_mock refuses (validate_request_requirements)
\* ends it, and what was added before stays.  A file without documents, or none, is
\* refused.
AnyBody(d) == TRUE            \* wrong: a body is held against no method
Valid(d) == d["body"] = <<>> \/ ToSet(d["method"]) \cap Bodyless = {}

BeforeInvalid(docs) ==
    LET stop == {n \in DOMAIN docs : ~Valid(docs[n])}
    IN  SubSeq(docs, 1, IF stop = {} THEN Len(docs) ELSE Min(stop) - 1)

Load ==
    /\ outcome = "none"
    /\ LET docs == [n \in DOMAIN file |-> FromFile(file[n])]
       IN  /\ played' = BeforeInvalid(docs)
           /\ outcome' = IF docs # <<>> /\ played' = docs THEN "loaded" ELSE "refused"
    /\ UNCHANGED <<definition, calls, exchanges, recording, file, exported>>

\* Both servers are reset, and the next test has its own file.
StartOver ==
    /\ outcome # "none"
    /\ definition' = Nothing /\ calls' = <<>>
    /\ exchanges' = <<>> /\ recording' = <<>> /\ file' = <<>> /\ exported' = 0
    /\ played' = <<>> /\ outcome' = "none"

-------------------------------------------------------------------------------
\* The other server.  What a request has to offer (HttpMockRequest): the name in the
\* host header ends at the first colon.
HostRead(r) == IF r.host \in Literals THEN Bracket ELSE r.host
PortRead(r) == IF r.port = <<>> THEN <<Default[r.scheme]>> ELSE r.port

\* Schemes, methods and hosts are compared without case, and the two names of this
\* machine are one (hostname_equals).
SameText(a, b) == Lower[a] = Lower[b]
SameHost(a, b) == SameText(a, b) \/ {Lower[a], Lower[b]} \subseteq Loopback

AcceptsHeaders(d, r) == ToSet(d["header"]) \subseteq ToSet(r.headers)
AcceptsQuery(d, r) == ToSet(d["query_param"]) \subseteq ToSet(r.query)
AcceptsRequest(d, r) ==
    /\ \A scheme \in ToSet(d["scheme"]) : SameText(scheme, r.scheme)
    /\ \A method \in ToSet(d["method"]) : SameText(method, r.method)
    /\ \A host \in ToSet(d["host"]) : SameHost(host, HostRead(r))
    /\ d["port"] \in {<<>>, PortRead(r)} /\ d["path"] \in {<<>>, <<r.path>>}
    /\ d["body"] \in {<<>>, <<r.body>>}
    /\ AcceptsHeaders(d, r) /\ AcceptsQuery(d, r)

Answering(r) == {n \in DOMAIN played : AcceptsRequest(played[n], r)}
LastMock(r) == Max(Answering(r))   \* wrong: the newest mock
FirstMock(r) == Min(Answering(r))
Playback(r) == Delivered(Answer(played[FirstMock(r)]))

-------------------------------------------------------------------------------
Next ==
    \/ \E method \in Methods, v \in Values : Define(method, v)
    \/ \E r \in Requests, took \in Durations : Record(r, took)
    \/ Export
    \/ Load
    \/ StartOver

Spec == Init /\ [][Next]_vars
-------------------------------------------------------------------------------
\* An exchange covers a request if it is the same in everything the recording keeps,
\* where the case of methods, schemes and hosts does not count, nor which of its names
\* is used for this machine.
Covers(e, r) ==
    LET q == e.request
    IN  /\ SameText(q.method, r.method) /\ q.path = r.path
        /\ ToSet(q.query) \subseteq ToSet(r.query)
        /\ q.body \in {Empty, r.body}
        /\ \A i \in DOMAIN q.headers :
              NameOf[q.headers[i]] \in ToSet(RecordHeaders) =>
                 \/ q.headers[i] \in ToSet(r.headers)
                 \/ \E j \in 1..(i - 1) : NameOf[q.headers[j]] = NameOf[q.headers[i]]
        /\ q.proxied => /\ SameText(q.scheme, r.scheme) /\ SameHost(q.host, r.host)
                        /\ q.port \in {<<>>, PortRead(r)}

\* A server that has loaded a recording answers every request that was recorded, with
\* what the client got from the earliest exchange that covers it: status, body and
\* headers in their order, also for bytes that are no text, for functions that made
\* the answer, and if the recording went on after the export.  So exchanges with
\* localhost answer for 127.0.0.1 as well, on the same port and path.  The exception
\* are requests that a proxy got for an IPv6 address.
PlayedBack ==
    outcome = "loaded" =>
        \A n \in 1..exported :
            LET r == exchanges[n].request
            IN  r.host \notin Literals =>
                    /\ Answering(r) # {}
                    /\ Playback(r) = exchanges[Min({k \in 1..n : Covers(exchanges[k], r)})].response

\* A recording can be exported and loaded unless nothing was recorded, a request in it
\* had a method that the format does not know, or was a GET or HEAD with a body, the
\* case of the method's name not counting; then nothing before that exchange is lost,
\* and nothing after it is there.
RefusedForCause ==
    LET unknown == \E n \in 1..exported : Upper[exchanges[n].request.method] \notin KnownMethods
        bodies == {n \in 1..exported : /\ Upper[exchanges[n].request.method] \in Bodyless
                                       /\ exchanges[n].request.body # Empty}
    IN  outcome # "none" =>
            /\ outcome = "refused" <=> exported = 0 \/ unknown \/ bodies # {}
            /\ ~unknown => Len(played) = IF bodies = {} THEN exported ELSE Min(bodies) - 1

===============================================================================
