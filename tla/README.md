# A verification of httpmock in TLA+

httpmock is a mock server for tests. A test starts (or connects to) a server,
registers mocks, forwarding rules, proxy rules and recordings on it, lets the
code under test send requests, and asserts how often each mock was called. This
directory holds TLA+ models of the parts that decide whether such a test can
trust what it sees, the TLC runs that check them on small instances, and proofs,
checked by TLAPS, of what holds for all instances. `PROJECT.json` maps each
definition to the lines it stands for.

    tlc -config MCAssertions.cfg MCAssertions          model-checks one run
    tlapm StateManagerProofs.tla                       checks the proofs of a module

Contents: [1 the system](#1-the-system) ·
[2 the modules](#2-modules-and-their-code) ·
[3 the runs](#3-runs-bounds-and-what-they-show) ·
[4 fairness](#4-fairness) · [5 the proofs](#5-proofs) ·
[6 disagreements](#6-disagreements-between-code-and-documentation) ·
[7 what is not modelled](#7-not-modelled-and-why) · [8 the plan](#8-plan)

## 1 The system

| Component | Code (under `src/src/`) | State it keeps | Operations | What is hard |
|---|---|---|---|---|
| State manager | `server/state.rs` | one mutex over the tables of mocks, forwarding rules, proxy rules and recordings, four id counters, the request history and its limit | add, delete, delete all per table; `serve_mock`, `verify`, `record`, `export`, `load`, `reset` | `reset` and `load` take the mutex several times; eviction at the limit; static mocks |
| Request handler | `server/handler.rs` | per request, in a future | route to a management call or to `catch_all`: forward, proxy or serve a mock, then record | three look-ups and a recording under separate locks, waits in between, cancellation |
| Management API | `api/adapter/{local,remote}.rs`, `server/handler.rs`, `api/proxy.rs`, `api/mock.rs` | the handles (`Mock`, `ProxyRule`, …) in the tests | create, delete, playback, export, reset | two adapters with the same trait and different failure behaviour; lost requests and answers; routing |
| Assertions | `api/mock.rs`, `api/output.rs`, `server/state.rs` | – | `assert_calls`: read the counter, then ask for the closest request | the two questions see different states |
| Server pool | `api/server.rs`, `common/util.rs` | two global pools of adapters, and which test holds which | `start`, `connect`, reset with retries, `Drop` | exclusive leases, panics, waiting while holding, leftovers of one test seen by the next |
| Matchers | `server/matchers/*.rs` | none | does a request meet a condition; how far is it | 70 conditions made from shared generic matchers with strategies, operators, negation and case |
| Spec builder, readers | `api/spec.rs`, `server/matchers/readers.rs` | the definition under construction | some eighty methods of `When` and `Then`; as many readers | each is wired to its field by hand; some replace, some add |
| TLS certificates | `server/tls.rs` | a cache of certificates and one mutex per host name; a peek buffer | look up or generate a certificate | check, lock, check again, on threads the runtime needs; panics with the mutex locked; key of the cache and names of the certificate come from different places |
| Transport | `server/transport.rs` | the accept loop and a task per connection | accept, TLS detection, CONNECT, HTTP | heads in pieces, upgrades, tunnels in tunnels, shutdown |
| HTTP client | `common/http.rs` | a connection pool (library) | send a forwarded request, call a remote server | no timeout |
| Blocking helpers | `common/util.rs` | a waker and a parked thread | `with_retry`, `Join` | a wake-up between a poll and a park |
| Data types | `common/data.rs` | – | conversions between JSON, YAML, http types | every field is listed in each conversion, some are renamed, bytes that are no text go another way |
| Recording files | `server/state.rs`, `server/persistence.rs` | the definitions of a recording; a file | record, export, load, play back | a lossy chain; entries that cannot be loaded; exchanges that cover each other |
| Server builder, standalone server | `server/builder.rs`, `main.rs` | configuration | start | – |

Components interact by calls and by one piece of shared state. A test calls
`MockServer` (spec builder, management API); the local adapter calls the
`Manager` directly, the remote one sends HTTP requests that `Handler::handle`
routes to the same methods. Requests of the code under test reach `catch_all`,
which uses the manager's look-ups (and through them the matchers) and the HTTP
client. All of them share the manager's mutex; between two critical sections
anything else can run. At the end of a test `Drop` returns the adapter to the
pool, and the next test resets the server.

What makes each part correct:

* **State manager**: the first defined mock wins and only its counter moves;
  ids are never reused; static mocks survive; the history is the most recent
  part of what arrived; a reset leaves nothing older than itself although others
  run between its five sections; playback keeps the order of the file.
* **Request handler**: forwarding before proxying before mocking, oldest first,
  also when rules come and go between the look-ups; each served request is
  counted once and recorded once, whatever becomes of its client; it ends.
* **Spec builder, data types**: what a call of `When` or `Then` was given is what
  the matcher of that condition reads, on a local server, on a remote one, and
  from a file.
* **Recording files**: a recorded request gets its recorded response at playback;
  a file is refused only for a cause one can name.
* **TLS, transport**: one certificate per host, for ever, that is right for the
  client; TLS is told from HTTP; a request gets the scheme of its own connection;
  no handshake, tunnel or connection blocks another one for good.
* **Blocking helpers**: no wake-up is lost; every call of the blocking API returns,
  with the outcome of its last attempt.
* **Management API**: a handle speaks of the thing its owner created; deletes
  remove that thing and no other; nothing is left that nobody can name.
* **Assertions**: the request shown is the nearest unmatched one.
* **Server pool**: one test per server, none lost; a test sees only what is its
  own or was still in flight at its reset; tests do not wait for ever.
* **Matchers**: a condition means what `When` documents, and excludes its
  negation; a request that is refused is at a distance.

## 2 Modules and their code

    StateManager ──┬── RequestHandler ── (composes requests, management calls, resets)
                   ├── ManagementApi  ── (composes a local and a remote caller)
                   └── Assertions     ── (composes testers with other tests' traffic)
    CertificateStore ◁─ Certificates ── Connections ─┬─ RoundTrip (composes clients, tunnels,
                                        Blocking ────┘             callers and the server)
    Definitions ─────── Recordings     (composes a recording server, a file, a playing one)
    Matching ────────── Distances      (define for one condition what Matches stands for)
    ServerPool         (many tests, many servers; a server's state in outline)

A line is EXTENDS; ◁ is a refinement (`INSTANCE … WITH`). `Assertions` and
`Definitions` also extend `Selections`, the filter over a sequence.

`StateManager` is the abstract specification of what is behind the mutex. The
three modules to its right EXTEND it and use its actions as their critical sections;
`HandlerImplementsManager` and `ApiImplementsManager` prove that the compositions
refine it. `XProofs` has the theorems of module `X`, and some have those of another
module with them: `ManagementApiProofs` those of `Assertions`, `RoundTripProofs` those of
`Certificates`, `Connections` and `Blocking`, `MatchingProofs` those of `Distances`, and
`RecordingsProofs` those of `Definitions`. An operator
marked *wrong* is a bug the code does not have. It is never used by a
specification; it documents which property would notice that bug.

**StateManager** (`server/state.rs`). One action per method of `Manager`. A
table is a function from ids to entries (the code's `BTreeMap`); `First` is the
`find` over its keys in order. A requirement is a value and `Matches` says which
requests it accepts. `reset` is `BeginReset` (the mocks, and the start) and four
further sections; `load_mocks_from_recording` is `BeginLoad`, then one
`LoadNext` per entry, or `LoadFails` at the first bad one. `phase` and `load` are
the program counters of the callers that run these two. `cut` and `arrivals` are
auxiliary: nothing in the code depends on them.

**RequestHandler** (`server/handler.rs`). `stage` is where `catch_all` is. The
actions are its awaits and critical sections in order: `Receive`,
`FindForwardRule`, `FindProxyRule`, `UpstreamAnswers` / `UpstreamFails`,
`ServeRequest`, `BuildResponse`, `RecordAndReply`. `Disconnect` drops the future
where it waits (hyper drops the service future when the connection closes; a
panic in `forward`, from a base URL that is none, has the same effect on the
state). `ManagementStep` is every management call, in one step where the manager
has one.

**ManagementApi** (`api/adapter/*.rs`, the routing in `handler.rs`). A call is
invoked, arrives, executes and returns; `Break` loses the request or the answer.
`abandoned` is auxiliary: what failed calls have created. An export may fail, since a
recording may not be convertible; which one is not, `Recordings` says.
A local caller skips the wire, and its calls do not get lost. `RoutedTo` is the
table a DELETE really reaches, `WireForm` what JSON leaves of a definition,
`LocalOnly` what `remote.rs` refuses to send. Both kinds of caller may use one
server at a time: the process that started it and one that connected to its port.

**Assertions** (`api/mock.rs`, `Manager::verify`). `AssertCalls` is
`fetch_mock` and the comparison of the counter, `Verify` the second question.
The distances are a table, so that the choice is checked for any; `Distances` is
where they come from.

**Selections** (`.iter().filter(…).collect()`, wherever the code filters). `Selected`
is a recursive function where the library has a `RECURSIVE` operator, so that it can be
reasoned about.

**ServerPool** (`api/server.rs`, `with_retry`). `stage` is where a test is:
waiting in `take_or_create`, in the reset of `MockServer::from`, using its
servers, dropping them. There are two pools, that of `start` and that of
`connect` (`Remotes`), and `Plan` says which of the two each test calls next. The
pool is the crate `async-object-pool`, modelled from how it is used (`TakeFree`,
`Create`, waiting, `put`), and marked external in the map. `poisoned` is the mutex
after a panic in a matcher function; the request that met it is in the history.

**CertificateStore**, **Certificates** (`server/tls.rs`). The first is the promise:
a host is given one certificate, once. The second is the code: `step` is where a
handshake is between looking into the cache (`LookUp`), locking the mutex of the
host (`Lock`), looking again, generating, inserting and returning. All of it is
synchronous, so a handshake occupies one of `Workers` threads while it waits. A
local server runs on a current-thread runtime (`Workers` = 1, nothing to
interleave), the standalone one on many threads; the model has more than one.
`HostOf` chooses the key of the cache, `SubjectNames` the names of the
certificate. `OneCertificatePerHost` is the refinement.

**Connections** (`server/transport.rs`, and the peek buffer of `tls.rs`). `stage` is
where the task of a connection is: in the backlog, peeking, reading the client
hello, in the handshake, serving, upgraded. What is peeked is the head of the
stream, of which parts arrive (`Arrive`), and which `Peek` copies as `advance` does:
from the first byte on, behind what it has copied before. `Connect` replies and spawns
the task that waits for the upgrade; the inside of a tunnel is a stream of its own
that goes through the same TLS handshake with another authority. hyper, the
upgrade and `tls-detect` are external, modelled from their use.

**Blocking** (`common/util.rs`). A thread in `Join`: poll, and park unless the
token is there. What completes the future runs elsewhere: `Happen`, then, as a step
of its own, `Wake`. The future is `with_retry`: attempts and delays.

**RoundTrip** composes the two: the attempts of a blocking caller are requests on
connections (`Lines`: one for each attempt of each join), which break, are refused once
the server has stopped listening, or are answered, next to other clients.

**Definitions** (`api/spec.rs`, `common/data.rs`, `readers.rs`). A definition maps
fields to what they hold. `FieldOf` is the wiring of the methods of `When` and `Then`
(a method and its field have one name, save where the table says otherwise),
`Replacing` those that assign instead of `push_to`, `ReadBy` the wiring of the
readers. `OverTheWire` is the JSON form, `ToFile` and `FromFile` the YAML form with
its renamed keys and its `_base64` variants; in both, a JSON body that is `Null` gets
lost (`ReadAsNone`), and a file has methods in upper case (`Written`). Values are texts,
bytes that are no text, and functions. The reference, `Told`, has a wiring of its own:
which condition a call is about (`Means`), and which fields hold one value by their
type (`Single`), not by what the methods do.

**Recordings** (`build_mock_definition`, `persistence.rs`,
`load_mocks_from_recording`, `serve_mock`). One server answers requests from a
mock that `Define` builds up and may change in between, `Record` turns exchanges into
definitions, `Export` and `Load` take them to another server, whose `Playback` is
compared with the original. Hosts, methods and schemes are compared as the matchers do
(`SameHost`, `SameText`). `StartOver` begins again after a load.

**Matching** (`server/matchers/*.rs`, `readers.rs`, `api/spec.rs`).
`StringEquals` … `BytesSuffix` are `comparison.rs`, with its early returns;
`Compare` is `comparators.rs`; `PairMatcher` and the lists made of it are the
table of `mod.rs`; `MultiValueAccepts`, `MultiValueCountAccepts` and
`SingleValueAccepts` are `generic.rs`. `Conditions` is what the methods of `When`
can put into a requirement. A state is a condition and a request, which `AddPair`
builds up pair by pair. Query parameters, headers, cookies and form fields have
pairs; method, host, path and body have one value. `Says` and `Meaning` are the reference: what the
documentation of `When` says, written without the code's helpers.

**Distances** (`server/matchers/*.rs`). The distance functions of the same
comparisons, comparators and matchers. `Levenshtein` is a recursive function from
the crate that is used; `FindBestMatch` is the choice among several pairs. `Blind`
names the cases in which a refusal is measured as 0 (see 6).

## 3 Runs, bounds and what they show

`StateManager` has no run of its own: its actions are the critical sections of the three
compositions, each of which refines it (see 5), and its properties are checked there, each
where the actions that endanger it are interleaved. The type invariants of `StateManager`,
`RequestHandler`, `ServerPool`, `Blocking` and `Matching` are theorems only (see 5); the
runs check the other ones, and spend the rest on other properties. Every bound is a
constant: `Max…` in the modules (guards of the actions that would exceed them), and the
sets in the `.cfg` files.

| Run | Bounds | Shows | Why they are enough |
|---|---|---|---|
| `handler` | 1 request in flight of 3 possible (one with a header that is no text), 2 mocks, 1 rule of each kind, 1 recording, an answer that cannot be recorded | `PriorityRespected`, and `EveryRequestEnds` under fairness | rules of every kind come and go between the look-ups; requests do not see each other's look-ups, so one is enough for priority (and the theorem has no bound) |
| `handler_shared` | 2 requests in flight, a static mock, a dynamic one with delay, 1 recording, 1 reset caller | `CountedOnce`, `RecordingComplete`, `ResetForgetsFinished` | two requests that share a mock, a recording and the history, with a reset between any two of their sections |
| `pool` | 2 tests that call `start` and `connect` in opposite orders, 2 local servers, 1 remote one, one test with a panicking function, 1 retry, 2 requests per test | `LeaseExclusive`, `LeftoversWereInFlight`, and `EveryTestEnds` under fairness | each server changes hands with requests of the previous test under way, resets fail before and after they took effect until the retries are used up, and each test waits for a pool while it holds a server of the other one |
| `api` | one local and one remote caller, 2 calls each, all things they can create, files with a bad entry | `ApiTypeOK`, `HandlesNameTheirThing`, `OnlyFailuresOrphan`, `DeletedIsGone`, `ResetSweeps`, `OnlyOwnDeletes`, `LoadInFileOrder`, `HandlesStable` | every two of create, delete, playback, export and reset on either side, in every interleaving of their sections: two resets at a time, a create followed by a delete or a playback on either side, with every interleaving and loss on the other side; in this run only the local caller has recordings |
| `assertions` | 3 requests, 3 requirements (one accepts two of the requests, the others one; for one of these the other requests are equally far), a static mock, 3 mock ids, limit 1, 3 arrivals, one caller that resets and plays a file back | `ShownIsNearest`, `HistoryIsSuffix`, `ShadowedNeverCounted`, `StaticMocksStay` | 3 arrivals at limit 1 evict once, so the request an assertion is about can be evicted between the two questions; 2 dynamic mocks shadow each other or are shadowed by the static one, are deleted and replaced, or come from the file; every method that touches mocks or the history comes between any two sections of a reset or a playback |
| `matching` | 9 words over 2 letters, one of them in both cases, up to 2 pairs, 4 patterns: `\S`, `\s`, `[[:upper:]]` and the empty one; names and values may be empty | `AcceptsWhatIsAsked`, `OppositesDisagree`, `RefusedIsApart`, `AppendingKeeps` | the empty word, words differing in case, proper prefixes and suffixes that do and do not agree; patterns that change their meaning in lower case, one without a match and one that matches everything; two pairs are what it takes for a repeated or an additional name |
| `roundtrip` | one cast of at most 3 streams at a time: a TLS client with an HTTP client that opens a TLS tunnel; two TLS clients; a tunnel in a tunnel; the two connections of a blocking caller with one retry, alone. Heads of 2 bytes looked at in 2 parts, 2 threads in the server, 1 domain, 3 addresses (its own, another, 0.0.0.0), 1 request per stream | `ConnTypeOK`, `DetectedUnlessSplit`, `HandlerSeesScheme`, `CertificateFits`, `ReachedHostCertified`, `FailuresAreIndividual`, `NoLostWakeup`, `LastAttemptCounts`, the refinement `OneCertificatePerHost` and, under fairness, `EveryHandshakeEnds`, `EveryTunnelOpens` | two handshakes for one host, and for two hosts, in every interleaving, one of them with a panic, on threads that two waiting handshakes use up; tunnels to a named host, to an address and to the server itself; a wake-up at every point between poll and park; a shutdown at any time |
| `calls` | casts: a blocking caller with one retry and its two connections, next to a TLS client whose generation may panic; a caller that calls twice. Heads in 1 part, otherwise as `roundtrip` | `EveryCallReturns`, under fairness | the attempt and its retry are accepted, wait in the backlog, break or are refused at every point of the other client's handshake, on the threads they share; the second call begins with what the first one left, tokens and wakers included, and the server may have stopped listening in between |
| `recordings` | every pair of calls of `Define` (`MaxCalls` 2), 2 exchanges of 10 requests; other requests and headers than the first exchange's at the second; before an exchange there is at most one call of `Then` per exchange | `ReadsWhatWasCalled`, `FileKeepsDefinition`, `PlayedBack`, `RefusedForCause` | two calls are what it takes to replace, to add, and to mix up two fields; two exchanges to be in each other's way; the requests differ from each other in one respect each (a parameter, a header, a repeated one, a body that is no text, an unknown method, a body on GET, a method in lower case, a proxy's host under both names of this machine and in both cases, an IPv6 host); one of the values is null |
| `pool_poison` | violation | `NextTestCanStart` fails | see section 6 |
| `api_recording` | violation | `DeletedIsGone` fails when the remote caller has recordings | see section 6 |
| `matching_short` | violation | `PrefixNotAcceptsOthers` fails | see section 6 |

Deadlock is checked in every run but those of `RoundTrip` (`roundtrip` and
`calls`), where the system may stop: clients send a bounded number of requests and then
stay connected. What must not stop there are the three liveness properties. In the other runs, deletes of
everything are possible at all times in the models with a manager of their own;
`ManagementApi` and `ServerPool` have an explicit step for the end (`AllDone`,
`AllOver`), so that TLC would report any other state in which nothing can happen,
such as tests that wait for each other; `Recordings` can start over.

Properties worth a word:

* `HandlesStable` is about ids in `api`, where nothing is served: that counters and
  recordings do not shrink either shows in `CountedOnce` and `RecordingComplete`.
* `HistoryIsSuffix` is exact: the code keeps limit + 1 requests (see 6), and the
  property says so.
* `ResetForgetsFinished` and `LeftoversWereInFlight` say what a reset does *not*
  promise: a request that was accepted before it may be logged, counted and
  recorded after it. For a pooled server that is in the next test. The models
  show that this is the only way anything gets across.
* `StaticMocksStay` says that the static mocks stay, that they stay the oldest, and
  that their counters do not fall.
* `OnlyFailuresOrphan` follows what failed calls have created (`abandoned`): a lost
  answer of a create, or a playback that fails in the middle, leaves things that no
  handle names, until the next reset. Nothing else does, before a failure or after it.
* `ShownIsNearest` has both halves: what is shown is nearest among what does not match,
  and "no request" means that everything seen does match.
* `HandlesNameTheirThing` compares with the form in which a definition got to
  the server, because an `is_false` function does not get there (see 6).
* `AcceptsWhatIsAsked` excludes, by name, the cases `CutShort` where the code's
  early returns cut across the documentation (see 6), and the two kinds whose
  meaning is a regular expression's; `OppositesDisagree` does not exclude them,
  save the empty body value.
* `RefusedIsApart` likewise excludes `Blind`, by name. Each clause of `Blind` is needed:
  without it the run finds a refused request at distance 0. The property also
  covers the subtractions, which would wrap below 0 (a panic in a debug build).
* `DetectedUnlessSplit`: a TLS client is taken for one of HTTP only if a part of its
  head was looked at before it had all arrived (see 6); an HTTP client never for one
  of TLS.
* `CertificateFits` is about the cache for any use of it, `ReachedHostCertified` about
  what the transport makes of it: the client's own view of whom it talks to. It
  excludes clients that name no server and are in a tunnel to a domain or at
  0.0.0.0, whose certificate has no fitting name (see 6).
* `ReadsWhatWasCalled` and `FileKeepsDefinition` exclude, by name, a JSON body that is to
  be null (`SaysNull`), which gets lost (see 6); nothing else does.
* `PlayedBack` names the rule for exchanges that cover each other (the earliest wins, and
  localhost covers 127.0.0.1) and excludes IPv6 hosts of proxied requests (see 6).
* `EveryTestEnds` depends on the plan: see the assumption below.

## 4 Fairness

Liveness is stated in three places, with weak fairness only.

* `RequestHandler!FairHandlerSpec`: a task that can go on does (tokio polls it,
  and timers fire), and an upstream server answers or fails in the end. The
  second is an assumption about the environment: the HTTP client sets no
  timeout, and without it a request forwarded to a silent server stays open
  until its client leaves. Nothing is assumed of management calls or clients.
* `ServerPool!FairSpec`: tests are threads or tasks that run when they can; a
  test that waits gets a server that is free or can be created (the pool's
  `take_or_create` wakes a waiter on `put`; with weak fairness only, since in the
  model a test that waits is not overtaken for ever: each test starts a bounded
  number of servers); each test, at work, starts its next server or ends. That
  tests end is an assumption about the tests. `EveryTestEnds` holds for plans that
  connect once per test and have a local server for each `start`: a test that
  connects twice waits for the only adapter, which it holds itself, and two tests
  with opposite orders block each other when both pools have one server.
* `RoundTrip!RoundTripSpec`: for each thread of the client, its own steps, and what it
  waits for (an attempt ends, a delay elapses, a waker is called). For the server
  one condition on all its tasks together (some task that can go on does: the
  runtime has threads, and the steps of all tasks are finite, so each gets its
  turn), and one on the clients: a connected client sends the head of its stream,
  a caller its request. Nothing is assumed of hang-ups, shutdowns, panics, later
  requests, or spurious returns of `park`.

## 5 Proofs

Proved by TLAPS for all values of the constants that satisfy the named
assumptions (`DataAssumption`, `BoundAssumption`, `HandlerAssumption`,
`PoolAssumption`, `MatchingAssumption`, `CertificateAssumption`,
`ConnectionAssumption`, `BlockingAssumption`, `AssertionAssumption`,
`DefinitionAssumption`, `RecordingAssumption`, `DistanceAssumption`, and those of the
modules they extend; all are evaluated by TLC in the runs). The bounds are arbitrary
naturals in the proofs. Every property that a passing run checks is a theorem, save
liveness.

**StateManagerProofs.** Most invariants are not inductive by themselves and
rest on two others: types, and `IssuedIds` (all ids in a table are below its
counter). The work is done once per table: `MockTableStep`, `RuleTableStep` and
`RecordingTableStep` classify every step as "leaves alone, adds one entry under
the counter, removes entries, or updates entries in place", and the invariants
then need one case per effect.

* `TypeCorrect`: `TypeOK`.
* `FirstDefinedTakesPrecedence`, `StaticMocksSurvive`: from `MockInv`, which adds
  to both invariants that mock ids are below the counter; that counters do not fall is
  in `MockTableStep`. Without it a new mock
  could land below an old one and shadow it after it was counted.
* `HandlesNeverReused`: the action property `HandlesStable`, from `IssuedIds`.
* `ResetSweepsOlder`: `ResetSweeps`, from `SweepInv`: the thresholds a reset
  noted are at most the counters, so whatever is added later is above them.
* `HistoryKeepsLatest`: `HistoryIsSuffix`, inductive with types alone.
* `PlaybackKeepsOrder`: `LoadInFileOrder`, with the ids a playback has got below
  the counter and its position inside the file.

**RequestHandlerProofs.**

* `HandlerTypeCorrect`: `HandlerTypeOK`, strengthened by `AnswerReady` (a response
  is there when it is recorded).
* `HandlerImplementsManager`: `HandlerSpec => Spec`; every step of the handler is
  a step of the manager or leaves it unchanged. `ServerKeepsManager` draws one of
  the conclusions.
* `PriorityHolds`: `PriorityRespected`, from `TaskInv`: what has been looked up
  stays true of everything older than the request (`LookedUp`, `InOrder`), because
  a table never gets a new match below an id it has already issued
  (`NoOlderMatch`), and because a request's thresholds were issued (`SinceIssued`).

The accounts come next, with `ASSUME` that the set of requests is finite, as the only
further assumption. Counting is done once, at the end: the invariants are about
one-to-one functions, which a step extends by one pair or leaves alone.

* `EachRequestCountsOnce`: `CountedOnce`, from `CountInv`, which adds that no request
  was given a mock that is still to come; so a new mock starts with the 0 it should
  have. That a request picks once comes from `PriorityInv` (`route` is still "none").
* `ResetForgets`: `ResetForgetsFinished`. `LogFrom(f)`: `f` takes the places of the
  log to the requests they stem from, different ones, and none that was over when a
  reset began whose clearing of the log is done. A served request adds itself, and
  shifts the places when the oldest entry is dropped. `EndedStaysOver`: what was over
  then is so for ever, and can add nothing.
* `EachAnswerRecordsOnce`: `RecordingComplete`, from `RecordFrom(i, f)`, the same for
  the entries of recording `i`, and onto the requests that found it there. A recording
  that is created has an id that no request in flight has seen (`SinceRecordings`).

**ManagementApiProofs.** For any set of local and remote callers and any losses.

* `ApiTypeCorrect`, and `ApiImplementsManager`: `ApiSpec => Spec`. A call changes the
  state of the server only while it executes, by one action of the manager, or by
  those of a reset or a playback in its own `phase`; all else is a stutter.
  `ApiResetSweeps` draws a conclusion.
* `HandlesNameOwn`: `HandlesNameTheirThing`, from `ApiInv`. `Named` strengthens the
  property: the id was issued, so that nothing created later can take it over; and it is
  followed from the section that creates (`CreatedNamed`, `PlaybackNamed`) through
  the answer to the handle.
* `DeletesAreFinal`, `DeletesAreOwn`: `DeletedIsGone` and `OnlyOwnDeletes`, under
  `RecordsLocally`: no remote caller has recordings, since their DELETE route goes to
  another table. Run `api_recording` shows that the first is false without it.
* `NothingForgotten`: `OnlyFailuresOrphan` is inductive with `ApiInv`, by the caller that
  knows the id (`KnownBy`, `StaysKnown`) or the failure that abandons it.

The theorems on `Assertions` are in the same module:

* `AssertionsImplementManager`: `AssertSpec => Spec`, since an assertion only reads.
* `ShownRequestIsNearest`: `ShownIsNearest`, from `AssertInv`. `verify` takes an index
  into the filtered history; `SelectedEnumerates` (below) takes it back to a place in the
  history, in order, so that the first of the nearest is the one received first, and
  nothing is found only if the filtered history is empty.

**ServerPoolProofs.**

* `PoolTypeCorrect`, `LeasesStayExclusive`: `TypeOK`; `LeaseExclusive` is inductive
  with it.
* `OnlyLateRequestsLeak`: `LeftoversWereInFlight`, from
  `PoolInv == TypeOK /\ LeaseExclusive /\ StartingHeld /\ Clean`. `Clean` extends the
  property from tests that work to tests that wait for or reset another server,
  and to requests in flight, which are what the history will contain.

**SelectionsProofs.** What the other modules need to know of a filter, and of
recursive functions in general. The library's induction theorems take an operator as a
parameter, which the provers cannot instantiate. `Inductive` states the principle for a
set instead: one that holds 0 and, with n, n + 1 holds all natural numbers. It follows from
the least number outside (`LeastExists`, from `WFMin`). `PrefixesExist` proves that the
recursive function is a function, `SelectedAppend` how it grows, and
`SelectedEnumerates` what it is: the entries in the set, each once, in their order.

**MatchingProofs.** Nothing but `TypeOK` needs induction over steps here; the rest
follows from the form of conditions and requests.

* `MatchingTypeCorrect`: `TypeOK`.
* `NegationsExclude`: `OppositesDisagree`. `PairTable` reduces the four tables of
  matchers on pairs to one, in which the names of the positive condition are folded
  only if those of the negative one are; comparators that differ in negation
  exclude each other, early returns included (`StringOpposites`, `BytesOpposites`).
* `MorePairsKeep`: `AppendingKeeps`, from what Presence and Absence ask of a list.
* `ConditionsMean`: `AcceptsWhatIsAsked`. `IncludesMeans`, `PrefixMeans` and
  `SuffixMeans` relate the comparisons of sequences with their plain meaning,
  `StringsMean`, `BytesMean` and `HostsMean` the comparators, `ValuesAccepted` and
  `PairsAccepted` the matchers. So what the code says of any ASCII words is what the
  documentation says, outside `CutShort` and regular expressions.
* `RefusedAreApart`: `RefusedIsApart`, in four layers. The table of edit distances is a
  recursive function on pairs of positions: `TableExists` shows that there is one,
  `TableMeasured` by induction over the sum of two lengths that an entry is at most the greater of them
  and is 0 for equal prefixes only (`EditDistance`). Then the
  measures (`CommonSubstring`, `SubstringMeasure`, `PrefixMeasure`, `BytesWindows`), which
  include that nothing is subtracted from less; then one lemma per comparator
  (`StringRefused`, `NegatedRefused`, `HostRefused`, `BodyRefused`), that a value it
  refuses is away from what is expected; then the matchers (`ValueRefused`, and
  for pairs `PresenceAway`, `AbsenceAway`, `CountAway`). The proof showed four cases that
  `Blind` did not name, since the run had neither empty names nor an empty pattern: they
  are in `Blind`, in the run and in section 6 now.

**RecordingsProofs.** From two invariants, for any number of calls and exchanges.

* `DefInv`: a field holds what its method was told (`Told`), of its type. A call
  reaches one field (`FieldOfAspect`, `AspectsAreApart`) and extends or replaces what is
  there, and so it does with `Told` (`ToldMore`, from `SelectedAppend`). `CallsAreRead`
  is `ReadsWhatWasCalled`.
* `FilesKeepDefinitions`: `FileKeepsDefinition`. Keys are different for different fields
  (`KeysAreReadBack`), and a field holds texts or bytes but not both, as one call makes it
  (`OneKind`), so that it is in one of the two entries as a whole. Methods are in upper
  case already when they are written.
* `RecInv`: each recorded definition is what `BuildMockDefinition` makes of its exchange,
  the file is the recording as far as it was exported, and what was loaded is the file
  up to its first bad entry. `LoadingFailsForCause` is `RefusedForCause`: an entry is
  bad if and only if its exchange has one of the causes (`ValidWhen`, `ConvertibleWhen`).
* `RecordingsPlayBack`: `PlayedBack`. A loaded definition accepts a request if and only if
  its exchange covers it (`AcceptsWhen`, with `HeadersAccepted` for the first value of each
  header that is recorded, and with the assumption on `Upper` and `Lower` that a method in
  upper case is the same in lower case); so the first mock that accepts is the first exchange that
  covers. Headers come back in their order although they are grouped by name twice, since
  grouping what is grouped changes nothing (`GroupedAgain`).

**RoundTripProofs.** Those on certificates all from `CertInv`, which says who may be where:

* `Exclusive` (a handshake past the mutex is its owner), hence `Absent` (until it has
  inserted, the cache has nothing for its host: the second look said so, and nobody
  else can have inserted since), hence `Given` (what was handed out is what the cache
  has, for ever). Without the second look `Absent` fails, and with it the rest.
* `StoreFits`, with `Own`: what any handshake generates is right for its host,
  whatever its authority. The two branches of `LocalOnly` meet in this one lemma,
  `OwnFits`. `CertificatesFit` follows.
* `FailuresStayIndividual`: the mutex is entered also when it is poisoned.
* `CacheImplementsStore`: each step of the code is `Ask`, `Publish`, `Give` or `Fail` of
  the abstract store, or a stutter; `Insert` publishes because of `Absent`, `LookUp`,
  `LookAgain` and `ReturnOwn` give because of `Given` and `Made`.
* `TransportImplementsCertificates`: every step of `Connections` is a step of
  `Certificates` or leaves it alone, so all of this holds below the transport.

Those on connections, from `ConnInv`:

* `DetectionRight`: `DetectedUnlessSplit`, from `PeekedRight` (a part that was peeked
  at once is in the buffer byte by byte; `advance` begins anew with the next one) and
  `TakenFor`. The lengths of the parts are arbitrary.
* `SchemesReachHandler`: `HandlerSeesScheme`, from `Understood`: while a request is
  handled its connection does not change what it was taken for.
* `ReachedHostsCertified`: `ReachedHostCertified`, from `Addressed` (the authority a
  certificate is looked up with stays that of the stream: no later CONNECT takes over
  the tunnel) and `CertInv`, which `TransportImplementsCertificates` makes available.

* `TransportTypes`: `ConnTypeOK`. Peeking adds up what repeated peeks return, and yet
  `peeked` is never above the length of the head: a peek copies no more than is missing
  from its part, a part is no longer than the head, and the sum begins anew with each.

Those on blocking calls, from `JoinInv`: `WakeupKept` extends `NoLostWakeup` from threads
that sleep to threads that are about to park, and `TriesRecorded` ties the number of
the attempt to the outcomes so far.

* `JoinTypeCorrect`, `NoWakeupIsLost`, `RetriesReturnTheLast`.
* `RoundTripImplementsParts`: `RoundTripSpec => ConnSpec /\ JoinSpec`, so that all of
  these, and the theorems on connections and certificates, hold in the composition.

**Only model-checked.** Liveness (`EveryRequestEnds`, `EveryTestEnds`,
`EveryHandshakeEnds`, `EveryTunnelOpens`, `EveryCallReturns`) is beyond this prover, which
has neither the rules for fairness nor `ENABLED`. So are the three violations of section
6, which are about the behaviours of one instance.

## 6 Disagreements between code and documentation

Shown by a run (quoted in `PROJECT.json`):

* **A panic in a matcher function poisons a pooled server** (`pool_poison`).
  `is_true` and `is_false` functions run with the manager's mutex locked. A panic
  poisons it, `Drop` puts the server back, and every later test that gets it
  panics in `reset`, although the guide promises that the server is cleaned.
* **Deleting a recording remotely deletes a proxy rule** (`api_recording`).
  `handle_delete_recording` calls `delete_proxy_rule`.
* **`…_prefix_not` refuses short values** (`matching_short`): the length check
  before the comparison returns false, negated or not. `…_suffix_not` likewise.

Found by reading, without a run of their own (no interleaving is needed to see
them; the models reproduce the ones that concern their state):

* A condition that the JSON body is null gets lost. `json_body` is an `Option<Value>`
  (`common/data.rs:860`) and so is its form in a file (`:1276`); `Some(Value::Null)` is
  written as null, which is read as `None`. A mock that is to match null only matches
  everything on a remote server, although `json_body` documents (`api/spec.rs:3342`) that
  "the request body exactly matches the JSON value provided". `ReadsWhatWasCalled` and
  `FileKeepsDefinition` say that nothing else gets lost.
* A TLS client whose hello arrives in pieces is taken for one of HTTP:
  `TcpStreamPeekBuffer::advance` (`server/tls.rs:366`) adds up what repeated peeks
  return, although each begins at the first byte. The guide to HTTPS says that the
  port detects TLS. `DetectedUnlessSplit` says that there is no other cause.
* The pool of `connect` ignores the address: the adapter of the address asked for
  first is handed out for every other one (`api/server.rs:96`). Its size is one, so
  that a test that connects twice waits for itself.
* The history keeps limit + 1 requests: it evicts when it is *longer* than the
  limit and then appends (`server/state.rs:200`; `server/builder.rs:271` speaks of
  the maximum).
* Deleting what is not there succeeds locally (`api/adapter/local.rs:110`) and
  fails remotely; `api/proxy.rs:80` and `:134` document the panic for both.
* Remote playback always fails: its path leads to the handler that creates a
  recording (`api/adapter/remote.rs:332`).
* A remote export is a JSON array of bytes: the file is serialised a second time
  (`server/handler.rs:335`).
* Remote definitions lose `is_false`: only `is_true` is looked at
  (`api/adapter/remote.rs:37`).
* When every request of the history matches, `assert_calls` says "No request has
  been received" (`api/output.rs:21`).
* Some refusals are measured as distance 0, so that the message of a failed
  assertion can show another request than the nearest: a suffix is looked for in a
  slice taken from the front (`server/matchers/comparison.rs:361`); negative conditions
  on nothing, on a pattern without text too; names that are empty or such a pattern, where
  the request has none; `prefix_not` and `suffix_not` of short values; `body_not` and
  `body_excludes` of the very value; `host_not` of an alias of localhost; header names
  given as patterns; and of several values of a name another one is measured than the
  one in the way. The slices for prefix and suffix distances are by bytes: off a
  character boundary they panic under the lock.
* `cookie_prefix_not`, `cookie_suffix_not` and `form_urlencoded_tuple_prefix_not`
  compare names without regard to case, the other conditions on cookies and
  forms do not.
* `body_excludes("")` accepts every body.
* A case-insensitive pattern is compiled from its lower-cased text
  (`server/matchers/comparison.rs:1167`), which turns `\S` into `\s`.
* A client that names no server in a tunnel to a domain gets a certificate for
  `0.0.0.0`, the fallback of `resolve` (`server/tls.rs:343`), which does not have the
  name of its target. Whether it has the names of this machine depends on who
  came first: they are added when there is no authority, and the cache is keyed by
  host alone.
* Inside a tunnel only TLS is served: plain HTTP in it closes the connection.
* Of exchanges that cover the same request the first recorded one answers all at
  playback; a recorded request without headers or parameters covers later ones
  that have more. As the host matcher takes localhost and 127.0.0.1 for one, what was
  recorded for the first answers for the second, on the same port and path.
* Of a repeated header only the first value is recorded as a condition. An
  `http::Request` cannot be made from a request with one: `common/data.rs:336`
  unwraps the failure.
* The host of a request ends at the first colon (`common/data.rs:153`), so that what
  a proxy recorded for an IPv6 address never matches at playback.
* `save_to` names files by the second: a second save in one second replaces the
  first (`api/proxy.rs:230`).
* A recorded GET or HEAD with a body is refused when the file is loaded, after the
  mocks before it have been added; the file of an empty recording is refused; one
  request with a method the format does not know fails the whole export.
* Keys of a YAML file that it does not know are ignored; of a `body` next to a
  `body_base64` nothing is left.
* A management request with a method its path does not support falls through to the
  mocks (`server/handler.rs:205`).

## 7 Not modelled, and why

* **Data.** Wording, layout and diffs of failure messages; JSON, YAML and URL
  parsing; what exactly an upstream server answers. A request or a response is a value,
  or a record of values where the properties need its parts (`Recordings`).
* **Matchers** on JSON bodies (a library compares), on scheme and port (as
  method, and integer comparison), and user functions. Words are ASCII; a pattern
  is the set of its words. A body condition is given as text by `When`, so bytes that
  are no text appear in bodies that were recorded only.
* **Failures of a test**: a failing adapter call panics in the test; the models
  let it go on as if it had caught the panic, or end. Panics in user functions are
  modelled where they have consequences for others, in `ServerPool`.
* **Mutex re-entrance**: a matcher function that calls its own server blocks. It
  needs no search, and what such a function calls is not the code's.
* **Delete-all and fetch calls** of the adapters that `MockServer` does not use
  outside `reset` and `assert_calls`; the handler model has the delete-alls. The loop
  of `MockSet::delete`, which stops at the first mock that is missing.
* **HTTP, the TLS protocol, the generation of keys**: libraries. Of a certificate
  there is who made it and its names. Time-outs of hyper and of TCP are breaks.
* **The end of the process**: when the accept loop has ended, the tasks of accepted
  connections go on in the model; the program cuts them off when it exits.
* **The conversions of http types** into each other (`TryFrom`, `From` between
  `HttpMockRequest`, `http::Request` and `http::Response`), and how the HTTP client rewrites
  URIs and headers: one-line projections without a state.
* **Configuration**: the command line, the builder's setters, file names, the reading
  of static mocks from a directory (each file is what `FromFile` reads).

## 8 Plan

Done: `StateManager`, `RequestHandler`, `ManagementApi`, `Assertions`, `ServerPool`,
`Matching`, `Distances`, `Certificates` with its abstract store, `Connections`, `Blocking`,
`RoundTrip`, `Definitions` and `Recordings`; all safety properties are proved.

To come:

1. An abstract API in which a call takes effect at most once between its invocation
   and its return, implemented by both adapters for everything but recordings.
2. The matchers on JSON bodies, with a model of inclusion between JSON values.
