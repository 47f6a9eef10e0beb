# A TLA+ verification project for lonesome-js

lonesome-js is a reverse proxy: a Rust library on top of Pingora that is driven
from JavaScript through napi. This directory holds TLA+ modules that model its
stateful parts, TLC configurations that check them on small instances, and
proofs, checked by TLAPS, of the most important invariants for instances of any
size. `PROJECT.json` is the index: which definition models which lines, which
run checks which property, which mutant of the code each property notices,
which theorem proves it, and which hazards of the code are covered by what.

Paths below are relative to the repository; Rust code is under `src/`.

## 1. The system

JavaScript creates a `LonesomeServer`, adds routes, error pages and
certificates to its stores, starts it and stops it. A started server is a
thread that runs Pingora; its worker threads call back into `LonesomeProxy`,
which takes a snapshot of the routes, picks one, runs its middlewares and asks
its upstream for a peer. A TLS handshake looks its certificate up by the name
the client sends; the SNI policy decides whether requests are routed by that
name or by their header. Two kinds of callbacks cross back into JavaScript:
interceptors (a handler decides on a request) and `virtual_js` upstreams (a
JavaScript listener plays the server behind an in-process socket). Every part
below is used from several threads at once.

| Part | Source | State | Operations |
|---|---|---|---|
| virtual_js registry | `virtual_js/registry*.rs` | listeners by key, socket entries, per listener an active flag, weak connection references, event queue | register, unregister, connect, write, shutdown, push, deactivate |
| virtual_js socket | `virtual_js/socket.rs` | pending chunks, eof, error, closed flag, waker | push data / eof / error, abort, poll_read, poll_write, poll_shutdown |
| server lifecycle | `bindings/server.rs`, `server/server.rs` | runtime slot, started and stopping flags, thread, shutdown channel | start, stop, status, drop |
| interceptors | `interceptor/`, `middlewares/interceptor` | handlers by key, their queues, environments | register, unregister, run_interceptor |
| upstreams, passive health | `upstream/`, `middlewares/health_check` | tolerance and failure window of each backend, tracked set | select_peer, observations, retries |
| routes | `route/`, `proxy/proxy.rs` | ordered table behind an atomic pointer, route pinned to a request | add or update, remove, match, reset |
| error pages | `server/error_page_store.rs`, `proxy/response.rs`, `middlewares/rewrite_error_page` | ordered entries, error status and body override of a request | update, remove, write_response, response filters |
| request pipeline | `proxy/proxy.rs`, `proxy/ctx.rs`, `middlewares/*` | the request context, header, retries, rate counters | the callbacks of Pingora in order |
| response cache | `middlewares/cache`, `proxy/cache.rs` | cached objects, purge times by namespace | lookup, fill, revalidate, purge |
| access log | `middlewares/access_log` | sinks by path, senders, queues, writer tasks | sink_for, send_line, the writer |
| certificates | `server/cert_store.rs`, `server/tls_callbacks.rs` | a default behind an atomic pointer, two concurrent maps for exact names and wildcards | update, remove, lookup by SNI |
| rules | `matcher/` | compiled programs, cache of regular expressions | evaluate, pre-check, analyse |
| configuration, bindings | `config/`, `bindings/` | none | validation, conversion |
| lonesome-lake | `example/lonesome-lake` | event queue, workers, routes | reconcile, spawn, activate, shut down |

What makes it hard: state is spread over copy-on-write maps, concurrent maps,
locks and atomics, and most operations touch two or three of them in turn; a
JavaScript environment may end at any moment, with calls in its queue;
requests hold snapshots and handlers across awaits; the proxy library retries
and pools behind the back of this code. The 40 hazards in `PROJECT.json` name
the lines.

What correctness means here, most important first: a stream of an unregistered
listener never lives on and no byte of a live one is lost, doubled or reordered
(registry, socket); there is at most one server, and its state is told
truthfully (lifecycle); nobody passes a gate that should stop them, and the
upstream and the cache see the host that was routed (pipeline); a request
belongs to one consistent route, and its rule means what CEL says although most
rules never reach CEL (routes, rules); a host that a rule routes is covered by
the certificate provisioned for it (certificates); a handler leaves the table only for a
reason and every request is decided (interceptors); backends are avoided for a
reason and not for ever, and retries end (health); the right page is sent,
whole (error pages); a purge holds (cache); a log line is lost only for a
named reason (access log).

## 2. Modules

| Module | Models | Step granularity |
|---|---|---|
| `VirtualJsRegistry` | the registry, proxy tasks, JavaScript threads, deactivating threads | one lock section, atomic access or event-queue call |
| `VirtualJsSocket`; `ByteStream` | the read side of one socket; the ordered byte stream it implements | one access to `closed`, one use of the waker, one turn of the copy loop |
| `ServerLifecycle`; `ServerStates` | start/stop/status/drop; the life cycle a user sees | one lock section of a call, one event of the thread |
| `Interceptor` | the handler registry and the middleware that consults it | lookup, call, delivery, settlement, removal |
| `UpstreamHealth` | selection, passive health, retries | one atomic access |
| `RouteTable`; `RouteMap` | the ordered table and snapshots; the map from ids to routes it implements | one store or load of the pointer |
| `CertStore` | the default, the exact and the wildcard certificates | one write or read of a map |
| `TlsRouting` | `CertStore`, the handshake, the SNI policy and `RouteTable` composed | one read of a lookup, one call from JavaScript |
| `Matcher` | how a rule decides: the three-valued pre-check, CEL, the hosts and completeness that the analysis of rules reports | one node of a rule |
| `HostNames` | wildcards and labels, as rules and certificates compare them | operators only |
| `ErrorPages` | the page store, generated responses, replaced upstream responses | one callback |
| `RequestPipeline` | callbacks, middlewares, SNI policy, cache, purge, rate limit | one middleware of `request_filter`, one callback otherwise |
| `AccessLog` | sinks, senders, queues and writers for one file | one table access, one queue operation, one write |
| `*Proofs`, `VirtualJsRegistryInv`, `VirtualJsRegistrySteps`, `TlsRoutingInv` | theorems and their lemmas | |
| `MC*` | constants and symmetry sets for TLC | |

Names of actions and variables are those of the code where TLA+ allows it; the
comment at each variable gives the field it stands for, and `map` in
`PROJECT.json` the lines of every definition. A definition whose comment begins
with "Mutant" is a plausible bug: it is not part of any specification, and
exists so that each property can be seen to notice it.

The components are composed where they interact through state: the registry
includes the half of the socket that talks to it, the pipeline includes cache,
purge and rate limiter, health includes the retry loop of the proxy, and
`TlsRouting` puts the certificate store, the handshakes and the route table
side by side, because what routes a request and what answered its handshake
have to agree on the host. Otherwise
a component sees another one as an arbitrary choice (an attempt succeeds or
fails, a handler answers anything of the right type), which covers whatever the
detailed module can do.

### What is merged into one step, and why that is sound

* Registry. The unlocked test of `active` before `attach_connection` is part of
  that step: the flag only ever goes from true to false, and it is tested
  again. `push_eof`/`push_error` look up, set and remove in one step. The
  removals of `detach_socket_state` from its two maps are separate steps, with
  ids in between in `detaching`. An iteration of the deactivating loop is two
  steps: notify; then abort and detach. `abort` is one step here and detailed
  in `VirtualJsSocket`. Pooled streams dropped without shutdown are `DropStream`.
  The two tests that `connect()` makes after "open", of the listener and of the
  socket, are one step, `FinishConnect`: no other thread tells the phases
  apart. A handler that throws fails the open.
* Socket. A reader polls with a `ReadBuf` that has room and holds nothing yet:
  `poll_read` tells "nothing read" by `filled()`, so a partly filled buffer
  would be returned as if it had read something.
* Lifecycle. Calls run on the JavaScript thread or an async worker; each lock
  section is a step. Dropping the object is two: the sender is taken and
  signals, then the thread is joined. A thread drains on a signal and equally
  when the sender is gone (`recv().unwrap_or`).
* Health. Reading the clock, `mark_tracked` and the subtraction are one step;
  the store of the window is another, so the two atomics can be seen apart.
  A pooled or fresh connection is a choice. The order of backends is arbitrary
  because it is the load balancer's, outside this code; it proposes at most
  `max_iterations` times, which may be zero. Where a hash key is configured,
  evaluating it may fail. `failedAt` is a history variable, the time of the
  last failure that was counted.
* Routes and error pages. A server object belongs to one JavaScript
  environment, so the load-compute-store of an update has one writer. A lookup
  works on an immutable snapshot, so it is atomic at its load.
* Certificates. `lookup` is three steps, one per map, and a call from
  JavaScript may fall between any two. `set` and `remove` change one map under
  one name. A certificate is the set of names it carries and whether OpenSSL
  takes its leaf and key together, which only the handshake finds out
  (`Outcome`). PEM and X.509 parsing is left out, and so is a `set` that fails,
  which changes nothing. Names are sequences of labels, and a final dot is an
  empty last label; `Lower` gives a label in lower case.
  Requests that the SNI policy refuses are not enumerated: `RoutingHost` is the
  set of hosts that remain. A client that gets no certificate may try again.
* Rules. The recursive walks of pre-check and CEL become one step per node, on
  rules written as the sequence of their nodes, arguments first. This is also
  what makes a proof for rules of any size possible without induction over
  data. A part that the pre-check does not look into gives any value in CEL,
  an error included; `&&` and `||` absorb errors as CEL's do. A rule of the
  model is the tree that `build()` makes of an expression; how it makes it
  (`precheck/cel.rs:47-101`) is not a step of the model.
* Error pages. A response that cannot be written is `WriteFails`. The
  `rewrite_error_page` middleware has a list of statuses and a rule, which is a
  set of classes of requests.
* Pipeline. A rule is a test of the method as received, because expressions see
  a copy of the header taken on arrival. A limiter without a key does not
  apply; all limiters count in one counter, and each compares it with its own
  limit. A responder whose write fails ends in 502. The scheme of a request is
  that of its URI, if it has one, before that of its connection, and
  `redirect_https` goes both ways (`to_http` is the kind `redirect_http`).
  `request_headers` appends to some header, or sets, defaults or removes Host.
  `ForceAuthority` passes over each of Host and `:authority` that cannot hold
  the server name (`HeaderValue`, `UriAuthority`). Hosts and paths are
  sequences of parts, because the cache key runs them together. A purge locks
  out other purges, copies the map of all namespaces, and stores the copy.
  The budget of health-check retries is in `UpstreamHealth`; here there is a
  bound on attempts. Vary, eviction and the cache lock are left out; a
  confirmed revalidation yields content as of now.
* Access log. A line is `Parts` writes, so two writers could mix lines. A
  middleware whose file cannot be opened is not built, and takes no step.

## 3. Runs

`tlc -config X.cfg M`, with the module given in `PROJECT.json`.

| Run | Question | Instance |
|---|---|---|
| `registry` | do map, weak references, entries and streams stay consistent through connect, push, pooling and deactivation, and does every connect settle? | one key registered twice, a connection, a JavaScript thread, a queue of one |
| `socket` | is it an ordered byte stream, is no wake-up lost, does everything arrive? | two pushers, 3 bytes, chunks and buffers of up to 2 |
| `lifecycle` | one server, an honest state, every `stop()` and drop finished? | three threads, two overlapping `stop()` |
| `interceptor` | who is let through, what is answered, why do handlers go, is every request decided? | one key, two handlers of two environments, two requests, a queue of one |
| `upstream_health` | do lockouts and refusals have a cause and an end, do retries end? | two backends (one virtual_js), two requests, a clock of 2 instants, faults in the first, no or two proposals |
| `route_table` | does every request get the best route of one moment; does a lookup pass a certificate over; is a routed host covered? | a connection, two routes with an exact and a wildcard rule that overlap, a host with capitals and another one, certificates that work and that do not under an exact name, a wildcard and as the default, the strict SNI policy |
| `matcher` | does the pre-check agree with CEL, do complete rules decide, do the reported hosts tell requests apart? | 150 rules of up to four nodes over leaves of every kind, two requests, three hosts, two paths |
| `error_pages` | is the best page chosen, and sent whole? | two pages, three updates, two classes of requests, bodies empty or not, every response shape, failing writes |
| `request_pipeline` | gates, routed host, equal attempts, purge, own objects | two requests of nine shapes, five tables, four SNI policies, a purge in each of two namespaces |
| `access_log` | are lines lost only for cause, in order, and eventually written? | two middlewares, three requests on two servers, a queue of one |
| `interceptor_duplicate`, `upstream_http_errors` | two disagreements, section 6 | |

Why the bounds are enough for the cases of interest: two instances of one key
are what a stale deactivation needs; a queue of one is both empty and full;
chunks of 2 with buffers of 1 and 2 give partial and multi-chunk reads; three
threads allow stop, start, stop; two handlers of one key give the stale removal;
a window of one tick in two instants lets a lockout begin, hold and end;
three attempts of a request with one retry leave room for a dead pooled
connection besides both connect failures; nine
request shapes contain every disagreement among SNI, `:authority`, `Host` and
scheme that the properties tell apart, a server name and a Host that are no
host names included; policies are paired with the tables on which they matter
(all four with the gates); two requests share a cache, its purges and a
limiter; under the strict policy a request is routed by a name it sent itself,
which has to agree with the certificate's, and the theorems cover the others,
and names with a final dot; one connection suffices for certificates and routes because
connections only share tables that they do not write, and the certificate of a
host spelled in capitals, a wildcard over it and a default give every layer a
lookup can answer from, present or not at each read; the rules contain every
operator over an unknown part and every kind of known one. Deadlock checking is off where a system may come to rest (all calls
made, all requests served) and on for routes and error pages, which never stop.

Type invariants are proved for the registry, the lifecycle, health and rules.
`TypeOK` is not part of a run: it documents the variables.

Fairness. A Rust thread finishes the call it is in; the event loop of a living
JavaScript environment turns; a task that is woken is polled; the proxy goes on
reading a stream that gives it bytes; a server that is told to stop ends (the
drain is bounded by the grace period and the shutdown timeout); a runtime that
runs polls its writers; the clock advances. `EveryRequestDecided` further
assumes that handlers settle their promises: the code awaits them without a
time limit. Nothing assumes that JavaScript unregisters, pushes, or stops
anything. Symmetry is used only in runs without liveness.

### Reading the properties

* `RegisteredIffActive`, `UnregisteredStreamsDead`, `ConnectionRefsLive`,
  `NoStrayEntry`: a key names an active listener and a late deactivation does
  not take a newer one down; after a deactivation no stream of that listener
  is usable; what a deactivation drains can be upgraded; refused or finished
  connections leave nothing behind. Two deactivations of one listener may
  overlap, and the properties wait for both.
* `NoLostWakeup`, `ImplementsByteStream`, `ReaderGetsAll`: the socket.
* `OneServer`, `StoppedIsDown`, `ImplementsServerStates`, `StopAnswers`,
  `CollectedExits`: the life cycle. Dropping an object ends, with every thread
  down: the drop joins, so it has to signal first. That a dead thread is still
  "running" is not excluded (section 6).
* `OnlyLetThrough`, `RespondsAsAsked`, `DeadHandlerRemoved`, `RemovedForCause`,
  `EveryRequestDecided`: interceptors.
* `ConnectFailuresBounded`, `LockoutBounded`, `RefusedForCause`,
  `SkippedForCause`, `EverythingSettles`: health and retries. A 502 for want of
  a backend needs failures of every backend that was proposed, within a window
  of the look at it, or a `max_iterations` of zero.
* `ImplementsRouteMap`: routes. The abstract `RouteMap` is
  a set of routes without order: it says that a request gets the best match
  among the routes present at one moment since it arrived.
* `LookupForCause`, `RoutedIsCovered`: certificates. The first says what the
  three reads of a lookup may miss. The names that were in the store throughout
  are the history variable `kept`; `gap` and `grown` record that a name was
  uncovered, or moved to an exact entry, in between. The second ties rules to
  certificates: a request that matched a pattern, on a connection whose
  handshake found that pattern in the store, was answered with a certificate
  for the name. It leaves out requests routed by header, and those whose server
  name and Host differ in a final dot (section 6).
* `MatchAgrees`, `CompleteDecides`, `HostsTellApart`: rules. Whenever CEL gives
  a boolean, `matches()` returns it; a rule reported complete never needs CEL;
  two hosts that match the same reported patterns fare alike in the pre-check,
  negations and conditionals included.
* `FirstIsBest`, `WholeBody`: error pages. Among pages of one priority the one
  updated longest ago is first. `WholeBody` leaves out upstream responses
  without content and without `content-length` (section 6).
* `GatesHold`, `UpstreamSeesRoutedHost`, `AttemptsAlike`, `PurgeHolds`,
  `CachedIsOwn`: the pipeline. `UpstreamSeesRoutedHost` and `CachedIsOwn` are
  stated for the policies, and the host names, for which the code means them
  to hold; their comments say which. The rate limiter is modelled and has no
  property: a bound on the requests it lets through would repeat its one
  comparison.
* `LostForCause`, `SinkWritesInOrder`, `AcceptedIsWritten`: the access log, sink
  by sink.

## 4. Proofs

Five components have theorems for every value of their constants: any number
of keys, listeners, connections, threads, servers, callers, backends, requests,
routes and certificates, and rules of any size. Each goes through an inductive invariant `IInv`: `Init => IInv`, one
lemma or step per action for `IInv /\ [Next]_vars => IInv'`, and
`IInv => Inv`; a temporal theorem ends with PTL.

* Registry (`VirtualJsRegistryInv` states the invariant and lemmas about
  operators, `VirtualJsRegistrySteps` has one lemma per group of actions,
  `VirtualJsRegistryProofs` the theorems). The four safety properties are not
  inductive: that streams of a dead listener are dead depends on every live
  stream being found by the drain. `LiveTracked` says so: a stream that is not
  dead is in its listener's `connections` or in the batch of a thread that will
  abort it. It needs `AttachedTracked` and `DrainInv` (references to an
  inactive listener are about to be drained), `EntryTracked` and `EntryInv`
  (the entry and the reference come and go together, up to the windows the
  code has), `MapInv`, and the bookkeeping of threads (`LisInv`, `DeactInv`,
  `BatchInv`, `TaskInv`).
  Theorems: `TypeCorrect`, `RegistryConsistent`,
  `NoLiveStreamAfterUnregister`, `WeakRefsUpgrade`, `EntriesRemoved`.
* Lifecycle (`ServerLifecycleProofs`). `OwnedInv` says that a thread that is up
  is in the runtime slot or in the hands of a `stop()`; `StopInv` that a
  pending `stop()` has the flag set, an empty slot and no rival; `FlagInv`
  relates the flags. Theorems: `TypeCorrect`, `AtMostOneServer`,
  `StoppedMeansDown`, `Refinement` (the object implements `ServerStates`).
* Health (`UpstreamHealthProofs`). `ToleranceInv` gives the tolerance of a
  backend in terms of the failures since its last success, `FailsInv` ties
  connect failures to the retry counter, `SeenInv` says what a selection has
  learned of the backends it has seen: each had failed within a window of the
  time it goes by. For that the window of a backend, and every store that is
  still to come, is bounded by its last failure. Theorems: `TypeCorrect`,
  `ConnectFailuresAreBounded`, `LockoutsAreBounded`, `RefusalsHaveCause`,
  `SkipsHaveCause`.
* Rules (`MatcherProofs`). `WalkInv` says how far pre-check and CEL have come
  and that they agree on every node walked; `EvalInv` that what the pre-check
  has given is a function of the rule and the request; `AlikeInv` compares two
  requests node by node; `DecisionInv` is about finished requests. The heart is
  a lemma about one node (`NodeAgrees`: agreement on the arguments gives
  agreement on the node), which the walk turns into a fact about rules.
  Theorems: `PrecheckIsSound`, `CompleteRulesDecide`, `ReportedHostsSuffice`.
* Certificates and routes (`TlsRoutingInv` states the invariant and has the
  lemmas about names, the store and the reads, `TlsRoutingProofs` one lemma per
  action and the theorems). `LookupInv` says what the reads so far prove: a
  name in the store since the lookup began was not in a layer already read.
  `DefaultInv` keeps what `start` demanded, `StoreInv` that a certificate
  carries the name it is stored under unless the check was waived,
  `PresentedInv` what an open connection was answered with, `HostInv` that
  requests are made on open connections for hosts the policy admits. That the
  property about routes follows needs two facts about names: lower case keeps
  wildcards apart from other names, and goes label by label, so a pattern that
  matches a host still matches it in lower case. Theorems: `LookupsForCause`,
  `RoutedAreCovered`.

Assumptions are the named `ASSUME`s on constants only: "None" values differ
from real ones, the two kinds of threads are disjoint, bounds are natural
numbers, arguments of a node come before it, lower case keeps the label `*` and
the empty label apart from others, policies are the four of the configuration.

Only model-checked: every liveness property (fairness and ENABLED are outside
this prover), that the ordered table implements `RouteMap` (what a sort returns
needs induction over sequences), and all properties of the socket,
interceptors, error pages, pipeline and access log, which have no proofs yet.

## 5. What is not modelled

* The example application lonesome-lake: TypeScript that drives the library
  through its public interface. Nothing in the library depends on it, and the
  calls it makes are modelled where they arrive.
* What CEL computes for a part that the pre-check does not look into, regular expressions, JWT cryptography, X.509, HTTP syntax,
  compression: libraries, or pure functions with outcomes that are arbitrary
  choices in the models.
* Validation and conversion of configurations: pure functions.
* Cancellation of a `connect()` future by the proxy while it waits for "open".
* How the napi library completes a call when its environment ends: with an
  error, which is taken for granted.
* In the access log, dropping every middleware of a path (which closes its
  queue) and requests outside a runtime.
* Pingora itself: its order of callbacks, its retry loop and its pool are
  modelled from their use, and marked external.

## 6. Disagreements between code and documentation

Two have a run that shows them:

* `interceptor_duplicate`: `run_interceptor` unregisters by key when its handler
  is closed (`interceptor/registry.rs:131`). A handler registered since is
  removed, and a second registration of the key is accepted although the first
  was never withdrawn.
* `upstream_http_errors`: connecting resets the tolerance before the 5xx of the
  same request is counted (`middlewares/health_check/mod.rs:119`), so with
  `max_attempts` of one or more, 5xx responses never make a backend unhealthy.

The others were met while modelling and have no run of their own:

* `bindings/server.rs:144`: if the server thread died during set-up, `stop()`
  leaves with an error before it clears `stopping`; `status()` says "stopping"
  for ever and `start()` is refused.
* `matcher/precheck/expr.rs:93`: "`True` always means the full rule is true" is
  not so where CEL gives an error: with a condition that fails and two branches
  that agree, `matches()` is true and evaluating the rule is an error.
  `MatchAgrees` is therefore stated for rules to which CEL gives a boolean.
* `cert_store.rs:106`: a name whose certificate moves from a wildcard to an
  exact entry during a lookup can be answered with the default although it was
  covered at every moment. The other direction is safe, and proved.
* `registry_store.rs:180`: unregistering while a connect waits queues "close"
  where `docs/virtual_js.md:53,59` has "open" first.
* `bindings/server.rs:136`: a second `stop()` returns at once while the first
  still drains; `docs/readme.md:116-117` says that it
  returns "only after graceful shutdown completes".
* `server.rs:179`: a server whose thread panicked is reported "running",
  "Started and serving." (`config/status.rs:9`).
* `error_page_store.rs:200`: an update takes its page out and appends it again,
  so it is last among equals; `docs/readme.md:222` speaks of insertion order.
* `cel_session_context.rs:25`: "strict" takes a server name and a Host that
  differ in a final dot for one host; the certificate store and the rules
  compare names as they are.
* `rewrite_error_page/mod.rs:117`: an upstream error without body and without
  `content-length` gets the header of a page (comment at 112-116).
* `response.rs:152`: the error status of a request is never cleared
  (`docs/cel.md:196-198`).
* `access_log/mod.rs:129`: `get` and `insert` are two steps, so two sinks and
  two writers can exist for one path (comment at 51-56). After the first
  server's runtime ends, later lines of the path are dropped.
* `tls_callbacks.rs:21`: a handshake without SNI does not consult the `*`
  certificate; `docs/tls.md:17-18` speaks of handshakes with an SNI only and
  leaves this case open.

## 7. Plan

Done, in this order: registry, socket, lifecycle, interceptors, health, routes,
error pages, pipeline with cache, access log, rules, certificates composed with
routes; theorems for registry, lifecycle, health, rules and certificates.

To model next:

1. `LakeRuntime`: the event queue of the example; workers that crash, answer
   late or are replaced; lazy routes and their waiters; shutdown.
2. A composition of `RouteTable` and `VirtualJsRegistry`: a route to a listener
   that comes and goes.

To prove next:

1. `Interceptor`: `OnlyLetThrough`, `RespondsAsAsked` and `RemovedForCause`.
2. `VirtualJsSocket`: `NoLostWakeup`, then the refinement of `ByteStream`.
3. `AccessLog`: `LostForCause`.
4. `RequestPipeline`: `GatesHold`, `PurgeHolds`.
