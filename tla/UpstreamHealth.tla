--------------------------- MODULE UpstreamHealth ---------------------------
(***************************************************************************)
(* The choice of a backend for a request (src/upstream/upstream.rs), the   *)
(* passive health of backends (src/upstream/lb.rs) and the middleware that *)
(* observes it and asks for retries (src/middlewares/health_check/mod.rs). *)
(* Health is kept in three atomics per backend that all requests of a      *)
(* route read and write without a lock; every atomic access that another   *)
(* request can see is a step of its own.                                   *)
(***************************************************************************)
EXTENDS Integers, FiniteSets

CONSTANTS
  Backend,            \* the endpoints a route may have
  VirtualJs,          \* those that are virtual_js listeners
  Req,                \* requests; their number bounds what is observed
  Retries,            \* retries of the health_check middleware
  Window,             \* its failure_window_ms
  MaxAttempts,        \* its max_attempts
  IncludeHttpErrors,  \* its include_http_errors
  Iterations,         \* values of max_iterations of the load balancer
  HashKeyRule,        \* whether it has a hash_key_rule, which may fail
  MaxRetries,         \* the proxy library's own bound on attempts
  MaxTime,            \* bound on the clock
  FaultTime,          \* backends stop failing after this time
  NoBackend           \* None

ASSUME HealthAssumption ==
  /\ NoBackend \notin Backend /\ Backend # {} /\ VirtualJs \subseteq Backend
  /\ IncludeHttpErrors \in BOOLEAN /\ HashKeyRule \in BOOLEAN
  /\ Retries \in Nat /\ MaxAttempts \in Nat /\ Window \in Nat \ {0}
  /\ Iterations \subseteq Nat /\ MaxRetries \in Nat \ {0}
  /\ MaxTime \in Nat /\ FaultTime \in Nat

VARIABLES
  endpoints,              \* the endpoints of the route
  hasHealthCheck,         \* the route has a health_check middleware
  maxIterations,          \* LoadBalancerConfig.max_iterations of the route
  tolerance, nextWindow,  \* PassiveHealthState of each backend
  tracked,                \* backends whose health was ever observed
  now,                    \* Utc::now, in units of the window
  pc,                     \* request -> where it is
  retries,                \* request -> UpstreamState.retries
  last,                   \* request -> UpstreamState.last_backend
  tries,                  \* request -> attempts counted by the proxy library
  seen,                   \* request -> backends the selection has looked at
  steps,                  \* request -> iterations of the selection
  cand,                   \* request -> the backend it looks at
  stamp,                  \* request -> the time it read, or the window it will store
  failing,                \* request -> "connect" or "http", what it observes
  outcome,                \* request -> how it ended
  connFails,              \* history: connect failures of each request
  failed,                 \* history: failures since the backend's last success
  failedAt,               \* history: the time of its last failure, long ago if none
  connected               \* history: backends ever connected to

route == <<endpoints, hasHealthCheck, maxIterations>>
health == <<tolerance, nextWindow, tracked>>
history == <<connFails, failed, failedAt, connected>>
selection == <<seen, steps, cand>>
vars == <<route, health, now, pc, retries, last, tries, selection, stamp, failing, outcome,
          history>>

Init ==
  /\ endpoints \in SUBSET Backend \ {{}} /\ hasHealthCheck \in BOOLEAN
  /\ maxIterations \in Iterations
  /\ tolerance = [b \in Backend |-> 0] /\ nextWindow = [b \in Backend |-> 0]
  /\ tracked = {} /\ now = 0
  /\ pc = [r \in Req |-> "select"]
  /\ retries = [r \in Req |-> 0] /\ tries = [r \in Req |-> 0]
  /\ last = [r \in Req |-> NoBackend] /\ cand = [r \in Req |-> NoBackend]
  /\ seen = [r \in Req |-> {}] /\ steps = [r \in Req |-> 0] /\ stamp = [r \in Req |-> 0]
  /\ failing = [r \in Req |-> "none"]
  /\ outcome = [r \in Req |-> "none"]
  /\ connFails = [r \in Req |-> 0] /\ failed = [b \in Backend |-> 0] /\ connected = {}
  /\ failedAt = [b \in Backend |-> -Window]

Tick == now < MaxTime /\ now' = now + 1
        /\ UNCHANGED <<route, health, pc, retries, last, tries, selection, stamp, failing,
                       outcome, history>>

Finish(r, how) == pc' = [pc EXCEPT ![r] = "done"] /\ outcome' = [outcome EXCEPT ![r] = how]
Goto(r, where) == pc' = [pc EXCEPT ![r] = where] /\ UNCHANGED outcome

(* The proxy library starts over after an error marked for retry.           *)
Retry(r) == IF tries[r] < MaxRetries THEN Goto(r, "select") ELSE Finish(r, "failed")

-----------------------------------------------------------------------------
(* select_peer.                                                             *)

(* Only routes with several endpoints and a health check look at health.    *)
Gated == hasHealthCheck /\ Cardinality(endpoints) > 1

(* last_backend is set, the locals of the selection are dropped, and        *)
(* peer_from_backend builds the peer: it fails for a virtual_js endpoint    *)
(* whose listener is not registered.                                        *)
Choose(r, b) ==
  /\ last' = [last EXCEPT ![r] = b]
  /\ seen' = [seen EXCEPT ![r] = {}] /\ steps' = [steps EXCEPT ![r] = 0]
  /\ cand' = [cand EXCEPT ![r] = NoBackend] /\ stamp' = [stamp EXCEPT ![r] = 0]
  /\ \/ Goto(r, "connect")
     \/ b \in VirtualJs /\ Finish(r, "internal")

(* selection_key fails, the balancer is asked with or without a look at     *)
(* health, or it may not propose anything: 502.                             *)
Select(r) ==
  /\ pc[r] = "select"
  /\ tries' = [tries EXCEPT ![r] = @ + 1]
  /\ \/ HashKeyRule /\ Finish(r, "internal") /\ UNCHANGED <<last, selection, stamp>>
     \/ /\ Gated
        /\ stamp' = [stamp EXCEPT ![r] = now] /\ seen' = [seen EXCEPT ![r] = {}]
        /\ steps' = [steps EXCEPT ![r] = 0] /\ Goto(r, "iterate")
        /\ UNCHANGED <<last, cand>>
     \/ ~Gated /\ maxIterations > 0 /\ \E b \in endpoints : Choose(r, b)
     \/ /\ ~Gated /\ maxIterations = 0
        /\ Finish(r, "refused") /\ UNCHANGED <<last, selection, stamp>>
  /\ UNCHANGED <<route, health, now, retries, failing, history>>

(* The balancer proposes any backend; one it has proposed before costs an   *)
(* iteration and is passed over.                                            *)
Iterate(r) ==
  /\ pc[r] = "iterate" /\ steps[r] < maxIterations
  /\ steps' = [steps EXCEPT ![r] = @ + 1]
  /\ \E b \in endpoints :
       /\ seen' = [seen EXCEPT ![r] = @ \cup {b}]
       /\ cand' = [cand EXCEPT ![r] = b]
       /\ Goto(r, IF b \in seen[r] THEN "iterate" ELSE "tolerance")
  /\ UNCHANGED <<route, health, now, retries, last, tries, stamp, failing, history>>

(* No backend was accepted: 502.                                            *)
Refuse(r) ==
  /\ pc[r] = "iterate" /\ steps[r] >= maxIterations
  /\ Finish(r, "refused")
  /\ UNCHANGED <<route, health, now, retries, last, tries, selection, stamp, failing, history>>

(* Mutant: tolerance zero counts as used up.                                *)
LoadToleranceStrict(r) ==
  /\ pc[r] = "tolerance"
  /\ \/ tolerance[cand[r]] > 0 /\ Choose(r, cand[r])
     \/ tolerance[cand[r]] <= 0 /\ Goto(r, "window") /\ UNCHANGED <<last, selection, stamp>>
  /\ UNCHANGED <<route, health, now, retries, tries, failing, history>>

(* is_healthy, first load.                                                  *)
LoadTolerance(r) ==
  /\ pc[r] = "tolerance"
  /\ \/ tolerance[cand[r]] >= 0 /\ Choose(r, cand[r])
     \/ tolerance[cand[r]] < 0 /\ Goto(r, "window") /\ UNCHANGED <<last, selection, stamp>>
  /\ UNCHANGED <<route, health, now, retries, tries, failing, history>>

(* Mutant: the window still excludes a backend when it ends.                *)
LoadWindowLate(r) ==
  /\ pc[r] = "window"
  /\ \/ nextWindow[cand[r]] < stamp[r] /\ Choose(r, cand[r])
     \/ nextWindow[cand[r]] >= stamp[r] /\ Goto(r, "iterate") /\ UNCHANGED <<last, selection, stamp>>
  /\ UNCHANGED <<route, health, now, retries, tries, failing, history>>

(* is_healthy, second load, against the time read before the iteration.     *)
LoadWindow(r) ==
  /\ pc[r] = "window"
  /\ \/ nextWindow[cand[r]] <= stamp[r] /\ Choose(r, cand[r])
     \/ nextWindow[cand[r]] > stamp[r] /\ Goto(r, "iterate") /\ UNCHANGED <<last, selection, stamp>>
  /\ UNCHANGED <<route, health, now, retries, tries, failing, history>>

-----------------------------------------------------------------------------
(* What the middleware observes.                                            *)

(* mark_success: observe_success stores the tolerance.                      *)
MarkSuccess(r) ==
  /\ tracked' = tracked \cup {last[r]}
  /\ tolerance' = [tolerance EXCEPT ![last[r]] = MaxAttempts]

(* connected_to_upstream, for a new connection or one from the pool.        *)
Connected(r) ==
  /\ pc[r] = "connect"
  /\ IF hasHealthCheck THEN MarkSuccess(r) ELSE UNCHANGED <<tracked, tolerance>>
  /\ failed' = [failed EXCEPT ![last[r]] = 0] /\ connected' = connected \cup {last[r]}
  /\ Goto(r, "proxy")
  /\ UNCHANGED <<route, nextWindow, now, retries, last, tries, selection, stamp, failing,
                 connFails, failedAt>>

(* Mutant: the window is stored in another unit.                            *)
MarkFailureUnits(r, what) ==
  /\ tracked' = tracked \cup {last[r]}
  /\ tolerance' = [tolerance EXCEPT ![last[r]] = @ - 1]
  /\ failed' = [failed EXCEPT ![last[r]] = @ + 1]
  /\ failedAt' = [failedAt EXCEPT ![last[r]] = now]
  /\ stamp' = [stamp EXCEPT ![r] = now + 1000 * Window]
  /\ failing' = [failing EXCEPT ![r] = what] /\ Goto(r, "store")

(* mark_failure up to the fetch_sub of observe_failure: the window is       *)
(* computed from the time before it and stored after it.                    *)
MarkFailure(r, what) ==
  /\ tracked' = tracked \cup {last[r]}
  /\ tolerance' = [tolerance EXCEPT ![last[r]] = @ - 1]
  /\ failed' = [failed EXCEPT ![last[r]] = @ + 1]
  /\ failedAt' = [failedAt EXCEPT ![last[r]] = now]
  /\ stamp' = [stamp EXCEPT ![r] = now + Window]
  /\ failing' = [failing EXCEPT ![r] = what] /\ Goto(r, "store")

(* fail_to_connect, to the first half of mark_failure. Without a health     *)
(* check the error is not marked for retry.                                 *)
ConnectFailed(r) ==
  /\ pc[r] = "connect" /\ now <= FaultTime
  /\ connFails' = [connFails EXCEPT ![r] = @ + 1]
  /\ \/ hasHealthCheck /\ MarkFailure(r, "connect")
     \/ /\ ~hasHealthCheck /\ Finish(r, "failed")
        /\ UNCHANGED <<tracked, tolerance, failed, failedAt, stamp, failing>>
  /\ UNCHANGED <<route, nextWindow, now, retries, last, tries, selection, connected>>

(* Mutant: retries are not counted.                                         *)
StoreWindowUncounted(r) ==
  /\ pc[r] = "store"
  /\ nextWindow' = [nextWindow EXCEPT ![last[r]] = stamp[r]] /\ stamp' = [stamp EXCEPT ![r] = 0]
  /\ IF failing[r] = "http" THEN Finish(r, "served")
     ELSE IF retries[r] < Retries THEN Retry(r) ELSE Finish(r, "failed")
  /\ UNCHANGED <<route, tolerance, tracked, now, retries, last, tries, selection, failing,
                 history>>

(* The store of observe_failure; fail_to_connect then decides on a retry,   *)
(* and a response that counted as a failure is passed on.                   *)
StoreWindow(r) ==
  /\ pc[r] = "store"
  /\ nextWindow' = [nextWindow EXCEPT ![last[r]] = stamp[r]] /\ stamp' = [stamp EXCEPT ![r] = 0]
  /\ \/ failing[r] = "http" /\ Finish(r, "served") /\ UNCHANGED retries
     \/ /\ failing[r] = "connect" /\ retries[r] < Retries
        /\ retries' = [retries EXCEPT ![r] = @ + 1] /\ Retry(r)
     \/ /\ failing[r] = "connect" /\ retries[r] >= Retries
        /\ Finish(r, "failed") /\ UNCHANGED retries
  /\ UNCHANGED <<route, tolerance, tracked, now, last, tries, selection, failing, history>>

(* A response that is not a server error, or that nobody counts.            *)
Served(r) ==
  /\ pc[r] = "proxy" /\ Finish(r, "served")
  /\ UNCHANGED <<route, health, now, retries, last, tries, selection, stamp, failing, history>>

(* upstream_response_filter on a 5xx response.                              *)
HttpError(r) ==
  /\ pc[r] = "proxy" /\ now <= FaultTime
  /\ hasHealthCheck /\ IncludeHttpErrors /\ MarkFailure(r, "http")
  /\ UNCHANGED <<route, nextWindow, now, retries, last, tries, selection, connFails, connected>>

(* error_while_proxy: a connection from the pool that turns out to be dead  *)
(* is retried unless the request body can no longer be replayed; one that   *)
(* was opened for the request is not.                                       *)
Broken(r) ==
  /\ pc[r] = "proxy"
  /\ \/ Retry(r)
     \/ Finish(r, "failed")
  /\ UNCHANGED <<route, health, now, retries, last, tries, selection, stamp, failing, history>>

Step(r) ==
  \/ Select(r) \/ Iterate(r) \/ Refuse(r) \/ LoadTolerance(r) \/ LoadWindow(r)
  \/ Connected(r) \/ ConnectFailed(r) \/ StoreWindow(r) \/ Served(r) \/ HttpError(r) \/ Broken(r)

Next == Tick \/ \E r \in Req : Step(r)

Spec == Init /\ [][Next]_vars

(* Requests run to their end and time passes.                               *)
FairSpec == Spec /\ WF_vars(Tick) /\ \A r \in Req : WF_vars(Step(r))

-----------------------------------------------------------------------------
IsHealthy(b, t) == tolerance[b] >= 0 \/ nextWindow[b] <= t

(* Type invariant of the health state and of the requests.                  *)
TypeOK ==
  /\ endpoints \subseteq Backend /\ hasHealthCheck \in BOOLEAN /\ maxIterations \in Nat
  /\ tolerance \in [Backend -> Int] /\ nextWindow \in [Backend -> Nat]
  /\ tracked \subseteq Backend /\ now \in Nat
  /\ pc \in [Req -> {"select", "iterate", "tolerance", "window", "connect", "store", "proxy",
                     "done"}]
  /\ retries \in [Req -> 0..Retries] /\ tries \in [Req -> 0..MaxRetries]
  /\ last \in [Req -> Backend \cup {NoBackend}] /\ cand \in [Req -> Backend \cup {NoBackend}]
  /\ seen \in [Req -> SUBSET Backend] /\ steps \in [Req -> Nat]
  /\ stamp \in [Req -> Nat]
  /\ failing \in [Req -> {"none", "connect", "http"}]
  /\ outcome \in [Req -> {"none", "served", "refused", "internal", "failed"}]
  /\ connFails \in [Req -> Nat] /\ failed \in [Backend -> Nat] /\ connected \subseteq Backend
  /\ failedAt \in [Backend -> Int]

(* However retries of the middleware and retries of dead pooled connections *)
(* mix, a request meets at most one connect failure more than it has        *)
(* retries.                                                                 *)
ConnectFailuresBounded == \A r \in Req : connFails[r] <= Retries + 1

(* A request turns to the window of a backend, and may skip it, only if the *)
(* backend failed more often since it was last connected to than            *)
(* max_attempts allows, whatever requests observed it at the same time.     *)
SkippedForCause ==
  [][\A r \in Req : pc[r] = "tolerance" /\ pc'[r] = "window" =>
       failed[cand[r]] > (IF cand[r] \in connected THEN MaxAttempts ELSE 0)]_vars

(* No backend is locked out for longer than the failure window, whichever   *)
(* of several late stores wins.                                             *)
LockoutBounded == \A b \in Backend : nextWindow[b] <= now + Window

(* A request gets a 502 for want of a backend only if the balancer may not  *)
(* propose any, or if health gates the choice and every backend it proposed *)
(* had failed less than a failure window before the request looked: stale   *)
(* health, and late stores of other requests, refuse nobody, and a single   *)
(* endpoint is always tried. (That the proposals reach every backend is not *)
(* promised: repeated ones use up iterations.)                              *)
RefusedForCause ==
  \A r \in Req : outcome[r] = "refused" =>
    \/ maxIterations = 0
    \/ Gated /\ seen[r] # {} /\ \A b \in seen[r] : failedAt[b] + Window > stamp[r]

(* Things settle: every request ends, and when failures stop, every backend *)
(* is healthy again from some time on, without a request having to reach    *)
(* it.                                                                      *)
EverythingSettles ==
  <>[]((\A r \in Req : pc[r] = "done") /\ (\A b \in Backend : IsHealthy(b, now)))

(* "upstream `5xx` responses are recorded as failures", and max_attempts is *)
(* the "failure threshold used by upstream health observation": once every  *)
(* one of more than max_attempts requests got a 5xx response from the only  *)
(* backend, its tolerance is used up and status() reports it unhealthy.     *)
HttpErrorsCount ==
  Cardinality(Req) > MaxAttempts /\ (\A r \in Req : outcome[r] = "served" /\ failing[r] = "http")
    => \A b \in endpoints : tolerance[b] < 0
=============================================================================
