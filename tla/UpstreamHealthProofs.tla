------------------------ MODULE UpstreamHealthProofs ------------------------
(***************************************************************************)
(* The safety properties of UpstreamHealth hold for any number of backends *)
(* and requests and for every setting of the health check.                 *)
(***************************************************************************)
EXTENDS UpstreamHealth, TLAPS

(* What the place of a request says about its other variables.              *)
ReqInv ==
  \A r \in Req :
    /\ pc[r] \in {"tolerance", "window"} => cand[r] \in Backend
    /\ pc[r] \in {"connect", "store", "proxy"} => last[r] \in Backend
    /\ pc[r] = "select" => tries[r] < MaxRetries
    /\ pc[r] = "store" => hasHealthCheck /\ failing[r] # "none" /\ stamp[r] <= now + Window
    /\ pc[r] \in {"iterate", "tolerance", "window"} => Gated

(* Connect failures are the retries already granted, plus the one that is   *)
(* being recorded.                                                          *)
FailsInv ==
  \A r \in Req :
    connFails[r] <= retries[r] +
      (IF pc[r] = "done" \/ (pc[r] = "store" /\ failing[r] = "connect") THEN 1 ELSE 0)

(* The tolerance is the allowance less the failures since the last success. *)
ToleranceInv ==
  hasHealthCheck =>
    \A b \in Backend :
      tolerance[b] = (IF b \in connected THEN MaxAttempts ELSE 0) - failed[b]

(* Windows, stored or about to be, end a window after some failure.         *)
WindowInv ==
  /\ \A b \in Backend : failedAt[b] <= now /\ nextWindow[b] <= failedAt[b] + Window
  /\ \A r \in Req : pc[r] = "store" => stamp[r] <= failedAt[last[r]] + Window

(* A backend failed less than a window before the request looked.           *)
Recent(r, b) == failedAt[b] + Window > stamp[r]

(* A backend the selection has left behind failed recently.                 *)
SeenInv ==
  \A r \in Req :
    /\ pc[r] = "iterate" => \A b \in seen[r] : Recent(r, b)
    /\ pc[r] = "iterate" /\ steps[r] > 0 => seen[r] # {}
    /\ pc[r] \in {"tolerance", "window"} =>
         cand[r] \in seen[r] /\ \A b \in seen[r] \ {cand[r]} : Recent(r, b)
    /\ outcome[r] = "refused" =>
         /\ pc[r] = "done"
         /\ maxIterations = 0 \/ (Gated /\ seen[r] # {} /\ \A b \in seen[r] : Recent(r, b))

IInv == TypeOK /\ ReqInv /\ FailsInv /\ ToleranceInv /\ WindowInv /\ SeenInv /\ LockoutBounded

-----------------------------------------------------------------------------
(* Wherever a step leads a request, its place and its outcome are typed.    *)
LEMMA PlaceTypes ==
  ASSUME NEW r \in Req, TypeOK,
         \/ \E where \in {"select", "iterate", "tolerance", "window", "connect", "store", "proxy"} :
              Goto(r, where)
         \/ \E how \in {"served", "refused", "internal", "failed"} : Finish(r, how)
  PROVE  /\ pc' \in [Req -> {"select", "iterate", "tolerance", "window", "connect", "store",
                              "proxy", "done"}]
         /\ outcome' \in [Req -> {"none", "served", "refused", "internal", "failed"}]
<1>1. ASSUME NEW where \in {"select", "iterate", "tolerance", "window", "connect", "store", "proxy"},
             Goto(r, where)
      PROVE  /\ pc' \in [Req -> {"select", "iterate", "tolerance", "window", "connect", "store",
                                  "proxy", "done"}]
             /\ outcome' \in [Req -> {"none", "served", "refused", "internal", "failed"}]
  BY <1>1 DEF TypeOK, Goto
<1>2. ASSUME NEW how \in {"served", "refused", "internal", "failed"}, Finish(r, how)
      PROVE  /\ pc' \in [Req -> {"select", "iterate", "tolerance", "window", "connect", "store",
                                  "proxy", "done"}]
             /\ outcome' \in [Req -> {"none", "served", "refused", "internal", "failed"}]
  BY <1>2 DEF TypeOK, Finish
<1> QED BY <1>1, <1>2

(* Accepting a backend gives the request a typed place and typed locals.    *)
LEMMA ChooseTypes ==
  ASSUME NEW r \in Req, NEW b \in Backend, TypeOK, Choose(r, b)
  PROVE  /\ last' \in [Req -> Backend \cup {NoBackend}] /\ seen' \in [Req -> SUBSET Backend]
         /\ steps' \in [Req -> Nat] /\ cand' \in [Req -> Backend \cup {NoBackend}]
         /\ stamp' \in [Req -> Nat]
         /\ pc' \in [Req -> {"select", "iterate", "tolerance", "window", "connect", "store",
                              "proxy", "done"}]
         /\ outcome' \in [Req -> {"none", "served", "refused", "internal", "failed"}]
<1> USE HealthAssumption DEF TypeOK, Choose
<1>1. /\ last' \in [Req -> Backend \cup {NoBackend}] /\ seen' \in [Req -> SUBSET Backend]
      /\ steps' \in [Req -> Nat]
  OBVIOUS
<1>2. cand' \in [Req -> Backend \cup {NoBackend}] /\ stamp' \in [Req -> Nat]
  OBVIOUS
<1>3. /\ pc' \in [Req -> {"select", "iterate", "tolerance", "window", "connect", "store",
                           "proxy", "done"}]
      /\ outcome' \in [Req -> {"none", "served", "refused", "internal", "failed"}]
  BY PlaceTypes
<1> QED BY <1>1, <1>2, <1>3

(* Recording a failure keeps the types.                                     *)
LEMMA MarkFailureTypes ==
  ASSUME NEW r \in Req, NEW what \in {"connect", "http"}, TypeOK, last[r] \in Backend,
         MarkFailure(r, what)
  PROVE  /\ tracked' \subseteq Backend /\ tolerance' \in [Backend -> Int]
         /\ failed' \in [Backend -> Nat] /\ failedAt' \in [Backend -> Int] /\ stamp' \in [Req -> Nat]
         /\ failing' \in [Req -> {"none", "connect", "http"}]
         /\ pc' \in [Req -> {"select", "iterate", "tolerance", "window", "connect", "store",
                              "proxy", "done"}]
         /\ outcome' \in [Req -> {"none", "served", "refused", "internal", "failed"}]
<1>1. /\ tracked' = tracked \cup {last[r]} /\ tolerance' = [tolerance EXCEPT ![last[r]] = @ - 1]
      /\ failed' = [failed EXCEPT ![last[r]] = @ + 1]
      /\ failedAt' = [failedAt EXCEPT ![last[r]] = now]
      /\ stamp' = [stamp EXCEPT ![r] = now + Window]
      /\ failing' = [failing EXCEPT ![r] = what] /\ Goto(r, "store")
  BY DEF MarkFailure
<1>2. now + Window \in Nat
  BY HealthAssumption DEF TypeOK
<1>3. tracked' \subseteq Backend /\ tolerance' \in [Backend -> Int]
  BY <1>1 DEF TypeOK
<1>4. failed' \in [Backend -> Nat] /\ failedAt' \in [Backend -> Int]
  BY <1>1 DEF TypeOK
<1>5. stamp' \in [Req -> Nat] /\ failing' \in [Req -> {"none", "connect", "http"}]
  BY <1>1, <1>2 DEF TypeOK
<1> QED BY <1>1, <1>3, <1>4, <1>5, PlaceTypes

(* The start of select_peer keeps the invariant.                            *)
LEMMA SelectKeeps == ASSUME NEW r \in Req, IInv, Select(r) PROVE IInv'
<1> USE HealthAssumption DEF IInv, Select, Goto, Finish, Choose, route, Gated,
       health, history, selection
<1>1. TypeOK'
  <2>1. tries' \in [Req -> 0..MaxRetries]
    BY DEF TypeOK, ReqInv
  <2>2. /\ UNCHANGED <<endpoints, hasHealthCheck, maxIterations, tolerance, nextWindow, tracked, now>>
        /\ UNCHANGED <<retries, failing, connFails, failed, failedAt, connected>>
    OBVIOUS
  <2>3. \/ \E b \in Backend : Choose(r, b)
        \/ /\ \E how \in {"internal", "refused"} : Finish(r, how)
           /\ UNCHANGED <<last, seen, steps, cand, stamp>>
        \/ /\ stamp' = [stamp EXCEPT ![r] = now] /\ seen' = [seen EXCEPT ![r] = {}]
           /\ steps' = [steps EXCEPT ![r] = 0] /\ Goto(r, "iterate") /\ UNCHANGED <<last, cand>>
    BY DEF TypeOK
  <2> HIDE DEF Choose, Select, Finish, Goto
  <2>4. CASE \E b \in Backend : Choose(r, b)
    BY <2>1, <2>2, <2>4, ChooseTypes DEF TypeOK
  <2>5. CASE /\ \E how \in {"internal", "refused"} : Finish(r, how)
             /\ UNCHANGED <<last, seen, steps, cand, stamp>>
    BY <2>1, <2>2, <2>5, PlaceTypes DEF TypeOK
  <2>6. CASE /\ stamp' = [stamp EXCEPT ![r] = now] /\ seen' = [seen EXCEPT ![r] = {}]
             /\ steps' = [steps EXCEPT ![r] = 0] /\ Goto(r, "iterate") /\ UNCHANGED <<last, cand>>
    BY <2>1, <2>2, <2>6, PlaceTypes DEF TypeOK
  <2> QED BY <2>3, <2>4, <2>5, <2>6
<1>2. ReqInv'
  BY DEF TypeOK, ReqInv
<1>3. FailsInv'
  BY DEF TypeOK, ReqInv, FailsInv
<1>4. ToleranceInv'
  BY DEF TypeOK, ReqInv, ToleranceInv
<1>5. WindowInv'
  BY DEF TypeOK, ReqInv, WindowInv
<1>6. SeenInv'
  BY DEF TypeOK, ReqInv, SeenInv, WindowInv, Recent
<1>7. LockoutBounded'
  BY DEF TypeOK, ReqInv, LockoutBounded
<1> QED BY <1>1, <1>2, <1>3, <1>4, <1>5, <1>6, <1>7

(* A proposal of the balancer keeps the invariant.                          *)
LEMMA IterateKeeps == ASSUME NEW r \in Req, IInv, Iterate(r) PROVE IInv'
<1> USE HealthAssumption DEF IInv, Iterate, Goto, route, Gated,
       health, history, selection
<1>1. TypeOK'
  BY DEF TypeOK, ReqInv
<1>2. ReqInv'
  BY DEF TypeOK, ReqInv
<1>3. FailsInv'
  BY DEF TypeOK, ReqInv, FailsInv
<1>4. ToleranceInv'
  BY DEF TypeOK, ReqInv, ToleranceInv
<1>5. WindowInv'
  BY DEF TypeOK, ReqInv, WindowInv
<1>6. SeenInv'
  BY DEF TypeOK, ReqInv, SeenInv, WindowInv, Recent
<1>7. LockoutBounded'
  BY DEF TypeOK, ReqInv, LockoutBounded
<1> QED BY <1>1, <1>2, <1>3, <1>4, <1>5, <1>6, <1>7

(* The 502 for want of a backend keeps the invariant.                       *)
LEMMA RefuseKeeps == ASSUME NEW r \in Req, IInv, Refuse(r) PROVE IInv'
<1> USE HealthAssumption DEF IInv, Refuse, Finish, route, Gated,
       health, history, selection
<1>1. TypeOK'
  BY DEF TypeOK, ReqInv
<1>2. ReqInv'
  BY DEF TypeOK, ReqInv
<1>3. FailsInv'
  BY DEF TypeOK, ReqInv, FailsInv
<1>4. ToleranceInv'
  BY DEF TypeOK, ReqInv, ToleranceInv
<1>5. WindowInv'
  BY DEF TypeOK, ReqInv, WindowInv
<1>6. SeenInv'
  BY DEF TypeOK, ReqInv, SeenInv, WindowInv, Recent
<1>7. LockoutBounded'
  BY DEF TypeOK, ReqInv, LockoutBounded
<1> QED BY <1>1, <1>2, <1>3, <1>4, <1>5, <1>6, <1>7

(* The first load of is_healthy keeps the invariant.                        *)
LEMMA LoadToleranceKeeps == ASSUME NEW r \in Req, IInv, LoadTolerance(r) PROVE IInv'
<1> USE HealthAssumption DEF IInv, LoadTolerance, Goto, Finish, Choose, route, Gated,
       health, history, selection
<1>1. TypeOK'
  <2>1. cand[r] \in Backend
    BY DEF TypeOK, ReqInv
  <2>2. /\ UNCHANGED <<endpoints, hasHealthCheck, maxIterations, tolerance, nextWindow, tracked, now>>
        /\ UNCHANGED <<retries, tries, failing, connFails, failed, failedAt, connected>>
    OBVIOUS
  <2>3. \/ Choose(r, cand[r])
        \/ Goto(r, "window") /\ UNCHANGED <<last, seen, steps, cand, stamp>>
    OBVIOUS
  <2> HIDE DEF Choose, Goto, LoadTolerance
  <2>4. CASE Choose(r, cand[r])
    BY <2>1, <2>2, <2>4, ChooseTypes DEF TypeOK
  <2>5. CASE Goto(r, "window") /\ UNCHANGED <<last, seen, steps, cand, stamp>>
    BY <2>2, <2>5, PlaceTypes DEF TypeOK
  <2> QED BY <2>3, <2>4, <2>5
<1>2. ReqInv'
  BY DEF TypeOK, ReqInv
<1>3. FailsInv'
  BY DEF TypeOK, ReqInv, FailsInv
<1>4. ToleranceInv'
  BY DEF TypeOK, ReqInv, ToleranceInv
<1>5. WindowInv'
  BY DEF TypeOK, ReqInv, WindowInv
<1>6. SeenInv'
  BY DEF TypeOK, ReqInv, SeenInv, WindowInv, Recent
<1>7. LockoutBounded'
  BY DEF TypeOK, ReqInv, LockoutBounded
<1> QED BY <1>1, <1>2, <1>3, <1>4, <1>5, <1>6, <1>7

(* The second load of is_healthy keeps the invariant: a window that has not *)
(* ended belongs to a recent failure.                                       *)
LEMMA LoadWindowKeeps == ASSUME NEW r \in Req, IInv, LoadWindow(r) PROVE IInv'
<1> USE HealthAssumption DEF IInv, LoadWindow, Goto, Finish, Choose, route, Gated,
       health, history, selection
<1>1. TypeOK'
  <2>1. cand[r] \in Backend
    BY DEF TypeOK, ReqInv
  <2>2. /\ UNCHANGED <<endpoints, hasHealthCheck, maxIterations, tolerance, nextWindow, tracked, now>>
        /\ UNCHANGED <<retries, tries, failing, connFails, failed, failedAt, connected>>
    OBVIOUS
  <2>3. \/ Choose(r, cand[r])
        \/ Goto(r, "iterate") /\ UNCHANGED <<last, seen, steps, cand, stamp>>
    OBVIOUS
  <2> HIDE DEF Choose, Goto, LoadWindow
  <2>4. CASE Choose(r, cand[r])
    BY <2>1, <2>2, <2>4, ChooseTypes DEF TypeOK
  <2>5. CASE Goto(r, "iterate") /\ UNCHANGED <<last, seen, steps, cand, stamp>>
    BY <2>2, <2>5, PlaceTypes DEF TypeOK
  <2> QED BY <2>3, <2>4, <2>5
<1>2. ReqInv'
  BY DEF TypeOK, ReqInv
<1>3. FailsInv'
  BY DEF TypeOK, ReqInv, FailsInv
<1>4. ToleranceInv'
  BY DEF TypeOK, ReqInv, ToleranceInv
<1>5. WindowInv'
  BY DEF TypeOK, ReqInv, WindowInv
<1>6. SeenInv'
  BY SMTT(30) DEF TypeOK, ReqInv, SeenInv, WindowInv, Recent
<1>7. LockoutBounded'
  BY DEF TypeOK, ReqInv, LockoutBounded
<1> QED BY <1>1, <1>2, <1>3, <1>4, <1>5, <1>6, <1>7

(* mark_success keeps the invariant.                                        *)
LEMMA ConnectedKeeps == ASSUME NEW r \in Req, IInv, Connected(r) PROVE IInv'
<1> USE HealthAssumption DEF IInv, Connected, MarkSuccess, Goto, route, Gated,
       health, history, selection
<1>1. TypeOK'
  BY SMTT(30) DEF TypeOK, ReqInv
<1>2. ReqInv'
  BY DEF TypeOK, ReqInv
<1>3. FailsInv'
  BY DEF TypeOK, ReqInv, FailsInv
<1>4. ToleranceInv'
  BY DEF TypeOK, ReqInv, ToleranceInv
<1>5. WindowInv'
  BY DEF TypeOK, ReqInv, WindowInv
<1>6. SeenInv'
  BY DEF TypeOK, ReqInv, SeenInv, WindowInv, Recent
<1>7. LockoutBounded'
  BY DEF TypeOK, ReqInv, LockoutBounded
<1> QED BY <1>1, <1>2, <1>3, <1>4, <1>5, <1>6, <1>7

(* The first half of fail_to_connect keeps the invariant.                   *)
LEMMA ConnectFailedKeeps == ASSUME NEW r \in Req, IInv, ConnectFailed(r) PROVE IInv'
<1> USE HealthAssumption DEF IInv, ConnectFailed, MarkFailure, Goto, Finish, route, Gated,
       health, history, selection
<1>1. TypeOK'
  <2>1. /\ UNCHANGED <<endpoints, hasHealthCheck, maxIterations, nextWindow, now, retries, last, tries>>
        /\ UNCHANGED <<seen, steps, cand, connected>>
        /\ connFails' = [connFails EXCEPT ![r] = @ + 1]
    OBVIOUS
  <2>2. \/ MarkFailure(r, "connect")
        \/ Finish(r, "failed") /\ UNCHANGED <<tracked, tolerance, failed, failedAt, stamp, failing>>
    OBVIOUS
  <2>3. last[r] \in Backend /\ now + Window \in Nat
    BY DEF TypeOK, ReqInv
  <2> HIDE DEF ConnectFailed, Goto, Finish, MarkFailure
  <2>4. connFails' \in [Req -> Nat]
    BY <2>1 DEF TypeOK
  <2>5. CASE MarkFailure(r, "connect")
    BY <2>1, <2>3, <2>4, <2>5, MarkFailureTypes DEF TypeOK
  <2>6. CASE Finish(r, "failed") /\ UNCHANGED <<tracked, tolerance, failed, failedAt, stamp, failing>>
    BY <2>1, <2>4, <2>6, PlaceTypes DEF TypeOK
  <2> QED BY <2>2, <2>5, <2>6
<1>2. ReqInv'
  BY SMTT(30) DEF TypeOK, ReqInv
<1>3. FailsInv'
  BY SMTT(30) DEF TypeOK, ReqInv, FailsInv
<1>4. ToleranceInv'
  BY SMTT(30) DEF TypeOK, ReqInv, ToleranceInv
<1>5. WindowInv'
  <2>1. UNCHANGED <<nextWindow, now, last>> /\ last[r] \in Backend
    BY DEF ReqInv
  <2>2. CASE MarkFailure(r, "connect")
    <3>1. /\ failedAt' = [failedAt EXCEPT ![last[r]] = now]
          /\ stamp' = [stamp EXCEPT ![r] = now + Window] /\ pc' = [pc EXCEPT ![r] = "store"]
      BY <2>2
    <3> HIDE DEF ConnectFailed, MarkFailure, Goto, Finish
    <3>2. \A b \in Backend : failedAt'[b] <= now' /\ nextWindow'[b] <= failedAt'[b] + Window
      BY <2>1, <3>1 DEF TypeOK, WindowInv
    <3>3. \A q \in Req : pc'[q] = "store" => stamp'[q] <= failedAt'[last'[q]] + Window
      BY <2>1, <3>1 DEF TypeOK, ReqInv, WindowInv
    <3> QED BY <3>2, <3>3 DEF WindowInv
  <2>3. CASE Finish(r, "failed") /\ UNCHANGED <<failedAt, stamp>>
    BY <2>1, <2>3 DEF TypeOK, WindowInv
  <2> QED BY <2>2, <2>3
<1>6. SeenInv'
  <2>1. \A b \in Backend : failedAt'[b] >= failedAt[b]
    BY SMTT(30) DEF TypeOK, ReqInv, WindowInv
  <2>2. \A q \in Req : outcome'[q] = "refused" => pc'[q] = "done" /\ q # r /\ outcome[q] = "refused"
    BY SMTT(30) DEF TypeOK, SeenInv
  <2>3. \A q \in Req : pc'[q] \in {"iterate", "tolerance", "window"} => q # r
    BY DEF TypeOK
  <2>4. /\ \A q \in Req \ {r} : pc'[q] = pc[q] /\ stamp'[q] = stamp[q]
        /\ UNCHANGED <<seen, steps, cand, maxIterations, endpoints, hasHealthCheck>>
    BY SMTT(30) DEF TypeOK
  <2> HIDE DEF ConnectFailed, MarkFailure, Goto, Finish
  <2>5. \A q \in Req \ {r} : \A b \in seen[q] : Recent(q, b) => Recent(q, b)'
    <3> SUFFICES ASSUME NEW q \in Req \ {r}, NEW b \in seen[q], failedAt[b] + Window > stamp[q]
                 PROVE  failedAt'[b] + Window > stamp'[q]
      BY DEF Recent
    <3>1. b \in Backend /\ failedAt[b] \in Int /\ failedAt'[b] \in Int /\ stamp[q] \in Int
      BY <1>1 DEF TypeOK
    <3> QED BY <2>1, <2>4, <3>1
  <2> QED BY <2>2, <2>3, <2>4, <2>5 DEF SeenInv
<1>7. LockoutBounded'
  BY DEF TypeOK, ReqInv, LockoutBounded
<1> QED BY <1>1, <1>2, <1>3, <1>4, <1>5, <1>6, <1>7

(* The second half of observe_failure, and the decision to retry, keep the  *)
(* invariant.                                                               *)
LEMMA StoreWindowKeeps == ASSUME NEW r \in Req, IInv, StoreWindow(r) PROVE IInv'
<1> USE HealthAssumption DEF IInv, StoreWindow, Retry, Goto, Finish, route, Gated,
       health, history, selection
<1>1. TypeOK'
  <2>1. /\ UNCHANGED <<endpoints, hasHealthCheck, maxIterations, tolerance, tracked, now, last, tries>>
        /\ UNCHANGED <<seen, steps, cand, failing, connFails, failed, failedAt, connected>>
        /\ nextWindow' = [nextWindow EXCEPT ![last[r]] = stamp[r]]
        /\ stamp' = [stamp EXCEPT ![r] = 0]
    OBVIOUS
  <2>2. retries' \in [Req -> 0..Retries] /\ last[r] \in Backend
    BY SMTT(30) DEF TypeOK, ReqInv
  <2>3. Goto(r, "select") \/ \E how \in {"served", "failed"} : Finish(r, how)
    OBVIOUS
  <2> HIDE DEF StoreWindow, Retry, Goto, Finish
  <2>4. nextWindow' \in [Backend -> Nat] /\ stamp' \in [Req -> Nat]
    BY <2>1, <2>2 DEF TypeOK
  <2> QED BY <2>1, <2>2, <2>3, <2>4, PlaceTypes DEF TypeOK
<1>2. ReqInv'
  BY DEF TypeOK, ReqInv
<1>3. FailsInv'
  BY DEF TypeOK, ReqInv, FailsInv
<1>4. ToleranceInv'
  BY DEF TypeOK, ReqInv, ToleranceInv
<1>5. WindowInv'
  BY SMTT(30) DEF TypeOK, ReqInv, WindowInv
<1>6. SeenInv'
  BY SMTT(30) DEF TypeOK, ReqInv, SeenInv, WindowInv, Recent
<1>7. LockoutBounded'
  BY DEF TypeOK, ReqInv, LockoutBounded
<1> QED BY <1>1, <1>2, <1>3, <1>4, <1>5, <1>6, <1>7

(* Passing a response on keeps the invariant.                               *)
LEMMA ServedKeeps == ASSUME NEW r \in Req, IInv, Served(r) PROVE IInv'
<1> USE HealthAssumption DEF IInv, Served, Finish, route, Gated,
       health, history, selection
<1>1. TypeOK'
  BY DEF TypeOK, ReqInv
<1>2. ReqInv'
  BY DEF TypeOK, ReqInv
<1>3. FailsInv'
  BY DEF TypeOK, ReqInv, FailsInv
<1>4. ToleranceInv'
  BY DEF TypeOK, ReqInv, ToleranceInv
<1>5. WindowInv'
  BY DEF TypeOK, ReqInv, WindowInv
<1>6. SeenInv'
  BY DEF TypeOK, ReqInv, SeenInv, WindowInv, Recent
<1>7. LockoutBounded'
  BY DEF TypeOK, ReqInv, LockoutBounded
<1> QED BY <1>1, <1>2, <1>3, <1>4, <1>5, <1>6, <1>7

(* Counting a server error keeps the invariant.                             *)
LEMMA HttpErrorKeeps == ASSUME NEW r \in Req, IInv, HttpError(r) PROVE IInv'
<1> USE HealthAssumption DEF IInv, HttpError, MarkFailure, Goto, route, Gated,
       health, history, selection
<1>1. TypeOK'
  BY DEF TypeOK, ReqInv
<1>2. ReqInv'
  BY DEF TypeOK, ReqInv
<1>3. FailsInv'
  BY DEF TypeOK, ReqInv, FailsInv
<1>4. ToleranceInv'
  BY DEF TypeOK, ReqInv, ToleranceInv
<1>5. WindowInv'
  BY DEF TypeOK, ReqInv, WindowInv
<1>6. SeenInv'
  BY DEF TypeOK, ReqInv, SeenInv, WindowInv, Recent
<1>7. LockoutBounded'
  BY DEF TypeOK, ReqInv, LockoutBounded
<1> QED BY <1>1, <1>2, <1>3, <1>4, <1>5, <1>6, <1>7

(* error_while_proxy keeps the invariant.                                   *)
LEMMA BrokenKeeps == ASSUME NEW r \in Req, IInv, Broken(r) PROVE IInv'
<1> USE HealthAssumption DEF IInv, Broken, Retry, Goto, Finish, route, Gated,
       health, history, selection
<1>1. TypeOK'
  <2>1. /\ UNCHANGED <<endpoints, hasHealthCheck, maxIterations, tolerance, nextWindow, tracked, now, retries>>
        /\ UNCHANGED <<last, tries, seen, steps, cand, stamp, failing>>
        /\ UNCHANGED <<connFails, failed, failedAt, connected>>
    OBVIOUS
  <2>2. Goto(r, "select") \/ Finish(r, "failed")
    OBVIOUS
  <2> HIDE DEF Broken, Retry, Goto, Finish
  <2> QED BY <2>1, <2>2, PlaceTypes DEF TypeOK
<1>2. ReqInv'
  BY DEF TypeOK, ReqInv
<1>3. FailsInv'
  BY DEF TypeOK, ReqInv, FailsInv
<1>4. ToleranceInv'
  BY DEF TypeOK, ReqInv, ToleranceInv
<1>5. WindowInv'
  BY DEF TypeOK, ReqInv, WindowInv
<1>6. SeenInv'
  BY DEF TypeOK, ReqInv, SeenInv, WindowInv, Recent
<1>7. LockoutBounded'
  BY DEF TypeOK, ReqInv, LockoutBounded
<1> QED BY <1>1, <1>2, <1>3, <1>4, <1>5, <1>6, <1>7

(* The clock keeps the invariant: lockouts are bounded from a later time.   *)
LEMMA TickKeeps == ASSUME IInv, Tick PROVE IInv'
BY HealthAssumption DEF IInv, Tick, TypeOK, ReqInv, FailsInv, ToleranceInv, WindowInv, SeenInv,
   Recent, LockoutBounded, Gated, route, health, history, selection

(* The inductive invariant holds initially.                                 *)
LEMMA InitInv == Init => IInv
BY HealthAssumption DEF Init, IInv, TypeOK, ReqInv, FailsInv, ToleranceInv, WindowInv, SeenInv,
   Recent, LockoutBounded

(* Every step keeps the inductive invariant.                                *)
LEMMA NextInv == IInv /\ [Next]_vars => IInv'
<1> SUFFICES ASSUME IInv, [Next]_vars PROVE IInv'
  OBVIOUS
<1>1. CASE Tick
  BY <1>1, TickKeeps
<1>2. ASSUME NEW r \in Req, Step(r) PROVE IInv'
  BY <1>2, SelectKeeps, IterateKeeps, RefuseKeeps, LoadToleranceKeeps, LoadWindowKeeps,
     ConnectedKeeps, ConnectFailedKeeps, StoreWindowKeeps, ServedKeeps, HttpErrorKeeps,
     BrokenKeeps DEF Step
<1>3. CASE UNCHANGED vars
  BY <1>3 DEF vars, IInv, TypeOK, ReqInv, FailsInv, ToleranceInv, WindowInv, SeenInv,
     Recent, LockoutBounded, Gated, route, health, history, selection
<1> QED BY <1>1, <1>2, <1>3 DEF Next

(* The inductive invariant holds in every reachable state.                  *)
THEOREM HealthInvariant == Spec => []IInv
BY InitInv, NextInv, PTL DEF Spec

(* The health state and the requests are well typed.                        *)
THEOREM TypeCorrect == Spec => []TypeOK
<1>1. IInv => TypeOK
  BY DEF IInv
<1> QED BY <1>1, HealthInvariant, PTL

(* A request meets at most retries + 1 connect failures (fail_to_connect).  *)
THEOREM ConnectFailuresAreBounded == Spec => []ConnectFailuresBounded
<1>1. IInv => ConnectFailuresBounded
  BY HealthAssumption DEF IInv, TypeOK, FailsInv, ConnectFailuresBounded
<1> QED BY <1>1, HealthInvariant, PTL

(* No backend is locked out beyond failure_window_ms (observe_failure).     *)
THEOREM LockoutsAreBounded == Spec => []LockoutBounded
<1>1. IInv => LockoutBounded
  BY DEF IInv
<1> QED BY <1>1, HealthInvariant, PTL

(* select_peer answers 502 only if it may not iterate or, on gated routes,  *)
(* within a failure window of a failure of every backend it looked at.      *)
THEOREM RefusalsHaveCause == Spec => []RefusedForCause
<1>1. IInv => RefusedForCause
  BY DEF IInv, SeenInv, Recent, RefusedForCause
<1> QED BY <1>1, HealthInvariant, PTL

(* is_healthy finds the tolerance used up only after more failures than     *)
(* max_attempts since the last success.                                     *)
THEOREM SkipsHaveCause == Spec => SkippedForCause
<1> DEFINE Cause == \A r \in Req : pc[r] = "tolerance" /\ pc'[r] = "window" =>
                      failed[cand[r]] > (IF cand[r] \in connected THEN MaxAttempts ELSE 0)
<1>1. IInv /\ [Next]_vars => [Cause]_vars
  <2> SUFFICES ASSUME IInv, Next, NEW r \in Req, pc[r] = "tolerance", pc'[r] = "window"
               PROVE failed[cand[r]] > (IF cand[r] \in connected THEN MaxAttempts ELSE 0)
    OBVIOUS
  <2>1. LoadTolerance(r) /\ tolerance[cand[r]] < 0
    <3>1. ~Tick
      BY DEF Tick, IInv, TypeOK
    <3>2. PICK q \in Req : Step(q)
      BY <3>1 DEF Next
    <3>3. q = r
      BY <3>2 DEF Step, Select, Iterate, Refuse, LoadTolerance, LoadWindow, Connected,
         ConnectFailed, StoreWindow, Served, HttpError, Broken, MarkFailure, Choose, Goto, Finish,
         Retry, IInv, TypeOK
    <3> QED BY <3>2, <3>3 DEF Step, Select, Iterate, Refuse, LoadTolerance, LoadWindow, Connected,
         ConnectFailed, StoreWindow, Served, HttpError, Broken, Choose, Goto, Finish, IInv, TypeOK
  <2> QED BY <2>1, HealthAssumption DEF IInv, ReqInv, ToleranceInv, TypeOK, Gated
<1> QED BY <1>1, HealthInvariant, PTL DEF Spec, SkippedForCause
=============================================================================
