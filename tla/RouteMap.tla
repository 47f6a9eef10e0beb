------------------------------ MODULE RouteMap ------------------------------
(***************************************************************************)
(* What the route table promises: routes form a map from ids to routes,    *)
(* and a request is served by the best route, the one of highest priority  *)
(* and then smallest id, among those of one moment that match it.          *)
(***************************************************************************)
EXTENDS Integers

CONSTANTS
  Id,        \* route ids, ordered as their strings are
  Route,     \* built routes: [id, priority, classes]
  Class,     \* classes of requests the matchers tell apart
  Req,       \* requests
  NoRoute    \* None

VARIABLES
  map,       \* set of routes, no two with one id
  phase,     \* request -> "new", "matching" or "routed"
  class,     \* request -> its class
  view,      \* request -> the routes at the moment it looked
  chosen     \* request -> the route it is served by

Put(x) ==
  /\ map' = {y \in map : y.id # x.id} \cup {x}
  /\ UNCHANGED <<phase, class, view, chosen>>

Drop(id) ==
  /\ map' = {y \in map : y.id # id}
  /\ UNCHANGED <<phase, class, view, chosen>>

Better(x, y) == x.priority > y.priority \/ (x.priority = y.priority /\ x.id < y.id)

Best(routes, c) ==
  LET fits == {x \in routes : c \in x.classes}
  IN IF fits = {} THEN NoRoute ELSE CHOOSE x \in fits : \A y \in fits \ {x} : Better(x, y)

Look(r) ==
  /\ phase[r] = "new"
  /\ phase' = [phase EXCEPT ![r] = "matching"]
  /\ view' = [view EXCEPT ![r] = map]
  /\ UNCHANGED <<map, class, chosen>>

Match(r) ==
  /\ phase[r] = "matching"
  /\ phase' = [phase EXCEPT ![r] = "routed"]
  /\ chosen' = [chosen EXCEPT ![r] = Best(view[r], class[r])]
  /\ view' = [view EXCEPT ![r] = {}]
  /\ UNCHANGED <<map, class>>

(* The connection of a request carries another one.                         *)
Again(r) ==
  /\ phase[r] = "routed"
  /\ phase' = [phase EXCEPT ![r] = "new"]
  /\ chosen' = [chosen EXCEPT ![r] = NoRoute]
  /\ class' \in {[class EXCEPT ![r] = c] : c \in Class}
  /\ UNCHANGED <<map, view>>

Init ==
  /\ map = {}
  /\ phase = [r \in Req |-> "new"]
  /\ class \in [Req -> Class]
  /\ view = [r \in Req |-> {}]
  /\ chosen = [r \in Req |-> NoRoute]

Next ==
  \/ \E x \in Route : Put(x)
  \/ \E id \in Id : Drop(id)
  \/ \E r \in Req : Look(r) \/ Match(r) \/ Again(r)

vars == <<map, phase, class, view, chosen>>
Spec == Init /\ [][Next]_vars
=============================================================================
