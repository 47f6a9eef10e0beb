----------------------------- MODULE RouteTable -----------------------------
(***************************************************************************)
(* The route table (src/route/route_table.rs), the construction of routes  *)
(* (src/route/route.rs, src/config/route_config.rs) and the choice of a    *)
(* request's route (ensure_ctx_route in src/proxy/proxy.rs). JavaScript    *)
(* updates the table from one thread; worker threads read snapshots of it. *)
(***************************************************************************)
EXTENDS Integers, FiniteSets, Sequences, TLC

CONSTANTS
  Id,         \* route ids, natural numbers standing for ordered strings
  Priority,   \* priorities a configuration may give
  Rule,       \* matcher rules: [len, classes], what they measure and match
  Class,      \* classes of requests the rules tell apart
  Req,        \* downstream connections, each with one request at a time
  NoRoute,    \* None, for a route
  NoPriority  \* None, for a priority

ASSUME RouteAssumption == Id \subseteq Nat /\ NoPriority \notin Priority

VARIABLES
  routes,     \* RouteTable.routes of the current snapshot
  phase,      \* request -> "new", "matching" (snapshot held) or "routed"
  class,      \* request -> its class
  held,       \* request -> the routes of the snapshot it holds
  current     \* request -> ProxyCtx.current_route

vars == <<routes, phase, class, held, current>>

Config == [id : Id, rule : Rule, priority : Priority \cup {NoPriority}]

(* effective_priority: the length of the rule unless one is given.          *)
EffectivePriority(c) == IF c.priority = NoPriority THEN c.rule.len ELSE c.priority

(* Route::from_config, for a configuration that builds.                     *)
FromConfig(c) == [id |-> c.id, priority |-> EffectivePriority(c), classes |-> c.rule.classes]
Route == {FromConfig(c) : c \in Config}

(* The order of the table.                                                  *)
Precedes(x, y) ==
  x.priority > y.priority \/ (x.priority = y.priority /\ x.id < y.id)

Position(table, id) == {i \in DOMAIN table : table[i].id = id}

(* Mutant: a replaced route keeps its place.                                *)
UpsertInPlace(table, x) ==
  IF Position(table, x.id) # {}
    THEN [i \in DOMAIN table |-> IF table[i].id = x.id THEN x ELSE table[i]]
    ELSE SortSeq(Append(table, x), Precedes)

(* upsert_route of RouteTable: replace or push, then sort.                  *)
Upsert(table, x) ==
  LET placed == IF Position(table, x.id) # {}
                  THEN [i \in DOMAIN table |-> IF table[i].id = x.id THEN x ELSE table[i]]
                  ELSE Append(table, x)
  IN SortSeq(placed, Precedes)

(* find_first_match.                                                        *)
FindFirstMatch(table, c) ==
  LET fits == {i \in DOMAIN table : c \in table[i].classes}
  IN IF fits = {} THEN NoRoute ELSE table[CHOOSE i \in fits : \A j \in fits : i <= j]

Init ==
  /\ routes = <<>>
  /\ phase = [r \in Req |-> "new"]
  /\ class \in [Req -> Class]
  /\ held = [r \in Req |-> <<>>]
  /\ current = [r \in Req |-> NoRoute]

(* addOrUpdate: load, compute, store; there is one writer.                  *)
AddOrUpdate(c) ==
  /\ routes' = Upsert(routes, FromConfig(c))
  /\ UNCHANGED <<phase, class, held, current>>

(* remove.                                                                  *)
Remove(id) ==
  /\ routes' = SelectSeq(routes, LAMBDA x : x.id # id)
  /\ UNCHANGED <<phase, class, held, current>>

(* ensure_ctx_route takes the snapshot of this moment ...                   *)
ReadSnapshot(r) ==
  /\ phase[r] = "new"
  /\ phase' = [phase EXCEPT ![r] = "matching"]
  /\ held' = [held EXCEPT ![r] = routes]
  /\ UNCHANGED <<routes, class, current>>

(* ... and evaluates its matchers in order; the route found is the          *)
(* request's for good.                                                      *)
MatchRoute(r) ==
  /\ phase[r] = "matching"
  /\ phase' = [phase EXCEPT ![r] = "routed"]
  /\ current' = [current EXCEPT ![r] = FindFirstMatch(held[r], class[r])]
  /\ held' = [held EXCEPT ![r] = <<>>]
  /\ UNCHANGED <<routes, class>>

(* reset_for_request, for the next request.                                 *)
ResetForRequest(r) ==
  /\ phase[r] = "routed"
  /\ phase' = [phase EXCEPT ![r] = "new"]
  /\ current' = [current EXCEPT ![r] = NoRoute]
  /\ \E c \in Class : class' = [class EXCEPT ![r] = c]
  /\ UNCHANGED <<routes, held>>

Next ==
  \/ \E c \in Config : AddOrUpdate(c)
  \/ \E id \in Id : Remove(id)
  \/ \E r \in Req : ReadSnapshot(r) \/ MatchRoute(r) \/ ResetForRequest(r)

Spec == Init /\ [][Next]_vars

-----------------------------------------------------------------------------
Elements(table) == {table[i] : i \in DOMAIN table}

(* Type invariant: one entry per id.                                        *)
TypeOK ==
  /\ Elements(routes) \subseteq Route
  /\ \A id \in Id : Cardinality(Position(routes, id)) <= 1
  /\ phase \in [Req -> {"new", "matching", "routed"}]
  /\ class \in [Req -> Class]
  /\ \A r \in Req : Elements(held[r]) \subseteq Route /\ current[r] \in Route \cup {NoRoute}

(* The first match in the ordered table is the best route of the map from   *)
(* ids to routes, and a request is routed by one moment's map although the  *)
(* table changes under it.                                                  *)
M == INSTANCE RouteMap WITH map <- Elements(routes), chosen <- current,
                            view <- [r \in Req |-> Elements(held[r])]
ImplementsRouteMap == M!Spec
=============================================================================
