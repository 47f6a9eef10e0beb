------------------------------- MODULE Matcher -------------------------------
(***************************************************************************)
(* How a rule decides on a request (src/matcher/matcher.rs): a three-      *)
(* valued pre-check of the parts that need no CEL (src/matcher/precheck)   *)
(* and, when it leaves the answer open, the CEL program. A rule is the     *)
(* sequence of its nodes in the order in which a recursive walk leaves     *)
(* them: the arguments of a node come before it and the root is last. The  *)
(* two recursions, over the checks and over the program, become one step   *)
(* per node.                                                               *)
(***************************************************************************)
EXTENDS HostNames

CONSTANTS
  Rule,     \* rules: sequences of nodes [fn, args, value]
  Host,     \* hosts of requests
  Path,     \* paths of requests, as sequences of pieces
  Req       \* requests

VARIABLES
  rule,     \* the rule of the matcher
  query,    \* request -> its host and its path
  tri,      \* request -> what the pre-check gives, for each node walked
  cel,      \* request -> what CEL gives, for each node walked
  matched   \* request -> "open", or what matches() returned

vars == <<rule, query, tri, cel, matched>>

(* The functions with a string literal that the pre-check evaluates, the    *)
(* operators it looks into, and everything else: other functions, member    *)
(* calls, comparisons, Host() of something that is not a literal.           *)
CheckFn == {"Host", "Path", "PathPrefix"}
Fn == CheckFn \cup {"&&", "||", "!", "?:", "true", "false", "other"}
Arity(f) == IF f \in {"&&", "||"} THEN 2 ELSE IF f = "!" THEN 1 ELSE IF f = "?:" THEN 3 ELSE 0

ASSUME MatcherAssumption ==
  \A e \in Rule :
    /\ Len(e) \in Nat \ {0} /\ DOMAIN e = 1..Len(e)
    /\ \A i \in 1..Len(e) :
         e[i].fn \in Fn /\ \A k \in 1..Arity(e[i].fn) : e[i].args[k] \in 1..(i - 1)

Query == [host : Host, path : Path]
Tri == {"True", "False", "Unknown"}

(* A boolean, or an error or a value of another type.                       *)
CelValue == {"True", "False", "neither"}

-----------------------------------------------------------------------------
(* The pre-check.                                                           *)

FromBool(v) == IF v THEN "True" ELSE "False"

TriAnd(a, b) ==
  IF a = "False" \/ b = "False" THEN "False"
  ELSE IF a = "Unknown" \/ b = "Unknown" THEN "Unknown" ELSE "True"

TriOr(a, b) ==
  IF a = "True" \/ b = "True" THEN "True"
  ELSE IF a = "Unknown" \/ b = "Unknown" THEN "Unknown" ELSE "False"

TriNot(a) == CASE a = "True" -> "False" [] a = "False" -> "True" [] OTHER -> "Unknown"

(* Mutant: an open condition takes the branch that is decided.              *)
TriCondEager(c, then, els) ==
  CASE c = "True" -> then [] c = "False" -> els
    [] OTHER -> IF then = "Unknown" THEN els ELSE then

TriCond(c, then, els) ==
  CASE c = "True" -> then [] c = "False" -> els
    [] OTHER -> IF then = els THEN then ELSE "Unknown"

(* path_prefix.                                                             *)
PathPrefix(path, prefix) ==
  Len(prefix) <= Len(path) /\ SubSeq(path, 1, Len(prefix)) = prefix

(* check: also what the CEL functions of these names compute.               *)
Check(q, n) ==
  CASE n.fn = "Host" -> HostMatches(q.host, n.value)
    [] n.fn = "Path" -> q.path = n.value
    [] OTHER -> PathPrefix(q.path, n.value)

(* eval of the check built for node i (build, build_opt), given the         *)
(* results t for the nodes before it.                                       *)
Eval(t, q, i) ==
  LET n == rule[i] arg(k) == t[n.args[k]]
  IN CASE n.fn \in CheckFn -> FromBool(Check(q, n))
       [] n.fn = "&&" -> TriAnd(arg(1), arg(2))
       [] n.fn = "||" -> TriOr(arg(1), arg(2))
       [] n.fn = "!" -> TriNot(arg(1))
       [] n.fn = "?:" -> TriCond(arg(1), arg(2), arg(3))
       [] n.fn = "true" -> "True"
       [] n.fn = "false" -> "False"
       [] OTHER -> "Unknown"

(* analyze: nothing below an "other" node is part of the sequence, so the   *)
(* nodes are the leaves and operators of the tree that build returns.       *)
(* Mutant: what stands under a negation is passed over.                     *)
HostsUnnegated(e) ==
  {e[i].value : i \in {j \in DOMAIN e : e[j].fn = "Host" /\
                         \A k \in DOMAIN e : e[k].fn = "!" => e[k].args[1] # j}}
Hosts(e) == {e[i].value : i \in {j \in DOMAIN e : e[j].fn = "Host"}}

(* Mutant: only the root is looked at.                                      *)
FullyPrecheckableRoot(e) == e[Len(e)].fn # "other"

(* fully_precheckable: build succeeds and is_complete.                      *)
FullyPrecheckable(e) == \A i \in DOMAIN e : e[i].fn # "other"

-----------------------------------------------------------------------------
(* The CEL program, as the language defines it. Whether an operand that     *)
(* fails is absorbed when the other one decides is left to the library.     *)

CelAnd(a, b) ==
  CASE a = "False" -> {"False"} [] a = "True" -> {b}
    [] OTHER -> IF b = "False" THEN {"False", "neither"} ELSE {"neither"}

CelOr(a, b) ==
  CASE a = "True" -> {"True"} [] a = "False" -> {b}
    [] OTHER -> IF b = "True" THEN {"True", "neither"} ELSE {"neither"}

CelNot(a) == CASE a = "True" -> "False" [] a = "False" -> "True" [] OTHER -> "neither"

CelCond(c, then, els) == CASE c = "True" -> then [] c = "False" -> els [] OTHER -> "neither"

(* The answers for node i, given the answers v for the nodes before it.     *)
Execute(v, q, i) ==
  LET n == rule[i] arg(k) == v[n.args[k]]
  IN CASE n.fn \in CheckFn -> {FromBool(Check(q, n))}
       [] n.fn = "&&" -> CelAnd(arg(1), arg(2))
       [] n.fn = "||" -> CelOr(arg(1), arg(2))
       [] n.fn = "!" -> {CelNot(arg(1))}
       [] n.fn = "?:" -> {CelCond(arg(1), arg(2), arg(3))}
       [] n.fn = "true" -> {"True"}
       [] n.fn = "false" -> {"False"}
       [] OTHER -> CelValue

-----------------------------------------------------------------------------
Init ==
  /\ rule \in Rule
  /\ query \in [Req -> Query]
  /\ tri = [r \in Req |-> <<>>]
  /\ cel = [r \in Req |-> <<>>]
  /\ matched = [r \in Req |-> "open"]

Walked(r) == Len(tri[r]) = Len(rule)
Root(s) == s[Len(s)]

(* The walk leaves the next node.                                           *)
Visit(r) ==
  /\ ~Walked(r)
  /\ LET i == Len(tri[r]) + 1
     IN /\ tri' = [tri EXCEPT ![r] = Append(@, Eval(@, query[r], i))]
        /\ \E v \in Execute(cel[r], query[r], i) : cel' = [cel EXCEPT ![r] = Append(@, v)]
  /\ UNCHANGED <<rule, query, matched>>

(* matches: the pre-check if it decides, else CEL, which counts as false    *)
(* unless it answers with a boolean.                                        *)
Matches(r) ==
  /\ Walked(r) /\ matched[r] = "open"
  /\ matched' = [matched EXCEPT ![r] =
       IF Root(tri[r]) # "Unknown" THEN Root(tri[r]) ELSE FromBool(Root(cel[r]) = "True")]
  /\ UNCHANGED <<rule, query, tri, cel>>

(* The matcher is asked about another request.                              *)
NextRequest(r) ==
  /\ matched[r] # "open"
  /\ \E q \in Query : query' = [query EXCEPT ![r] = q]
  /\ tri' = [tri EXCEPT ![r] = <<>>] /\ cel' = [cel EXCEPT ![r] = <<>>]
  /\ matched' = [matched EXCEPT ![r] = "open"]
  /\ UNCHANGED rule

Next == \E r \in Req : Visit(r) \/ Matches(r) \/ NextRequest(r)

Spec == Init /\ [][Next]_vars

(* evaluate_rule: an error, or what the pre-check says and what CEL says.   *)
EvaluateRule(r) ==
  IF Root(cel[r]) = "neither" THEN [ok |-> FALSE]
  ELSE [ok |-> TRUE, precheck |-> Root(tri[r]), matches |-> Root(cel[r])]

-----------------------------------------------------------------------------
(* Type invariant.                                                          *)
TypeOK ==
  /\ rule \in Rule /\ query \in [Req -> Query]
  /\ tri \in [Req -> Seq(Tri)] /\ cel \in [Req -> Seq(CelValue)]
  /\ \A r \in Req : Len(tri[r]) = Len(cel[r]) /\ Len(tri[r]) <= Len(rule)
  /\ matched \in [Req -> {"open", "True", "False"}]

(* The pre-check changes no answer: when the CEL program gives a boolean,   *)
(* matches() returns it and evaluate_rule reports it with a pre-check that  *)
(* does not contradict it; and CEL gives none only if a part the pre-check  *)
(* cannot evaluate failed.                                                  *)
MatchAgrees ==
  \A r \in Req : matched[r] # "open" =>
    IF EvaluateRule(r).ok
      THEN /\ matched[r] = EvaluateRule(r).matches
           /\ EvaluateRule(r).precheck \in {"Unknown", matched[r]}
      ELSE \E i \in DOMAIN rule : rule[i].fn = "other" /\ cel[r][i] = "neither"

(* "`true` when build yields a tree with no `Unknown` leaf, so the full CEL *)
(* program is never consulted": fully_precheckable rules are decided by the *)
(* pre-check, whatever the request.                                         *)
CompleteDecides ==
  FullyPrecheckable(rule) => \A r \in Req : Walked(r) => Root(tri[r]) # "Unknown"

(* The reported hosts are all that the pre-check of a rule can tell hosts   *)
(* apart by: requests for one path whose hosts match the same reported      *)
(* patterns fare alike, so certificates and fallbacks chosen from `hosts`   *)
(* serve hosts that the rule treats alike.                                  *)
HostsTellApart ==
  \A r, s \in Req :
    /\ Walked(r) /\ Walked(s) /\ query[r].path = query[s].path
    /\ \A p \in Hosts(rule) : HostMatches(query[r].host, p) = HostMatches(query[s].host, p)
    => Root(tri[r]) = Root(tri[s])
=============================================================================
