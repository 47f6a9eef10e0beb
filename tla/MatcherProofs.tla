---------------------------- MODULE MatcherProofs ----------------------------
(***************************************************************************)
(* The pre-check is sound and the analysis of rules is complete for every  *)
(* rule and every request: what Matcher shows for small rules holds for    *)
(* rules of any size.                                                      *)
(***************************************************************************)
EXTENDS Matcher, TLAPS

(* Pre-check and CEL never give opposite answers.                           *)
Agree(t, v) == t = "Unknown" \/ v = "neither" \/ t = v

(* What holds of the nodes a request's walk has left.                       *)
WalkInv ==
  \A r \in Req : \A i \in 1..Len(tri[r]) :
    /\ Agree(tri[r][i], cel[r][i])
    /\ cel[r][i] = "neither" => \E j \in 1..Len(rule) : /\ rule[j].fn = "other" /\ j <= i
                                                        /\ cel[r][j] = "neither"
    /\ FullyPrecheckable(rule) => tri[r][i] # "Unknown"

(* The value of a node is what its arguments give.                          *)
EvalInv == \A r \in Req : \A i \in 1..Len(tri[r]) : tri[r][i] = Eval(tri[r], query[r], i)

(* Requests for one path whose hosts match the same reported patterns.      *)
Alike(r, s) ==
  /\ query[r].path = query[s].path
  /\ \A p \in Hosts(rule) : HostMatches(query[r].host, p) = HostMatches(query[s].host, p)

(* Such requests fare alike at every node both walks have left.             *)
AlikeInv ==
  \A r, s \in Req : Alike(r, s) =>
    \A i \in 1..Len(rule) : i <= Len(tri[r]) /\ i <= Len(tri[s]) => tri[r][i] = tri[s][i]

(* A decision is taken at the root.                                         *)
DecisionInv ==
  \A r \in Req : matched[r] # "open" =>
    /\ Walked(r)
    /\ matched[r] = IF Root(tri[r]) # "Unknown" THEN Root(tri[r])
                    ELSE FromBool(Root(cel[r]) = "True")

IInv == TypeOK /\ WalkInv /\ EvalInv /\ AlikeInv /\ DecisionInv

-----------------------------------------------------------------------------
(* The arguments of a node come before it.                                  *)
LEMMA ArgsBefore ==
  ASSUME rule \in Rule, NEW i \in 1..Len(rule)
  PROVE  /\ rule[i].fn \in Fn
         /\ rule[i].fn \in {"&&", "||"} =>
              rule[i].args[1] \in 1..(i - 1) /\ rule[i].args[2] \in 1..(i - 1)
         /\ rule[i].fn = "!" => rule[i].args[1] \in 1..(i - 1)
         /\ rule[i].fn = "?:" => /\ rule[i].args[1] \in 1..(i - 1) /\ rule[i].args[2] \in 1..(i - 1)
                                 /\ rule[i].args[3] \in 1..(i - 1)
<1>1. Len(rule) \in Nat /\ rule[i].fn \in Fn
  BY MatcherAssumption
<1>2. \A k \in 1..Arity(rule[i].fn) : rule[i].args[k] \in 1..(i - 1)
  BY MatcherAssumption
<1>3. CASE rule[i].fn \in {"&&", "||"}
  <2>1. Arity(rule[i].fn) = 2
    BY <1>3 DEF Arity
  <2> QED BY <1>1, <1>2, <1>3, <2>1
<1>4. CASE rule[i].fn = "!"
  <2>1. Arity(rule[i].fn) = 1
    BY <1>4 DEF Arity
  <2> QED BY <1>1, <1>2, <1>4, <2>1
<1>5. CASE rule[i].fn = "?:"
  <2>1. Arity(rule[i].fn) = 3
    BY <1>5 DEF Arity
  <2> QED BY <1>1, <1>2, <1>5, <2>1
<1>6. CASE rule[i].fn \notin {"&&", "||", "!", "?:"}
  BY <1>1, <1>6
<1> QED BY <1>3, <1>4, <1>5, <1>6

(* The pre-check of a node is one of the three values.                      *)
LEMMA EvalTyped ==
  ASSUME rule \in Rule, NEW i \in 1..Len(rule), NEW q,
         NEW t, \A j \in 1..(i - 1) : t[j] \in Tri
  PROVE  Eval(t, q, i) \in Tri
BY ArgsBefore DEF Eval, Fn, CheckFn, FromBool, TriAnd, TriOr, TriNot, TriCond, Tri

(* CEL gives a node one of its values.                                      *)
LEMMA ExecuteTyped ==
  ASSUME rule \in Rule, NEW i \in 1..Len(rule), NEW q,
         NEW v, \A j \in 1..(i - 1) : v[j] \in CelValue
  PROVE  Execute(v, q, i) \subseteq CelValue
BY ArgsBefore DEF Execute, Fn, CheckFn, FromBool, CelAnd, CelOr, CelNot, CelCond, CelValue

(* If pre-check and CEL agree on the arguments, they agree on the node.     *)
LEMMA NodeAgrees ==
  ASSUME rule \in Rule, NEW i \in 1..Len(rule), NEW q, NEW t, NEW v,
         \A j \in 1..(i - 1) : t[j] \in Tri /\ v[j] \in CelValue /\ Agree(t[j], v[j]),
         NEW x \in Execute(v, q, i)
  PROVE  Agree(Eval(t, q, i), x)
<1> USE ArgsBefore DEF Agree, Tri, CelValue
<1>1. CASE rule[i].fn \in CheckFn
  BY <1>1 DEF Eval, Execute, CheckFn
<1>2. CASE rule[i].fn = "&&"
  BY <1>2 DEF Eval, Execute, CheckFn, TriAnd, CelAnd
<1>3. CASE rule[i].fn = "||"
  BY <1>3 DEF Eval, Execute, CheckFn, TriOr, CelOr
<1>4. CASE rule[i].fn = "!"
  BY <1>4 DEF Eval, Execute, CheckFn, TriNot, CelNot
<1>5. CASE rule[i].fn = "?:"
  BY <1>5 DEF Eval, Execute, CheckFn, TriCond, CelCond
<1>6. CASE rule[i].fn \in {"true", "false", "other"}
  BY <1>6 DEF Eval, Execute, CheckFn
<1> QED BY <1>1, <1>2, <1>3, <1>4, <1>5, <1>6 DEF Fn

(* CEL gives no boolean only where an argument gave none, or a part that    *)
(* the pre-check does not evaluate.                                         *)
LEMMA NeitherHasCause ==
  ASSUME rule \in Rule, NEW i \in 1..Len(rule), NEW q, NEW v,
         \A j \in 1..(i - 1) : v[j] \in CelValue,
         "neither" \in Execute(v, q, i)
  PROVE  rule[i].fn = "other" \/ \E j \in 1..(i - 1) : v[j] = "neither"
<1> USE ArgsBefore DEF CelValue
<1>1. CASE rule[i].fn \in CheckFn
  BY <1>1 DEF Execute, CheckFn, FromBool
<1>2. CASE rule[i].fn = "&&"
  BY <1>2 DEF Execute, CheckFn, CelAnd
<1>3. CASE rule[i].fn = "||"
  BY <1>3 DEF Execute, CheckFn, CelOr
<1>4. CASE rule[i].fn = "!"
  BY <1>4 DEF Execute, CheckFn, CelNot
<1>5. CASE rule[i].fn = "?:"
  BY <1>5 DEF Execute, CheckFn, CelCond
<1>6. CASE rule[i].fn \in {"true", "false", "other"}
  BY <1>6 DEF Execute, CheckFn
<1> QED BY <1>1, <1>2, <1>3, <1>4, <1>5, <1>6 DEF Fn

(* A tree without an open leaf is decided at every node.                    *)
LEMMA CompleteNode ==
  ASSUME rule \in Rule, NEW i \in 1..Len(rule), NEW q, NEW t, rule[i].fn # "other",
         \A j \in 1..(i - 1) : t[j] \in Tri /\ t[j] # "Unknown"
  PROVE  Eval(t, q, i) # "Unknown"
BY ArgsBefore DEF Eval, Fn, CheckFn, FromBool, TriAnd, TriOr, TriNot, TriCond, Tri

(* Requests alike get the same check from every node, so walks that agree   *)
(* on the arguments agree on the node.                                      *)
LEMMA AlikeNode ==
  ASSUME TypeOK, NEW r \in Req, NEW s \in Req, Alike(r, s), NEW i \in 1..Len(rule),
         NEW t, NEW u, \A j \in 1..(i - 1) : t[j] = u[j]
  PROVE  Eval(t, query[r], i) = Eval(u, query[s], i)
<1>1. rule \in Rule /\ DOMAIN rule = 1..Len(rule)
  BY MatcherAssumption DEF TypeOK
<1>2. ASSUME rule[i].fn \in CheckFn
      PROVE  FromBool(Check(query[r], rule[i])) = FromBool(Check(query[s], rule[i]))
  <2>1. CASE rule[i].fn = "Host"
    <3>1. rule[i].value \in Hosts(rule)
      BY <1>1, <2>1 DEF Hosts
    <3>2. HostMatches(query[r].host, rule[i].value) = HostMatches(query[s].host, rule[i].value)
      BY <3>1 DEF Alike
    <3> QED BY <2>1, <3>2 DEF Check, FromBool
  <2>2. CASE rule[i].fn # "Host"
    BY <2>2 DEF Check, Alike, FromBool
  <2> QED BY <2>1, <2>2
<1>3. CASE rule[i].fn \in CheckFn
  BY <1>2, <1>3 DEF Eval, CheckFn
<1>4. CASE rule[i].fn \in {"&&", "||"}
  BY <1>1, <1>4, ArgsBefore DEF Eval, CheckFn
<1>5. CASE rule[i].fn \in {"!", "?:"}
  BY <1>1, <1>5, ArgsBefore DEF Eval, CheckFn
<1>6. CASE rule[i].fn \in {"true", "false", "other"}
  BY <1>6 DEF Eval, CheckFn
<1> QED BY <1>1, <1>3, <1>4, <1>5, <1>6, ArgsBefore DEF Fn

-----------------------------------------------------------------------------
(* What a step of a walk does to the two sequences of its request.          *)
LEMMA VisitEffect ==
  ASSUME IInv, NEW r \in Req, Visit(r)
  PROVE  \E x \in CelValue :
           LET i == Len(tri[r]) + 1
           IN /\ i \in 1..Len(rule)
              /\ x \in Execute(cel[r], query[r], i)
              /\ Eval(tri[r], query[r], i) \in Tri
              /\ tri' = [tri EXCEPT ![r] = Append(tri[r], Eval(tri[r], query[r], i))]
              /\ cel' = [cel EXCEPT ![r] = Append(cel[r], x)]
<1> DEFINE i == Len(tri[r]) + 1
<1>1. rule \in Rule /\ Len(rule) \in Nat /\ tri[r] \in Seq(Tri) /\ cel[r] \in Seq(CelValue)
      /\ Len(cel[r]) = Len(tri[r])
  BY MatcherAssumption DEF IInv, TypeOK
<1>2. i \in 1..Len(rule)
  BY <1>1 DEF IInv, TypeOK, Visit, Walked
<1>3. /\ \A j \in 1..(i - 1) : tri[r][j] \in Tri
      /\ \A j \in 1..(i - 1) : cel[r][j] \in CelValue
  BY <1>1
<1>4. Eval(tri[r], query[r], i) \in Tri /\ Execute(cel[r], query[r], i) \subseteq CelValue
  BY <1>1, <1>2, <1>3, EvalTyped, ExecuteTyped
<1>5. PICK x \in Execute(cel[r], query[r], i) : cel' = [cel EXCEPT ![r] = Append(cel[r], x)]
  BY DEF Visit
<1> QED BY <1>2, <1>4, <1>5 DEF Visit

(* A step of a walk keeps the types.                                        *)
LEMMA VisitType == ASSUME IInv, NEW r \in Req, Visit(r) PROVE TypeOK'
<1>1. PICK x \in CelValue :
        LET i == Len(tri[r]) + 1
        IN /\ i \in 1..Len(rule)
           /\ Eval(tri[r], query[r], i) \in Tri
           /\ tri' = [tri EXCEPT ![r] = Append(tri[r], Eval(tri[r], query[r], i))]
           /\ cel' = [cel EXCEPT ![r] = Append(cel[r], x)]
  BY VisitEffect
<1>2. /\ tri \in [Req -> Seq(Tri)] /\ cel \in [Req -> Seq(CelValue)] /\ Len(rule) \in Nat
      /\ \A q \in Req : Len(tri[q]) = Len(cel[q]) /\ Len(tri[q]) <= Len(rule)
  BY MatcherAssumption DEF IInv, TypeOK
<1>3. tri' \in [Req -> Seq(Tri)] /\ cel' \in [Req -> Seq(CelValue)]
  BY <1>1, <1>2
<1>4. \A q \in Req : Len(tri'[q]) = Len(cel'[q]) /\ Len(tri'[q]) <= Len(rule)
  BY <1>1, <1>2
<1> QED BY <1>3, <1>4 DEF Visit, IInv, TypeOK

(* A step of a walk keeps what holds of the nodes left.                     *)
LEMMA VisitWalk == ASSUME IInv, NEW r \in Req, Visit(r) PROVE WalkInv'
<1> DEFINE i == Len(tri[r]) + 1
           e == Eval(tri[r], query[r], i)
<1>1. PICK x \in CelValue :
        /\ i \in 1..Len(rule) /\ x \in Execute(cel[r], query[r], i) /\ e \in Tri
        /\ tri' = [tri EXCEPT ![r] = Append(tri[r], e)]
        /\ cel' = [cel EXCEPT ![r] = Append(cel[r], x)]
  BY VisitEffect
<1>2. /\ rule \in Rule /\ Len(rule) \in Nat /\ rule' = rule /\ DOMAIN rule = 1..Len(rule)
      /\ tri \in [Req -> Seq(Tri)] /\ cel \in [Req -> Seq(CelValue)]
      /\ \A q \in Req : Len(tri[q]) = Len(cel[q]) /\ Len(tri[q]) <= Len(rule)
  BY MatcherAssumption DEF IInv, TypeOK, Visit
<1>3. \A j \in 1..(i - 1) : /\ tri[r][j] \in Tri /\ cel[r][j] \in CelValue
                             /\ Agree(tri[r][j], cel[r][j])
  BY <1>2 DEF IInv, WalkInv
<1>4. Agree(e, x)
  <2> HIDE DEF i
  <2> QED BY <1>1, <1>2, <1>3, NodeAgrees
<1>5. x = "neither" => rule[i].fn = "other" \/ \E j \in 1..(i - 1) : cel[r][j] = "neither"
  <2> HIDE DEF i
  <2> QED BY <1>1, <1>2, <1>3, NeitherHasCause
<1>6. FullyPrecheckable(rule) => e # "Unknown"
  <2> SUFFICES ASSUME FullyPrecheckable(rule) PROVE e # "Unknown"
    OBVIOUS
  <2>1. rule[i].fn # "other"
    BY <1>1, <1>2 DEF FullyPrecheckable
  <2>2. \A j \in 1..(i - 1) : tri[r][j] \in Tri /\ tri[r][j] # "Unknown"
    BY <1>2, <1>3 DEF IInv, WalkInv
  <2> HIDE DEF i
  <2> QED BY <1>1, <1>2, <2>1, <2>2, CompleteNode
<1>7. /\ Len(tri'[r]) = i /\ tri'[r][i] = e /\ cel'[r][i] = x
      /\ \A j \in 1..(i - 1) : tri'[r][j] = tri[r][j] /\ cel'[r][j] = cel[r][j]
  BY <1>1, <1>2
<1>8. \A q \in Req \ {r} : tri'[q] = tri[q] /\ cel'[q] = cel[q]
  BY <1>1, <1>2
<1> HIDE DEF e
<1>9. ASSUME NEW q \in Req, q # r, NEW k \in 1..Len(tri'[q])
      PROVE  /\ Agree(tri'[q][k], cel'[q][k])
             /\ cel'[q][k] = "neither" => \E j \in 1..Len(rule) : /\ rule[j].fn = "other" /\ j <= k
                                                                  /\ cel'[q][j] = "neither"
             /\ FullyPrecheckable(rule) => tri'[q][k] # "Unknown"
  BY <1>8, <1>9 DEF IInv, WalkInv
<1>10. ASSUME NEW k \in 1..Len(tri'[r])
       PROVE  /\ Agree(tri'[r][k], cel'[r][k])
              /\ FullyPrecheckable(rule) => tri'[r][k] # "Unknown"
  <2>1. CASE k = i
    BY <1>4, <1>6, <1>7, <2>1
  <2>2. CASE k # i
    <3>1. k \in 1..(i - 1) /\ k \in 1..Len(tri[r])
      BY <1>2, <1>7, <1>10, <2>2
    <3> QED BY <1>7, <3>1 DEF IInv, WalkInv
  <2> QED BY <2>1, <2>2
<1>11. ASSUME NEW k \in 1..Len(tri'[r]), cel'[r][k] = "neither"
       PROVE  \E j \in 1..Len(rule) : rule[j].fn = "other" /\ j <= k /\ cel'[r][j] = "neither"
  <2>1. \A m \in 1..(i - 1) : cel[r][m] = "neither" =>
          \E j \in 1..Len(rule) : /\ rule[j].fn = "other" /\ j <= m
                                  /\ cel'[r][j] = "neither"
    <3> SUFFICES ASSUME NEW m \in 1..(i - 1), cel[r][m] = "neither"
                 PROVE  \E j \in 1..Len(rule) : /\ rule[j].fn = "other" /\ j <= m
                                                /\ cel'[r][j] = "neither"
      OBVIOUS
    <3>1. m \in 1..Len(tri[r])
      BY <1>2
    <3>2. PICK j \in 1..Len(rule) : rule[j].fn = "other" /\ j <= m /\ cel[r][j] = "neither"
      BY <3>1 DEF IInv, WalkInv
    <3>3. j \in 1..(i - 1)
      BY <1>2, <3>1, <3>2
    <3> QED BY <1>7, <3>2, <3>3
  <2>2. CASE k = i
    BY <1>1, <1>2, <1>5, <1>7, <1>11, <2>1, <2>2
  <2>3. CASE k # i
    <3>1. k \in 1..(i - 1)
      BY <1>2, <1>7, <1>11, <2>3
    <3> QED BY <1>7, <1>11, <2>1, <3>1
  <2> QED BY <2>2, <2>3
<1> QED BY <1>2, <1>9, <1>10, <1>11 DEF WalkInv, FullyPrecheckable

(* A step of a walk keeps the values of nodes left.                         *)
LEMMA VisitEval == ASSUME IInv, NEW r \in Req, Visit(r) PROVE EvalInv'
<1> DEFINE i == Len(tri[r]) + 1
           e == Eval(tri[r], query[r], i)
<1>1. i \in 1..Len(rule) /\ e \in Tri /\ tri' = [tri EXCEPT ![r] = Append(tri[r], e)]
  BY VisitEffect
<1>2. /\ rule \in Rule /\ Len(rule) \in Nat /\ rule' = rule /\ query' = query
      /\ tri \in [Req -> Seq(Tri)] /\ \A q \in Req : Len(tri[q]) <= Len(rule)
  BY MatcherAssumption DEF IInv, TypeOK, Visit
<1>3. /\ Len(tri'[r]) = i /\ tri'[r][i] = e
      /\ \A j \in 1..(i - 1) : tri'[r][j] = tri[r][j]
  BY <1>1, <1>2
<1>4. \A q \in Req \ {r} : tri'[q] = tri[q]
  BY <1>1, <1>2
<1>5. Alike(r, r)
  BY DEF Alike
<1>6. ASSUME NEW k \in 1..i
      PROVE  tri'[r][k] = Eval(tri'[r], query[r], k)
  <2>1. \A j \in 1..(k - 1) : tri[r][j] = tri'[r][j]
    BY <1>2, <1>3, <1>6
  <2>2. k \in 1..Len(rule) /\ TypeOK
    BY <1>1, <1>2 DEF IInv
  <2>3. Eval(tri[r], query[r], k) = Eval(tri'[r], query[r], k)
    <3> DEFINE t == tri[r]
               u == tri'[r]
    <3>1. \A j \in 1..(k - 1) : t[j] = u[j]
      BY <2>1
    <3> HIDE DEF t, u
    <3>2. Eval(t, query[r], k) = Eval(u, query[r], k)
      BY <1>5, <2>2, <3>1, AlikeNode
    <3> QED BY <3>2 DEF t, u
  <2>4. tri'[r][k] = Eval(tri[r], query[r], k)
    <3>1. CASE k = i
      BY <1>3, <3>1
    <3>2. CASE k # i
      <4>1. k \in 1..(i - 1) /\ k \in 1..Len(tri[r])
        BY <1>2, <1>6, <3>2
      <4> QED BY <1>3, <4>1 DEF IInv, EvalInv
    <3> QED BY <3>1, <3>2
  <2> QED BY <2>3, <2>4
<1> HIDE DEF e, i
<1>7. \A q \in Req : \A k \in 1..Len(tri'[q]) : tri'[q][k] = Eval(tri'[q], query[q], k)
  <2> TAKE q \in Req
  <2>1. CASE q = r
    BY <1>3, <1>6, <2>1
  <2>2. CASE q # r
    BY <1>4, <2>2 DEF IInv, EvalInv
  <2> QED BY <2>1, <2>2
<1>8. \A q \in Req : \A k \in 1..Len(tri'[q]) :
        Eval(tri[q], query[q], k)' = Eval(tri'[q], query[q], k)
  <2> TAKE q \in Req
  <2> TAKE k \in 1..Len(tri'[q])
  <2>1. rule' = rule /\ query' = query
    BY <1>2
  <2> QED BY <2>1 DEF Eval
<1> QED BY <1>7, <1>8 DEF EvalInv

(* A step of a walk keeps walks of requests alike in agreement.             *)
LEMMA VisitAlike == ASSUME IInv, NEW r \in Req, Visit(r) PROVE AlikeInv'
<1> DEFINE i == Len(tri[r]) + 1
           e == Eval(tri[r], query[r], i)
<1>1. i \in 1..Len(rule) /\ e \in Tri /\ tri' = [tri EXCEPT ![r] = Append(tri[r], e)]
  BY VisitEffect
<1>2. /\ rule \in Rule /\ Len(rule) \in Nat /\ rule' = rule /\ query' = query
      /\ tri \in [Req -> Seq(Tri)] /\ \A q \in Req : Len(tri[q]) <= Len(rule)
  BY MatcherAssumption DEF IInv, TypeOK, Visit
<1>3. /\ Len(tri'[r]) = i /\ tri'[r][i] = e
      /\ \A j \in 1..(i - 1) : tri'[r][j] = tri[r][j]
  BY <1>1, <1>2
<1>4. \A q \in Req \ {r} : tri'[q] = tri[q]
  BY <1>1, <1>2
<1>5. \A a, b \in Req : Alike(a, b)' <=> Alike(a, b)
  BY <1>2 DEF Alike
<1>6. \A a, b \in Req : Alike(a, b) => Alike(b, a)
  BY DEF Alike
<1>7. ASSUME NEW s \in Req, s # r, Alike(r, s), i <= Len(tri[s])
      PROVE  e = tri[s][i]
  <2>1. i \in 1..Len(tri[s])
    BY <1>1, <1>2, <1>7
  <2>2. tri[s][i] = Eval(tri[s], query[s], i)
    BY <2>1 DEF IInv, EvalInv
  <2>3. \A j \in 1..(i - 1) : tri[r][j] = tri[s][j]
    BY <1>1, <1>2, <1>7, <2>1 DEF IInv, AlikeInv
  <2> DEFINE t == tri[r]
             u == tri[s]
  <2>4. \A j \in 1..(i - 1) : t[j] = u[j]
    BY <2>3
  <2> HIDE DEF t, u, i
  <2>5. Eval(t, query[r], i) = Eval(u, query[s], i)
    BY <1>1, <1>7, <2>4, AlikeNode DEF IInv
  <2> QED BY <2>2, <2>5 DEF t, u
<1>8. ASSUME NEW s \in Req, s # r, Alike(r, s), NEW k \in 1..Len(rule), k <= i, k <= Len(tri[s])
      PROVE  tri'[r][k] = tri[s][k]
  <2>1. CASE k = i
    BY <1>3, <1>7, <1>8, <2>1
  <2>2. CASE k # i
    <3>1. k \in 1..(i - 1) /\ k <= Len(tri[r])
      BY <1>2, <1>8, <2>2
    <3> QED BY <1>3, <1>8, <3>1 DEF IInv, AlikeInv
  <2> QED BY <2>1, <2>2
<1> HIDE DEF i, e
<1>9. \A a, b \in Req : Alike(a, b) =>
        \A k \in 1..Len(rule) : k <= Len(tri'[a]) /\ k <= Len(tri'[b]) => tri'[a][k] = tri'[b][k]
  <2> TAKE a, b \in Req
  <2>1. CASE a = r /\ b = r
    BY <2>1
  <2>2. CASE a = r /\ b # r
    BY <1>3, <1>4, <1>8, <2>2
  <2>3. CASE a # r /\ b = r
    BY <1>3, <1>4, <1>6, <1>8, <2>3
  <2>4. CASE a # r /\ b # r
    BY <1>4, <2>4 DEF IInv, AlikeInv
  <2> QED BY <2>1, <2>2, <2>3, <2>4
<1> QED BY <1>2, <1>5, <1>9 DEF AlikeInv

(* A step of a walk keeps decisions at the root: a request that has one has *)
(* no node left.                                                            *)
LEMMA VisitDecision == ASSUME IInv, NEW r \in Req, Visit(r) PROVE DecisionInv'
<1>1. /\ matched' = matched /\ rule' = rule /\ matched[r] = "open"
  BY DEF Visit, IInv, DecisionInv
<1>2. \A q \in Req \ {r} : tri'[q] = tri[q] /\ cel'[q] = cel[q]
  BY DEF Visit, IInv, TypeOK
<1> QED BY <1>1, <1>2 DEF IInv, DecisionInv, Walked, Root

(* A decision keeps the invariant.                                          *)
LEMMA MatchesKeeps == ASSUME IInv, NEW r \in Req, Matches(r) PROVE IInv'
<1>1. /\ rule' = rule /\ query' = query /\ tri' = tri /\ cel' = cel
  BY DEF Matches
<1>2. /\ rule \in Rule /\ Len(rule) \in Nat \ {0} /\ tri \in [Req -> Seq(Tri)]
      /\ matched \in [Req -> {"open", "True", "False"}]
  BY MatcherAssumption DEF IInv, TypeOK
<1>3. Root(tri[r]) \in Tri
  BY <1>2 DEF Matches, Walked, Root
<1>4. matched' \in [Req -> {"open", "True", "False"}]
  BY <1>2, <1>3 DEF Matches, Tri, FromBool
<1>5. TypeOK'
  BY <1>1, <1>4 DEF IInv, TypeOK
<1>6. WalkInv'
  BY <1>1 DEF IInv, WalkInv, FullyPrecheckable
<1>7. EvalInv'
  <2>1. \A q \in Req : \A k \in 1..Len(tri[q]) :
          Eval(tri[q], query[q], k)' = Eval(tri[q], query[q], k)
    <3> TAKE q \in Req
    <3> TAKE k \in 1..Len(tri[q])
    <3> QED BY <1>1 DEF Eval
  <2> QED BY <1>1, <2>1 DEF IInv, EvalInv
<1>8. AlikeInv'
  BY <1>1 DEF IInv, AlikeInv, Alike
<1>9. DecisionInv'
  BY <1>1, <1>2 DEF IInv, DecisionInv, Matches, Walked, Root
<1> QED BY <1>5, <1>6, <1>7, <1>8, <1>9 DEF IInv

(* A new request keeps the invariant.                                       *)
LEMMA NextRequestKeeps == ASSUME IInv, NEW r \in Req, NextRequest(r) PROVE IInv'
<1>1. /\ rule' = rule /\ tri' = [tri EXCEPT ![r] = <<>>] /\ cel' = [cel EXCEPT ![r] = <<>>]
      /\ matched' = [matched EXCEPT ![r] = "open"]
  BY DEF NextRequest
<1>2. PICK q \in Query : query' = [query EXCEPT ![r] = q]
  BY DEF NextRequest
<1>3. /\ rule \in Rule /\ Len(rule) \in Nat /\ query \in [Req -> Query]
      /\ tri \in [Req -> Seq(Tri)] /\ cel \in [Req -> Seq(CelValue)]
      /\ matched \in [Req -> {"open", "True", "False"}]
      /\ \A s \in Req : Len(tri[s]) = Len(cel[s]) /\ Len(tri[s]) <= Len(rule)
  BY MatcherAssumption DEF IInv, TypeOK
<1>4. /\ tri'[r] = <<>> /\ cel'[r] = <<>> /\ matched'[r] = "open"
      /\ \A s \in Req \ {r} : /\ tri'[s] = tri[s] /\ cel'[s] = cel[s] /\ query'[s] = query[s]
                              /\ matched'[s] = matched[s]
  BY <1>1, <1>2, <1>3
<1>5. TypeOK'
  <2>1. tri' \in [Req -> Seq(Tri)] /\ cel' \in [Req -> Seq(CelValue)]
    BY <1>1, <1>3
  <2>2. query' \in [Req -> Query] /\ matched' \in [Req -> {"open", "True", "False"}]
    BY <1>1, <1>2, <1>3
  <2>3. \A s \in Req : Len(tri'[s]) = Len(cel'[s]) /\ Len(tri'[s]) <= Len(rule)
    <3>1. Len(tri'[r]) = 0 /\ Len(cel'[r]) = 0
      BY <1>4
    <3>2. \A s \in Req \ {r} : Len(tri'[s]) = Len(cel'[s]) /\ Len(tri'[s]) <= Len(rule)
      BY <1>3, <1>4
    <3> QED BY <1>3, <3>1, <3>2
  <2> QED BY <1>1, <1>3, <2>1, <2>2, <2>3 DEF TypeOK
<1>6. WalkInv'
  <2>1. \A s \in Req \ {r} : tri'[s] = tri[s] /\ cel'[s] = cel[s]
    BY <1>4
  <2>2. 1..Len(tri'[r]) = {}
    BY <1>4
  <2> QED BY <1>1, <2>1, <2>2 DEF IInv, WalkInv, FullyPrecheckable
<1>7. EvalInv'
  <2>1. \A s \in Req \ {r} : \A k \in 1..Len(tri'[s]) :
          Eval(tri[s], query[s], k)' = Eval(tri[s], query[s], k)
    <3> TAKE s \in Req \ {r}
    <3> TAKE k \in 1..Len(tri'[s])
    <3>1. rule' = rule /\ tri'[s] = tri[s] /\ query'[s] = query[s]
      BY <1>1, <1>4
    <3> QED BY <3>1 DEF Eval
  <2>2. 1..Len(tri'[r]) = {}
    BY <1>4
  <2> QED BY <1>4, <2>1, <2>2 DEF IInv, EvalInv
<1>8. AlikeInv'
  <2>1. \A a, b \in Req \ {r} : Alike(a, b)' <=> Alike(a, b)
    BY <1>1, <1>4 DEF Alike
  <2>2. Len(tri'[r]) = 0
    BY <1>4
  <2> QED BY <1>1, <1>3, <1>4, <2>1, <2>2 DEF IInv, AlikeInv
<1>9. DecisionInv'
  BY <1>1, <1>4 DEF IInv, DecisionInv, Walked, Root
<1> QED BY <1>5, <1>6, <1>7, <1>8, <1>9 DEF IInv

-----------------------------------------------------------------------------
(* The inductive invariant holds before any node is walked.                 *)
LEMMA InitInv == Init => IInv
<1> SUFFICES ASSUME Init PROVE IInv
  OBVIOUS
<1>1. TypeOK
  BY MatcherAssumption DEF Init, TypeOK
<1>2. \A r \in Req : 1..Len(tri[r]) = {} /\ Len(tri[r]) = 0 /\ matched[r] = "open"
  BY DEF Init
<1>3. Len(rule) \in Nat
  BY MatcherAssumption DEF Init
<1> QED BY <1>1, <1>2, <1>3 DEF IInv, WalkInv, EvalInv, AlikeInv, DecisionInv

(* Every step keeps the inductive invariant.                                *)
LEMMA NextInv == IInv /\ [Next]_vars => IInv'
<1> SUFFICES ASSUME IInv, [Next]_vars PROVE IInv'
  OBVIOUS
<1>1. ASSUME NEW r \in Req, Visit(r) PROVE IInv'
  BY <1>1, VisitType, VisitWalk, VisitEval, VisitAlike, VisitDecision DEF IInv
<1>2. ASSUME NEW r \in Req, Matches(r) PROVE IInv'
  BY <1>2, MatchesKeeps
<1>3. ASSUME NEW r \in Req, NextRequest(r) PROVE IInv'
  BY <1>3, NextRequestKeeps
<1>4. CASE UNCHANGED vars
  <2>1. rule' = rule /\ query' = query /\ tri' = tri /\ cel' = cel /\ matched' = matched
    BY <1>4 DEF vars
  <2>2. /\ TypeOK' /\ WalkInv' /\ AlikeInv' /\ DecisionInv'
    <3>1. TypeOK'
      BY <2>1 DEF IInv, TypeOK
    <3>2. WalkInv'
      BY <2>1 DEF IInv, WalkInv, FullyPrecheckable
    <3>3. AlikeInv'
      BY <2>1 DEF IInv, AlikeInv, Alike
    <3>4. DecisionInv'
      BY <2>1 DEF IInv, DecisionInv, Walked, Root
    <3> QED BY <3>1, <3>2, <3>3, <3>4
  <2>3. \A q \in Req : \A k \in 1..Len(tri[q]) :
          Eval(tri[q], query[q], k)' = Eval(tri[q], query[q], k)
    <3> TAKE q \in Req
    <3> TAKE k \in 1..Len(tri[q])
    <3> QED BY <2>1 DEF Eval
  <2>4. EvalInv'
    BY <2>1, <2>3 DEF IInv, EvalInv
  <2> QED BY <2>2, <2>4 DEF IInv
<1> QED BY <1>1, <1>2, <1>3, <1>4 DEF Next

(* The inductive invariant holds in every reachable state.                  *)
THEOREM MatcherInvariant == Spec => []IInv
BY InitInv, NextInv, PTL DEF Spec

(* matches() returns what the CEL program answers, for every rule           *)
(* (matcher.rs, precheck/expr.rs).                                          *)
THEOREM PrecheckIsSound == Spec => []MatchAgrees
<1>1. IInv => MatchAgrees
  <2> SUFFICES ASSUME IInv, NEW r \in Req, matched[r] # "open"
               PROVE  IF EvaluateRule(r).ok
                        THEN /\ matched[r] = EvaluateRule(r).matches
                             /\ EvaluateRule(r).precheck \in {"Unknown", matched[r]}
                        ELSE \E i \in DOMAIN rule : rule[i].fn = "other" /\ cel[r][i] = "neither"
    BY DEF MatchAgrees
  <2> DEFINE n == Len(rule)
  <2>1. /\ n \in Nat \ {0} /\ DOMAIN rule = 1..n /\ Len(tri[r]) = n /\ Len(cel[r]) = n
        /\ tri[r] \in Seq(Tri) /\ cel[r] \in Seq(CelValue)
    BY MatcherAssumption DEF IInv, TypeOK, DecisionInv, Walked
  <2>2. /\ Root(tri[r]) = tri[r][n] /\ Root(cel[r]) = cel[r][n]
        /\ tri[r][n] \in Tri /\ cel[r][n] \in CelValue
    BY <2>1 DEF Root
  <2>3. n \in 1..Len(tri[r])
    BY <2>1
  <2>4. Agree(tri[r][n], cel[r][n])
    BY <2>3 DEF IInv, WalkInv
  <2>5. CASE cel[r][n] = "neither"
    <3>1. \E j \in 1..n : rule[j].fn = "other" /\ cel[r][j] = "neither"
      BY <2>3, <2>5 DEF IInv, WalkInv
    <3> QED BY <2>1, <2>2, <2>5, <3>1 DEF EvaluateRule
  <2>6. CASE cel[r][n] # "neither"
    <3>1. matched[r] = IF tri[r][n] # "Unknown" THEN tri[r][n] ELSE FromBool(cel[r][n] = "True")
      BY <2>2 DEF IInv, DecisionInv
    <3>2. matched[r] = cel[r][n] /\ tri[r][n] \in {"Unknown", cel[r][n]}
      BY <2>2, <2>4, <2>6, <3>1 DEF Agree, FromBool, CelValue, Tri
    <3> QED BY <2>2, <2>6, <3>2 DEF EvaluateRule
  <2> QED BY <2>5, <2>6
<1> QED BY <1>1, MatcherInvariant, PTL

(* A rule reported as fully pre-checkable is decided without CEL            *)
(* (is_complete in precheck/expr.rs).                                       *)
THEOREM CompleteRulesDecide == Spec => []CompleteDecides
<1>1. IInv => CompleteDecides
  <2> SUFFICES ASSUME IInv, FullyPrecheckable(rule), NEW r \in Req, Walked(r)
               PROVE  Root(tri[r]) # "Unknown"
    BY DEF CompleteDecides
  <2>1. Len(tri[r]) \in 1..Len(tri[r])
    BY MatcherAssumption DEF IInv, TypeOK, Walked
  <2> QED BY <2>1 DEF IInv, WalkInv, Root
<1> QED BY <1>1, MatcherInvariant, PTL

(* Hosts that match the same reported patterns fare alike in every rule     *)
(* (analyze in precheck/cel.rs).                                            *)
THEOREM ReportedHostsSuffice == Spec => []HostsTellApart
<1>1. IInv => HostsTellApart
  <2> SUFFICES ASSUME IInv, NEW r \in Req, NEW s \in Req, Walked(r), Walked(s), Alike(r, s)
               PROVE  Root(tri[r]) = Root(tri[s])
    BY DEF HostsTellApart, Alike
  <2>1. /\ Len(rule) \in 1..Len(rule) /\ Len(tri[r]) = Len(rule) /\ Len(tri[s]) = Len(rule)
        /\ Len(rule) <= Len(rule)
    BY MatcherAssumption DEF IInv, TypeOK, Walked
  <2>2. tri[r][Len(rule)] = tri[s][Len(rule)]
    BY <2>1 DEF IInv, AlikeInv
  <2> QED BY <2>1, <2>2 DEF Root
<1> QED BY <1>1, MatcherInvariant, PTL
=============================================================================
