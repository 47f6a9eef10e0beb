------------------------------ MODULE HostNames ------------------------------
(***************************************************************************)
(* Host names as sequences of labels, and the two ways the code compares   *)
(* them: the patterns of rules (src/matcher/cel_common.rs) and the names   *)
(* of certificates (src/server/cert_store.rs). "x.d." has an empty label at  *)
(* its end.                                                                *)
(***************************************************************************)
EXTENDS Integers, Sequences

(* A name that starts with the label "*" and has another one: what          *)
(* strip_prefix("*.") recognises.                                           *)
IsWildcard(name) == Len(name) > 1 /\ Head(name) = "*"

(* host_matches: a wildcard stands for exactly one label, which may not be  *)
(* empty.                                                                   *)
HostMatches(actual, pattern) ==
  IF IsWildcard(pattern)
    THEN Len(actual) > 1 /\ Head(actual) # "" /\ Tail(actual) = Tail(pattern)
    ELSE actual = pattern

(* trim_end_matches('.'): a final dot is an empty last label.               *)
TrimDots(name) ==
  [i \in {j \in DOMAIN name : j = 1 \/ \E k \in DOMAIN name : k >= j /\ name[k] # ""} |-> name[i]]
=============================================================================
