------------------------------ MODULE MCMatcher ------------------------------
(***************************************************************************)
(* Rules for TLC: every operator over leaves of every kind, nested, with   *)
(* hosts that an exact pattern, a one-label wildcard and neither match.    *)
(***************************************************************************)
EXTENDS Matcher, TLC

N(fn, args, value) == [fn |-> fn, args |-> args, value |-> value]
Leaf(fn) == N(fn, <<>>, <<>>)

HostLeaf == {N("Host", <<>>, <<"a">>), N("Host", <<>>, <<"*", "d">>)}
Leaves == HostLeaf \cup {N("PathPrefix", <<>>, <<"x">>), Leaf("other")}
MoreLeaves == Leaves \cup {N("Path", <<>>, <<"z">>), Leaf("true"), Leaf("false")}

Single == {<<l>> : l \in MoreLeaves} \cup {<<l, N("!", <<1>>, <<>>)>> : l \in MoreLeaves}
Double == {<<l, m, N(op, <<1, 2>>, <<>>)>> : l \in Leaves, m \in MoreLeaves, op \in {"&&", "||"}}
Negated == {Append(e, N("!", <<3>>, <<>>)) : e \in
             {<<l, m, N("||", <<1, 2>>, <<>>)>> : l \in Leaves, m \in Leaves}}
Conditional == {<<l, m, n, N("?:", <<1, 2, 3>>, <<>>)>> :
                  l \in Leaves, m \in Leaves, n \in Leaves}
MCRule == Single \cup Double \cup Negated \cup Conditional

MCHost == {<<"a">>, <<"x", "d">>, <<"y", "x", "d">>}
MCPath == {<<"x", "v">>, <<"z">>}
Symm == Permutations(Req)
=============================================================================
