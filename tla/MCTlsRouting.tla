---------------------------- MODULE MCTlsRouting ----------------------------
(***************************************************************************)
(* An instance of TlsRouting for TLC: a host with upper-case letters and   *)
(* another one of the domain; an exact and a wildcard rule that overlap;   *)
(* under the names of both and as the default, a certificate for both      *)
(* names or one that neither fits nor works.                               *)
(***************************************************************************)
EXTENDS TlsRouting

MCLower == [l \in {"X", "x", "y", "d", "*"} |-> IF l = "X" THEN "x" ELSE l]

Upper == <<"X", "d">>
Low == <<"x", "d">>
Other == <<"y", "d">>
Wild == <<"*", "d">>

MCHosts == {Upper, Other}
MCCertHost == {Star, Upper, Wild}
MCCert == {[names |-> {Low, Wild}, usable |-> TRUE], [names |-> {Other}, usable |-> FALSE]}

HostRule(len, patterns) ==
  [len |-> len, hosts |-> patterns,
   classes |-> {h \in MCHosts : \E p \in patterns : HostMatches(h, p)}]
MCRules == {HostRule(2, {Upper}), HostRule(1, {Wild})}
=============================================================================
