---------------------------- MODULE MCErrorPages ----------------------------
(***************************************************************************)
(* Instances of ErrorPages for TLC: specs at both ends of the range of     *)
(* error statuses, an overlapping one, a reversed and a malformed one.     *)
(***************************************************************************)
EXTENDS ErrorPages

Range_(a, b) == [kind |-> "range", from |-> a, to |-> b]
BadToken == [kind |-> "bad", from |-> 404, to |-> 404]

MCSpecs ==
  {<<>>, <<Range_(404, 405), Range_(404, 404)>>, <<Range_(404, 404), Range_(599, 600)>>,
   <<Range_(399, 404)>>, <<Range_(405, 404)>>, <<Range_(404, 404), BadToken>>}
=============================================================================
