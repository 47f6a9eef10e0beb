---------------------------- MODULE MCAccessLog ----------------------------
(***************************************************************************)
(* AccessLog for TLC: two requests come to one server, a third to another. *)
(***************************************************************************)
EXTENDS AccessLog

CONSTANTS r1, r2, r3, v1, v2

MCHome == [r \in {r1, r2, r3} |-> IF r = r3 THEN v2 ELSE v1]
=============================================================================
