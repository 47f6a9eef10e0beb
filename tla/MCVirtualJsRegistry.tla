------------------------ MODULE MCVirtualJsRegistry ------------------------
(* A connection meets successive registrations of one key.                  *)
EXTENDS VirtualJsRegistry

CONSTANT k1

MCKeyOf == [i \in Instance |-> k1]
=============================================================================
