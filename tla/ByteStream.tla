----------------------------- MODULE ByteStream -----------------------------
(***************************************************************************)
(* What the read side of a virtual socket promises: the bytes JavaScript   *)
(* pushed come out once each and in order, a clean end of stream comes     *)
(* after the last of them, and an error may cut them off. A byte is its    *)
(* position among the accepted ones.                                       *)
(***************************************************************************)
EXTENDS Naturals, Sequences

VARIABLES
  accepted,   \* number of bytes push_data has accepted
  out,        \* the bytes handed to the reader
  eof, err,   \* what JavaScript or an abort has announced
  seen        \* what the reader has seen: "open", "eof" or "error"

vars == <<accepted, out, eof, err, seen>>

Init == accepted = 0 /\ out = <<>> /\ eof = FALSE /\ err = FALSE /\ seen = "open"

Accept ==
  /\ ~eof /\ ~err
  /\ accepted' \in Nat /\ accepted' >= accepted
  /\ UNCHANGED <<out, eof, err, seen>>

AnnounceEof == eof' = TRUE /\ UNCHANGED <<accepted, out, err, seen>>
AnnounceError == err' = TRUE /\ UNCHANGED <<accepted, out, eof, seen>>

Deliver(n) ==
  /\ seen = "open" /\ Len(out) + n <= accepted
  /\ out' = out \o [k \in 1..n |-> Len(out) + k]
  /\ UNCHANGED <<accepted, eof, err, seen>>

End ==
  /\ seen = "open" /\ eof /\ Len(out) = accepted
  /\ seen' = "eof"
  /\ UNCHANGED <<accepted, out, eof, err>>

Fail ==
  /\ seen = "open" /\ err
  /\ seen' = "error"
  /\ UNCHANGED <<accepted, out, eof, err>>

Next ==
  \/ Accept
  \/ \E n \in 1..accepted : Deliver(n)
  \/ AnnounceEof \/ AnnounceError \/ End \/ Fail

Spec == Init /\ [][Next]_vars
=============================================================================
