-------------------------- MODULE VirtualJsSocket --------------------------
(***************************************************************************)
(* The read side of one virtual socket (src/virtual_js/socket.rs): threads *)
(* that push data, an end of stream or an error, or abort the socket, and  *)
(* the proxy task that reads it through poll_read and the AtomicWaker.     *)
(*                                                                         *)
(* A step is one access to the `closed` flag, one use of the waker, one    *)
(* section under the read lock, or one turn of poll_read's copy loop, which*)
(* runs under that lock.                                                   *)
(***************************************************************************)
EXTENDS Integers, Sequences

CONSTANTS
  Pusher,     \* threads that push events or deactivate the listener
  MaxBytes,   \* bound on the bytes accepted in a run
  MaxChunk,   \* bound on the length of one pushed chunk
  MaxPending, \* bound on the chunks pending at a time
  MaxRoom     \* bound on the room of a read buffer

ASSUME SocketAssumption ==
  /\ MaxBytes \in Nat /\ MaxChunk \in Nat /\ MaxPending \in Nat
  /\ MaxRoom \in Nat \ {0}

VARIABLES
  pending,    \* ReadState.pending: chunks [lo, len, off]; byte lo+1 is the first
  eof, err,   \* ReadState.eof, ReadState.err.is_some()
  closed,     \* the atomic flag
  waker,      \* the AtomicWaker holds the reader's waker
  notified,   \* the reader's task has been woken and not yet polled
  rpc,        \* where the reader is
  room,       \* buf.remaining()
  filled,     \* bytes put into buf by this poll
  ppc,        \* thread -> where it is in a push or an abort
  plen,       \* thread -> length of the chunk it pushes
  accepted,   \* bytes accepted so far
  out         \* bytes copied to the reader so far

state == <<pending, eof, err>>
reader == <<waker, notified, rpc, room, filled, out>>
pushers == <<ppc, plen>>
vars == <<state, closed, reader, pushers, accepted>>

Op == {"data", "eof", "error", "abort"}
Chunk == [lo : Nat, len : Nat, off : Nat]

Init ==
  /\ pending = <<>> /\ eof = FALSE /\ err = FALSE /\ closed = FALSE
  /\ waker = FALSE /\ notified = FALSE
  /\ rpc = "away" /\ room = 0 /\ filled = 0
  /\ ppc = [p \in Pusher |-> "idle"] /\ plen = [p \in Pusher |-> 0]
  /\ accepted = 0 /\ out = <<>>

Unlocked == rpc # "copy"

-----------------------------------------------------------------------------
(* Threads that push. The first step tests `closed` outside the lock.       *)

BeginPush(p, op, n) ==
  /\ ppc[p] = "idle"
  /\ ~closed
  /\ ppc' = [ppc EXCEPT ![p] = op]
  /\ plen' = [plen EXCEPT ![p] = n]
  /\ UNCHANGED <<state, closed, reader, accepted>>

PushData(p) ==
  /\ ppc[p] = "data" /\ Unlocked
  /\ IF eof \/ err
     THEN /\ ppc' = [ppc EXCEPT ![p] = "idle"]
          /\ UNCHANGED <<pending, accepted>>
     ELSE /\ accepted + plen[p] <= MaxBytes /\ Len(pending) < MaxPending
          /\ pending' = Append(pending, [lo |-> accepted, len |-> plen[p], off |-> 0])
          /\ accepted' = accepted + plen[p]
          /\ ppc' = [ppc EXCEPT ![p] = "wake"]
  /\ plen' = [plen EXCEPT ![p] = 0]
  /\ UNCHANGED <<eof, err, closed, reader>>

PushEof(p) ==
  /\ ppc[p] = "eof" /\ Unlocked
  /\ eof' = TRUE
  /\ ppc' = [ppc EXCEPT ![p] = "wake"]
  /\ UNCHANGED <<pending, err, closed, reader, plen, accepted>>

PushError(p) ==
  /\ ppc[p] = "error" /\ Unlocked
  /\ err' = TRUE
  /\ ppc' = [ppc EXCEPT ![p] = "wake"]
  /\ UNCHANGED <<pending, eof, closed, reader, plen, accepted>>

(* abort(): `closed` first, then the error unless the stream has ended.     *)
BeginAbort(p) ==
  /\ ppc[p] = "idle"
  /\ closed' = TRUE
  /\ ppc' = [ppc EXCEPT ![p] = "abort"]
  /\ UNCHANGED <<state, reader, plen, accepted>>

Abort(p) ==
  /\ ppc[p] = "abort" /\ Unlocked
  /\ err' = (err \/ ~eof)
  /\ ppc' = [ppc EXCEPT ![p] = "wake"]
  /\ UNCHANGED <<pending, eof, closed, reader, plen, accepted>>

(* AtomicWaker::wake takes the registered waker, if there is one.           *)
Wake(p) ==
  /\ ppc[p] = "wake"
  /\ waker' = FALSE
  /\ notified' = (notified \/ waker)
  /\ ppc' = [ppc EXCEPT ![p] = "idle"]
  /\ UNCHANGED <<state, closed, rpc, room, filled, out, plen, accepted>>

-----------------------------------------------------------------------------

(* Mutant: the waker is registered by the first poll of a read only.        *)
RegisterOnce(r) ==
  /\ waker' = (waker \/ rpc = "away")
  /\ notified' = FALSE
  /\ room' = r /\ filled' = 0
  /\ rpc' = "registered"
  /\ UNCHANGED <<state, closed, out, pushers, accepted>>

(* The reader: poll_read, from wherever its task is polled, with an empty   *)
(* ReadBuf, as the read helpers of the runtime hand it over.                *)
Register(r) ==
  /\ waker' = TRUE
  /\ notified' = FALSE
  /\ room' = r /\ filled' = 0
  /\ rpc' = "registered"
  /\ UNCHANGED <<state, closed, out, pushers, accepted>>

Read(r) == rpc = "away" /\ Register(r)
Repoll(r) == rpc = "parked" /\ notified /\ Register(r)
(* The task is polled for another reason, a timeout for example.            *)
SpuriousPoll(r) == rpc = "parked" /\ ~notified /\ Register(r)

LockRead ==
  /\ rpc = "registered"
  /\ IF err THEN closed' = TRUE /\ rpc' = "failed"
            ELSE UNCHANGED closed /\ rpc' = "copy"
  /\ UNCHANGED <<state, waker, notified, room, filled, out, pushers, accepted>>

(* Mutant: the rest of a chunk goes to the back of the queue.               *)
CopyChunkPushBack ==
  /\ rpc = "copy" /\ room > 0 /\ pending # <<>>
  /\ LET c == Head(pending)
         n == IF c.len - c.off <= room THEN c.len - c.off ELSE room
     IN /\ out' = out \o [k \in 1..n |-> c.lo + c.off + k]
        /\ room' = room - n
        /\ filled' = filled + n
        /\ pending' = IF c.off + n < c.len
                      THEN Append(Tail(pending), [c EXCEPT !.off = @ + n]) ELSE Tail(pending)
  /\ UNCHANGED <<eof, err, closed, waker, notified, rpc, pushers, accepted>>

(* One turn of the copy loop: an exhausted chunk is skipped, one that does  *)
(* not fit goes back with a new offset.                                     *)
CopyChunk ==
  /\ rpc = "copy" /\ room > 0 /\ pending # <<>>
  /\ LET c == Head(pending)
         n == IF c.len - c.off <= room THEN c.len - c.off ELSE room
     IN /\ out' = out \o [k \in 1..n |-> c.lo + c.off + k]
        /\ room' = room - n
        /\ filled' = filled + n
        /\ pending' = IF c.off + n < c.len
                      THEN [pending EXCEPT ![1].off = @ + n] ELSE Tail(pending)
  /\ UNCHANGED <<eof, err, closed, waker, notified, rpc, pushers, accepted>>

(* Mutant: an empty read at the end of the stream counts as progress.       *)
FinishReadAgain ==
  /\ rpc = "copy" /\ (room = 0 \/ pending = <<>>)
  /\ rpc' = IF filled > 0 \/ eof THEN "away" ELSE "parked"
  /\ UNCHANGED <<state, closed, waker, notified, room, filled, out, pushers, accepted>>

FinishRead ==
  /\ rpc = "copy" /\ (room = 0 \/ pending = <<>>)
  /\ \/ /\ filled > 0
        /\ rpc' = "away" /\ UNCHANGED closed
     \/ /\ filled = 0 /\ eof
        /\ rpc' = "ended" /\ closed' = TRUE
     \/ /\ filled = 0 /\ ~eof
        /\ rpc' = "parked" /\ UNCHANGED closed
  /\ UNCHANGED <<state, waker, notified, room, filled, out, pushers, accepted>>

(* poll_shutdown, from the task that owns the stream.                       *)
Shutdown ==
  /\ rpc \in {"away", "parked", "failed", "ended"}
  /\ closed' = TRUE
  /\ UNCHANGED <<state, reader, pushers, accepted>>

-----------------------------------------------------------------------------

PushStep(p) == PushData(p) \/ PushEof(p) \/ PushError(p) \/ Abort(p) \/ Wake(p)
PollStep == LockRead \/ CopyChunk \/ FinishRead

Next ==
  \/ \E p \in Pusher : \/ \E n \in 0..MaxChunk : BeginPush(p, "data", n)
                       \/ BeginPush(p, "eof", 0) \/ BeginPush(p, "error", 0)
                       \/ BeginAbort(p) \/ PushStep(p)
  \/ \E r \in 1..MaxRoom : Read(r) \/ Repoll(r) \/ SpuriousPoll(r)
  \/ PollStep \/ Shutdown

Spec == Init /\ [][Next]_vars

(* Threads finish their calls; a task that is woken is polled; the proxy    *)
(* keeps reading a stream that gave it bytes.                               *)
Fairness ==
  /\ \A p \in Pusher : WF_vars(PushStep(p))
  /\ WF_vars(PollStep)
  /\ WF_vars(\E r \in 1..MaxRoom : Read(r))
  /\ WF_vars(\E r \in 1..MaxRoom : Repoll(r))

FairSpec == Spec /\ Fairness

-----------------------------------------------------------------------------
(* Properties.                                                              *)

TypeOK ==
  /\ pending \in Seq(Chunk)
  /\ eof \in BOOLEAN /\ err \in BOOLEAN /\ closed \in BOOLEAN
  /\ waker \in BOOLEAN /\ notified \in BOOLEAN
  /\ rpc \in {"away", "parked", "registered", "copy", "failed", "ended"}
  /\ room \in 0..MaxRoom /\ filled \in 0..MaxRoom
  /\ ppc \in [Pusher -> {"idle", "wake"} \cup Op]
  /\ plen \in [Pusher -> 0..MaxChunk]
  /\ accepted \in 0..MaxBytes
  /\ out \in Seq(Nat)

(* No wake-up is lost: while the reader is parked and there is something it *)
(* would be given, its task has been woken or a thread is about to wake it. *)
(* poll_read registers its waker before it looks at the state.              *)
NoLostWakeup ==
  rpc = "parked" /\ (pending # <<>> \/ eof \/ err)
    => notified \/ \E p \in Pusher : ppc[p] = "wake" /\ waker

(* The socket is a byte stream: what poll_read copies is exactly what       *)
(* push_data accepted, each byte once and in order across chunks and        *)
(* partial reads, and a clean end of stream only after the last byte. (For  *)
(* readers that poll with an empty ReadBuf: poll_read tells "nothing read"  *)
(* by the whole buffer.)                                                    *)
Seen == CASE rpc = "ended" -> "eof" [] rpc = "failed" -> "error" [] OTHER -> "open"
Stream == INSTANCE ByteStream WITH seen <- Seen
ImplementsByteStream == Stream!Spec

(* The reader gets everything: every accepted byte reaches it, unless an    *)
(* error cuts it off, and a stream that JavaScript ends, fails or that is   *)
(* aborted does end for it.                                                 *)
ReaderGetsAll ==
  /\ \A n \in 1..MaxBytes : (accepted >= n) ~> (Len(out) >= n \/ err)
  /\ (eof \/ err) ~> (rpc \in {"ended", "failed"})
=============================================================================
