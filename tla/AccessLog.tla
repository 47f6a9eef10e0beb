----------------------------- MODULE AccessLog -----------------------------
(***************************************************************************)
(* The access log (src/middlewares/access_log/mod.rs) for one file: the    *)
(* table of sinks that middlewares find their sink in, the sender each     *)
(* sink creates on first use, the bounded queue, and the writer task,      *)
(* which runs on the runtime of the server whose request came first.       *)
(*                                                                         *)
(* A sink is named by the middleware that created it, a channel and its    *)
(* writer by the request that created them, and a line by its request.     *)
(***************************************************************************)
EXTENDS Naturals, FiniteSets, Sequences

CONSTANTS
  Build,    \* access_log middlewares with this file
  Req,      \* requests that end, each logging one line
  Server,   \* servers of the process, each with a runtime
  Home,     \* request -> the server it comes to
  Cap,      \* capacity of a queue
  Parts,    \* writes it takes to flush a line
  None

ASSUME LogAssumption ==
  /\ Cap \in Nat \ {0} /\ Parts \in Nat \ {0} /\ None \notin Build \cup Req
  /\ Home \in [Req -> Server]

VARIABLES
  current,  \* SINKS: the sink of the path
  bpc,      \* middleware -> where sink_for is
  sink,     \* middleware -> its sink
  tx,       \* sink -> its channel
  up,       \* server -> its runtime runs
  lpc,      \* request -> where send_line is
  via,      \* request -> the sink it logs to
  queue,    \* channel -> lines
  writer,   \* channel -> state of its writer
  line,     \* channel -> the line its writer holds
  part,     \* channel -> writes of that line done
  file,     \* what was appended to the file: pairs of a line and a part
  accepted, \* history: sink -> lines its channels accepted, in order
  full,     \* history: lines refused by a full queue
  failed    \* history: channels whose writer met an I/O error

sinks == <<current, bpc, sink>>
requests == <<lpc, via>>
writers == <<writer, line, part, file>>
history == <<accepted, full, failed>>
vars == <<sinks, tx, up, requests, queue, writers, history>>

-----------------------------------------------------------------------------
Init ==
  /\ current = None /\ bpc = [b \in Build |-> "get"] /\ sink = [b \in Build |-> None]
  /\ tx = [s \in Build |-> None] /\ up = [v \in Server |-> TRUE]
  /\ lpc = [r \in Req |-> "idle"] /\ via = [r \in Req |-> None]
  /\ queue = [c \in Req |-> <<>>] /\ writer = [c \in Req |-> "none"]
  /\ line = [c \in Req |-> None] /\ part = [c \in Req |-> 0] /\ file = <<>>
  /\ accepted = [s \in Build |-> <<>>] /\ full = {} /\ failed = {}

(* sink_for: the sink in the table, ... (A file that cannot be opened fails *)
(* the build; such a middleware takes no step.)                             *)
SinkGet(b) ==
  /\ bpc[b] = "get"
  /\ IF current # None
       THEN sink' = [sink EXCEPT ![b] = current] /\ bpc' = [bpc EXCEPT ![b] = "built"]
       ELSE bpc' = [bpc EXCEPT ![b] = "insert"] /\ UNCHANGED sink
  /\ UNCHANGED <<current, tx, up, requests, queue, writers, history>>

(* ... or a new one, which replaces whatever the table holds by now.        *)
SinkInsert(b) ==
  /\ bpc[b] = "insert" /\ bpc' = [bpc EXCEPT ![b] = "built"]
  /\ current' = b /\ sink' = [sink EXCEPT ![b] = b]
  /\ UNCHANGED <<tx, up, requests, queue, writers, history>>

(* logging, and the first look of send_line at the sender.                  *)
SendLine(r, b) ==
  /\ lpc[r] = "idle" /\ bpc[b] = "built" /\ up[Home[r]]
  /\ via' = [via EXCEPT ![r] = sink[b]]
  /\ lpc' = [lpc EXCEPT ![r] = IF tx[sink[b]] = None THEN "init" ELSE "send"]
  /\ UNCHANGED <<sinks, tx, up, queue, writers, history>>

(* A task spawned on a runtime that is shut down is dropped.                *)
Spawned(v) == IF up[v] THEN "opening" ELSE "dead"

(* Mutant: who loses the race for the sender gives up.                      *)
InitLoserReturns(r) ==
  /\ lpc[r] = "init"
  /\ IF tx[via[r]] = None
       THEN /\ tx' = [tx EXCEPT ![via[r]] = r] /\ lpc' = [lpc EXCEPT ![r] = "send"]
            /\ writer' = [writer EXCEPT ![r] = Spawned(Home[r])]
       ELSE lpc' = [lpc EXCEPT ![r] = "done"] /\ UNCHANGED <<tx, writer>>
  /\ UNCHANGED <<sinks, up, via, queue, line, part, file, history>>

(* OnceLock::set: the first request spawns the writer on its own runtime,   *)
(* the others drop their channel.                                           *)
InitSender(r) ==
  /\ lpc[r] = "init" /\ lpc' = [lpc EXCEPT ![r] = "send"]
  /\ IF tx[via[r]] = None
       THEN /\ tx' = [tx EXCEPT ![via[r]] = r]
            /\ writer' = [writer EXCEPT ![r] = Spawned(Home[r])]
       ELSE UNCHANGED <<tx, writer>>
  /\ UNCHANGED <<sinks, up, via, queue, line, part, file, history>>

(* try_send: refused by a full queue, or one whose receiver is gone.        *)
TrySend(r) ==
  /\ lpc[r] = "send" /\ lpc' = [lpc EXCEPT ![r] = "done"]
  /\ LET c == tx[via[r]] IN
       \/ writer[c] = "dead" /\ UNCHANGED <<queue, accepted, full>>
       \/ /\ writer[c] # "dead" /\ Len(queue[c]) >= Cap
          /\ full' = full \cup {r} /\ UNCHANGED <<queue, accepted>>
       \/ /\ writer[c] # "dead" /\ Len(queue[c]) < Cap
          /\ queue' = [queue EXCEPT ![c] = Append(@, r)]
          /\ accepted' = [accepted EXCEPT ![via[r]] = Append(@, r)] /\ UNCHANGED full
  /\ UNCHANGED <<sinks, tx, up, via, writers, failed>>

-----------------------------------------------------------------------------
(* The writer task.                                                         *)

(* A writer returns, or is dropped: its receiver goes with it.              *)
Dies(C) ==
  /\ writer' = [c \in Req |-> IF c \in C THEN "dead" ELSE writer[c]]
  /\ queue' = [c \in Req |-> IF c \in C THEN <<>> ELSE queue[c]]
  /\ line' = [c \in Req |-> IF c \in C THEN None ELSE line[c]]

Open(c) ==
  /\ writer[c] = "opening" /\ writer' = [writer EXCEPT ![c] = "ready"]
  /\ UNCHANGED <<sinks, tx, up, requests, queue, line, part, file, history>>

(* recv.                                                                    *)
Receive(c) ==
  /\ writer[c] = "ready" /\ queue[c] # <<>>
  /\ writer' = [writer EXCEPT ![c] = "writing"] /\ part' = [part EXCEPT ![c] = 0]
  /\ line' = [line EXCEPT ![c] = Head(queue[c])] /\ queue' = [queue EXCEPT ![c] = Tail(@)]
  /\ UNCHANGED <<sinks, tx, up, requests, file, history>>

(* Mutant: the buffer is not flushed until the next line comes.             *)
WriteUnflushed(c) ==
  /\ writer[c] = "writing" /\ queue[c] # <<>>
  /\ file' = Append(file, <<line[c], part[c] + 1>>)
  /\ part' = [part EXCEPT ![c] = @ + 1]
  /\ IF part'[c] = Parts
       THEN writer' = [writer EXCEPT ![c] = "ready"] /\ line' = [line EXCEPT ![c] = None]
       ELSE UNCHANGED <<writer, line>>
  /\ UNCHANGED <<sinks, tx, up, requests, queue, history>>

(* write_all and flush, one write at a time.                                *)
Write(c) ==
  /\ writer[c] = "writing"
  /\ file' = Append(file, <<line[c], part[c] + 1>>)
  /\ part' = [part EXCEPT ![c] = @ + 1]
  /\ IF part'[c] = Parts
       THEN writer' = [writer EXCEPT ![c] = "ready"] /\ line' = [line EXCEPT ![c] = None]
       ELSE UNCHANGED <<writer, line>>
  /\ UNCHANGED <<sinks, tx, up, requests, queue, history>>

(* Mutant: a failed write is tried again from its first byte.               *)
FailRetries(c) ==
  /\ writer[c] = "writing" /\ part' = [part EXCEPT ![c] = 0]
  /\ UNCHANGED <<sinks, tx, up, requests, writer, queue, line, file, history>>

(* Opening or writing the file fails: the task returns.                     *)
Fail(c) ==
  /\ writer[c] \in {"opening", "writing"} /\ Dies({c}) /\ failed' = failed \cup {c}
  /\ UNCHANGED <<sinks, tx, up, requests, part, file, accepted, full>>

(* A server stops: its runtime drops its tasks.                             *)
Stop(v) ==
  /\ up[v] /\ up' = [up EXCEPT ![v] = FALSE]
  /\ Dies({c \in Req : Home[c] = v /\ writer[c] # "none"})
  /\ UNCHANGED <<sinks, tx, requests, part, file, history>>

-----------------------------------------------------------------------------
Next ==
  \/ \E b \in Build : SinkGet(b) \/ SinkInsert(b)
  \/ \E r \in Req : InitSender(r) \/ TrySend(r)
  \/ \E r \in Req, b \in Build : SendLine(r, b)
  \/ \E c \in Req : Open(c) \/ Receive(c) \/ Write(c) \/ Fail(c)
  \/ \E v \in Server : Stop(v)

(* Requests do not await in send_line; a live runtime polls its writers.    *)
Spec ==
  /\ Init /\ [][Next]_vars
  /\ \A c \in Req : WF_vars(Open(c)) /\ WF_vars(Receive(c)) /\ WF_vars(Write(c))

-----------------------------------------------------------------------------
(* Type invariant; every sink in use was built, every sender has a writer.  *)
TypeOK ==
  /\ current \in Build \cup {None} /\ sink \in [Build -> Build \cup {None}]
  /\ \A b \in Build : bpc[b] = "built" <=> sink[b] # None
  /\ tx \in [Build -> Req \cup {None}]
  /\ \A s \in Build : tx[s] # None => writer[tx[s]] # "none"
  /\ \A c \in Req : Len(queue[c]) <= Cap /\ part[c] \in 0..Parts
  /\ \A c \in Req : writer[c] = "writing" <=> line[c] # None

Written(r) == \E i \in DOMAIN file : file[i] = <<r, Parts>>

(* The line of a request that has ended is in the file, or on its way       *)
(* there, unless its queue was full, or its writer met an I/O error, or the *)
(* server that ran the writer has stopped: no other order of first uses     *)
(* loses a line.                                                            *)
LostForCause ==
  \A r \in Req : lpc[r] = "done" =>
    LET c == tx[via[r]] IN
      \/ Written(r) \/ line[c] = r \/ \E i \in DOMAIN queue[c] : queue[c][i] = r
      \/ r \in full \/ c \in failed \/ ~up[Home[c]]

(* "All middleware instances logging to the same path share one sink and    *)
(* one dedicated writer task, so lines are never interleaved", as far as it *)
(* concerns one sink: what a sink writes is its lines in the order its      *)
(* queue took them, each whole before the next, and no line twice. (Two     *)
(* middlewares built at the same time may get two sinks for one path.)      *)
SinkWritesInOrder ==
  \A s \in Build :
    LET mine == SelectSeq(file, LAMBDA e : via[e[1]] = s)
    IN \A i \in DOMAIN mine :
         mine[i] = <<accepted[s][1 + ((i - 1) \div Parts)], 1 + ((i - 1) % Parts)>>

(* A line that was accepted gets to the file while its writer lives.        *)
AcceptedIsWritten ==
  \A r \in Req, s \in Build :
    (\E i \in DOMAIN accepted[s] : accepted[s][i] = r)
      ~> (Written(r) \/ \E c \in Req : tx[s] = c /\ writer[c] = "dead")
=============================================================================
