--------------------------- MODULE ServerLifecycle ---------------------------
(***************************************************************************)
(* start(), stop() and status() of LonesomeServer (src/bindings/server.rs) *)
(* over LonesomeRuntime (src/server/server.rs): the slot that holds the    *)
(* runtime, the pingora thread each start spawns, the channel that asks it *)
(* to terminate, and concurrent stop() calls, which run on async workers.  *)
(***************************************************************************)
EXTENDS Naturals

CONSTANTS
  Server,     \* pingora threads; their number bounds successful starts
  Caller,     \* pending stop() calls
  NoServer    \* None

ASSUME LifecycleAssumption == NoServer \notin Server

VARIABLES
  runtime,    \* LonesomeServer.runtime: the thread of the LonesomeRuntime in it
  started, stopping,  \* the two flags
  thread,     \* thread -> its life
  signal,     \* threads whose sender was taken: it sent the signal and is gone
  spc,        \* stop() call -> where it is
  srt,        \* stop() call -> the runtime it took
  answer,     \* stop() call -> its last outcome
  object      \* the LonesomeServer: "held" by JavaScript, in Drop, or freed

vars == <<runtime, started, stopping, thread, signal, spc, srt, answer, object>>

Up == {"setup", "serving", "draining"}

Init ==
  /\ runtime = NoServer /\ started = FALSE /\ stopping = FALSE
  /\ thread = [n \in Server |-> "unborn"] /\ signal = {}
  /\ spc = [c \in Caller |-> "idle"] /\ srt = [c \in Caller |-> NoServer]
  /\ answer = [c \in Caller |-> "none"]
  /\ object = "held"

(* Mutant: start() looks at the slot only.                                  *)
StartIgnoresStopping(n) ==
  /\ object = "held"
  /\ runtime = NoServer
  /\ thread[n] = "unborn"
  /\ thread' = [thread EXCEPT ![n] = "setup"]
  /\ runtime' = n /\ started' = TRUE
  /\ UNCHANGED <<stopping, signal, spc, srt, answer, object>>

(* start() works under the runtime lock; LonesomeRuntime::start returns as  *)
(* soon as the thread is spawned. A start that is rejected changes nothing. *)
Start(n) ==
  /\ object = "held"
  /\ runtime = NoServer /\ ~stopping
  /\ thread[n] = "unborn"
  /\ thread' = [thread EXCEPT ![n] = "setup"]
  /\ runtime' = n /\ started' = TRUE
  /\ UNCHANGED <<stopping, signal, spc, srt, answer, object>>

(* Mutant: stop() leaves the runtime in the slot.                           *)
StopTakeKeepsRuntime(c) ==
  /\ object = "held" /\ spc[c] = "idle" /\ runtime # NoServer /\ ~stopping
  /\ srt' = [srt EXCEPT ![c] = runtime]
  /\ stopping' = TRUE
  /\ spc' = [spc EXCEPT ![c] = "taken"]
  /\ answer' = [answer EXCEPT ![c] = "none"]
  /\ UNCHANGED <<runtime, started, thread, signal, object>>

(* stop(), up to releasing the runtime lock.                                *)
StopTake(c) ==
  /\ object = "held" /\ spc[c] = "idle"
  /\ \/ /\ runtime = NoServer
        /\ answer' = [answer EXCEPT ![c] = "ok"]
        /\ UNCHANGED <<runtime, stopping, spc, srt>>
     \/ /\ runtime # NoServer
        /\ srt' = [srt EXCEPT ![c] = runtime]
        /\ runtime' = NoServer /\ stopping' = TRUE
        /\ spc' = [spc EXCEPT ![c] = "taken"]
        /\ answer' = [answer EXCEPT ![c] = "none"]
  /\ UNCHANGED <<started, thread, signal, object>>

(* Mutant: stop() sends the signal and does not join.                       *)
StopSendOnly(c) ==
  /\ spc[c] = "taken"
  /\ thread[srt[c]] \in Up
  /\ signal' = signal \cup {srt[c]}
  /\ stopping' = FALSE
  /\ spc' = [spc EXCEPT ![c] = "idle"]
  /\ srt' = [srt EXCEPT ![c] = NoServer]
  /\ answer' = [answer EXCEPT ![c] = "ok"]
  /\ UNCHANGED <<runtime, started, thread, object>>

(* detach_shutdown: the send fails once the thread has dropped its end of   *)
(* the channel; stop() then returns the error at once.                      *)
StopSend(c) ==
  /\ spc[c] = "taken"
  /\ \/ /\ thread[srt[c]] \in Up
        /\ signal' = signal \cup {srt[c]}
        /\ spc' = [spc EXCEPT ![c] = "joining"]
        /\ UNCHANGED <<srt, answer>>
     \/ /\ thread[srt[c]] \notin Up
        /\ spc' = [spc EXCEPT ![c] = "idle"]
        /\ srt' = [srt EXCEPT ![c] = NoServer]
        /\ answer' = [answer EXCEPT ![c] = "error"]
        /\ UNCHANGED signal
  /\ UNCHANGED <<runtime, started, stopping, thread, object>>

(* Mutant: only a clean exit ends the wait.                                 *)
StopJoinClean(c) ==
  /\ spc[c] = "joining"
  /\ thread[srt[c]] = "exited"
  /\ stopping' = FALSE
  /\ spc' = [spc EXCEPT ![c] = "idle"]
  /\ srt' = [srt EXCEPT ![c] = NoServer]
  /\ answer' = [answer EXCEPT ![c] = "ok"]
  /\ UNCHANGED <<runtime, started, thread, signal, object>>

StopJoin(c) ==
  /\ spc[c] = "joining"
  /\ thread[srt[c]] \notin Up
  /\ stopping' = FALSE
  /\ spc' = [spc EXCEPT ![c] = "idle"]
  /\ srt' = [srt EXCEPT ![c] = NoServer]
  /\ answer' = [answer EXCEPT ![c] = "ok"]
  /\ UNCHANGED <<runtime, started, thread, signal, object>>

(* Mutant: Drop joins the thread with its sender still in the struct.       *)
CollectJoinsFirst ==
  /\ object = "held" /\ \A c \in Caller : spc[c] = "idle"
  /\ object' = "dropping"
  /\ UNCHANGED <<runtime, started, stopping, thread, signal, spc, srt, answer>>

(* The JavaScript object is collected with no call pending: Drop of the     *)
(* runtime in the slot takes the sender, sends the signal...                *)
Collect ==
  /\ object = "held" /\ \A c \in Caller : spc[c] = "idle"
  /\ object' = "dropping"
  /\ signal' = IF runtime = NoServer THEN signal ELSE signal \cup {runtime}
  /\ UNCHANGED <<runtime, started, stopping, thread, spc, srt, answer>>

(* ...and blocks the finalizer until the thread is gone (if the thread has  *)
(* dropped its receiver, the send fails and Drop is over at once).          *)
CollectJoin ==
  /\ object = "dropping"
  /\ runtime # NoServer => thread[runtime] \notin Up
  /\ object' = "freed"
  /\ UNCHANGED <<runtime, started, stopping, thread, signal, spc, srt, answer>>

-----------------------------------------------------------------------------
(* The pingora thread. Setting up panics on a certificate or key file that  *)
(* cannot be loaded, among other things.                                    *)

ThreadServe(n) ==
  /\ thread[n] = "setup"
  /\ thread' = [thread EXCEPT ![n] = "serving"]
  /\ UNCHANGED <<runtime, started, stopping, signal, spc, srt, answer, object>>

ThreadPanic(n) ==
  /\ thread[n] = "setup"
  /\ thread' = [thread EXCEPT ![n] = "panicked"]
  /\ UNCHANGED <<runtime, started, stopping, signal, spc, srt, answer, object>>

(* ChannelShutdownSignalWatch::recv returns, with the signal or because the *)
(* sender is gone (unwrap_or), and the server drains.                       *)
ThreadDrain(n) ==
  /\ thread[n] = "serving" /\ n \in signal
  /\ thread' = [thread EXCEPT ![n] = "draining"]
  /\ UNCHANGED <<runtime, started, stopping, signal, spc, srt, answer, object>>

ThreadExit(n) ==
  /\ thread[n] = "draining"
  /\ thread' = [thread EXCEPT ![n] = "exited"]
  /\ UNCHANGED <<runtime, started, stopping, signal, spc, srt, answer, object>>

ThreadStep(n) == ThreadServe(n) \/ ThreadPanic(n) \/ ThreadDrain(n) \/ ThreadExit(n)
StopStep(c) == StopSend(c) \/ StopJoin(c)

Next ==
  \/ \E n \in Server : Start(n) \/ ThreadStep(n)
  \/ \E c \in Caller : StopTake(c) \/ StopStep(c)
  \/ Collect \/ CollectJoin

Spec == Init /\ [][Next]_vars

(* The thread finishes setting up, or fails to, and its drain is bounded by *)
(* the grace period and the shutdown timeout; a stop() call and Drop run on *)
(* when the thread they join has ended.                                     *)
Fairness ==
  /\ \A n \in Server : WF_vars(ThreadStep(n))
  /\ \A c \in Caller : WF_vars(StopStep(c))
  /\ WF_vars(CollectJoin)

FairSpec == Spec /\ Fairness

-----------------------------------------------------------------------------
(* status().state *)
State ==
  IF ~started THEN "idle"
  ELSE IF stopping THEN "stopping"
  ELSE IF runtime # NoServer THEN "running"
  ELSE "stopped"

TypeOK ==
  /\ runtime \in Server \cup {NoServer}
  /\ started \in BOOLEAN /\ stopping \in BOOLEAN
  /\ object \in {"held", "dropping", "freed"}
  /\ thread \in [Server -> Up \cup {"unborn", "exited", "panicked"}]
  /\ signal \subseteq Server
  /\ spc \in [Caller -> {"idle", "taken", "joining"}]
  /\ srt \in [Caller -> Server \cup {NoServer}]
  /\ answer \in [Caller -> {"none", "ok", "error"}]

(* Two pingora threads are never up together, so a restart never competes   *)
(* with its predecessor for the listening addresses: start() is refused     *)
(* from the moment stop() takes the runtime until the thread is joined.     *)
OneServer ==
  \A m, n \in Server : thread[m] \in Up /\ thread[n] \in Up => m = n

(* When status() says "idle" or "stopped", no server thread is left, not    *)
(* even a draining one.                                                     *)
StoppedIsDown ==
  State \in {"idle", "stopped"} => \A n \in Server : thread[n] \notin Up

(* status().state moves through the lifecycle and skips nothing, whatever   *)
(* start() and stop() calls overlap.                                        *)
Lifecycle == INSTANCE ServerStates WITH state <- State
ImplementsServerStates == Lifecycle!Spec

(* Every stop() call is answered, even when the thread panics under it.     *)
StopAnswers == \A c \in Caller : (spc[c] # "idle") ~> (spc[c] = "idle")

(* A server that was collected without stop() is torn down: Drop, which     *)
(* joins the thread on the thread that finalizes, returns, and then nothing *)
(* serves any more, whether the thread was setting up, serving or dead.     *)
CollectedExits ==
  object = "dropping" ~> (object = "freed" /\ \A n \in Server : thread[n] \notin Up)
=============================================================================
