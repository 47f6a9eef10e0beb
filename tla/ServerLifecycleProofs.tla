----------------------- MODULE ServerLifecycleProofs -----------------------
(***************************************************************************)
(* For any number of restarts and of concurrent stop() calls: at most one  *)
(* server thread is up, "stopped" means that none is, and status().state   *)
(* follows the lifecycle of ServerStates.                                  *)
(***************************************************************************)
EXTENDS ServerLifecycle, TLAPS

(* A stop() call that took a runtime is alone, and `stopping` covers it.    *)
StopInv ==
  \A c \in Caller :
    /\ spc[c] # "idle" => /\ srt[c] \in Server
                          /\ stopping /\ started /\ runtime = NoServer
    /\ \A d \in Caller : spc[c] # "idle" /\ spc[d] # "idle" => c = d

(* A thread that is up belongs to the slot or to that stop() call.          *)
OwnedInv ==
  \A n \in Server : thread[n] \in Up =>
    started /\ (n = runtime \/ \E c \in Caller : spc[c] # "idle" /\ srt[c] = n)

FlagInv ==
  /\ runtime # NoServer => started /\ ~stopping
  /\ stopping => started

IInv == TypeOK /\ StopInv /\ OwnedInv /\ FlagInv /\ OneServer

(* A server object that was never started satisfies the invariant.          *)
LEMMA InitIInv == Init => IInv
<1> SUFFICES ASSUME Init PROVE IInv
  OBVIOUS
<1>1. TypeOK
  BY DEF Init, TypeOK
<1>2. StopInv /\ OwnedInv /\ FlagInv /\ OneServer
  BY DEF Init, StopInv, OwnedInv, FlagInv, OneServer, Up
<1> QED
  BY <1>1, <1>2 DEF IInv

(* A step keeps every variable in its set: what stop() signals is a thread. *)
LEMMA TypeStep ==
  ASSUME IInv, [Next]_vars
  PROVE  TypeOK'
<1> USE DEF IInv
<1>1. ASSUME NEW n \in Server, Start(n) PROVE TypeOK'
  BY <1>1 DEF TypeOK, Start, Up
<1>2. ASSUME NEW n \in Server, ThreadStep(n) PROVE TypeOK'
  BY <1>2 DEF TypeOK, ThreadStep, ThreadServe, ThreadPanic, ThreadDrain, ThreadExit, Up
<1>3. ASSUME NEW c \in Caller, StopTake(c) PROVE TypeOK'
  <2>1. CASE runtime = NoServer
    BY <1>3, <2>1 DEF TypeOK, StopTake
  <2>2. CASE runtime # NoServer
    <3>1. runtime \in Server /\ runtime' = NoServer /\ stopping' = TRUE
      BY <1>3, <2>2 DEF TypeOK, StopTake
    <3>2. srt' \in [Caller -> Server \cup {NoServer}]
      BY <1>3, <2>2, <3>1 DEF TypeOK, StopTake
    <3>3. /\ spc' \in [Caller -> {"idle", "taken", "joining"}]
          /\ answer' \in [Caller -> {"none", "ok", "error"}]
      BY <1>3, <2>2 DEF TypeOK, StopTake
    <3> QED
      BY <1>3, <3>1, <3>2, <3>3 DEF TypeOK, StopTake
  <2> QED
    BY <2>1, <2>2
<1>4. ASSUME NEW c \in Caller, StopSend(c) PROVE TypeOK'
  <2>1. srt[c] \in Server
    BY <1>4 DEF StopInv, StopSend
  <2> QED
    BY <1>4, <2>1 DEF TypeOK, StopSend
<1>5. ASSUME NEW c \in Caller, StopJoin(c) PROVE TypeOK'
  BY <1>5 DEF TypeOK, StopJoin
<1>6. CASE Collect \/ CollectJoin
  BY <1>6 DEF TypeOK, Collect, CollectJoin
<1>7. CASE UNCHANGED vars
  BY <1>7 DEF TypeOK, vars
<1> QED
  BY <1>1, <1>2, <1>3, <1>4, <1>5, <1>6, <1>7 DEF Next, StopStep

(* Every step of a caller, of a server thread or of the collector preserves *)
(* the invariant.                                                           *)
LEMMA StepIInv == IInv /\ [Next]_vars => IInv'
<1> SUFFICES ASSUME IInv, [Next]_vars PROVE IInv'
  OBVIOUS
<1> USE LifecycleAssumption DEF IInv
<1>0. TypeOK'
  BY TypeStep
<1>1. ASSUME NEW n \in Server, Start(n) PROVE IInv'
  <2>1. \A c \in Caller : spc[c] = "idle"
    BY <1>1 DEF StopInv, Start
  <2>2. \A m \in Server : thread[m] \notin Up
    BY <1>1, <2>1 DEF OwnedInv, Start
  <2>3. StopInv' /\ FlagInv'
    BY <1>1, <2>1 DEF StopInv, FlagInv, Start
  <2>4. OwnedInv' /\ OneServer'
    BY <1>1, <2>2 DEF TypeOK, OwnedInv, OneServer, Start
  <2> QED
    BY <1>0, <2>3, <2>4
<1>2. ASSUME NEW n \in Server, ThreadStep(n) PROVE IInv'
  <2> USE <1>2 DEF ThreadStep, ThreadServe, ThreadPanic, ThreadDrain, ThreadExit
  <2>1. \A m \in Server : thread'[m] \in Up => thread[m] \in Up
    BY DEF TypeOK, Up
  <2>2. StopInv' /\ FlagInv'
    BY DEF StopInv, FlagInv
  <2>3. OwnedInv'
    BY <2>1 DEF OwnedInv
  <2>4. OneServer'
    BY <2>1 DEF OneServer
  <2> QED
    BY <1>0, <2>2, <2>3, <2>4
<1>3. ASSUME NEW c \in Caller, StopTake(c) PROVE IInv'
  <2>1. CASE runtime = NoServer
    BY <1>0, <1>3, <2>1 DEF StopInv, OwnedInv, FlagInv, OneServer, StopTake
  <2>2. CASE runtime # NoServer
    <3>1. \A d \in Caller : spc[d] = "idle"
      BY <2>2 DEF StopInv
    <3>2. StopInv' /\ FlagInv'
      BY <1>3, <2>2, <3>1 DEF TypeOK, StopInv, FlagInv, StopTake
    <3>3. OwnedInv' /\ OneServer'
      BY <1>3, <2>2, <3>1 DEF TypeOK, OwnedInv, OneServer, StopTake
    <3> QED
      BY <1>0, <3>2, <3>3
  <2> QED
    BY <2>1, <2>2
<1>4. ASSUME NEW c \in Caller, StopSend(c) \/ StopJoin(c) PROVE IInv'
  <2>1. srt[c] \in Server /\ runtime = NoServer /\ started /\ spc[c] # "idle"
    BY <1>4 DEF StopInv, StopSend, StopJoin
  <2>2. \A d \in Caller \ {c} : spc[d] = "idle" /\ spc'[d] = "idle"
    BY <1>4, <2>1 DEF TypeOK, StopInv, StopSend, StopJoin
  <2>3. CASE spc'[c] = "idle"
    <3>1. \A n \in Server : thread[n] \notin Up
      <4>1. thread[srt[c]] \notin Up
        BY <1>4, <2>3 DEF TypeOK, StopSend, StopJoin
      <4> QED
        BY <2>1, <2>2, <4>1 DEF OwnedInv
    <3>2. StopInv' /\ FlagInv' /\ OwnedInv' /\ OneServer'
      BY <1>4, <2>1, <2>2, <2>3, <3>1
      DEF StopInv, FlagInv, OwnedInv, OneServer, StopSend, StopJoin
    <3> QED
      BY <1>0, <3>2
  <2>4. CASE spc'[c] # "idle"
    <3>1. UNCHANGED <<runtime, started, stopping, thread, srt>>
      BY <1>4, <2>4 DEF TypeOK, StopSend, StopJoin
    <3>2. StopInv' /\ FlagInv' /\ OwnedInv' /\ OneServer'
      BY <2>1, <2>2, <2>4, <3>1 DEF StopInv, FlagInv, OwnedInv, OneServer
    <3> QED
      BY <1>0, <3>2
  <2> QED
    BY <2>3, <2>4
<1>5. CASE Collect \/ CollectJoin \/ UNCHANGED vars
  BY <1>0, <1>5 DEF StopInv, OwnedInv, FlagInv, OneServer, Collect, CollectJoin, vars
<1> QED
  BY <1>1, <1>2, <1>3, <1>4, <1>5 DEF Next, StopStep

(* The inductive invariant of the lifecycle.                                *)
THEOREM Invariant == Spec => []IInv
  BY InitIInv, StepIInv, PTL DEF Spec

(* Every variable keeps its type.                                           *)
THEOREM TypeCorrect == Spec => []TypeOK
<1>1. IInv => TypeOK
  BY DEF IInv
<1> QED
  BY Invariant, <1>1, PTL

(* start() never spawns a second thread beside one that is up.              *)
THEOREM AtMostOneServer == Spec => []OneServer
<1>1. IInv => OneServer
  BY DEF IInv
<1> QED
  BY Invariant, <1>1, PTL

(* What status() calls "idle" or "stopped" has no thread left.              *)
THEOREM StoppedMeansDown == Spec => []StoppedIsDown
<1>1. IInv => StoppedIsDown
  <2> SUFFICES ASSUME IInv, State \in {"idle", "stopped"}, NEW n \in Server, thread[n] \in Up
               PROVE  FALSE
    BY DEF StoppedIsDown
  <2>1. started /\ (n = runtime \/ \E c \in Caller : spc[c] # "idle")
    BY DEF IInv, OwnedInv
  <2>2. ~stopping /\ runtime = NoServer
    BY <2>1 DEF State
  <2> QED
    BY <2>1, <2>2, LifecycleAssumption DEF IInv, StopInv
<1> QED
  BY Invariant, <1>1, PTL

(* status().state refines the four-state lifecycle: start() moves it to     *)
(* running, taking the runtime to stopping, the end of the join to stopped, *)
(* and no other step changes it.                                            *)
THEOREM Refinement == Spec => ImplementsServerStates
<1>1. Init => Lifecycle!Init
  BY DEF Init, Lifecycle!Init, State
<1>2. IInv /\ [Next]_vars => [Lifecycle!Next]_State
  <2> SUFFICES ASSUME IInv, [Next]_vars PROVE Lifecycle!Next \/ State' = State
    OBVIOUS
  <2> USE LifecycleAssumption DEF IInv, State, TypeOK
  <2>1. ASSUME NEW n \in Server, Start(n) PROVE Lifecycle!Started
    BY <2>1 DEF Start, Lifecycle!Started
  <2>2. ASSUME NEW n \in Server, ThreadStep(n) PROVE State' = State
    BY <2>2 DEF ThreadStep, ThreadServe, ThreadPanic, ThreadDrain, ThreadExit
  <2>3. ASSUME NEW c \in Caller, StopTake(c)
        PROVE  Lifecycle!StopRequested \/ State' = State
    BY <2>3 DEF StopTake, FlagInv, Lifecycle!StopRequested
  <2>4. ASSUME NEW c \in Caller, StopSend(c) PROVE State' = State
    BY <2>4 DEF StopSend
  <2>5. ASSUME NEW c \in Caller, StopJoin(c) PROVE Lifecycle!StopFinished
    BY <2>5 DEF StopJoin, StopInv, Lifecycle!StopFinished
  <2>6. CASE Collect \/ CollectJoin \/ UNCHANGED vars
    BY <2>6 DEF Collect, CollectJoin, vars
  <2> QED
    BY <2>1, <2>2, <2>3, <2>4, <2>5, <2>6 DEF Next, StopStep, Lifecycle!Next
<1> QED
  BY Invariant, <1>1, <1>2, PTL DEF Spec, ImplementsServerStates, Lifecycle!Spec
=============================================================================
