------------------------ MODULE VirtualJsRegistryInv ------------------------
(***************************************************************************)
(* The inductive invariant of the virtual_js registry, and the lemmas that *)
(* say what kinds of step preserve it. IInv says, besides what the safety  *)
(* properties say, where a connection can be while its listener is being   *)
(* taken down.                                                             *)
(***************************************************************************)
EXTENDS VirtualJsRegistry, TLAPS

(* The listener a task works with exists from Resolve on.                   *)
LisInv ==
  \A c \in Conn :
    /\ lis[c] # NoInst => lis[c] \in used
    /\ phase[c] = "new" => lis[c] = NoInst
    /\ phase[c] \notin {"new", "refused"} => lis[c] \in Instance

(* Where a thread is in deactivate_listener determines what it has done:    *)
(* it owns an instance, has taken it out of the map, has cleared its flag.  *)
DeactInv ==
  \A t \in Thread :
    /\ dpc[t] = "idle" <=> dinst[t] = NoInst
    /\ dinst[t] # NoInst => dinst[t] \in used
    /\ dpc[t] \in {"drain", "notify", "abort"} => dinst[t] \notin active
    /\ dpc[t] \in {"flag", "drain", "notify", "abort"}
         => \A k \in Key : listeners[k] # dinst[t]

(* What a thread has drained belongs to the instance it deactivates, which  *)
(* has no connection left.                                                  *)
BatchInv ==
  \A t \in Thread :
    /\ dpc[t] \notin {"notify", "abort"} => batch[t] = {}
    /\ dpc[t] = "abort" <=> cur[t] # NoConn
    /\ dpc[t] \in {"notify", "abort"} => connections[dinst[t]] = {}
    /\ \A c \in Conn : c \in batch[t] \/ c = cur[t] => lis[c] = dinst[t]

(* A proxy task deactivates only its own listener, and only in a phase that *)
(* says so.                                                                 *)
TaskInv ==
  \A c \in Conn :
    /\ phase[c] \notin {"deact_open", "deact_write", "deact_close"} => dpc[c] = "idle"
    /\ dpc[c] # "idle" => dinst[c] = lis[c]
    /\ phase[c] \in {"closing", "deact_close"} => c \in closed

(* The map holds created, active instances under their own key.             *)
MapInv ==
  \A k \in Key : listeners[k] # NoInst =>
    listeners[k] \in active /\ KeyOf[listeners[k]] = k

(* Entries exist only once connect() has inserted them.                     *)
EntryInv ==
  \A c \in Conn :
    /\ c \in sockets \cup detaching => phase[c] \notin {"new", "resolved", "attached"}
    /\ c \in sockets \cup detaching => lis[c] \in Instance
    /\ c \in detaching => c \notin sockets
    /\ c \in detaching => Dead(c) \/ phase[c] \in Ended

(* A connection that can still become, or is, a live stream is reachable by *)
(* whoever deactivates its listener: still attached, or already drained.    *)
LiveTracked ==
  \A c \in Conn :
    phase[c] \in (Connecting \cup Held) \ {"new", "resolved"} /\ ~Dead(c)
      => c \in connections[lis[c]] \/ Pending(c)

(* Nothing detaches a connection before its entry is inserted.              *)
AttachedTracked ==
  \A c \in Conn :
    phase[c] = "attached" /\ lis[c] \in active => c \in connections[lis[c]]

(* A sockets entry is reachable too, except for one inserted after the      *)
(* drain, which the second test of init_connect is about to see.            *)
EntryTracked ==
  \A c \in sockets :
    \/ c \in connections[lis[c]]
    \/ Pending(c)
    \/ phase[c] = "recheck" /\ lis[c] \notin active

(* Connections of an inactive listener are about to be drained.             *)
DrainInv ==
  \A i \in Instance : connections[i] # {} =>
    i \in active \/ \E t \in Thread : dinst[t] = i /\ dpc[t] = "drain"

IInv ==
  /\ TypeOK /\ LisInv /\ DeactInv /\ BatchInv /\ TaskInv /\ MapInv
  /\ EntryInv /\ LiveTracked /\ AttachedTracked /\ EntryTracked /\ DrainInv
  /\ RegisteredIffActive /\ ConnectionRefsLive /\ NoStrayEntry

-----------------------------------------------------------------------------
(* Most steps of a proxy task do one of three things to the registry:       *)
(* nothing but move the task on, detach its connection, or start            *)
(* deactivate_listener_instance. One lemma for each.                        *)

FlagsGrow == closed \subseteq closed' /\ eof \subseteq eof' /\ err \subseteq err'

Early == {"new", "resolved", "attached"}
InDeact == {"deact_open", "deact_write", "deact_close"}

(* A task moves on and nothing it shares changes, except that its socket's  *)
(* flags may go up.                                                         *)
LEMMA MoveOn ==
  ASSUME IInv, TypeOK', NEW c \in Conn, NEW p \in Phase,
         FlagsGrow, Goto(c, p), UNCHANGED <<regVars, active, connVars, lis, deactVars>>,
         \/ p = phase[c]
         \/ /\ phase[c] \notin Ended \cup Early \cup InDeact
            /\ p \notin {"recheck"} \cup Early \cup InDeact
            /\ p \in {"refused", "done"} => c \notin sockets
            /\ phase[c] = "recheck" => lis[c] \in active
            /\ p = "closing" => c \in closed'
  PROVE  IInv'
<1> USE DEF IInv, Goto, regVars, connVars, deactVars, FlagsGrow
<1>1. LisInv'
  BY DEF TypeOK, LisInv, Early, Phase, Ended
<1>2. DeactInv' /\ BatchInv'
  BY DEF DeactInv, BatchInv
<1>3. TaskInv'
  BY DEF TypeOK, TaskInv, InDeact
<1>4. MapInv' /\ DrainInv'
  BY DEF MapInv, DrainInv
<1>5. RegisteredIffActive'
  BY DEF RegisteredIffActive, Deactivating
<1>6. EntryInv'
  BY DEF TypeOK, EntryInv, Early, Dead, Ended
<1>7. \A d \in Conn : Pending(d)' = Pending(d)
  BY DEF Pending
<1>8. LiveTracked'
  BY <1>7 DEF TypeOK, LiveTracked, Dead, Early, InDeact, Phase, Ended, Connecting, Held
<1>9. AttachedTracked'
  BY DEF TypeOK, AttachedTracked, Early
<1>10. EntryTracked'
  BY <1>7 DEF TypeOK, EntryTracked
<1>11. ConnectionRefsLive'
  BY DEF TypeOK, ConnectionRefsLive, Early
<1>12. NoStrayEntry'
  BY <1>7 DEF TypeOK, NoStrayEntry
<1> QED
  BY <1>1, <1>2, <1>3, <1>4, <1>5, <1>6, <1>8, <1>9, <1>10, <1>11, <1>12

(* A connection is detached because its task gives it up or because its     *)
(* socket can no longer be used.                                            *)
LEMMA DetachPreserves ==
  ASSUME IInv, TypeOK', NEW c \in Conn, NEW p \in Phase,
         FlagsGrow, Goto(c, p), Detach(c), UNCHANGED <<regVars, active, lis, deactVars>>,
         \/ p = phase[c] /\ Dead(c)' /\ c \in sockets
         \/ p \in {"refused", "done"} /\ phase[c] \notin Ended \cup Early \cup InDeact
  PROVE  IInv'
<1> USE DEF IInv, Goto, Detach, regVars, deactVars, FlagsGrow
<1>1. LisInv'
  BY DEF TypeOK, LisInv, Early, Phase, Ended
<1>2. DeactInv' /\ BatchInv'
  BY DEF DeactInv, BatchInv
<1>3. TaskInv'
  BY DEF TypeOK, TaskInv, InDeact
<1>4. MapInv' /\ DrainInv'
  BY DEF MapInv, DrainInv
<1>5. RegisteredIffActive'
  BY DEF RegisteredIffActive, Deactivating
<1>6. EntryInv'
  BY DEF TypeOK, EntryInv, Early, Dead, Ended
<1>7. \A d \in Conn : Pending(d)' = Pending(d)
  BY DEF Pending
<1>8. LiveTracked'
  BY <1>7 DEF TypeOK, LiveTracked, Dead, Early, InDeact, Phase, Ended, Connecting, Held
<1>9. AttachedTracked'
  BY DEF TypeOK, AttachedTracked, Early
<1>10. EntryTracked'
  BY <1>7 DEF TypeOK, EntryTracked
<1>11. ConnectionRefsLive'
  BY DEF TypeOK, ConnectionRefsLive, Early
<1>12. NoStrayEntry'
  BY <1>7 DEF TypeOK, NoStrayEntry
<1> QED
  BY <1>1, <1>2, <1>3, <1>4, <1>5, <1>6, <1>8, <1>9, <1>10, <1>11, <1>12

(* A task finds the listener's environment gone.                            *)
LEMMA StartPreserves ==
  ASSUME IInv, TypeOK', NEW c \in Conn, NEW p \in InDeact,
         Goto(c, p), StartDeactivation(c), UNCHANGED <<regVars, active, connVars, lis, flagVars>>,
         phase[c] \in {"calling", "writing", "closing"},
         p = "deact_close" => phase[c] = "closing"
  PROVE  IInv'
<1> USE DEF IInv, Goto, StartDeactivation, regVars, connVars, flagVars
<1>a. c \in Thread
  BY DEF Thread
<1>b. dpc[c] = "idle" /\ dinst[c] = NoInst
  BY <1>a DEF TaskInv, InDeact, DeactInv
<1>c. lis[c] \in Instance /\ lis[c] # NoInst
  BY RegistryAssumption DEF LisInv
<1>0. /\ c \in Thread /\ dpc[c] = "idle" /\ dinst[c] = NoInst
      /\ lis[c] \in Instance /\ lis[c] # NoInst
  BY <1>a, <1>b, <1>c
<1>1. LisInv'
  BY DEF TypeOK, LisInv, InDeact
<1>2. DeactInv'
  BY <1>0 DEF TypeOK, DeactInv, LisInv
<1>3. BatchInv'
  BY <1>0, RegistryAssumption DEF TypeOK, BatchInv
<1>4. TaskInv'
  BY <1>0 DEF TypeOK, TaskInv, InDeact, Thread
<1>5. MapInv'
  BY DEF MapInv
<1>6. EntryInv'
  BY DEF TypeOK, EntryInv, InDeact, Dead, Ended
<1>7. \A d \in Conn : Pending(d)' = Pending(d)
  BY DEF Pending
<1>8. LiveTracked'
  BY <1>7 DEF TypeOK, LiveTracked, InDeact, Dead, Connecting, Held
<1>9. AttachedTracked'
  BY DEF TypeOK, AttachedTracked, InDeact
<1>10. EntryTracked'
  BY <1>7 DEF TypeOK, EntryTracked
<1>11. DrainInv'
  BY <1>0, Zenon DEF TypeOK, DrainInv
<1>12. RegisteredIffActive'
  BY <1>0, RegistryAssumption DEF TypeOK, RegisteredIffActive, Deactivating
<1>13. ConnectionRefsLive'
  BY DEF TypeOK, ConnectionRefsLive
<1>14. NoStrayEntry'
  BY <1>7 DEF TypeOK, NoStrayEntry, InDeact
<1> QED
  BY <1>1, <1>2, <1>3, <1>4, <1>5, <1>6, <1>8, <1>9, <1>10, <1>11, <1>12, <1>13, <1>14

(* Only the JavaScript side moves.                                          *)
LEMMA JsOnlyPreserves ==
  ASSUME IInv, TypeOK',
         UNCHANGED <<regVars, active, connVars, lis, phase, flagVars, deactVars>>
  PROVE  IInv'
<1> USE DEF IInv, regVars, connVars, flagVars, deactVars
<1>1. LisInv' /\ DeactInv' /\ BatchInv' /\ TaskInv'
  BY DEF LisInv, DeactInv, BatchInv, TaskInv
<1>2. MapInv' /\ EntryInv' /\ AttachedTracked' /\ DrainInv'
  BY DEF MapInv, EntryInv, AttachedTracked, DrainInv, Dead
<1>3. LiveTracked' /\ EntryTracked'
  BY DEF LiveTracked, EntryTracked, Dead, Pending
<1>4. RegisteredIffActive' /\ ConnectionRefsLive' /\ NoStrayEntry'
  BY DEF RegisteredIffActive, ConnectionRefsLive, NoStrayEntry, Deactivating, Pending
<1> QED
  BY <1>1, <1>2, <1>3, <1>4

(* An empty registry satisfies the invariant.                               *)
LEMMA InitIInv == Init => IInv
<1> SUFFICES ASSUME Init PROVE IInv
  OBVIOUS
<1> USE RegistryAssumption DEF Init
<1>1. TypeOK
  BY DEF TypeOK, Phase, Connecting
<1>2. LisInv /\ DeactInv /\ BatchInv /\ TaskInv /\ MapInv
  BY DEF LisInv, DeactInv, BatchInv, TaskInv, MapInv, Thread
<1>3. EntryInv /\ LiveTracked /\ AttachedTracked /\ EntryTracked /\ DrainInv
  BY DEF EntryInv, LiveTracked, AttachedTracked, EntryTracked, DrainInv
<1>4. RegisteredIffActive /\ ConnectionRefsLive /\ NoStrayEntry
  BY DEF RegisteredIffActive, ConnectionRefsLive, NoStrayEntry
<1> QED
  BY <1>1, <1>2, <1>3, <1>4 DEF IInv

-----------------------------------------------------------------------------
(* Registration, and the second half of a detach.                           *)

(* register_listener: the new instance is known to nobody yet.              *)
LEMMA RegisterPreserves ==
  ASSUME IInv, TypeOK', NEW j \in JsThread, NEW i \in Instance, Register(j, i)
  PROVE  IInv'
<1> USE RegistryAssumption DEF IInv, Register, connVars, flagVars, deactVars
<1>1. LisInv' /\ BatchInv' /\ TaskInv' /\ EntryInv' /\ ConnectionRefsLive'
  BY DEF LisInv, BatchInv, TaskInv, EntryInv, ConnectionRefsLive, Dead
<1>2. DeactInv'
  BY DEF TypeOK, DeactInv
<1>3. MapInv'
  BY DEF TypeOK, MapInv
<1>4. \A d \in Conn : Pending(d)' = Pending(d)
  BY DEF Pending
<1>5. \A d \in Conn : lis[d] # i
  BY DEF LisInv
<1>6. LiveTracked' /\ NoStrayEntry'
  BY <1>4 DEF LiveTracked, NoStrayEntry, Dead, TypeOK
<1>7. AttachedTracked'
  BY <1>5 DEF AttachedTracked
<1>8. EntryTracked'
  BY <1>4, <1>5 DEF EntryTracked, TypeOK
<1>9. DrainInv'
  BY DEF DrainInv
<1>10. RegisteredIffActive'
  BY DEF TypeOK, RegisteredIffActive, Deactivating, MapInv
<1> QED
  BY <1>1, <1>2, <1>3, <1>6, <1>7, <1>8, <1>9, <1>10

(* unregister_listener: the instance leaves the map and gets a deactivator. *)
LEMMA UnregisterPreserves ==
  ASSUME IInv, TypeOK', NEW j \in JsThread, NEW k \in Key, Unregister(j, k)
  PROVE  IInv'
<1> USE RegistryAssumption DEF IInv, Unregister, connVars, flagVars
<1>0. j \in Thread /\ j \notin Conn /\ dinst[j] = NoInst
  BY DEF Thread, DeactInv
<1>1. LisInv' /\ EntryInv' /\ AttachedTracked' /\ ConnectionRefsLive'
  BY DEF LisInv, EntryInv, AttachedTracked, ConnectionRefsLive, Dead
<1>2. DeactInv'
  BY <1>0 DEF TypeOK, DeactInv, MapInv
<1>3. BatchInv'
  BY <1>0 DEF TypeOK, BatchInv
<1>4. TaskInv'
  BY <1>0 DEF TypeOK, TaskInv, Thread
<1>5. MapInv'
  BY DEF TypeOK, MapInv
<1>6. \A d \in Conn : Pending(d)' = Pending(d)
  BY DEF Pending
<1>7. LiveTracked' /\ EntryTracked' /\ NoStrayEntry'
  BY <1>6 DEF LiveTracked, EntryTracked, NoStrayEntry, Dead, TypeOK
<1>8. DrainInv'
  BY <1>0, Zenon DEF TypeOK, DrainInv
<1>9. RegisteredIffActive'
  <2>1. \A i \in Instance : Deactivating(i) => Deactivating(i)'
    BY <1>0 DEF TypeOK, Deactivating
  <2>2. \E t \in Thread : dinst'[t] = listeners[k]
    BY <1>0 DEF TypeOK
  <2>3. \A l \in Key : listeners'[l] # NoInst => listeners'[l] \in active'
    BY DEF TypeOK, RegisteredIffActive
  <2>4. \A i \in active' : listeners'[KeyOf[i]] = i \/ Deactivating(i)'
    <3> SUFFICES ASSUME NEW i \in active PROVE listeners'[KeyOf[i]] = i \/ Deactivating(i)'
      OBVIOUS
    <3>1. i \in Instance /\ KeyOf[i] \in Key
      BY DEF TypeOK
    <3>2. CASE i = listeners[k]
      BY <2>2, <3>2 DEF Deactivating
    <3>3. CASE i # listeners[k]
      BY <2>1, <3>1, <3>3 DEF TypeOK, RegisteredIffActive
    <3> QED
      BY <3>2, <3>3
  <2> QED
    BY <2>3, <2>4 DEF RegisteredIffActive, Deactivating
<1> QED
  BY <1>1, <1>2, <1>3, <1>4, <1>5, <1>7, <1>8, <1>9

(* detach_connection: the connection is dead, or its task has given it up.  *)
LEMMA FinishDetachPreserves ==
  ASSUME IInv, TypeOK', NEW c \in Conn, FinishDetach(c)
  PROVE  IInv'
<1> USE RegistryAssumption DEF IInv, FinishDetach, regVars, flagVars, deactVars
<1>0. lis[c] \in Instance /\ c \notin sockets /\ phase[c] \notin Early
      /\ (Dead(c) \/ phase[c] \in Ended)
  BY DEF EntryInv, Early
<1>1. LisInv' /\ DeactInv' /\ TaskInv' /\ MapInv'
  BY DEF LisInv, DeactInv, TaskInv, MapInv
<1>2. BatchInv'
  BY <1>0 DEF TypeOK, BatchInv, DeactInv
<1>3. EntryInv' /\ RegisteredIffActive'
  BY DEF EntryInv, Dead, RegisteredIffActive, Deactivating
<1>4. \A d \in Conn : Pending(d)' = Pending(d) /\ Dead(d)' = Dead(d)
  BY DEF Pending, Dead
<1>5. \A d \in Conn \ {c} : d \in connections[lis[d]] => d \in connections'[lis[d]]
  BY <1>0 DEF TypeOK
<1>6. LiveTracked'
  BY <1>0, <1>4, <1>5 DEF LiveTracked, Connecting, Held, Ended
<1>7. AttachedTracked'
  BY <1>0, <1>5 DEF AttachedTracked, Early
<1>8. EntryTracked' /\ NoStrayEntry'
  BY <1>0, <1>4, <1>5 DEF EntryTracked, NoStrayEntry, TypeOK
<1>9. DrainInv' /\ ConnectionRefsLive'
  <2>1. \A i \in Instance : connections'[i] \subseteq connections[i]
    BY <1>0 DEF TypeOK
  <2>2. UNCHANGED <<active, dinst, dpc, sockets>> /\ detaching' = detaching \ {c}
    OBVIOUS
  <2>3. c \notin connections'[lis[c]] /\ UNCHANGED <<lis, phase>>
    BY <1>0 DEF TypeOK
  <2>4. DrainInv /\ ConnectionRefsLive
    OBVIOUS
  <2> HIDE DEF IInv, FinishDetach
  <2>5. DrainInv'
    BY <2>1, <2>2, <2>4, Zenon DEF DrainInv
  <2>6. ConnectionRefsLive'
    BY <2>1, <2>2, <2>3, <2>4 DEF ConnectionRefsLive
  <2> QED
    BY <2>5, <2>6
<1> QED
  BY <1>1, <1>2, <1>3, <1>6, <1>7, <1>8, <1>9
=============================================================================
