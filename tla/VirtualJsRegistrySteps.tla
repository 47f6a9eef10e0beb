----------------------- MODULE VirtualJsRegistrySteps -----------------------
(***************************************************************************)
(* init_connect and deactivate_listener preserve the invariant of the      *)
(* registry: one lemma for each step that changes what is tracked, in the  *)
(* order in which a connection and a deactivating thread take them.        *)
(***************************************************************************)
EXTENDS VirtualJsRegistryInv, TLAPS

(* listener(): a task that finds its listener has no entry anywhere yet.    *)
LEMMA ResolvePreserves ==
  ASSUME IInv, TypeOK', NEW c \in Conn, NEW k \in Key, Resolve(c, k)
  PROVE  IInv'
<1> USE RegistryAssumption DEF IInv, Resolve, Goto, regVars, connVars, flagVars, deactVars
<1>a. lis[c] = NoInst /\ c \notin sockets \cup detaching
  BY DEF LisInv, EntryInv
<1>b. phase'[c] \in {"resolved", "refused"} /\ dpc[c] = "idle"
  <2>1. phase'[c] = IF listeners[k] = NoInst THEN "refused" ELSE "resolved"
    BY DEF TypeOK
  <2> QED
    BY <2>1 DEF TaskInv
<1>0. /\ lis[c] = NoInst /\ c \notin sockets \cup detaching
      /\ phase'[c] \in {"resolved", "refused"} /\ dpc[c] = "idle"
  BY <1>a, <1>b
<1>1. LisInv'
  BY DEF TypeOK, LisInv, MapInv
<1>2. DeactInv' /\ MapInv' /\ DrainInv' /\ RegisteredIffActive'
  BY DEF DeactInv, MapInv, DrainInv, RegisteredIffActive, Deactivating
<1>3. ~Pending(c) /\ \A i \in Instance : c \notin connections[i]
  BY <1>0 DEF Pending, BatchInv, DeactInv, ConnectionRefsLive
<1>4. BatchInv'
  BY <1>3 DEF TypeOK, BatchInv, Pending
<1>5. TaskInv'
  BY <1>0 DEF TypeOK, TaskInv
<1>6. EntryInv'
  BY <1>0 DEF TypeOK, EntryInv, Dead
<1>7. \A d \in Conn : Pending(d)' = Pending(d) /\ Dead(d)' = Dead(d)
  BY DEF Pending, Dead
<1>8. LiveTracked'
  BY <1>0, <1>7 DEF TypeOK, LiveTracked, Connecting, Held
<1>9. AttachedTracked' /\ EntryTracked' /\ NoStrayEntry'
  BY <1>0, <1>7 DEF TypeOK, AttachedTracked, EntryTracked, NoStrayEntry
<1>10. ConnectionRefsLive'
  BY <1>3 DEF TypeOK, ConnectionRefsLive
<1> QED
  BY <1>1, <1>2, <1>4, <1>5, <1>6, <1>8, <1>9, <1>10

(* attach_socket_state: the entry may come after the drain.                 *)
LEMMA AttachSocketStatePreserves ==
  ASSUME IInv, TypeOK', NEW c \in Conn, AttachSocketState(c)
  PROVE  IInv'
<1> USE DEF IInv, AttachSocketState, Goto, regVars, flagVars, deactVars
<1>1. LisInv'
  BY DEF TypeOK, LisInv
<1>2. DeactInv' /\ BatchInv' /\ MapInv' /\ DrainInv' /\ RegisteredIffActive'
  BY DEF DeactInv, BatchInv, MapInv, DrainInv, RegisteredIffActive, Deactivating
<1>3. TaskInv'
  BY DEF TypeOK, TaskInv
<1>4. EntryInv'
  BY DEF TypeOK, EntryInv, LisInv, Dead, Ended
<1>5. \A d \in Conn : Pending(d)' = Pending(d) /\ Dead(d)' = Dead(d)
  BY DEF Pending, Dead
<1>6. LiveTracked'
  BY <1>5 DEF TypeOK, LiveTracked, Connecting, Held
<1>7. AttachedTracked' /\ ConnectionRefsLive'
  BY DEF TypeOK, AttachedTracked, ConnectionRefsLive
<1>8. EntryTracked' /\ NoStrayEntry'
  BY <1>5 DEF TypeOK, EntryTracked, NoStrayEntry, AttachedTracked
<1> QED
  BY <1>1, <1>2, <1>3, <1>4, <1>6, <1>7, <1>8

(* attach_connection: the listener tracks the connection, or refuses it.    *)
LEMMA AttachConnectionPreserves ==
  ASSUME IInv, TypeOK', NEW c \in Conn, AttachConnection(c)
  PROVE  IInv'
<1> USE RegistryAssumption DEF IInv, AttachConnection, Goto, regVars, flagVars, deactVars
<1>0. c \notin sockets \cup detaching /\ lis[c] \in Instance /\ dpc[c] = "idle"
  <2>1. c \notin sockets \cup detaching
    BY DEF EntryInv
  <2> QED
    BY <2>1 DEF LisInv, TaskInv
<1>1. DeactInv' /\ MapInv' /\ RegisteredIffActive'
  BY DEF DeactInv, MapInv, RegisteredIffActive, Deactivating
<1>2. \A d \in Conn : Pending(d)' = Pending(d) /\ Dead(d)' = Dead(d)
  BY DEF Pending, Dead
<1>3. CASE lis[c] \in active
  <2>1. phase' = [phase EXCEPT ![c] = "attached"]
        /\ connections' = [connections EXCEPT ![lis[c]] = @ \cup {c}]
    BY <1>3
  <2>2. \A d \in Conn \ {c} : d \in connections[lis[d]] => d \in connections'[lis[d]]
    BY <1>0, <2>1 DEF TypeOK
  <2>3. c \in connections'[lis[c]]
    BY <1>0, <2>1 DEF TypeOK
  <2>4. LisInv' /\ TaskInv'
    BY <1>0, <2>1 DEF TypeOK, LisInv, TaskInv
  <2>5. EntryInv'
    BY <1>0, <2>1 DEF TypeOK, EntryInv, Dead
  <2>6. BatchInv'
    BY <1>0, <1>3, <2>1 DEF TypeOK, BatchInv, DeactInv
  <2>7. LiveTracked'
    BY <1>2, <2>1, <2>2, <2>3 DEF TypeOK, LiveTracked
  <2>8. AttachedTracked'
    BY <2>1, <2>2, <2>3 DEF TypeOK, AttachedTracked
  <2>9. EntryTracked' /\ NoStrayEntry'
    BY <1>0, <1>2, <2>1, <2>2 DEF TypeOK, EntryTracked, NoStrayEntry
  <2>10. DrainInv'
    <3> SUFFICES ASSUME NEW i \in Instance, connections'[i] # {}, i \notin active'
                  PROVE  \E u \in Thread : dinst'[u] = i /\ dpc'[u] = "drain"
      BY DEF DrainInv
    <3>1. i # lis[c] /\ connections[i] # {}
      BY <1>0, <1>3, <2>1 DEF TypeOK
    <3> QED
      BY <3>1 DEF DrainInv
  <2>11. ConnectionRefsLive'
    BY <1>0, <2>1 DEF TypeOK, ConnectionRefsLive
  <2> QED
    BY <1>1, <2>4, <2>5, <2>6, <2>7, <2>8, <2>9, <2>10, <2>11
<1>4. CASE lis[c] \notin active
  <2>1. phase' = [phase EXCEPT ![c] = "refused"] /\ UNCHANGED connections
    BY <1>4
  <2>2. LisInv' /\ TaskInv'
    BY <1>0, <2>1 DEF TypeOK, LisInv, TaskInv
  <2>3. EntryInv'
    BY <1>0, <2>1 DEF TypeOK, EntryInv, Dead
  <2>4. BatchInv' /\ DrainInv'
    BY <2>1 DEF BatchInv, DrainInv
  <2>5. LiveTracked'
    BY <1>2, <2>1 DEF TypeOK, LiveTracked, Connecting, Held
  <2>6. AttachedTracked'
    BY <2>1 DEF TypeOK, AttachedTracked
  <2>7. EntryTracked' /\ NoStrayEntry'
    BY <1>0, <1>2, <2>1 DEF TypeOK, EntryTracked, NoStrayEntry
  <2>8. ConnectionRefsLive'
    BY <1>0, <2>1 DEF TypeOK, ConnectionRefsLive
  <2> QED
    BY <1>1, <2>2, <2>3, <2>4, <2>5, <2>6, <2>7, <2>8
<1> QED
  BY <1>3, <1>4

(* deactivate_listener_instance: the ptr_eq test spares a newer instance.   *)
LEMMA DeactRemovePreserves ==
  ASSUME IInv, TypeOK', NEW t \in Thread, DeactRemove(t)
  PROVE  IInv'
<1> USE RegistryAssumption DEF IInv, DeactRemove, connVars, flagVars
<1>0. dinst[t] \in Instance
  BY DEF TypeOK, DeactInv
<1>1. LisInv' /\ EntryInv' /\ AttachedTracked' /\ ConnectionRefsLive'
  BY DEF LisInv, EntryInv, AttachedTracked, ConnectionRefsLive, Dead
<1>2. DeactInv'
  BY <1>0 DEF TypeOK, DeactInv, MapInv
<1>3. BatchInv'
  BY DEF TypeOK, BatchInv
<1>4. TaskInv'
  BY DEF TypeOK, TaskInv, Thread
<1>5. MapInv'
  BY <1>0 DEF TypeOK, MapInv
<1>6. \A d \in Conn : Pending(d)' = Pending(d) /\ Dead(d)' = Dead(d)
  BY DEF Pending, Dead
<1>7. LiveTracked' /\ EntryTracked' /\ NoStrayEntry'
  BY <1>6 DEF LiveTracked, EntryTracked, NoStrayEntry, TypeOK
<1>8. DrainInv'
  BY Zenon DEF TypeOK, DrainInv
<1>9. RegisteredIffActive'
  BY <1>0 DEF TypeOK, RegisteredIffActive, Deactivating
<1> QED
  BY <1>1, <1>2, <1>3, <1>4, <1>5, <1>7, <1>8, <1>9

(* deactivate(): the flag goes down, and the drain is still to come.        *)
LEMMA DeactFlagPreserves ==
  ASSUME IInv, TypeOK', NEW t \in Thread, DeactFlag(t)
  PROVE  IInv'
<1> USE RegistryAssumption DEF IInv, DeactFlag, regVars, connVars, flagVars
<1>0. dinst[t] \in Instance /\ \A k \in Key : listeners[k] # dinst[t]
  BY DEF TypeOK, DeactInv
<1>1. LisInv' /\ EntryInv' /\ ConnectionRefsLive'
  BY DEF LisInv, EntryInv, ConnectionRefsLive, Dead
<1>2. DeactInv'
  BY DEF TypeOK, DeactInv
<1>3. BatchInv'
  BY DEF TypeOK, BatchInv
<1>4. TaskInv'
  BY DEF TypeOK, TaskInv, Thread
<1>5. MapInv' /\ AttachedTracked'
  BY <1>0 DEF MapInv, AttachedTracked
<1>6. \A d \in Conn : Pending(d)' = Pending(d) /\ Dead(d)' = Dead(d)
  BY DEF Pending, Dead
<1>7. LiveTracked' /\ EntryTracked' /\ NoStrayEntry'
  BY <1>6 DEF LiveTracked, EntryTracked, NoStrayEntry, TypeOK
<1>8. DrainInv'
  <2> SUFFICES ASSUME NEW i \in Instance, connections'[i] # {}, i \notin active'
                PROVE  \E u \in Thread : dinst'[u] = i /\ dpc'[u] = "drain"
    BY DEF DrainInv
  <2>1. CASE i = dinst[t]
    BY <2>1 DEF TypeOK
  <2>2. CASE i # dinst[t]
    <3>1. PICK u \in Thread : dinst[u] = i /\ dpc[u] = "drain"
      BY <2>2 DEF DrainInv
    <3> QED
      BY <2>2, <3>1 DEF TypeOK
  <2> QED
    BY <2>1, <2>2
<1>9. RegisteredIffActive'
  BY <1>0 DEF TypeOK, RegisteredIffActive, Deactivating
<1> QED
  BY <1>1, <1>2, <1>3, <1>4, <1>5, <1>7, <1>8, <1>9

(* deactivate(): what the listener tracked is now in the batch.             *)
LEMMA DeactDrainPreserves ==
  ASSUME IInv, TypeOK', NEW t \in Thread, DeactDrain(t)
  PROVE  IInv'
<1> USE RegistryAssumption DEF IInv, DeactDrain, regVars, flagVars
<1>0. dinst[t] \in Instance /\ dinst[t] \notin active /\ batch[t] = {} /\ cur[t] = NoConn
  BY DEF TypeOK, DeactInv, BatchInv
<1>1. LisInv' /\ MapInv' /\ RegisteredIffActive'
  BY DEF LisInv, MapInv, RegisteredIffActive, Deactivating
<1>2. DeactInv'
  BY DEF TypeOK, DeactInv
<1>3. BatchInv'
  BY <1>0 DEF TypeOK, BatchInv, ConnectionRefsLive
<1>4. TaskInv' /\ EntryInv'
  BY DEF TypeOK, TaskInv, EntryInv, Dead, Thread
<1>5. \A d \in Conn : d \in connections[lis[d]] => d \in connections'[lis[d]] \/ Pending(d)'
  BY <1>0 DEF TypeOK, Pending
<1>6. \A d \in Conn : (Pending(d) => Pending(d)') /\ Dead(d)' = Dead(d)
  BY <1>0 DEF TypeOK, Pending, Dead
<1>7. LiveTracked' /\ EntryTracked' /\ NoStrayEntry'
  BY <1>5, <1>6 DEF LiveTracked, EntryTracked, NoStrayEntry, TypeOK
<1>8. AttachedTracked'
  BY <1>0 DEF TypeOK, AttachedTracked
<1>9. DrainInv'
  <2> SUFFICES ASSUME NEW i \in Instance, connections'[i] # {}, i \notin active'
                PROVE  \E u \in Thread : dinst'[u] = i /\ dpc'[u] = "drain"
    BY DEF DrainInv
  <2>1. i # dinst[t] /\ connections[i] # {}
    BY <1>0 DEF TypeOK
  <2>2. PICK u \in Thread : dinst[u] = i /\ dpc[u] = "drain"
    BY <2>1 DEF DrainInv
  <2> QED
    BY <2>1, <2>2 DEF TypeOK
<1>10. ConnectionRefsLive'
  BY <1>0 DEF TypeOK, ConnectionRefsLive
<1> QED
  BY <1>1, <1>2, <1>3, <1>4, <1>7, <1>8, <1>9, <1>10

(* notify_close_best_effort: the drained id stays pending until its abort.  *)
LEMMA DeactNotifyPreserves ==
  ASSUME IInv, TypeOK', NEW t \in Thread, NEW c \in Conn, DeactNotify(t, c)
  PROVE  IInv'
<1> USE RegistryAssumption DEF IInv, DeactNotify, regVars, connVars, flagVars
<1>0. cur[t] = NoConn
  BY DEF TypeOK, BatchInv
<1>1. LisInv' /\ MapInv' /\ EntryInv' /\ AttachedTracked' /\ ConnectionRefsLive'
  BY DEF LisInv, MapInv, EntryInv, AttachedTracked, ConnectionRefsLive, Dead
<1>2. DeactInv'
  BY DEF TypeOK, DeactInv
<1>3. BatchInv'
  BY <1>0 DEF TypeOK, BatchInv
<1>4. TaskInv'
  BY DEF TypeOK, TaskInv, Thread
<1>5. \A d \in Conn : (Pending(d) => Pending(d)') /\ Dead(d)' = Dead(d)
  BY <1>0 DEF TypeOK, Pending, Dead
<1>6. LiveTracked' /\ EntryTracked' /\ NoStrayEntry'
  BY <1>5 DEF LiveTracked, EntryTracked, NoStrayEntry, TypeOK
<1>7. DrainInv'
  BY Zenon DEF TypeOK, DrainInv
<1>8. RegisteredIffActive'
  BY DEF RegisteredIffActive, Deactivating
<1> QED
  BY <1>1, <1>2, <1>3, <1>4, <1>6, <1>7, <1>8

(* abort and detach: the connection is dead, so nobody needs to track it.   *)
LEMMA DeactAbortPreserves ==
  ASSUME IInv, TypeOK', NEW t \in Thread, DeactAbort(t)
  PROVE  IInv'
<1> USE RegistryAssumption DEF IInv, DeactAbort, Detach, regVars, flagVars
<1> DEFINE c == cur[t]
<1>0. c \in Conn /\ lis[c] = dinst[t] /\ dinst[t] \in Instance
  BY DEF TypeOK, BatchInv, DeactInv
<1>1. LisInv' /\ MapInv' /\ AttachedTracked' /\ RegisteredIffActive'
  BY DEF LisInv, MapInv, AttachedTracked, RegisteredIffActive, Deactivating
<1>2. DeactInv'
  BY DEF TypeOK, DeactInv
<1>3. BatchInv'
  BY <1>0 DEF TypeOK, BatchInv
<1>4. TaskInv'
  BY DEF TypeOK, TaskInv, Thread
<1>5. EntryInv'
  BY <1>0 DEF TypeOK, EntryInv, Dead
<1>6. \A d \in Conn \ {c} : Pending(d) => Pending(d)'
  BY DEF TypeOK, Pending
<1>7. c \in closed' /\ \A d \in Conn : Dead(d) => Dead(d)'
  BY <1>0 DEF Dead
<1>8. LiveTracked'
  BY <1>6, <1>7 DEF LiveTracked, Dead
<1>9. EntryTracked' /\ NoStrayEntry'
  BY <1>6 DEF EntryTracked, NoStrayEntry, TypeOK
<1>10. DrainInv'
  BY Zenon DEF TypeOK, DrainInv
<1>11. ConnectionRefsLive'
  BY DEF TypeOK, ConnectionRefsLive
<1> QED
  BY <1>1, <1>2, <1>3, <1>4, <1>5, <1>8, <1>9, <1>10, <1>11
=============================================================================
