---------------------- MODULE VirtualJsRegistryProofs -----------------------
(***************************************************************************)
(* Safety of the virtual_js registry for any number of keys, listeners,    *)
(* connections and threads.                                                *)
(***************************************************************************)
EXTENDS VirtualJsRegistrySteps, TLAPS

(* deactivate_listener returns to its caller.                               *)
LEMMA DeactReturnPreserves ==
  ASSUME IInv, TypeOK', NEW t \in Thread, DeactReturn(t)
  PROVE  IInv'
<1> USE RegistryAssumption DEF IInv, DeactReturn, Goto, Detach, regVars, connVars, flagVars, jsVars
<1>0. /\ dinst[t] \in Instance /\ dinst[t] \notin active /\ cur[t] = NoConn
      /\ connections[dinst[t]] = {}
  BY DEF TypeOK, DeactInv, BatchInv
<1>1. MapInv'
  BY DEF MapInv
<1>2. DeactInv'
  BY DEF TypeOK, DeactInv
<1>3. BatchInv'
  BY <1>0 DEF TypeOK, BatchInv
<1>4. DrainInv'
  <2> SUFFICES ASSUME NEW i \in Instance, connections'[i] # {}, i \notin active'
                PROVE  \E u \in Thread : dinst'[u] = i /\ dpc'[u] = "drain"
    BY DEF DrainInv
  <2>1. i # dinst[t] /\ connections[i] # {}
    BY <1>0
  <2>2. PICK u \in Thread : dinst[u] = i /\ dpc[u] = "drain"
    BY <2>1 DEF DrainInv
  <2> QED
    BY <2>1, <2>2 DEF TypeOK
<1>5. RegisteredIffActive'
  BY <1>0 DEF TypeOK, RegisteredIffActive, Deactivating
<1>6. \A d \in Conn : Pending(d)' = Pending(d) /\ Dead(d)' = Dead(d)
  BY DEF Pending, Dead
<1>7. CASE t \in JsThread /\ UNCHANGED <<phase, connVars>>
  <2>1. TaskInv'
    BY <1>7 DEF TypeOK, TaskInv, Thread
  <2>2. LisInv' /\ EntryInv' /\ AttachedTracked' /\ ConnectionRefsLive'
    BY <1>7 DEF LisInv, EntryInv, AttachedTracked, ConnectionRefsLive, Dead
  <2>3. LiveTracked' /\ EntryTracked' /\ NoStrayEntry'
    BY <1>6, <1>7 DEF LiveTracked, EntryTracked, NoStrayEntry, TypeOK
  <2> QED
    BY <1>1, <1>2, <1>3, <1>4, <1>5, <2>1, <2>2, <2>3
<1>8. CASE t \in Conn /\ phase[t] = "deact_open" /\ Goto(t, "refused") /\ Detach(t)
  <2>1. LisInv' /\ TaskInv'
    BY <1>8 DEF TypeOK, LisInv, TaskInv, Thread
  <2>2. EntryInv'
    BY <1>8 DEF TypeOK, EntryInv, Dead, Ended
  <2>3. LiveTracked'
    BY <1>6, <1>8 DEF TypeOK, LiveTracked, Connecting, Held
  <2>4. AttachedTracked' /\ ConnectionRefsLive'
    BY <1>8 DEF TypeOK, AttachedTracked, ConnectionRefsLive
  <2>5. EntryTracked' /\ NoStrayEntry'
    BY <1>6, <1>8 DEF TypeOK, EntryTracked, NoStrayEntry
  <2> QED
    BY <1>1, <1>2, <1>3, <1>4, <1>5, <2>1, <2>2, <2>3, <2>4, <2>5
<1>9. CASE /\ t \in Conn /\ UNCHANGED connVars
           /\ \/ phase[t] = "deact_write" /\ Goto(t, "stream")
              \/ phase[t] = "deact_close" /\ Goto(t, "done")
  <2>0. /\ phase[t] \in {"deact_write", "deact_close"} /\ phase'[t] \in {"stream", "done"}
        /\ \A d \in Conn \ {t} : phase'[d] = phase[d]
    BY <1>9 DEF TypeOK
  <2>1. LisInv' /\ TaskInv'
    <3>1. UNCHANGED <<lis, used, closed>> /\ dpc'[t] = "idle"
          /\ \A d \in Conn \ {t} : dpc'[d] = dpc[d] /\ dinst'[d] = dinst[d]
      BY <1>9 DEF TypeOK, Thread
    <3>2. LisInv /\ TaskInv
      OBVIOUS
    <3> HIDE DEF IInv, DeactReturn, Goto
    <3>3. LisInv'
      BY <2>0, <3>1, <3>2 DEF LisInv
    <3>4. TaskInv'
      BY <2>0, <3>1, <3>2 DEF TaskInv
    <3> QED
      BY <3>3, <3>4
  <2>2. EntryInv'
    BY <1>6, <1>9, <2>0 DEF EntryInv, Ended
  <2>3. LiveTracked'
    BY <1>6, <1>9, <2>0 DEF LiveTracked, Connecting, Held
  <2>4. AttachedTracked' /\ ConnectionRefsLive'
    BY <1>9 DEF TypeOK, AttachedTracked, ConnectionRefsLive
  <2>5. EntryTracked'
    BY <1>6, <1>9 DEF TypeOK, EntryTracked
  \* the task's own connection was drained, by this thread or by another
  <2>6. t \in sockets => Pending(t)
    BY <1>0, <1>9 DEF EntryTracked, TaskInv
  <2>7. NoStrayEntry'
    BY <1>6, <1>9, <2>6 DEF TypeOK, NoStrayEntry
  <2> QED
    BY <1>1, <1>2, <1>3, <1>4, <1>5, <2>1, <2>2, <2>3, <2>4, <2>5, <2>7
<1> QED
  BY <1>7, <1>8, <1>9

-----------------------------------------------------------------------------
(* Types.                                                                   *)

(* An accepted event keeps the queues sequences of events.                  *)
LEMMA EnqueueType ==
  ASSUME TypeOK, NEW i, NEW kind \in Kind, NEW c \in Conn, Enqueue(i, kind, c)
  PROVE  queue' \in [Instance -> Seq(Event)]
<1>1. [kind |-> kind, conn |-> c] \in Event
  BY DEF Event
<1>2. \A q \in Seq(Event) : Append(q, [kind |-> kind, conn |-> c]) \in Seq(Event)
  BY <1>1
<1> QED
  BY <1>2, Zenon DEF TypeOK, Enqueue

(* A step keeps every variable in its set.                                  *)
LEMMA TypeStep ==
  ASSUME IInv, [Next]_vars
  PROVE  TypeOK'
<1> USE RegistryAssumption DEF IInv, regVars, connVars, flagVars, jsVars, deactVars,
        Detach, StartDeactivation
<1>0. ASSUME NEW c \in Conn, NEW p \in Phase, Goto(c, p) PROVE phase' \in [Conn -> Phase]
  BY <1>0 DEF TypeOK, Goto
<1>1. ASSUME NEW j \in JsThread, NEW i \in Instance, Register(j, i) PROVE TypeOK'
  BY <1>1 DEF TypeOK, Register
<1>2. ASSUME NEW j \in JsThread, NEW k \in Key, Unregister(j, k) PROVE TypeOK'
  BY <1>2 DEF TypeOK, Unregister, Thread
<1>3. ASSUME NEW c \in Conn, PushEof(c) \/ PushError(c) PROVE TypeOK'
  BY <1>3 DEF TypeOK, PushEof, PushError
<1>4. ASSUME NEW i \in Instance, Deliver(i) PROVE TypeOK'
  <2>1. queue[i] \in Seq(Event) /\ queue[i] # <<>>
    BY <1>4 DEF TypeOK, Deliver
  <2>2. Head(queue[i]) \in Event /\ Tail(queue[i]) \in Seq(Event)
    BY <2>1
  <2>3. Head(queue[i]).conn \in Conn
    BY <2>2 DEF Event
  <2>4. phase' \in [Conn -> Phase] /\ known' \subseteq Conn
    BY <1>4, <2>3 DEF TypeOK, Deliver, Phase, Connecting
  <2>5. queue' \in [Instance -> Seq(Event)]
    BY <1>4, <2>2 DEF TypeOK, Deliver
  <2> QED
    BY <1>4, <2>4, <2>5 DEF TypeOK, Deliver
<1>5. ASSUME NEW i \in Instance, CloseEnv(i) PROVE TypeOK'
  <2>1. queue' \in [Instance -> Seq(Event)]
    BY <1>5 DEF TypeOK, CloseEnv
  <2> QED
    BY <1>5, <2>1 DEF TypeOK, CloseEnv
<1>6. ASSUME NEW c \in Conn, FinishDetach(c) PROVE TypeOK'
  BY <1>6, Zenon DEF TypeOK, FinishDetach
<1>7. ASSUME NEW c \in Conn, NEW k \in Key, Resolve(c, k) PROVE TypeOK'
  <2>1. phase' \in [Conn -> Phase] /\ lis' \in [Conn -> Instance \cup {NoInst}]
    BY <1>7 DEF TypeOK, Resolve, Goto, Phase, Connecting, Ended
  <2> QED
    BY <1>7, <2>1 DEF TypeOK, Resolve
<1>8. ASSUME NEW c \in Conn, AttachConnection(c) PROVE TypeOK'
  <2>1. phase' \in [Conn -> Phase]
    <3>1. UNCHANGED phase \/ \E d \in Conn : \E p \in Phase : Goto(d, p)
      BY <1>8 DEF AttachConnection, Phase, Connecting, Ended
    <3> QED
      BY <1>0, <3>1 DEF TypeOK
  <2>2. connections' \in [Instance -> SUBSET Conn]
    <3>1. UNCHANGED connections
          \/ connections' = [connections EXCEPT ![lis[c]] = @ \cup {c}]
      BY <1>8 DEF AttachConnection
    <3>2. lis[c] \in Instance /\ connections[lis[c]] \cup {c} \in SUBSET Conn
      BY <1>8 DEF TypeOK, AttachConnection, LisInv
    <3>3. connections \in [Instance -> SUBSET Conn]
      BY DEF TypeOK
    <3> HIDE DEF IInv
    <3> QED
      BY <3>1, <3>2, <3>3
  <2> QED
    BY <1>8, <2>1, <2>2 DEF TypeOK, AttachConnection
<1>9. ASSUME NEW c \in Conn,
             AttachSocketState(c) \/ Recheck(c) \/ OpenFailed(c) \/ FinishConnect(c)
      PROVE  TypeOK'
  <2>1. phase' \in [Conn -> Phase]
    <3>1. UNCHANGED phase \/ \E d \in Conn : \E p \in Phase : Goto(d, p)
      BY <1>9 DEF AttachSocketState, Recheck, OpenFailed, FinishConnect,
                Phase, Connecting, Held, Ended
    <3> QED
      BY <1>0, <3>1 DEF TypeOK
  <2>2. sockets' \subseteq Conn /\ detaching' \subseteq Conn
    BY <1>9 DEF TypeOK, AttachSocketState, Recheck, OpenFailed, FinishConnect
  <2>3. UNCHANGED <<regVars, active, connections, lis, flagVars, jsVars, deactVars>>
    BY <1>9 DEF AttachSocketState, Recheck, OpenFailed, FinishConnect
  <2> QED
    BY <2>1, <2>2, <2>3 DEF TypeOK
<1>10. ASSUME NEW c \in Conn, CallOpen(c) \/ CallWrite(c) \/ CallClose(c) PROVE TypeOK'
  <2>1. phase' \in [Conn -> Phase]
    <3>1. UNCHANGED phase \/ \E d \in Conn : \E p \in Phase : Goto(d, p)
      BY <1>10 DEF CallOpen, CallWrite, CallClose, Phase, Connecting, Held, Ended
    <3> QED
      BY <1>0, <3>1 DEF TypeOK
  <2>2. queue' \in [Instance -> Seq(Event)]
    <3>1. (\E kind \in Kind : Enqueue(lis[c], kind, c)) \/ UNCHANGED queue
      BY <1>10 DEF CallOpen, CallWrite, CallClose, Kind
    <3> QED
      BY <3>1, EnqueueType, Zenon DEF TypeOK
  <2>3. sockets' \subseteq Conn /\ detaching' \subseteq Conn /\ UNCHANGED connections
    BY <1>10 DEF TypeOK, CallOpen, CallWrite, CallClose
  <2>4. StartDeactivation(c) \/ UNCHANGED deactVars
    BY <1>10 DEF CallOpen, CallWrite, CallClose
  <2>5. /\ dpc' \in [Thread -> {"idle", "remove", "flag", "drain", "notify", "abort"}]
        /\ dinst' \in [Thread -> Instance \cup {NoInst}]
        /\ UNCHANGED <<batch, cur>>
    BY <2>4, Zenon DEF TypeOK
  <2>6. UNCHANGED <<regVars, active, lis, flagVars, tsfn, known>>
    BY <1>10 DEF CallOpen, CallWrite, CallClose
  <2> QED
    BY <2>1, <2>2, <2>3, <2>5, <2>6 DEF TypeOK
<1>11. ASSUME NEW c \in Conn,
              BeginWrite(c) \/ Pool(c) \/ Reuse(c) \/ DropStream(c) PROVE TypeOK'
  <2>1. phase' \in [Conn -> Phase]
    <3>1. UNCHANGED phase \/ \E d \in Conn : \E p \in Phase : Goto(d, p)
      BY <1>11 DEF BeginWrite, Pool, Reuse, DropStream, Phase, Held, Ended
    <3> QED
      BY <1>0, <3>1 DEF TypeOK
  <2>2. UNCHANGED <<regVars, active, connVars, lis, flagVars, jsVars, deactVars>>
    BY <1>11 DEF BeginWrite, Pool, Reuse, DropStream
  <2> QED
    BY <2>1, <2>2 DEF TypeOK
<1>12. ASSUME NEW c \in Conn, Shutdown(c) \/ ReadEnd(c) PROVE TypeOK'
  <2>1. phase' \in [Conn -> Phase]
    <3>1. UNCHANGED phase \/ \E d \in Conn : \E p \in Phase : Goto(d, p)
      BY <1>12 DEF Shutdown, ReadEnd, Phase, Held, Ended
    <3> QED
      BY <1>0, <3>1 DEF TypeOK
  <2>2. sockets' \subseteq Conn /\ detaching' \subseteq Conn /\ closed' \subseteq Conn
    BY <1>12 DEF TypeOK, Shutdown, ReadEnd
  <2>3. UNCHANGED <<regVars, active, connections, lis, eof, err, jsVars, deactVars>>
    BY <1>12 DEF Shutdown, ReadEnd
  <2> QED
    BY <2>1, <2>2, <2>3 DEF TypeOK
<1>13. ASSUME NEW t \in Thread, DeactRemove(t) \/ DeactFlag(t) PROVE TypeOK'
  <2>1. listeners' \in [Key -> Instance \cup {NoInst}]
    <3>1. UNCHANGED listeners \/ \E k : listeners' = [listeners EXCEPT ![k] = NoInst]
      BY <1>13 DEF DeactRemove, DeactFlag
    <3>2. listeners \in [Key -> Instance \cup {NoInst}]
      BY DEF TypeOK
    <3> HIDE DEF IInv
    <3> QED
      BY <3>1, <3>2
  <2>2. active' \subseteq used
    BY <1>13 DEF TypeOK, DeactRemove, DeactFlag
  <2>3. dpc' \in [Thread -> {"idle", "remove", "flag", "drain", "notify", "abort"}]
    BY <1>13 DEF TypeOK, DeactRemove, DeactFlag
  <2>4. UNCHANGED <<used, connVars, lis, phase, flagVars, jsVars, dinst, batch, cur>>
    BY <1>13 DEF DeactRemove, DeactFlag
  <2> QED
    BY <2>1, <2>2, <2>3, <2>4 DEF TypeOK
<1>14. ASSUME NEW t \in Thread, DeactDrain(t) PROVE TypeOK'
  <2>1. dinst[t] \in Instance
    BY <1>14 DEF TypeOK, DeactInv, DeactDrain
  <2> QED
    BY <1>14, <2>1 DEF TypeOK, DeactDrain
<1>15. ASSUME NEW t \in Thread, NEW c \in Conn, DeactNotify(t, c) PROVE TypeOK'
  <2>1. queue' \in [Instance -> Seq(Event)]
    BY <1>15, EnqueueType, Zenon DEF TypeOK, DeactNotify, Kind
  <2>2. /\ batch' \in [Thread -> SUBSET Conn]
        /\ cur' \in [Thread -> Conn \cup {NoConn}]
        /\ dpc' \in [Thread -> {"idle", "remove", "flag", "drain", "notify", "abort"}]
    BY <1>15 DEF TypeOK, DeactNotify
  <2> QED
    BY <1>15, <2>1, <2>2 DEF TypeOK, DeactNotify
<1>16. ASSUME NEW t \in Thread, DeactAbort(t) PROVE TypeOK'
  <2>1. cur[t] \in Conn
    BY <1>16 DEF TypeOK, BatchInv, DeactAbort
  <2> QED
    BY <1>16, <2>1 DEF TypeOK, DeactAbort
<1>17. ASSUME NEW t \in Thread, DeactReturn(t) PROVE TypeOK'
  <2>1. phase' \in [Conn -> Phase]
    <3>1. UNCHANGED phase \/ \E d \in Conn : \E p \in Phase : Goto(d, p)
      BY <1>17 DEF DeactReturn, Phase, Held, Ended
    <3> QED
      BY <1>0, <3>1 DEF TypeOK
  <2>2. sockets' \subseteq Conn /\ detaching' \subseteq Conn /\ UNCHANGED connections
    BY <1>17 DEF TypeOK, DeactReturn
  <2>3. /\ dpc' \in [Thread -> {"idle", "remove", "flag", "drain", "notify", "abort"}]
        /\ dinst' \in [Thread -> Instance \cup {NoInst}]
    BY <1>17 DEF TypeOK, DeactReturn
  <2>4. UNCHANGED <<regVars, active, lis, flagVars, jsVars, batch, cur>>
    BY <1>17 DEF DeactReturn
  <2> QED
    BY <2>1, <2>2, <2>3, <2>4 DEF TypeOK
<1>18. CASE UNCHANGED vars
  BY <1>18 DEF TypeOK, vars
<1> QED
  BY <1>1, <1>2, <1>3, <1>4, <1>5, <1>6, <1>7, <1>8, <1>9, <1>10, <1>11, <1>12, <1>13,
     <1>14, <1>15, <1>16, <1>17, <1>18
  DEF Next, JsStep, ConnectStep, StreamStep, Deactivation

-----------------------------------------------------------------------------
(* The invariant.                                                           *)

(* Every step preserves it: one case per action.                            *)
LEMMA StepIInv == IInv /\ [Next]_vars => IInv'
<1> SUFFICES ASSUME IInv, [Next]_vars PROVE IInv'
  OBVIOUS
<1>0. TypeOK'
  BY TypeStep
<1>t. \A c \in Conn : phase[c] \in Phase
  BY DEF IInv, TypeOK
<1>1. ASSUME NEW j \in JsThread, NEW i \in Instance, Register(j, i) PROVE IInv'
  BY <1>0, <1>1, RegisterPreserves
<1>2. ASSUME NEW j \in JsThread, NEW k \in Key, Unregister(j, k) PROVE IInv'
  BY <1>0, <1>2, UnregisterPreserves
<1>3. ASSUME NEW c \in Conn, PushEof(c) \/ PushError(c) PROVE IInv'
  <2>1. FlagsGrow /\ Dead(c)' /\ c \in sockets
    BY <1>3 DEF PushEof, PushError, FlagsGrow, Dead
  <2>2. Detach(c) /\ UNCHANGED <<regVars, active, lis, deactVars>> /\ Goto(c, phase[c])
    BY <1>3 DEF PushEof, PushError, Goto, IInv, TypeOK
  <2> QED
    BY <1>0, <1>t, <2>1, <2>2, DetachPreserves
<1>4. ASSUME NEW i \in Instance, Deliver(i) PROVE IInv'
  <2> DEFINE c == Head(queue[i]).conn
  <2>1. UNCHANGED <<regVars, active, connVars, lis, flagVars, deactVars>>
    BY <1>4 DEF Deliver
  <2>2. CASE UNCHANGED phase
    BY <1>0, <2>1, <2>2, JsOnlyPreserves
  <2>3. CASE phase[c] = "awaiting" /\ Goto(c, "opened")
    <3>1. queue[i] \in Seq(Event) /\ queue[i] # <<>>
      BY <1>4 DEF IInv, TypeOK, Deliver
    <3>a. Head(queue[i]) \in Event
      BY <3>1
    <3>2. c \in Conn
      BY <3>a DEF Event
    <3>3. FlagsGrow
      BY <2>1 DEF FlagsGrow, flagVars
    <3> QED
      BY <1>0, <2>1, <2>3, <3>2, <3>3, MoveOn
      DEF Phase, Connecting, Ended, Early, InDeact
  <2> QED
    BY <1>4, <2>2, <2>3 DEF Deliver, Goto
<1>5. ASSUME NEW i \in Instance, CloseEnv(i) PROVE IInv'
  BY <1>0, <1>5, JsOnlyPreserves DEF CloseEnv
<1>6. ASSUME NEW c \in Conn, FinishDetach(c) PROVE IInv'
  BY <1>0, <1>6, FinishDetachPreserves
<1>7. ASSUME NEW c \in Conn, NEW k \in Key, Resolve(c, k) PROVE IInv'
  BY <1>0, <1>7, ResolvePreserves
<1>8. ASSUME NEW c \in Conn, AttachConnection(c) PROVE IInv'
  BY <1>0, <1>8, AttachConnectionPreserves
<1>9. ASSUME NEW c \in Conn, AttachSocketState(c) PROVE IInv'
  BY <1>0, <1>9, AttachSocketStatePreserves
<1>10. ASSUME NEW c \in Conn,
              Recheck(c) \/ OpenFailed(c) \/ FinishConnect(c) PROVE IInv'
  <2>1. FlagsGrow /\ UNCHANGED <<regVars, active, lis, deactVars>>
    BY <1>10 DEF Recheck, OpenFailed, FinishConnect, FlagsGrow, flagVars
  <2>2. phase[c] \in {"recheck", "awaiting", "opened"}
    BY <1>10 DEF Recheck, OpenFailed, FinishConnect
  <2>3. CASE Goto(c, "refused") /\ Detach(c)
    BY <1>0, <2>1, <2>2, <2>3, DetachPreserves DEF Phase, Ended, Early, InDeact
  <2>4. CASE /\ lis[c] \in active /\ UNCHANGED connVars
             /\ \/ Goto(c, "calling") \/ Goto(c, "stream")
                \/ Goto(c, "refused") /\ c \notin sockets
    BY <1>0, <2>1, <2>2, <2>4, MoveOn DEF Phase, Connecting, Held, Ended, Early, InDeact
  <2> QED
    BY <1>10, <2>3, <2>4 DEF Recheck, OpenFailed, FinishConnect
<1>11. ASSUME NEW c \in Conn, CallOpen(c) \/ CallWrite(c) \/ CallClose(c) PROVE IInv'
  <2>1. FlagsGrow /\ UNCHANGED <<regVars, active, lis, flagVars>>
    BY <1>11 DEF CallOpen, CallWrite, CallClose, FlagsGrow, flagVars
  <2>2. phase[c] \in {"calling", "writing", "closing"}
    BY <1>11 DEF CallOpen, CallWrite, CallClose
  <2>3. CASE (Goto(c, "refused") \/ Goto(c, "done")) /\ Detach(c) /\ UNCHANGED deactVars
    BY <1>0, <2>1, <2>2, <2>3, DetachPreserves DEF Phase, Ended, Early, InDeact
  <2>4. CASE /\ UNCHANGED <<connVars, deactVars>>
             /\ \/ Goto(c, "awaiting") \/ Goto(c, "stream") \/ Goto(c, "dropped")
                \/ Goto(c, "done") /\ c \notin sockets
    BY <1>0, <2>1, <2>2, <2>4, MoveOn DEF Phase, Connecting, Held, Ended, Early, InDeact
  <2>5. CASE /\ UNCHANGED connVars /\ StartDeactivation(c)
             /\ \/ Goto(c, "deact_open") \/ Goto(c, "deact_write")
                \/ Goto(c, "deact_close") /\ phase[c] = "closing"
    BY <1>0, <2>1, <2>2, <2>5, StartPreserves DEF InDeact
  <2> QED
    BY <1>11, <2>3, <2>4, <2>5 DEF CallOpen, CallWrite, CallClose
<1>12. ASSUME NEW c \in Conn,
              BeginWrite(c) \/ Pool(c) \/ Reuse(c) \/ DropStream(c) PROVE IInv'
  <2>1. FlagsGrow /\ UNCHANGED <<regVars, active, connVars, lis, deactVars>>
    BY <1>12 DEF BeginWrite, Pool, Reuse, DropStream, FlagsGrow, flagVars
  <2>2. /\ phase[c] \in {"stream", "idle"}
        /\ \E p \in {"writing", "idle", "stream", "dropped"} : Goto(c, p)
    BY <1>12 DEF BeginWrite, Pool, Reuse, DropStream
  <2> QED
    BY <1>0, <2>1, <2>2, MoveOn DEF Phase, Held, Ended, Early, InDeact
<1>13. ASSUME NEW c \in Conn, Shutdown(c) PROVE IInv'
  <2>1. FlagsGrow /\ c \in closed' /\ UNCHANGED <<regVars, active, lis, deactVars>>
    BY <1>13 DEF Shutdown, FlagsGrow
  <2>2. CASE Goto(c, "closing") /\ UNCHANGED connVars
    BY <1>0, <1>13, <2>1, <2>2, MoveOn DEF Shutdown, Phase, Held, Ended, Early, InDeact
  <2>3. CASE Goto(c, "done") /\ Detach(c)
    BY <1>0, <1>13, <2>1, <2>3, DetachPreserves DEF Shutdown, Phase, Ended, Early, InDeact
  <2> QED
    BY <1>13, <2>2, <2>3 DEF Shutdown
<1>14. ASSUME NEW c \in Conn, ReadEnd(c) PROVE IInv'
  <2>1. FlagsGrow /\ UNCHANGED <<regVars, active, connVars, lis, deactVars>>
    BY <1>14 DEF ReadEnd, FlagsGrow
  <2>2. Goto(c, phase[c])
    BY <1>14 DEF ReadEnd, Goto, IInv, TypeOK
  <2> QED
    BY <1>0, <1>t, <2>1, <2>2, MoveOn
<1>15. ASSUME NEW t \in Thread, Deactivation(t) PROVE IInv'
  BY <1>0, <1>15, DeactRemovePreserves, DeactFlagPreserves, DeactDrainPreserves,
     DeactNotifyPreserves, DeactAbortPreserves, DeactReturnPreserves DEF Deactivation
<1>16. CASE UNCHANGED vars
  BY <1>0, <1>16, JsOnlyPreserves DEF vars
<1> QED
  BY <1>1, <1>2, <1>3, <1>4, <1>5, <1>6, <1>7, <1>8, <1>9, <1>10, <1>11, <1>12,
     <1>13, <1>14, <1>15, <1>16
  DEF Next, JsStep, ConnectStep, StreamStep

(* The inductive invariant of the registry.                                 *)
THEOREM Invariant == Spec => []IInv
  BY InitIInv, StepIInv, PTL DEF Spec

(* Every variable keeps its type: in particular a deactivating thread that  *)
(* aborts always holds a connection.                                        *)
THEOREM TypeCorrect == Spec => []TypeOK
<1>1. IInv => TypeOK
  BY DEF IInv
<1> QED
  BY Invariant, <1>1, PTL

(* The map and the active flags agree, whatever deactivations of older      *)
(* instances are still running (deactivate_listener_instance).              *)
THEOREM RegistryConsistent == Spec => []RegisteredIffActive
<1>1. IInv => RegisteredIffActive
  BY DEF IInv
<1> QED
  BY Invariant, <1>1, PTL

(* When unregister_listener has returned, and nothing else deactivates the  *)
(* listener, no stream on it is left alive, however connects interleaved    *)
(* with it: a live one would be attached, hence about to be drained, or     *)
(* drained, hence about to be aborted.                                      *)
THEOREM NoLiveStreamAfterUnregister == Spec => []UnregisteredStreamsDead
<1>1. IInv => UnregisteredStreamsDead
  <2> SUFFICES ASSUME IInv, NEW c \in Conn, phase[c] \in Held, lis[c] \notin active,
                      ~Deactivating(lis[c]), ~Dead(c)
               PROVE  FALSE
    BY DEF UnregisteredStreamsDead
  <2>1. lis[c] \in Instance
    BY DEF IInv, LisInv, Held
  <2>2. c \in connections[lis[c]] \/ Pending(c)
    BY DEF IInv, LiveTracked, Held
  <2>3. CASE c \in connections[lis[c]]
    BY <2>1, <2>3 DEF IInv, DrainInv, Deactivating
  <2>4. CASE Pending(c)
    BY <2>4 DEF IInv, BatchInv, Pending, Deactivating
  <2> QED
    BY <2>2, <2>3, <2>4
<1> QED
  BY Invariant, <1>1, PTL

(* deactivate() never finds a weak reference it cannot upgrade.             *)
THEOREM WeakRefsUpgrade == Spec => []ConnectionRefsLive
<1>1. IInv => ConnectionRefsLive
  BY DEF IInv
<1> QED
  BY Invariant, <1>1, PTL

(* No refused connect and no closed stream leaves an entry behind that      *)
(* nobody is about to remove.                                               *)
THEOREM EntriesRemoved == Spec => []NoStrayEntry
<1>1. IInv => NoStrayEntry
  BY DEF IInv
<1> QED
  BY Invariant, <1>1, PTL
=============================================================================
