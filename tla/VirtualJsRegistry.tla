------------------------- MODULE VirtualJsRegistry -------------------------
(***************************************************************************)
(* The registry behind `virtual_js` upstreams (src/virtual_js/registry*.rs *)
(* and the registry-facing half of socket.rs): listeners registered from   *)
(* JavaScript, the connections proxy tasks open on them, and the tear-down *)
(* that unregistering, or a dying JavaScript environment, sets off.        *)
(*                                                                         *)
(* Processes: one proxy task per connection, JavaScript threads, and, on   *)
(* whichever of these threads it happens to run, `deactivate_listener`.    *)
(* A step is one lock-protected section, one atomic access or one call     *)
(* into the event queue of a listener.                                     *)
(***************************************************************************)
EXTENDS Naturals, Sequences

CONSTANTS
  Key,        \* listener keys
  Instance,   \* Arc<Listener> objects; their number bounds registrations
  KeyOf,      \* the key an instance is created with
  Conn,       \* connection ids, one per call of connect(): seq never repeats
  JsThread,   \* threads that run JavaScript
  QueueMax,   \* capacity of a listener's event queue (8192 in the code)
  NoInst,     \* "no listener"
  NoConn      \* "no connection"

ASSUME RegistryAssumption ==
  /\ KeyOf \in [Instance -> Key]
  /\ NoInst \notin Instance
  /\ NoConn \notin Conn
  /\ Conn \cap JsThread = {}
  /\ QueueMax \in Nat

Thread == Conn \cup JsThread

VARIABLES
  listeners,    \* Registry.listeners: key -> registered instance
  used,         \* instances that have been created
  active,       \* instances whose `active` flag is set
  connections,  \* Listener.connections: instance -> connection ids
  sockets,      \* ids in Registry.sockets
  detaching,    \* ids between the two removals of detach_socket_state
  lis,          \* connection -> the instance its task resolved
  phase,        \* connection -> where its proxy task is
  closed,       \* ids whose socket state has `closed` set
  eof,          \* ids whose socket state has `eof` set
  err,          \* ids whose socket state has `err` set
  tsfn,         \* instances whose JavaScript environment is alive
  queue,        \* instance -> events accepted and not yet delivered
  known,        \* ids JavaScript has learned from a delivered event
  dpc,          \* thread -> where it is in deactivate_listener
  dinst,        \* thread -> the instance it deactivates
  batch,        \* thread -> drained ids it has not handled yet
  cur           \* thread -> the drained id it has notified and must abort

connVars == <<sockets, connections, detaching>>
flagVars == <<closed, eof, err>>
jsVars == <<tsfn, queue, known>>
deactVars == <<dpc, dinst, batch, cur>>
regVars == <<listeners, used>>
vars == <<regVars, active, connVars, lis, phase, flagVars, jsVars, deactVars>>

Kind == {"open", "write", "close"}
Event == [kind : Kind, conn : Conn]
Connecting == {"new", "resolved", "attached", "recheck", "calling", "awaiting",
               "opened", "deact_open"}
Held == {"stream", "writing", "deact_write", "idle", "closing", "deact_close"}
Ended == {"refused", "done", "dropped"}
Phase == Connecting \cup Held \cup Ended

Init ==
  /\ listeners = [k \in Key |-> NoInst]
  /\ used = {} /\ active = {}
  /\ connections = [i \in Instance |-> {}]
  /\ sockets = {} /\ detaching = {}
  /\ lis = [c \in Conn |-> NoInst]
  /\ phase = [c \in Conn |-> "new"]
  /\ closed = {} /\ eof = {} /\ err = {}
  /\ tsfn = {} /\ queue = [i \in Instance |-> <<>>]
  /\ known = {}
  /\ dpc = [t \in Thread |-> "idle"]
  /\ dinst = [t \in Thread |-> NoInst]
  /\ batch = [t \in Thread |-> {}]
  /\ cur = [t \in Thread |-> NoConn]

-----------------------------------------------------------------------------
(* A NonBlocking call of a listener's threadsafe function.                  *)

CallOk(i) == i \in tsfn /\ Len(queue[i]) < QueueMax
CallFull(i) == i \in tsfn /\ Len(queue[i]) >= QueueMax
CallClosing(i) == i \notin tsfn          \* tsfn_closed(status)

Enqueue(i, kind, c) ==
  queue' = [queue EXCEPT ![i] = Append(@, [kind |-> kind, conn |-> c])]

Goto(c, p) == phase' = [phase EXCEPT ![c] = p]

(* detach_socket_state removes the sockets entry and then, if there was     *)
(* one, the id in the listener's connections: the second removal is         *)
(* FinishDetach.                                                            *)
Detach(c) ==
  /\ sockets' = sockets \ {c}
  /\ detaching' = IF c \in sockets THEN detaching \cup {c} ELSE detaching
  /\ UNCHANGED connections

(* Mutant: detach_connection is not called.                                 *)
FinishDetachKeepsRef(c) ==
  /\ c \in detaching
  /\ detaching' = detaching \ {c}
  /\ UNCHANGED <<regVars, active, connections, sockets, lis, phase, flagVars, jsVars, deactVars>>

FinishDetach(c) ==
  /\ c \in detaching
  /\ detaching' = detaching \ {c}
  /\ connections' = [connections EXCEPT ![lis[c]] = @ \ {c}]
  /\ UNCHANGED <<regVars, active, sockets, lis, phase, flagVars, jsVars, deactVars>>

(* deactivate_listener_instance(lis[c]), run by the task of c.              *)
StartDeactivation(c) ==
  /\ dpc' = [dpc EXCEPT ![c] = "remove"]
  /\ dinst' = [dinst EXCEPT ![c] = lis[c]]
  /\ UNCHANGED <<batch, cur>>

-----------------------------------------------------------------------------
(* JavaScript threads.                                                      *)

Register(j, i) ==
  /\ dpc[j] = "idle"
  /\ i \notin used
  /\ listeners[KeyOf[i]] = NoInst
  /\ listeners' = [listeners EXCEPT ![KeyOf[i]] = i]
  /\ used' = used \cup {i}
  /\ active' = active \cup {i}
  /\ tsfn' = tsfn \cup {i}
  /\ UNCHANGED <<connVars, lis, phase, flagVars, queue, known, deactVars>>

Unregister(j, k) ==
  /\ dpc[j] = "idle"
  /\ listeners[k] # NoInst
  /\ listeners' = [listeners EXCEPT ![k] = NoInst]
  /\ dpc' = [dpc EXCEPT ![j] = "flag"]
  /\ dinst' = [dinst EXCEPT ![j] = listeners[k]]
  /\ UNCHANGED <<used, active, connVars, lis, phase, flagVars, jsVars, batch, cur>>

(* virtual_push_event("eof" / "error"): a socket that is already closed is  *)
(* left alone, and in either case detached.                                 *)
PushEof(c) ==
  /\ c \in known \cap sockets
  /\ eof' = IF c \in closed THEN eof ELSE eof \cup {c}
  /\ Detach(c)
  /\ UNCHANGED <<regVars, active, lis, phase, closed, err, jsVars, deactVars>>

PushError(c) ==
  /\ c \in known \cap sockets
  /\ err' = IF c \in closed THEN err ELSE err \cup {c}
  /\ Detach(c)
  /\ UNCHANGED <<regVars, active, lis, phase, closed, eof, jsVars, deactVars>>

(* The event loop runs the listener callback for the oldest queued event;   *)
(* the return of "open", or its exception, completes the call_async of      *)
(* connect().                                                               *)
Deliver(i) ==
  /\ queue[i] # <<>>
  /\ LET e == Head(queue[i]) IN
       /\ known' = known \cup {e.conn}
       /\ phase' = IF e.kind = "open" /\ phase[e.conn] = "awaiting"
                   THEN [phase EXCEPT ![e.conn] = "opened"] ELSE phase
  /\ queue' = [queue EXCEPT ![i] = Tail(@)]
  /\ UNCHANGED <<regVars, active, connVars, lis, flagVars, tsfn, deactVars>>

(* The worker or process that registered the listener tears its             *)
(* environment down: undelivered events are lost, later calls see Closing.  *)
CloseEnv(i) ==
  /\ i \in tsfn
  /\ tsfn' = tsfn \ {i}
  /\ queue' = [queue EXCEPT ![i] = <<>>]
  /\ UNCHANGED <<regVars, active, connVars, lis, phase, flagVars, known, deactVars>>

-----------------------------------------------------------------------------
(* The proxy task of a connection: peer selection and connect().            *)

(* virtual_open_connection: the listener is looked up at peer selection.    *)
Resolve(c, k) ==
  /\ phase[c] = "new"
  /\ lis' = [lis EXCEPT ![c] = listeners[k]]
  /\ Goto(c, IF listeners[k] = NoInst THEN "refused" ELSE "resolved")
  /\ UNCHANGED <<regVars, active, connVars, flagVars, jsVars, deactVars>>

(* init_connect up to attach_connection, which tests `active` under the     *)
(* connections lock; the unlocked test before it refuses nothing more,      *)
(* because the flag never goes back up.                                     *)
AttachConnection(c) ==
  /\ phase[c] = "resolved"
  /\ IF lis[c] \in active
     THEN /\ connections' = [connections EXCEPT ![lis[c]] = @ \cup {c}]
          /\ Goto(c, "attached")
     ELSE UNCHANGED connections /\ Goto(c, "refused")
  /\ UNCHANGED <<regVars, active, sockets, detaching, lis, flagVars, jsVars, deactVars>>

AttachSocketState(c) ==
  /\ phase[c] = "attached"
  /\ sockets' = sockets \cup {c}
  /\ Goto(c, "recheck")
  /\ UNCHANGED <<regVars, active, connections, detaching, lis, flagVars, jsVars, deactVars>>

(* Mutant: the failed second test returns without detaching.                *)
RecheckKeepsEntry(c) ==
  /\ phase[c] = "recheck"
  /\ Goto(c, IF c \in sockets /\ lis[c] \in active THEN "calling" ELSE "refused")
  /\ UNCHANGED <<regVars, active, connVars, lis, flagVars, jsVars, deactVars>>

(* The second test of init_connect, on the entry just inserted.             *)
Recheck(c) ==
  /\ phase[c] = "recheck"
  /\ IF c \in sockets /\ lis[c] \in active
     THEN Goto(c, "calling") /\ UNCHANGED connVars
     ELSE Goto(c, "refused") /\ Detach(c)
  /\ UNCHANGED <<regVars, active, lis, flagVars, jsVars, deactVars>>

CallOpen(c) ==
  /\ phase[c] = "calling"
  /\ \/ /\ CallOk(lis[c])
        /\ Enqueue(lis[c], "open", c)
        /\ Goto(c, "awaiting")
        /\ UNCHANGED <<connVars, deactVars>>
     \/ /\ CallFull(lis[c])
        /\ Goto(c, "refused") /\ Detach(c)
        /\ UNCHANGED <<queue, deactVars>>
     \/ /\ CallClosing(lis[c])
        /\ Goto(c, "deact_open") /\ StartDeactivation(c)
        /\ UNCHANGED <<queue, connVars>>
  /\ UNCHANGED <<regVars, active, lis, flagVars, tsfn, known>>

(* call_async fails: the environment died before "open" was delivered, or   *)
(* the handler threw.                                                       *)
OpenFailed(c) ==
  /\ \/ phase[c] = "awaiting" /\ lis[c] \notin tsfn
     \/ phase[c] = "opened"
  /\ Goto(c, "refused") /\ Detach(c)
  /\ UNCHANGED <<regVars, active, lis, flagVars, jsVars, deactVars>>

(* connect() after "open": the listener must still be active and the socket *)
(* still registered. The code makes the two tests one after the other; one  *)
(* step stands for both, at the second when that fails (a detach then finds *)
(* nothing to remove), else at the first: no other thread tells the phases  *)
(* apart.                                                                   *)
FinishConnect(c) ==
  /\ phase[c] = "opened"
  /\ \/ /\ lis[c] \notin active
        /\ Goto(c, "refused") /\ Detach(c)
     \/ /\ lis[c] \in active /\ c \notin sockets
        /\ Goto(c, "refused") /\ UNCHANGED connVars
     \/ /\ lis[c] \in active /\ c \in sockets
        /\ Goto(c, "stream") /\ UNCHANGED connVars
  /\ UNCHANGED <<regVars, active, lis, flagVars, jsVars, deactVars>>

-----------------------------------------------------------------------------
(* The stream in the proxy's hands.                                         *)

(* poll_write and the first half of on_write: both flags are only tested.   *)
BeginWrite(c) ==
  /\ phase[c] = "stream"
  /\ c \notin closed /\ lis[c] \in active
  /\ Goto(c, "writing")
  /\ UNCHANGED <<regVars, active, connVars, lis, flagVars, jsVars, deactVars>>

(* deactivate_socket_listener finds the listener through the sockets entry  *)
(* and does nothing without one.                                            *)
CallWrite(c) ==
  /\ phase[c] = "writing"
  /\ \/ /\ CallOk(lis[c])
        /\ Enqueue(lis[c], "write", c)
        /\ Goto(c, "stream") /\ UNCHANGED deactVars
     \/ /\ CallFull(lis[c]) \/ (CallClosing(lis[c]) /\ c \notin sockets)
        /\ Goto(c, "stream") /\ UNCHANGED <<queue, deactVars>>
     \/ /\ CallClosing(lis[c]) /\ c \in sockets
        /\ Goto(c, "deact_write") /\ StartDeactivation(c)
        /\ UNCHANGED queue
  /\ UNCHANGED <<regVars, active, connVars, lis, flagVars, tsfn, known>>

(* poll_shutdown, and on_close when the listener is no longer active.       *)
Shutdown(c) ==
  /\ phase[c] = "stream"
  /\ closed' = closed \cup {c}
  /\ IF lis[c] \in active
     THEN Goto(c, "closing") /\ UNCHANGED connVars
     ELSE Goto(c, "done") /\ Detach(c)
  /\ UNCHANGED <<regVars, active, lis, eof, err, jsVars, deactVars>>

(* The rest of on_close. A full queue leaves the entries where they are, as *)
(* if the stream had been dropped without a shutdown.                       *)
CallClose(c) ==
  /\ phase[c] = "closing"
  /\ \/ /\ CallOk(lis[c])
        /\ Enqueue(lis[c], "close", c)
        /\ Goto(c, "done") /\ Detach(c) /\ UNCHANGED deactVars
     \/ /\ CallFull(lis[c])
        /\ Goto(c, "dropped") /\ UNCHANGED <<queue, connVars, deactVars>>
     \/ /\ CallClosing(lis[c]) /\ c \notin sockets
        /\ Goto(c, "done") /\ UNCHANGED <<queue, connVars, deactVars>>
     \/ /\ CallClosing(lis[c]) /\ c \in sockets
        /\ Goto(c, "deact_close") /\ StartDeactivation(c)
        /\ UNCHANGED <<queue, connVars>>
  /\ UNCHANGED <<regVars, active, lis, flagVars, tsfn, known>>

(* poll_read meets an error or the end of the stream. The connection pool's *)
(* idle probe is such a read.                                               *)
ReadEnd(c) ==
  /\ phase[c] \in {"stream", "idle"}
  /\ c \in eof \cup err
  /\ c \notin closed
  /\ closed' = closed \cup {c}
  /\ UNCHANGED <<regVars, active, connVars, lis, phase, eof, err, jsVars, deactVars>>

(* is_reusable and a clean probe, tested on the way into the pool and on    *)
(* the way out of it.                                                       *)
Reusable(c) == lis[c] \in active /\ c \notin closed \cup eof \cup err

Pool(c) ==
  /\ phase[c] = "stream" /\ Reusable(c)
  /\ Goto(c, "idle")
  /\ UNCHANGED <<regVars, active, connVars, lis, flagVars, jsVars, deactVars>>

Reuse(c) ==
  /\ phase[c] = "idle" /\ Reusable(c)
  /\ Goto(c, "stream")
  /\ UNCHANGED <<regVars, active, connVars, lis, flagVars, jsVars, deactVars>>

(* The proxy drops a stream without shutting it down (a pooled one that was *)
(* evicted or failed its probe): VirtualJsSocket has no Drop.               *)
DropStream(c) ==
  /\ phase[c] \in {"stream", "idle"}
  /\ Goto(c, "dropped")
  /\ UNCHANGED <<regVars, active, connVars, lis, flagVars, jsVars, deactVars>>

-----------------------------------------------------------------------------
(* deactivate_listener_instance and deactivate_listener on thread t.        *)

(* Mutant: the entry is removed by key, without the ptr_eq test.            *)
DeactRemoveByKey(t) ==
  /\ dpc[t] = "remove"
  /\ listeners' = [listeners EXCEPT ![KeyOf[dinst[t]]] = NoInst]
  /\ dpc' = [dpc EXCEPT ![t] = "flag"]
  /\ UNCHANGED <<used, active, connVars, lis, phase, flagVars, jsVars, dinst, batch, cur>>

(* Under the write lock: the map entry goes only if it is this instance.    *)
DeactRemove(t) ==
  /\ dpc[t] = "remove"
  /\ LET k == KeyOf[dinst[t]] IN
       listeners' = IF listeners[k] = dinst[t]
                    THEN [listeners EXCEPT ![k] = NoInst] ELSE listeners
  /\ dpc' = [dpc EXCEPT ![t] = "flag"]
  /\ UNCHANGED <<used, active, connVars, lis, phase, flagVars, jsVars, dinst, batch, cur>>

DeactFlag(t) ==
  /\ dpc[t] = "flag"
  /\ active' = active \ {dinst[t]}
  /\ dpc' = [dpc EXCEPT ![t] = "drain"]
  /\ UNCHANGED <<regVars, connVars, lis, phase, flagVars, jsVars, dinst, batch, cur>>

DeactDrain(t) ==
  /\ dpc[t] = "drain"
  /\ batch' = [batch EXCEPT ![t] = connections[dinst[t]]]
  /\ connections' = [connections EXCEPT ![dinst[t]] = {}]
  /\ dpc' = [dpc EXCEPT ![t] = "notify"]
  /\ UNCHANGED <<regVars, active, sockets, detaching, lis, phase, flagVars, jsVars, dinst, cur>>

(* notify_close_best_effort: the status of the call is ignored.             *)
DeactNotify(t, c) ==
  /\ dpc[t] = "notify" /\ c \in batch[t]
  /\ IF CallOk(dinst[t]) THEN Enqueue(dinst[t], "close", c) ELSE UNCHANGED queue
  /\ batch' = [batch EXCEPT ![t] = @ \ {c}]
  /\ cur' = [cur EXCEPT ![t] = c]
  /\ dpc' = [dpc EXCEPT ![t] = "abort"]
  /\ UNCHANGED <<regVars, active, connVars, lis, phase, flagVars, tsfn, known, dinst>>

(* Mutant: the state is detached and not aborted.                           *)
DeactAbortOnlyDetaches(t) ==
  /\ dpc[t] = "abort"
  /\ Detach(cur[t])
  /\ cur' = [cur EXCEPT ![t] = NoConn]
  /\ dpc' = [dpc EXCEPT ![t] = "notify"]
  /\ UNCHANGED <<regVars, active, lis, phase, flagVars, jsVars, dinst, batch>>

DeactAbort(t) ==
  /\ dpc[t] = "abort"
  /\ closed' = closed \cup {cur[t]}
  /\ err' = IF cur[t] \in eof THEN err ELSE err \cup {cur[t]}
  /\ Detach(cur[t])
  /\ cur' = [cur EXCEPT ![t] = NoConn]
  /\ dpc' = [dpc EXCEPT ![t] = "notify"]
  /\ UNCHANGED <<regVars, active, lis, phase, eof, jsVars, dinst, batch>>

(* Mutant: connect() tries "open" again after it deactivated the listener.  *)
DeactReturnRetries(t) ==
  /\ dpc[t] = "notify" /\ batch[t] = {}
  /\ dpc' = [dpc EXCEPT ![t] = "idle"]
  /\ dinst' = [dinst EXCEPT ![t] = NoInst]
  /\ IF t \in Conn /\ phase[t] = "deact_open" THEN Goto(t, "calling") ELSE UNCHANGED phase
  /\ UNCHANGED <<regVars, active, connVars, lis, flagVars, jsVars, batch, cur>>

(* The loop is over: a proxy task goes back to what made it deactivate.     *)
DeactReturn(t) ==
  /\ dpc[t] = "notify" /\ batch[t] = {}
  /\ dpc' = [dpc EXCEPT ![t] = "idle"]
  /\ dinst' = [dinst EXCEPT ![t] = NoInst]
  /\ \/ /\ t \in JsThread
        /\ UNCHANGED <<phase, connVars>>
     \/ /\ t \in Conn /\ phase[t] = "deact_open"
        /\ Goto(t, "refused") /\ Detach(t)
     \/ /\ t \in Conn /\ phase[t] = "deact_write"
        /\ Goto(t, "stream") /\ UNCHANGED connVars
     \/ /\ t \in Conn /\ phase[t] = "deact_close"
        /\ Goto(t, "done") /\ UNCHANGED connVars
  /\ UNCHANGED <<regVars, active, lis, flagVars, jsVars, batch, cur>>

Deactivation(t) ==
  \/ DeactRemove(t) \/ DeactFlag(t) \/ DeactDrain(t)
  \/ \E c \in Conn : DeactNotify(t, c)
  \/ DeactAbort(t) \/ DeactReturn(t)

ConnectStep(c) ==
  \/ AttachConnection(c) \/ AttachSocketState(c) \/ Recheck(c)
  \/ CallOpen(c) \/ OpenFailed(c) \/ FinishConnect(c)

StreamStep(c) ==
  \/ BeginWrite(c) \/ CallWrite(c) \/ Shutdown(c) \/ CallClose(c) \/ ReadEnd(c)
  \/ Pool(c) \/ Reuse(c) \/ DropStream(c)

JsStep ==
  \/ \E j \in JsThread : \/ \E i \in Instance : Register(j, i)
                         \/ \E k \in Key : Unregister(j, k)
  \/ \E c \in Conn : PushEof(c) \/ PushError(c)
  \/ \E i \in Instance : Deliver(i) \/ CloseEnv(i)

Next ==
  \/ JsStep
  \/ \E c \in Conn : \/ \E k \in Key : Resolve(c, k)
                     \/ ConnectStep(c) \/ StreamStep(c) \/ FinishDetach(c)
  \/ \E t \in Thread : Deactivation(t)

Spec == Init /\ [][Next]_vars

(* Rust threads run their code to the end and the event loops of live       *)
(* environments keep turning. What users and the proxy decide to do         *)
(* (register, unregister, push, write, shut down, drop) is not forced.      *)
Fairness ==
  /\ \A c \in Conn : /\ WF_vars(ConnectStep(c))
                     /\ WF_vars(CallWrite(c)) /\ WF_vars(CallClose(c))
                     /\ WF_vars(FinishDetach(c))
  /\ \A t \in Thread : WF_vars(Deactivation(t))
  /\ \A i \in Instance : WF_vars(Deliver(i))

FairSpec == Spec /\ Fairness

-----------------------------------------------------------------------------
(* Properties.                                                              *)

TypeOK ==
  /\ listeners \in [Key -> Instance \cup {NoInst}]
  /\ used \subseteq Instance /\ active \subseteq used /\ tsfn \subseteq used
  /\ connections \in [Instance -> SUBSET Conn]
  /\ sockets \subseteq Conn /\ detaching \subseteq Conn
  /\ lis \in [Conn -> Instance \cup {NoInst}]
  /\ phase \in [Conn -> Phase]
  /\ closed \subseteq Conn /\ eof \subseteq Conn /\ err \subseteq Conn
  /\ queue \in [Instance -> Seq(Event)]
  /\ known \subseteq Conn
  /\ dpc \in [Thread -> {"idle", "remove", "flag", "drain", "notify", "abort"}]
  /\ dinst \in [Thread -> Instance \cup {NoInst}]
  /\ batch \in [Thread -> SUBSET Conn]
  /\ cur \in [Thread -> Conn \cup {NoConn}]

Dead(c) == c \in closed \cup eof \cup err
Deactivating(i) == \E t \in Thread : dinst[t] = i
Pending(c) == \E t \in Thread : c \in batch[t] \/ c = cur[t]

(* A key never resolves to a listener that has been deactivated, and an     *)
(* instance that is still active is the one its key resolves to, unless a   *)
(* thread is already taking it down. So the late deactivation of an old     *)
(* instance never takes a newer registration of the same key out of the map *)
(* (the ptr_eq test of deactivate_listener_instance).                       *)
RegisteredIffActive ==
  /\ \A k \in Key : listeners[k] # NoInst => listeners[k] \in active
  /\ \A i \in active : listeners[KeyOf[i]] = i \/ Deactivating(i)

(* Once a listener is inactive and no thread is busy deactivating it, every *)
(* stream the proxy still holds on it, pooled ones included, has been       *)
(* closed, ended or failed: unregistering "actively aborts all of its       *)
(* associated virtual sockets", whatever connects were racing with it.      *)
UnregisteredStreamsDead ==
  \A c \in Conn :
    phase[c] \in Held /\ lis[c] \notin active /\ ~Deactivating(lis[c]) => Dead(c)

(* The weak references in Listener.connections can always be upgraded when  *)
(* deactivate() drains them: for each, connect() still owns the state, or   *)
(* the sockets entry does, or a detach that holds the removed entry. So the *)
(* filter_map of deactivate() skips no connection.                          *)
ConnectionRefsLive ==
  \A i \in Instance : \A c \in connections[i] :
    lis[c] = i /\ (phase[c] = "attached" \/ c \in sockets \cup detaching)

(* A refused connect, and a shutdown that returned Ok, leave no entry in    *)
(* Registry.sockets, except one that a deactivating thread has drained and  *)
(* is about to remove. In particular the entry inserted after the listener  *)
(* was drained is removed by the second test of init_connect. (A shutdown   *)
(* that finds the queue full returns an error and leaves its entry.)        *)
NoStrayEntry ==
  \A c \in sockets : phase[c] \in {"refused", "done"} => Pending(c)

(* Every connect() settles, as a stream or as an error, also when it is the *)
(* one to find the listener closed and deactivates it. (That a call_async   *)
(* whose environment is gone completes is taken from the library.)          *)
ConnectSettles ==
  \A c \in Conn : (phase[c] = "resolved") ~> (phase[c] \notin Connecting)
=============================================================================
