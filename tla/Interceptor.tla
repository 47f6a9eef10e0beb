----------------------------- MODULE Interceptor -----------------------------
(***************************************************************************)
(* Interceptors: the registry of JavaScript handlers                       *)
(* (src/interceptor/registry.rs) and the middleware that consults it for   *)
(* every request of a route (src/middlewares/interceptor/mod.rs). Handlers *)
(* live in JavaScript environments, the main thread or worker threads,     *)
(* which may be torn down while requests wait for them.                    *)
(***************************************************************************)
EXTENDS Naturals, FiniteSets

CONSTANTS
  Key,         \* interceptor keys
  Inst,        \* Arc<Interceptor> objects; their number bounds registrations
  Env,         \* JavaScript environments
  Req,         \* requests
  NoInst,      \* None
  QueueSize    \* max_queue_size of a handler's threadsafe function

ASSUME InterceptorAssumption == NoInst \notin Inst /\ QueueSize \in Nat

VARIABLES
  table,       \* Registry.interceptors: key -> registered handler
  owner,       \* handler -> the environments that built it (none, or one)
  keyOf,       \* handler -> its key, as a set like owner
  withdrawn,   \* handlers that JavaScript has unregistered
  alive,       \* environments that run
  pc,          \* request -> where run_interceptor is
  key,         \* request -> the key of its route's middleware
  held,        \* request -> the handler it looked up
  answer,      \* request -> what the handler's promise settled to
  outcome      \* request -> what the middleware decided

vars == <<table, owner, keyOf, withdrawn, alive, pc, key, held, answer, outcome>>
registry == <<table, owner, keyOf, withdrawn, alive>>

(* What a handler's promise may resolve to: nothing, a value that is not an *)
(* object, or an object with an action and a status. "absent" stands for an *)
(* action that is missing or not a string, NoStatus for a status that is    *)
(* missing or not an unsigned integer.                                      *)
NoStatus == 0
Statuses == {NoStatus, 99, 100, 999, 1000}
Plain(kind) == [kind |-> kind, action |-> "absent", status |-> NoStatus]
Answer ==
  {Plain("null"), Plain("scalar")} \cup
  [kind : {"object"}, action : {"absent", "continue", "respond", "other"}, status : Statuses]
NoAnswer == Plain("none")

(* What the middleware does with the request.                               *)
Continue == [act |-> "continue", status |-> NoStatus]
Fail == [act |-> "fail", status |-> NoStatus]
Respond(s) == [act |-> "respond", status |-> s]
Undecided == [act |-> "none", status |-> NoStatus]

(* Mutant: what is not a well-formed "respond" continues.                   *)
ParseLenient(v) ==
  IF v.action = "respond" /\ v.status \in 100..999 THEN Respond(v.status) ELSE Continue

(* Mutant: a status out of range becomes the default.                       *)
ParseDefaultsStatus(v) ==
  CASE v.kind = "null" -> Continue
    [] v.kind = "scalar" -> Fail
    [] v.kind = "object" /\ v.action \in {"absent", "continue"} -> Continue
    [] v.kind = "object" /\ v.action = "other" -> Fail
    [] v.kind = "object" /\ v.action = "respond" ->
         Respond(IF v.status \in 100..999 THEN v.status ELSE 200)

(* parse_result, and the action request_filter takes on its result.         *)
ParseResult(v) ==
  CASE v.kind = "null" -> Continue
    [] v.kind = "scalar" -> Fail
    [] v.kind = "object" /\ v.action \in {"absent", "continue"} -> Continue
    [] v.kind = "object" /\ v.action = "other" -> Fail
    [] v.kind = "object" /\ v.action = "respond" ->
         IF v.status = NoStatus THEN Respond(200)
         ELSE IF v.status \in 100..999 THEN Respond(v.status) ELSE Fail

OwnerLives(i) == owner[i] \cap alive # {}
Queued(i) == {r \in Req : pc[r] = "queued" /\ held[r] = i}

Init ==
  /\ table = [k \in Key |-> NoInst]
  /\ owner = [i \in Inst |-> {}] /\ keyOf = [i \in Inst |-> {}]
  /\ withdrawn = {} /\ alive = Env
  /\ pc = [r \in Req |-> "start"]
  /\ key \in [Req -> Key]
  /\ held = [r \in Req |-> NoInst]
  /\ answer = [r \in Req |-> NoAnswer]
  /\ outcome = [r \in Req |-> Undecided]

-----------------------------------------------------------------------------
(* The registry. Writers hold write_lock over their load and store.         *)

(* Mutant: a registration replaces the one that is there.                   *)
RegisterReplaces(e, k, i) ==
  /\ e \in alive /\ owner[i] = {}
  /\ table' = [table EXCEPT ![k] = i]
  /\ owner' = [owner EXCEPT ![i] = {e}] /\ keyOf' = [keyOf EXCEPT ![i] = {k}]
  /\ UNCHANGED <<withdrawn, alive, pc, key, held, answer, outcome>>

(* register_interceptor; a duplicate key is refused and changes nothing.    *)
Register(e, k, i) ==
  /\ e \in alive /\ owner[i] = {}
  /\ table[k] = NoInst
  /\ table' = [table EXCEPT ![k] = i]
  /\ owner' = [owner EXCEPT ![i] = {e}] /\ keyOf' = [keyOf EXCEPT ![i] = {k}]
  /\ UNCHANGED <<withdrawn, alive, pc, key, held, answer, outcome>>

(* unregister_interceptor, called by JavaScript.                            *)
Unregister(k) ==
  /\ alive # {} /\ table[k] # NoInst
  /\ withdrawn' = withdrawn \cup {table[k]}
  /\ table' = [table EXCEPT ![k] = NoInst]
  /\ UNCHANGED <<owner, keyOf, alive, pc, key, held, answer, outcome>>

(* An environment ends (a worker is terminated): its functions close.       *)
Terminate(e) ==
  /\ e \in alive
  /\ alive' = alive \ {e}
  /\ UNCHANGED <<table, owner, keyOf, withdrawn, pc, key, held, answer, outcome>>

-----------------------------------------------------------------------------
(* run_interceptor.                                                         *)

Finish(r, d) ==
  /\ pc' = [pc EXCEPT ![r] = "done"]
  /\ outcome' = [outcome EXCEPT ![r] = d]

(* The lookup in the current snapshot.                                      *)
Lookup(r) ==
  /\ pc[r] = "start"
  /\ \/ /\ table[key[r]] = NoInst
        /\ Finish(r, Continue)
        /\ UNCHANGED held
     \/ /\ table[key[r]] # NoInst
        /\ held' = [held EXCEPT ![r] = table[key[r]]]
        /\ pc' = [pc EXCEPT ![r] = "found"]
        /\ UNCHANGED outcome
  /\ UNCHANGED <<registry, key, answer>>

(* call_async: Closing, QueueFull or queued.                                *)
Call(r) ==
  /\ pc[r] = "found"
  /\ \/ /\ ~OwnerLives(held[r])
        /\ pc' = [pc EXCEPT ![r] = "purge"]
        /\ UNCHANGED outcome
     \/ /\ OwnerLives(held[r]) /\ Cardinality(Queued(held[r])) >= QueueSize
        /\ Finish(r, Fail)
     \/ /\ OwnerLives(held[r]) /\ Cardinality(Queued(held[r])) < QueueSize
        /\ pc' = [pc EXCEPT ![r] = "queued"]
        /\ UNCHANGED outcome
  /\ UNCHANGED <<registry, key, held, answer>>

(* Mutant: the closed handler stays registered.                             *)
PurgeNothing(r) ==
  /\ pc[r] = "purge"
  /\ Finish(r, Continue)
  /\ UNCHANGED <<registry, key, held, answer>>

(* The function was closed: unregister whatever has the key now, continue.  *)
Purge(r) ==
  /\ pc[r] = "purge"
  /\ table' = [table EXCEPT ![key[r]] = NoInst]
  /\ Finish(r, Continue)
  /\ UNCHANGED <<owner, keyOf, withdrawn, alive, key, held, answer>>

(* The environment takes the call from the queue and runs the handler: it   *)
(* returns a promise, or throws.                                            *)
Deliver(r) ==
  /\ pc[r] = "queued" /\ OwnerLives(held[r])
  /\ \/ pc' = [pc EXCEPT ![r] = "awaiting"] /\ UNCHANGED outcome
     \/ Finish(r, Fail)
  /\ UNCHANGED <<registry, key, held, answer>>

(* The promise resolves and request_filter acts on its value.               *)
Resolve(r, v) ==
  /\ pc[r] = "awaiting" /\ OwnerLives(held[r])
  /\ answer' = [answer EXCEPT ![r] = v]
  /\ Finish(r, ParseResult(v))
  /\ UNCHANGED <<registry, key, held>>

(* The promise is rejected.                                                 *)
Reject(r) ==
  /\ pc[r] = "awaiting" /\ OwnerLives(held[r])
  /\ Finish(r, Fail)
  /\ UNCHANGED <<registry, key, held, answer>>

(* Mutant: a call lost with its environment is never answered.              *)
LoseNothing(r) ==
  /\ pc[r] = "awaiting" /\ ~OwnerLives(held[r])
  /\ Finish(r, Fail)
  /\ UNCHANGED <<registry, key, held, answer>>

(* The environment ends with the call in its queue, which call_async        *)
(* reports as cancelled or as a plain failure, or with its promise pending. *)
Lose(r) ==
  /\ pc[r] \in {"queued", "awaiting"} /\ ~OwnerLives(held[r])
  /\ \/ pc[r] = "queued" /\ pc' = [pc EXCEPT ![r] = "purge"] /\ UNCHANGED outcome
     \/ Finish(r, Fail)
  /\ UNCHANGED <<registry, key, held, answer>>

Progress(r) == Lookup(r) \/ Call(r) \/ Purge(r) \/ Deliver(r) \/ Reject(r) \/ Lose(r)
                 \/ \E v \in Answer : Resolve(r, v)

Next ==
  \/ \E e \in Env, k \in Key, i \in Inst : Register(e, k, i)
  \/ \E k \in Key : Unregister(k)
  \/ \E e \in Env : Terminate(e)
  \/ \E r \in Req : Progress(r)

Spec == Init /\ [][Next]_vars

(* Requests are polled, live event loops turn, and handlers settle their    *)
(* promises: the code itself puts no time limit on a handler.               *)
FairSpec == Spec /\ \A r \in Req : WF_vars(Progress(r))

-----------------------------------------------------------------------------
(* Type invariant of the registry and of the requests.                      *)
TypeOK ==
  /\ table \in [Key -> Inst \cup {NoInst}]
  /\ owner \in [Inst -> SUBSET Env] /\ keyOf \in [Inst -> SUBSET Key]
  /\ withdrawn \subseteq Inst /\ alive \subseteq Env
  /\ pc \in [Req -> {"start", "found", "queued", "awaiting", "purge", "done"}]
  /\ key \in [Req -> Key]
  /\ held \in [Req -> Inst \cup {NoInst}]
  /\ answer \in [Req -> Answer \cup {NoAnswer}]
  /\ outcome \in [Req -> [act : {"none", "continue", "respond", "fail"},
                         status : {NoStatus} \cup 100..999]]

(* A request goes on to its upstream only if its handler let it, if none    *)
(* was registered when it looked, or if the handler's environment is gone:  *)
(* a full queue, a throw, a rejection, or an answer that asks for something *)
(* unknown or for a status that is none, never lets a request pass. (An     *)
(* answer whose action is no string is one that lets it.)                   *)
OnlyLetThrough ==
  \A r \in Req : outcome[r] = Continue =>
    \/ held[r] = NoInst
    \/ ~OwnerLives(held[r])
    \/ answer[r].kind = "null"
    \/ answer[r].kind = "object" /\ answer[r].action \in {"absent", "continue"}

(* A response the middleware writes itself has a status HTTP can carry, and *)
(* is one the handler asked for.                                            *)
RespondsAsAsked ==
  \A r \in Req : outcome[r].act = "respond" =>
    /\ answer[r].action = "respond"
    /\ outcome[r].status \in 100..999
    /\ answer[r].status \in {NoStatus, outcome[r].status}

(* Once a request has been let through because its handler's environment is *)
(* gone, that handler is no longer registered: the next request does not    *)
(* meet it again.                                                           *)
DeadHandlerRemoved ==
  \A r \in Req :
    outcome[r] = Continue /\ held[r] # NoInst /\ answer[r] = NoAnswer
      => table[key[r]] # held[r]

(* A handler leaves the table only because JavaScript unregistered it or    *)
(* because the environment of some handler of the same key is gone; it is   *)
(* never replaced in place.                                                 *)
RemovedForCause ==
  [][\A k \in Key : table[k] # NoInst /\ table'[k] # table[k] =>
       /\ table'[k] = NoInst
       /\ table[k] \in withdrawn'
            \/ \E i \in Inst : k \in keyOf[i] /\ ~OwnerLives(i)]_vars

(* "Duplicate registration for the same key is rejected": two handlers that *)
(* JavaScript has not unregistered and whose environments run are never     *)
(* both accepted for one key.                                               *)
NoDuplicate ==
  \A k \in Key :
    Cardinality({i \in Inst \ withdrawn : k \in keyOf[i] /\ OwnerLives(i)}) <= 1

(* Every request gets a decision as long as handlers settle their promises. *)
EveryRequestDecided == \A r \in Req : <>(pc[r] = "done")
=============================================================================
