--------------------------------- MODULE Service -------------------------------
(***************************************************************************)
(* One trainer process from NewService to StopTrainer (trainer_impl.go).   *)
(* It opens a mongo session for each repository and for each queue, starts *)
(* one puller per queue and serves requests.  On a signal StopTrainer      *)
(* stops the metrics ticker, closes the sessions and stops the pullers     *)
(* while pulls and requests may be going on.                               *)
(*                                                                         *)
(* Every operation on a repository or a queue clones its session first;    *)
(* the clone of a closed session panics.  The deferred calls of that       *)
(* goroutine run while the others go on, then the process ends.            *)
(*                                                                         *)
(* A call of mongo may fail, with or without effect; the error of an       *)
(* Unlock is ignored, so a lock document may stay until its lease ends.    *)
(***************************************************************************)
EXTENDS Naturals

CONSTANTS
    Queue,     \* the resource types that have a queue, ANY included
    Handler,   \* goroutines that serve DeleteTrainingJob
    None,      \* no goroutine, no queue
    Left       \* a lock document that no goroutine is going to remove

ASSUME ServiceAssumption ==
    /\ Queue \cap Handler = {}
    /\ {None, Left} \cap (Queue \cup Handler) = {} /\ None # Left
    /\ {"repo", "history"} \cap Queue = {}

VARIABLES
    boot,      \* what NewService does next
    open,      \* the mongo sessions that are open
    metrics,   \* the goroutine of the resettable metrics
    puller,    \* what the puller of each queue does next
    handler,   \* what each handler does next
    target,    \* the queue that a handler works on
    lock,      \* the goroutine of this process that holds each queue's lock
    stop,      \* what StopTrainer does next
    cur,       \* the queue that StopTrainer is about to stop
    alive      \* is the process running?

vars == <<boot, open, metrics, puller, handler, target, lock, stop, cur, alive>>

Session == {"repo", "history"} \cup Queue

(* A pull between the select and its end, and where it holds the lock. *)
Locked == {"peek", "find", "drop", "store", "dequeue", "unlock", "finish"}
Pulling == Locked \cup {"lock", "history"}

TypeOK ==
    /\ boot \in {"datastore", "repo", "history", "queues", "gpus", "up"}
    /\ open \in SUBSET Session
    /\ metrics \in {"waiting", "ticking", "stopped"}
    /\ puller \in [Queue -> {"off", "select", "stopped", "panic"} \cup Pulling]
    /\ handler \in [Handler -> {"idle", "get", "lock", "drop", "unlock", "delete"}]
    /\ target \in [Handler -> Queue \cup {None}]
    /\ lock \in [Queue -> Queue \cup Handler \cup {None, Left}]
    /\ stop \in {"no", "metrics", "repo", "history", "queues", "done"}
    /\ cur \in Queue \cup {None}
    /\ alive \in BOOLEAN

Init ==
    /\ boot = "datastore"
    /\ open = {}
    /\ metrics = "waiting"
    /\ puller = [q \in Queue |-> "off"]
    /\ handler = [h \in Handler |-> "idle"]
    /\ target = [h \in Handler |-> None]
    /\ lock = [q \in Queue |-> None]
    /\ stop = "no"
    /\ cur = None
    /\ alive = TRUE

stopVars == <<stop, cur>>
workVars == <<puller, handler, target, lock>>

--------------------------------------------------------------------------------
(* NewService                                                                *)

(* The object store is connected, if there is one, then the sessions are   *)
(* opened one after the other and the GPU limits are parsed.               *)
BootStep ==
    /\ alive
    /\ \/ boot = "datastore" /\ boot' = "repo" /\ UNCHANGED open
       \/ boot = "repo" /\ boot' = "history" /\ open' = open \cup {"repo"}
       \/ boot = "history" /\ boot' = "queues" /\ open' = open \cup {"history"}
       \/ /\ boot = "queues"
          /\ \/ \E q \in Queue \ open : open' = open \cup {q} /\ UNCHANGED boot
             \/ Queue \subseteq open /\ boot' = "gpus" /\ UNCHANGED open
    /\ UNCHANGED <<metrics, workVars, stopVars, alive>>

(* A step that fails calls Fatalf, which ends the process at once. *)
BootFails ==
    /\ alive
    /\ boot # "up"
    /\ alive' = FALSE
    /\ UNCHANGED <<boot, open, metrics, workVars, stopVars>>

(* StartQueues: one goroutine per queue. *)
StartQueues ==
    /\ alive
    /\ boot = "gpus"
    /\ boot' = "up"
    /\ puller' = [q \in Queue |-> "select"]
    /\ UNCHANGED <<open, metrics, handler, target, lock, stopVars, alive>>

--------------------------------------------------------------------------------
(* ResettableMetrics                                                         *)

(* Wrong: the goroutine returns without starting the one that ticks. *)
StartTickerOnly ==
    /\ alive
    /\ metrics = "waiting"
    /\ metrics' = "stopped"
    /\ UNCHANGED <<boot, open, workVars, stopVars, alive>>

(* At midnight the goroutine that waits is replaced by the one that ticks; *)
(* both receive from done.                                                 *)
StartTicker ==
    /\ alive
    /\ metrics = "waiting"
    /\ metrics' = "ticking"
    /\ UNCHANGED <<boot, open, workVars, stopVars, alive>>

--------------------------------------------------------------------------------
(* Pullers                                                                   *)

(* The session that the operation at location l clones. *)
SessionOf(q, l) ==
    CASE l \in {"find", "store"} -> "repo"
      [] l = "history" -> "history"
      [] OTHER -> q

(* The calls of a pull in which its lock stays as it is: where each is made *)
(* and where the pull goes on, depending on its outcome.                    *)
AfterCall ==
    {<<"peek", "find">>, <<"peek", "unlock">>,
     <<"find", "drop">>, <<"find", "store">>, <<"find", "unlock">>,
     <<"drop", "unlock">>,
     <<"store", "dequeue">>, <<"store", "unlock">>,
     <<"dequeue", "finish">>,
     <<"history", "lock">>, <<"history", "select">>}

(* The ticker fires. *)
PullTick(q) ==
    /\ alive
    /\ puller[q] = "select"
    /\ puller' = [puller EXCEPT ![q] = "lock"]
    /\ UNCHANGED <<boot, open, metrics, handler, target, lock, stopVars, alive>>

(* What a Lock that does not succeed does to the documents: nothing, as    *)
(* other replicas use the queue too, or its insert is applied although the *)
(* call fails.                                                             *)
GivesUp(q) ==
    \/ UNCHANGED lock
    \/ lock[q] = None /\ lock' = [lock EXCEPT ![q] = Left]

(* Lock. *)
PullLock(q) ==
    /\ alive
    /\ puller[q] = "lock" /\ q \in open
    /\ \/ /\ lock[q] = None
          /\ lock' = [lock EXCEPT ![q] = q]
          /\ puller' = [puller EXCEPT ![q] = "peek"]
       \/ GivesUp(q) /\ puller' = [puller EXCEPT ![q] = "select"]
    /\ UNCHANGED <<boot, open, metrics, handler, target, stopVars, alive>>

(* The lease of a document has run out, and a Lock of some replica removes it. *)
LockExpires(q) ==
    /\ alive
    /\ lock[q] # None
    /\ lock' = [lock EXCEPT ![q] = None]
    /\ UNCHANGED <<boot, open, metrics, puller, handler, target, stopVars, alive>>

(* A call of mongo and what the pull does with its outcome.  After a job was *)
(* submitted the next one is pulled without a tick.                          *)
PullCall(q) ==
    /\ alive
    /\ SessionOf(q, puller[q]) \in open
    /\ \E l \in Pulling \cup {"select"} :
         <<puller[q], l>> \in AfterCall /\ puller' = [puller EXCEPT ![q] = l]
    /\ UNCHANGED <<boot, open, metrics, handler, target, lock, stopVars, alive>>

(* Unlock removes the lock document of the replica, whichever of its     *)
(* goroutines has inserted it.  The call may fail, with or without effect. *)
Unlocks(q, g) ==
    \/ lock' = [lock EXCEPT ![q] = None]
    \/ lock' = [lock EXCEPT ![q] = IF @ = g THEN Left ELSE @]

(* The error of Unlock is ignored. *)
PullUnlock(q) ==
    /\ alive
    /\ puller[q] \in {"unlock", "finish"} /\ q \in open
    /\ Unlocks(q, q)
    /\ puller' = [puller EXCEPT ![q] = IF @ = "finish" THEN "history" ELSE "select"]
    /\ UNCHANGED <<boot, open, metrics, handler, target, stopVars, alive>>

(* The session is closed.  Under the lock the deferred function comes before *)
(* the end of the process.                                                   *)
PullPanic(q) ==
    /\ alive
    /\ puller[q] \in Pulling
    /\ SessionOf(q, puller[q]) \notin open
    /\ IF puller[q] \in Locked
       THEN puller' = [puller EXCEPT ![q] = "panic"] /\ UNCHANGED alive
       ELSE alive' = FALSE /\ UNCHANGED puller
    /\ UNCHANGED <<boot, open, metrics, handler, target, lock, stopVars>>

(* The deferred Unlock of a pull that panics; it panics in turn if the session *)
(* of the queue is closed.  Then the process ends.                             *)
PullDeferred(q) ==
    /\ alive
    /\ puller[q] = "panic"
    /\ IF q \in open THEN Unlocks(q, q) ELSE UNCHANGED lock
    /\ alive' = FALSE
    /\ UNCHANGED <<boot, open, metrics, puller, handler, target, stopVars>>

Pull(q) ==
    \/ PullTick(q) \/ PullLock(q) \/ PullCall(q) \/ PullUnlock(q)
    \/ PullPanic(q) \/ PullDeferred(q)

--------------------------------------------------------------------------------
(* Requests: DeleteTrainingJob uses both kinds of sessions                    *)

HandlerSession(h) == IF handler[h] \in {"get", "delete"} THEN "repo" ELSE target[h]

HandlerGoes(h, l) == handler' = [handler EXCEPT ![h] = l]

(* A request is served from the start of the server to StopTrainer's Stop. *)
Request(h, q) ==
    /\ alive
    /\ boot = "up" /\ stop # "done"
    /\ handler[h] = "idle"
    /\ HandlerGoes(h, "get")
    /\ target' = [target EXCEPT ![h] = q]
    /\ UNCHANGED <<boot, open, metrics, puller, lock, stopVars, alive>>

HandlerCall(h) ==
    /\ alive
    /\ handler[h] # "idle" /\ HandlerSession(h) \in open
    /\ \/ /\ handler[h] = "get"
          /\ \E l \in {"lock", "delete", "idle"} : HandlerGoes(h, l)
          /\ UNCHANGED lock
       \/ /\ handler[h] = "lock"
          /\ \/ /\ lock[target[h]] = None
                /\ lock' = [lock EXCEPT ![target[h]] = h]
                /\ HandlerGoes(h, "drop")
             \/ GivesUp(target[h]) /\ HandlerGoes(h, "delete")
       \/ handler[h] = "drop" /\ HandlerGoes(h, "unlock") /\ UNCHANGED lock
       \/ handler[h] = "unlock" /\ HandlerGoes(h, "delete") /\ Unlocks(target[h], h)
       \/ handler[h] = "delete" /\ HandlerGoes(h, "idle") /\ UNCHANGED lock
    /\ UNCHANGED <<boot, open, metrics, puller, target, stopVars, alive>>

(* The lock of a handler stays: its deferred Unlock needs the same session. *)
HandlerPanic(h) ==
    /\ alive
    /\ handler[h] # "idle" /\ HandlerSession(h) \notin open
    /\ alive' = FALSE
    /\ UNCHANGED <<boot, open, metrics, workVars, stopVars>>

--------------------------------------------------------------------------------
(* StopTrainer                                                               *)

(* A signal arrives. *)
Signal ==
    /\ alive
    /\ boot = "up" /\ stop = "no"
    /\ stop' = "metrics"
    /\ UNCHANGED <<boot, open, metrics, workVars, cur, alive>>

(* done is unbuffered: somebody has to receive. *)
StopMetrics ==
    /\ alive
    /\ stop = "metrics" /\ metrics \in {"waiting", "ticking"}
    /\ metrics' = "stopped"
    /\ stop' = "repo"
    /\ UNCHANGED <<boot, open, workVars, cur, alive>>

(* The sessions of the repositories are closed while the pullers still run. *)
CloseRepo ==
    /\ alive
    /\ \/ stop = "repo" /\ open' = open \ {"repo"} /\ stop' = "history"
       \/ stop = "history" /\ open' = open \ {"history"} /\ stop' = "queues"
    /\ UNCHANGED <<boot, metrics, workVars, cur, alive>>

(* The next queue, in the order in which Go ranges over the map. *)
NextQueue(q) ==
    /\ alive
    /\ stop = "queues" /\ cur = None /\ q \in open
    /\ cur' = q
    /\ UNCHANGED <<boot, open, metrics, workVars, stop, alive>>

(* Wrong: stopQueue has a buffer, so that the send does not wait. *)
StopQueueBuffered(q) ==
    /\ alive
    /\ cur = q /\ puller[q] \in Pulling \cup {"select"}
    /\ open' = open \ {q}
    /\ cur' = None
    /\ puller' = [puller EXCEPT ![q] = IF @ = "select" THEN "stopped" ELSE @]
    /\ UNCHANGED <<boot, metrics, handler, target, lock, stop, alive>>

(* stopQueue is unbuffered: the puller has to be at its select. *)
StopQueue(q) ==
    /\ alive
    /\ cur = q /\ puller[q] = "select"
    /\ puller' = [puller EXCEPT ![q] = "stopped"]
    /\ UNCHANGED <<boot, open, metrics, handler, target, lock, stop, cur, alive>>

CloseQueue(q) ==
    /\ alive
    /\ cur = q /\ puller[q] = "stopped"
    /\ open' = open \ {q}
    /\ cur' = None
    /\ UNCHANGED <<boot, metrics, workVars, stop, alive>>

(* Wrong: the server is stopped as soon as one queue is. *)
StopServerEarly ==
    /\ alive
    /\ stop = "queues" /\ cur = None /\ ~(Queue \subseteq open)
    /\ stop' = "done"
    /\ UNCHANGED <<boot, open, metrics, workVars, cur, alive>>

(* Stop: requests in progress are abandoned. *)
StopServer ==
    /\ alive
    /\ stop = "queues" /\ cur = None /\ Queue \cap open = {}
    /\ stop' = "done"
    /\ UNCHANGED <<boot, open, metrics, workVars, cur, alive>>

StopTrainer ==
    \/ StopMetrics \/ CloseRepo \/ StopServer
    \/ \E q \in Queue : NextQueue(q) \/ CloseQueue(q)

--------------------------------------------------------------------------------

Next ==
    \/ BootStep \/ BootFails \/ StartQueues \/ StartTicker \/ Signal
    \/ \E q \in Queue : Pull(q) \/ LockExpires(q) \/ StopQueue(q)
    \/ \E h \in Handler : HandlerCall(h) \/ HandlerPanic(h) \/ \E q \in Queue : Request(h, q)
    \/ StopTrainer

Spec == Init /\ [][Next]_vars

(* Every call returns (Lock gives up after its retries), and a select that *)
(* finds a tick and a stop ready takes the stop some time: it chooses at   *)
(* random.  Nothing is assumed of the signal, the requests or midnight.    *)
Fairness ==
    /\ WF_vars(StopTrainer)
    /\ \A q \in Queue :
         /\ WF_vars(\/ PullLock(q) \/ PullCall(q) \/ PullUnlock(q)
                    \/ PullPanic(q) \/ PullDeferred(q))
         /\ SF_vars(StopQueue(q))

FairSpec == Spec /\ Fairness

--------------------------------------------------------------------------------
(* A pull in progress has the session of its queue, whatever StopTrainer has *)
(* closed already: the rendezvous on stopQueue comes first.  This holds for   *)
(* the deferred Unlock of a pull that has panicked on the closed repository   *)
(* too, so that it can be tried at all.                                       *)
PullerHasQueue == \A q \in Queue : puller[q] \in Pulling \cup {"panic"} => q \in open

(* When StopTrainer returns, every puller has stopped, and none of them in  *)
(* the middle of a pull: a lock document that is still there belongs to a   *)
(* request or was left by a failed call.                                    *)
StoppedClean ==
    stop = "done" => \A q \in Queue : puller[q] = "stopped" /\ lock[q] # q

(* A shutdown ends: StopTrainer does not wait for ever for a puller or for the *)
(* metrics goroutine, at whatever point the signal finds them.                 *)
ShutdownEnds == stop # "no" ~> stop = "done" \/ ~alive
================================================================================
