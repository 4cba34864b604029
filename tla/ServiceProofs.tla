------------------------------ MODULE ServiceProofs ----------------------------
(***************************************************************************)
(* Proofs about the start and the stop of a trainer process, for any sets  *)
(* of queues and handlers.                                                 *)
(*                                                                         *)
(* The order in which StopTrainer works is what the argument rests on: the *)
(* session of a queue is closed only after the rendezvous with its puller, *)
(* and that happens at the puller's select, where it holds no lock.        *)
(***************************************************************************)
EXTENDS Service, TLAPS

(* What StopTrainer may have done at each point of the process's life. *)
Phases ==
    /\ boot = "gpus" => Queue \subseteq open
    /\ stop # "no" => boot = "up"
    /\ cur # None => stop = "queues"
    /\ stop = "done" => Queue \cap open = {}
    /\ \A q \in Queue : puller[q] = "off" <=> boot # "up"

(* A puller that has not been stopped has its session. *)
PullerOpen ==
    \A q \in Queue : puller[q] \in Pulling \cup {"select", "panic"} => q \in open

(* A puller holds the lock only in the middle of a pull, up to the deferred *)
(* Unlock of a pull that panics.                                            *)
LockInPull ==
    \A q \in Queue : lock[q] = q => puller[q] \in Locked \cup {"panic"}

IInv == TypeOK /\ Phases /\ PullerOpen /\ LockInPull

(* A call in a pull leads from a step under the lock to a step under the    *)
(* lock, and from the store of the history to the next pull or the select.  *)
LEMMA AfterCallSteps ==
    ASSUME NEW l, NEW k, <<l, k>> \in AfterCall
    PROVE  /\ l \in Pulling
           /\ l \in Locked => k \in Locked
           /\ l \notin Locked => k \in {"lock", "select"}
BY DEF AfterCall, Pulling, Locked

LEMMA InitIInv == Init => IInv
BY ServiceAssumption DEF Init, IInv, TypeOK, Phases, PullerOpen, LockInPull, Pulling, Locked, Session

(* The invariant without the steps of the pullers. *)
LEMMA OthersKeepIInv ==
    ASSUME IInv,
           BootStep \/ BootFails \/ StartQueues \/ StartTicker \/ Signal \/ StopTrainer
             \/ (\E q \in Queue : StopQueue(q) \/ LockExpires(q))
             \/ (\E h \in Handler : HandlerCall(h) \/ HandlerPanic(h)
                                      \/ \E q \in Queue : Request(h, q))
    PROVE  IInv'
<1> USE ServiceAssumption DEF IInv, TypeOK, Phases, PullerOpen, LockInPull, Session, workVars, stopVars
<1>1. CASE BootStep
    <2>1. /\ open \subseteq open' /\ open' \in SUBSET Session
          /\ boot # "up" /\ boot' # "up" /\ (boot' = "gpus" => Queue \subseteq open')
          /\ boot' \in {"repo", "history", "queues", "gpus"}
        BY <1>1 DEF BootStep
    <2> QED BY <1>1, <2>1 DEF BootStep
<1>2. CASE BootFails
    BY <1>2 DEF BootFails
<1>3. CASE StartQueues
    BY <1>3 DEF StartQueues, Pulling, Locked
<1>4. CASE StartTicker
    BY <1>4 DEF StartTicker
<1>5. CASE Signal
    BY <1>5 DEF Signal
<1>6. CASE StopMetrics
    BY <1>6 DEF StopMetrics
<1>7. CASE CloseRepo
    BY <1>7 DEF CloseRepo
<1>8. CASE StopServer
    BY <1>8 DEF StopServer
<1>9. ASSUME NEW q \in Queue, NextQueue(q) PROVE IInv'
    BY <1>9 DEF NextQueue
<1>10. ASSUME NEW q \in Queue, CloseQueue(q) PROVE IInv'
    BY <1>10 DEF CloseQueue, Pulling, Locked
<1>11. ASSUME NEW q \in Queue, StopQueue(q) PROVE IInv'
    BY <1>11 DEF StopQueue, Pulling, Locked
<1>12. ASSUME NEW h \in Handler, HandlerCall(h) PROVE IInv'
    BY <1>12 DEF HandlerCall, HandlerGoes, GivesUp, Unlocks
<1>13. ASSUME NEW h \in Handler, HandlerPanic(h) PROVE IInv'
    BY <1>13 DEF HandlerPanic
<1>14. ASSUME NEW h \in Handler, NEW q \in Queue, Request(h, q) PROVE IInv'
    BY <1>14 DEF Request, HandlerGoes
<1>15. ASSUME NEW q \in Queue, LockExpires(q) PROVE IInv'
    BY <1>15 DEF LockExpires
<1> QED
    BY <1>15, <1>1, <1>2, <1>3, <1>4, <1>5, <1>6, <1>7, <1>8, <1>9, <1>10, <1>11, <1>12, <1>13, <1>14
    DEF StopTrainer

LEMMA PullKeepsIInv ==
    ASSUME IInv, NEW q \in Queue, Pull(q)
    PROVE  IInv'
<1> USE ServiceAssumption DEF IInv, TypeOK, Phases, PullerOpen, LockInPull, stopVars
<1>1. CASE PullTick(q)
    BY <1>1 DEF PullTick, Pulling, Locked
<1>2. CASE PullLock(q)
    BY <1>2 DEF PullLock, GivesUp, Pulling, Locked
<1>3. CASE PullCall(q)
    <2> PICK l \in Pulling \cup {"select"} :
               <<puller[q], l>> \in AfterCall /\ puller' = [puller EXCEPT ![q] = l]
        BY <1>3 DEF PullCall
    <2>1. /\ puller[q] \in Pulling
          /\ puller[q] \in Locked => l \in Locked
          /\ puller[q] \notin Locked => l \in {"lock", "select"}
        BY AfterCallSteps
    <2> QED BY <1>3, <2>1 DEF PullCall, Pulling, Locked
<1>4. CASE PullUnlock(q)
    <2>1. /\ puller[q] \in {"unlock", "finish"} /\ q \in open
          /\ \/ puller' = [puller EXCEPT ![q] = "history"]
             \/ puller' = [puller EXCEPT ![q] = "select"]
        BY <1>4 DEF PullUnlock
    <2>2. /\ lock' \in [Queue -> Queue \cup Handler \cup {None, Left}]
          /\ lock'[q] # q
          /\ \A r \in Queue \ {q} : lock'[r] = lock[r]
        BY <1>4 DEF PullUnlock, Unlocks
    <2> QED BY <1>4, <2>1, <2>2 DEF PullUnlock, Pulling, Locked
<1>5. CASE PullPanic(q)
    <2>1. CASE puller[q] \in Locked
        <3>1. puller' = [puller EXCEPT ![q] = "panic"] /\ alive' = alive /\ q \in open
            BY <1>5, <2>1 DEF PullPanic, Pulling
        <3> QED BY <1>5, <2>1, <3>1 DEF PullPanic, Pulling, Locked
    <2>2. CASE puller[q] \notin Locked
        <3>1. puller' = puller /\ alive' = FALSE
            BY <1>5, <2>2 DEF PullPanic
        <3> QED BY <1>5, <3>1 DEF PullPanic
    <2> QED BY <2>1, <2>2
<1>6. CASE PullDeferred(q)
    <2>1. /\ lock' \in [Queue -> Queue \cup Handler \cup {None, Left}]
          /\ \A r \in Queue : lock'[r] = r => lock[r] = r
        BY <1>6 DEF PullDeferred, Unlocks
    <2> QED BY <1>6, <2>1 DEF PullDeferred
<1> QED BY <1>1, <1>2, <1>3, <1>4, <1>5, <1>6 DEF Pull

(* The type invariant and what the shutdown rests on hold in every run of a *)
(* trainer process.                                                         *)
THEOREM Invariance == Spec => []IInv
<1>1. IInv /\ [Next]_vars => IInv'
    <2> SUFFICES ASSUME IInv, [Next]_vars PROVE IInv'
        OBVIOUS
    <2>1. CASE Next
        BY <2>1, OthersKeepIInv, PullKeepsIInv DEF Next
    <2>2. CASE UNCHANGED vars
        BY <2>2 DEF vars, IInv, TypeOK, Phases, PullerOpen, LockInPull
    <2> QED BY <2>1, <2>2
<1> QED BY InitIInv, <1>1, PTL DEF Spec

(* A pull in progress, and one whose panic has not ended the process yet,  *)
(* has the session of its queue: the deferred Unlock (trainer_impl.go:557) *)
(* never meets a closed one.                                               *)
THEOREM PullersHaveQueues == Spec => []PullerHasQueue
<1>1. IInv => PullerHasQueue
    BY DEF IInv, PullerOpen, PullerHasQueue
<1> QED BY Invariance, <1>1, PTL

(* When StopTrainer returns, every puller has stopped between two pulls; a *)
(* document of its lock can only be one that a failed call has left.       *)
THEOREM StopsCleanly == Spec => []StoppedClean
<1>1. IInv => StoppedClean
    BY DEF IInv, TypeOK, Phases, PullerOpen, LockInPull, StoppedClean, Pulling, Locked
<1> QED BY Invariance, <1>1, PTL
================================================================================
