------------------------------ MODULE MCQueueLock ------------------------------
(* Instances of QueueLock: two replicas; the first has a puller and a Delete *)
(* handler, which share its queueID.                                         *)
EXTENDS QueueLock, TLC

CONSTANTS puller1, deleter1, puller2, queue1, queue2

MCGoroutine == {puller1, deleter1, puller2}
MCOwner == {queue1, queue2}
MCQueueID == (puller1 :> queue1) @@ (deleter1 :> queue1) @@ (puller2 :> queue2)
MCSkew == (queue1 :> 0) @@ (queue2 :> MaxSkew)
================================================================================
