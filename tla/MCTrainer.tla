------------------------------- MODULE MCTrainer -------------------------------
(* Instances of Trainer.  The request handlers all run on one replica, so that *)
(* they share its queueID with its puller and compete with the other replicas. *)
EXTENDS Trainer, TLC

CONSTANT frontend  \* the replica that serves the requests

ASSUME FrontendAssumption == frontend \in Replica

MCHome == [p \in Goroutine |-> IF p \in Replica THEN p ELSE frontend]

(* The jobs of the backlog, the others, and create requests are interchangeable. *)
MCSymmetry ==
    Permutations(Backlog) \cup Permutations(Job \ Backlog) \cup Permutations(Creator)
================================================================================
