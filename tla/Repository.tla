------------------------------- MODULE Repository ------------------------------
(***************************************************************************)
(* The two mongo collections of trainer/repository.go: one document per    *)
(* training job, and the history of its status changes.                    *)
(*                                                                         *)
(* A training record is abstracted to its status and its deleted flag.     *)
(* Records are never removed; Delete overwrites them with deleted = TRUE   *)
(* and no query returns a record with that flag.  Store overwrites the     *)
(* whole document with the caller's copy, deleted = FALSE included.        *)
(***************************************************************************)
CONSTANTS
    Job,     \* training ids
    NoRec,   \* no document with that training id
    Faults   \* may calls of mongo and of the LCM fail?

VARIABLES
    rec,     \* the training_jobs collection
    history  \* the job_history collection: the statuses recorded per job

repoVars == <<rec, history>>

Status == {"NOT_STARTED", "PENDING", "DEPLOY", "DOWNLOADING", "PROCESSING", "STORING",
           "COMPLETED", "FAILED", "HALTED", "QUEUED"}

Record == [status : Status, deleted : BOOLEAN]

RepositoryTypeOK ==
    /\ rec \in [Job -> Record \cup {NoRec}]
    /\ history \in [Job -> SUBSET Status]

Live(s) == [status |-> s, deleted |-> FALSE]

(* Find returns a record; otherwise it returns ErrNotFound. *)
Found(j) == rec[j] # NoRec /\ ~rec[j].deleted

FoundQueued(j) == Found(j) /\ rec[j].status = "QUEUED"

Store(j, r) == rec' = [rec EXCEPT ![j] = r]

(* Store returns an error; the write may have been applied or not. *)
StoreFails(j, r) == Faults /\ rec' \in {rec, [rec EXCEPT ![j] = r]}

(* Wrong: the deleted flag is not set. *)
TombstoneUnmarked(r) == [status |-> r.status, deleted |-> FALSE]

(* The soft-deleted record that Delete writes keeps the status it has read. *)
Tombstone(r) == [status |-> r.status, deleted |-> TRUE]

RecordJobStatus(j, s) ==
    \/ history' = [history EXCEPT ![j] = @ \cup {s}]
    \/ Faults /\ UNCHANGED history
================================================================================
