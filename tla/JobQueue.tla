-------------------------------- MODULE JobQueue -------------------------------
(***************************************************************************)
(* The queue of one resource type in trainer/queue.go: a mongo collection  *)
(* of entries ordered by the time each was submitted, and the lock of that *)
(* queue as LeaseLock describes it.                                        *)
(*                                                                         *)
(* Enqueue reads the clock and then inserts; Dequeue and Delete find an    *)
(* entry and then remove it by its _id.  Each of these is two steps, in    *)
(* between which other trainers work on the same collection.               *)
(***************************************************************************)
EXTENDS Integers, FiniteSets

CONSTANTS
    Replica,   \* trainer replicas; each has one queueID for this queue
    NoOwner,   \* the lock collection is empty
    Overstay   \* may a lease run out while its holder still works under it?

VARIABLES
    queue,     \* the entries [job, submitted]
    clk,       \* the next value of time.Now(); no two submissions have the same
    lockOwner  \* the replica named by the lock document, or NoOwner

queueVars == <<queue, clk, lockOwner>>

(* Find(nil).Sort("submitted").One *)
Earliest(e) == e \in queue /\ \A f \in queue : e.submitted <= f.submitted

EntriesOf(j) == {e \in queue : e.job = j}

Insert(e) == queue' = queue \cup {e}

Remove(e) == queue' = queue \ {e}

Size == Cardinality(queue)

(* Wrong: a document of the caller's own replica counts as acquired. *)
LockReentrant(r) == lockOwner \in {NoOwner, r} /\ lockOwner' = r

Lock(r) == lockOwner = NoOwner /\ lockOwner' = r

(* Unlock removes the lock document if it names the replica. *)
Unlock(r) == lockOwner' = IF lockOwner = r THEN NoOwner ELSE lockOwner
================================================================================
