------------------------------- MODULE LeaseLock -------------------------------
(***************************************************************************)
(* What the queue lock of trainer/queue.go promises to the code that calls *)
(* it: "trainer should use this when pulling jobs, so that multiple        *)
(* trainers do not peek/submit the same job to lcm" (queue.go:233).        *)
(*                                                                         *)
(* The lock is one document in a mongo collection.  It names a queueID,    *)
(* one per trainer replica and queue, and not the goroutine that inserted  *)
(* it: the pulling goroutine of a replica and the replica's Delete         *)
(* handlers are the same owner.  Time is abstracted away: a lease that has *)
(* run out is a lock that somebody may take away (Expire).                 *)
(***************************************************************************)
CONSTANTS
    Goroutine,  \* the goroutines that call Lock and Unlock
    Owner,      \* the queueIDs
    QueueID,    \* the queueID that each goroutine uses
    NoOwner,    \* the lock collection is empty
    Overstay    \* may a lease run out while a goroutine still relies on it?

VARIABLES
    owner,      \* the queueID in the lock document, or NoOwner
    inside      \* the goroutines between a successful Lock and the end of Unlock

vars == <<owner, inside>>

Init ==
    /\ owner = NoOwner
    /\ inside = {}

(* Lock succeeds: the insert found no other document. *)
Acquire(p) ==
    /\ p \notin inside
    /\ owner = NoOwner
    /\ owner' = QueueID[p]
    /\ inside' = inside \cup {p}

(* The insert is applied, but the caller is told that it failed: the *)
(* document is there and nobody holds the lock.                      *)
AcquireLost(p) ==
    /\ owner = NoOwner
    /\ owner' = QueueID[p]
    /\ UNCHANGED inside

(* Unlock removes the document if it names the caller's queueID.  The   *)
(* removal may also fail, and the document then stays until it expires. *)
Release(p) ==
    /\ p \in inside
    /\ inside' = inside \ {p}
    /\ \/ owner' = owner
       \/ owner = QueueID[p] /\ owner' = NoOwner

(* An expired document is removed by whoever calls Lock next. *)
Expire ==
    /\ owner # NoOwner
    /\ Overstay \/ \A p \in inside : QueueID[p] # owner
    /\ owner' = NoOwner
    /\ UNCHANGED inside

(* The process that uses queueID o dies; its document stays. *)
Crash(o) ==
    /\ inside' = {p \in inside : QueueID[p] # o}
    /\ UNCHANGED owner

Next ==
    \/ \E p \in Goroutine : Acquire(p) \/ AcquireLost(p) \/ Release(p)
    \/ Expire
    \/ \E o \in Owner : Crash(o)

Spec == Init /\ [][Next]_vars

(* Two goroutines are never between Lock and Unlock at the same time.  This *)
(* is the reason queue.go has a lock; it needs leases that are long enough. *)
Mutex == \A p, q \in inside : p = q
================================================================================
