------------------------------- MODULE QueueLock -------------------------------
(***************************************************************************)
(* Lock and Unlock of trainer/queue.go, with the clocks they read.         *)
(*                                                                         *)
(* Lock tries at most LockRetries times to insert a document into the lock *)
(* collection; before each attempt it removes the documents that have      *)
(* expired by its own clock, and after a failed one it sleeps.  Every      *)
(* mongo call takes time, so the clock value that a call carries (the      *)
(* cutoff of RemoveAll, the expiry inserted) is sampled in a step of its   *)
(* own, before the step in which the call takes effect.                    *)
(***************************************************************************)
EXTENDS Integers, FiniteSets

CONSTANTS
    Goroutine,       \* goroutines that call Lock: pullers and Delete handlers
    Owner,           \* the queueIDs, one per replica
    QueueID,         \* the queueID of each goroutine's replica
    NoOwner,         \* no lock document
    LockRetries,     \* lockRetries (15)
    LockRetryDelay,  \* lockRetryDelay (5 s)
    LockExpiration,  \* lockExpiration (60 s)
    Skew,            \* how far the clock of each replica is ahead of true time
    MaxSkew,         \* the largest of these
    HoldBound,       \* longest time from the sampled expiry to the end of Unlock
    UniqueIndex,     \* did EnsureIndex succeed? its error is ignored
    Faulty,          \* may mongo calls fail?
    MaxTime          \* the runs stop the clock here

ASSUME ConstantsAssumption ==
    /\ QueueID \in [Goroutine -> Owner]
    /\ NoOwner \notin Owner
    /\ LockRetries \in Nat \ {0}
    /\ LockRetryDelay \in Nat
    /\ LockExpiration \in Nat
    /\ MaxSkew \in Nat
    /\ Skew \in [Owner -> 0 .. MaxSkew]
    /\ HoldBound \in Nat
    /\ UniqueIndex \in BOOLEAN
    /\ Faulty \in BOOLEAN
    /\ MaxTime \in Nat

VARIABLES
    now,      \* true time, in seconds
    locks,    \* the lock collection: documents [owner, expires]
    pc,       \* where each goroutine is in Lock
    attempt,  \* its loop counter i
    mark,     \* the time.Now() it works with or, asleep, the time it wakes
    beaten    \* ghost: was a document inserted during its call of Lock?

vars == <<now, locks, pc, attempt, mark, beaten>>

Document == [owner : Owner, expires : Int]

Location == {"idle",    \* not in Lock and not holding it
             "purge",   \* about to remove expired documents
             "stamp",   \* about to compute the expiry of its own document
             "insert",  \* about to insert that document
             "asleep",  \* in time.Sleep after a failed insert
             "held",    \* Lock returned nil; Unlock has not taken effect
             "dead"}    \* the replica has crashed

TypeOK ==
    /\ now \in 0 .. MaxTime
    /\ locks \subseteq Document
    /\ pc \in [Goroutine -> Location]
    /\ attempt \in [Goroutine -> 0 .. LockRetries - 1]
    /\ mark \in [Goroutine -> Nat]
    /\ beaten \in [Goroutine -> BOOLEAN]

Init ==
    /\ now = 0
    /\ locks = {}
    /\ pc = [p \in Goroutine |-> "idle"]
    /\ attempt = [p \in Goroutine |-> 0]
    /\ mark = [p \in Goroutine |-> 0]
    /\ beaten = [p \in Goroutine |-> FALSE]

(* The reading of p's clock when true time is t. *)
Clock(p, t) == t + Skew[QueueID[p]]

(* Lock returns, or its caller is gone: its local variables go out of scope. *)
LockReturns(p) ==
    /\ attempt' = [attempt EXCEPT ![p] = 0]
    /\ mark' = [mark EXCEPT ![p] = 0]

(* Lock is called: the loop begins, and samples the cutoff of RemoveAll. *)
CallLock(p) ==
    /\ pc[p] = "idle"
    /\ pc' = [pc EXCEPT ![p] = "purge"]
    /\ mark' = [mark EXCEPT ![p] = now]
    /\ beaten' = [beaten EXCEPT ![p] = FALSE]
    /\ UNCHANGED <<now, locks, attempt>>

(* Wrong: $lte for $lt. *)
RemoveExpiredInclusive(p) ==
    /\ pc[p] = "purge"
    /\ pc' = [pc EXCEPT ![p] = "stamp"]
    /\ locks' = {d \in locks : d.expires > Clock(p, mark[p])}
    /\ UNCHANGED <<now, attempt, mark, beaten>>

(* RemoveAll(expires < cutoff).  Its error is ignored. *)
RemoveExpired(p) ==
    /\ pc[p] = "purge"
    /\ pc' = [pc EXCEPT ![p] = "stamp"]
    /\ \/ locks' = {d \in locks : d.expires >= Clock(p, mark[p])}
       \/ Faulty /\ locks' = locks
    /\ UNCHANGED <<now, attempt, mark, beaten>>

(* Expires: time.Now().Add(lockExpiration * time.Second) *)
StampExpiry(p) ==
    /\ pc[p] = "stamp"
    /\ pc' = [pc EXCEPT ![p] = "insert"]
    /\ mark' = [mark EXCEPT ![p] = now]
    /\ UNCHANGED <<now, locks, attempt, beaten>>

(* Wrong: the retry delay for the expiration. *)
LockEntryShort(p) ==
    [owner |-> QueueID[p], expires |-> Clock(p, mark[p]) + LockRetryDelay]

LockEntry(p) ==
    [owner |-> QueueID[p], expires |-> Clock(p, mark[p]) + LockExpiration]

(* The unique index on the lock id lets one document in at a time. *)
InsertAllowed == locks = {} \/ ~UniqueIndex

AddDocument(p) ==
    /\ locks' = locks \cup {LockEntry(p)}
    /\ beaten' = [q \in Goroutine |-> TRUE]

(* The insert succeeds and Lock returns nil. *)
Insert(p) ==
    /\ pc[p] = "insert"
    /\ InsertAllowed
    /\ AddDocument(p)
    /\ pc' = [pc EXCEPT ![p] = "held"]
    /\ attempt' = [attempt EXCEPT ![p] = 0]
    /\ UNCHANGED <<now, mark>>

(* The insert fails: a duplicate key, or an error of mongo, which may come *)
(* after the document has been inserted.  The goroutine sleeps, also after *)
(* its last attempt.                                                       *)
InsertFails(p) ==
    /\ pc[p] = "insert"
    /\ \/ /\ ~InsertAllowed \/ Faulty
          /\ UNCHANGED <<locks, beaten>>
       \/ /\ InsertAllowed /\ Faulty
          /\ AddDocument(p)
    /\ pc' = [pc EXCEPT ![p] = "asleep"]
    /\ mark' = [mark EXCEPT ![p] = now + LockRetryDelay]
    /\ UNCHANGED <<now, attempt>>

(* Wrong: one attempt too many, and one too few. *)
MoreAttemptsLate(p) == attempt[p] + 1 <= LockRetries
MoreAttemptsEarly(p) == attempt[p] + 2 < LockRetries

MoreAttempts(p) == attempt[p] + 1 < LockRetries

(* The sleep ends and the loop goes round. *)
Retry(p) ==
    /\ pc[p] = "asleep"
    /\ now >= mark[p]
    /\ MoreAttempts(p)
    /\ pc' = [pc EXCEPT ![p] = "purge"]
    /\ attempt' = [attempt EXCEPT ![p] = @ + 1]
    /\ mark' = [mark EXCEPT ![p] = now]
    /\ UNCHANGED <<now, locks, beaten>>

(* The sleep after the last attempt ends and Lock returns lockErr. *)
GiveUp(p) ==
    /\ pc[p] = "asleep"
    /\ now >= mark[p]
    /\ ~MoreAttempts(p)
    /\ pc' = [pc EXCEPT ![p] = "idle"]
    /\ LockReturns(p)
    /\ UNCHANGED <<now, locks, beaten>>

(* Unlock removes one document with this replica's queueID, if there is one. *)
(* Its callers ignore the error, so a failed removal ends the hold as well.  *)
Unlock(p) ==
    /\ pc[p] = "held"
    /\ pc' = [pc EXCEPT ![p] = "idle"]
    /\ LET own == {d \in locks : d.owner = QueueID[p]} IN
       \/ \E d \in own : locks' = locks \ {d}
       \/ (own = {} \/ Faulty) /\ locks' = locks
    /\ LockReturns(p)
    /\ UNCHANGED <<now, beaten>>

(* A replica dies; nothing removes its document.  A restarted replica has *)
(* a new queueID and is another element of Owner.                         *)
Crash(o) ==
    /\ \E p \in Goroutine : QueueID[p] = o /\ pc[p] # "dead"
    /\ pc' = [p \in Goroutine |-> IF QueueID[p] = o THEN "dead" ELSE pc[p]]
    /\ UNCHANGED <<now, locks, attempt, mark, beaten>>

(* From the sample of the expiry on, p takes at most HoldBound seconds. *)
InTime(p) == pc[p] \in {"insert", "held"} => now < mark[p] + HoldBound

Tick ==
    /\ now < MaxTime
    /\ \A p \in Goroutine : InTime(p)
    /\ now' = now + 1
    /\ UNCHANGED <<locks, pc, attempt, mark, beaten>>

Next ==
    \/ \E p \in Goroutine :
         \/ CallLock(p)
         \/ RemoveExpired(p)
         \/ StampExpiry(p)
         \/ Insert(p)
         \/ InsertFails(p)
         \/ Retry(p)
         \/ GiveUp(p)
         \/ Unlock(p)
    \/ \E o \in Owner : Crash(o)
    \/ Tick

Spec == Init /\ [][Next]_vars

--------------------------------------------------------------------------------
(* The leases are long enough for what is done under the lock: the index  *)
(* exists and no clock can see a document expire before its holder leaves. *)
LeaseCoversHold == UniqueIndex /\ HoldBound + MaxSkew <= LockExpiration

(* The retries outlast a lease: whatever was in the collection when Lock was *)
(* called has expired, on every clock, by the last attempt.                  *)
RetriesOutlastLease ==
    ~Faulty /\ (LockRetries - 1) * LockRetryDelay > LockExpiration + MaxSkew

(* Two goroutines, of one replica or of two, never hold the queue at once.  *)
(* This is what lets pullJobFromQueue treat Peek, submit and Dequeue as one *)
(* step (queue.go:233).                                                     *)
Mutex == \A p, q \in Goroutine : pc[p] = "held" /\ pc[q] = "held" => p = q

(* Lock gives up only if somebody else was granted the lock during the call: *)
(* the document left behind by a crashed trainer, or one that outlived a     *)
(* failed Unlock, is always gone by the last of the LockRetries attempts.    *)
GiveUpOnlyIfContended == [][\A p \in Goroutine : GiveUp(p) => beaten[p]]_vars

(* The queueID in the lock document, and the goroutines that hold the lock. *)
DocumentOwner == IF locks = {} THEN NoOwner ELSE (CHOOSE d \in locks : TRUE).owner
Holders == {p \in Goroutine : pc[p] = "held"}

Lease == INSTANCE LeaseLock WITH
    Overstay <- FALSE, owner <- DocumentOwner, inside <- Holders

(* The lock with clocks implements the lock that its callers rely on: every *)
(* mongo call, clock tick and crash is a step of LeaseLock or leaves it     *)
(* alone, and no lease runs out under a goroutine that still holds it.      *)
LeaseSpec == Lease!Spec
================================================================================
