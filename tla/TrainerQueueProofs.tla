--------------------------- MODULE TrainerQueueProofs --------------------------
(***************************************************************************)
(* Proofs about the queue that the replicas share: how its lock is used,   *)
(* which entries it holds and how many.  They rest on the invariant that   *)
(* TrainerProofs establishes.                                              *)
(***************************************************************************)
EXTENDS TrainerProofs

(***************************************************************************)
(* The lock.  A step of the service is a step of LeaseLock, or it changes  *)
(* neither the lock document nor who works under the lock.                 *)
(***************************************************************************)

(* Each of these steps is one of LeaseLock's. *)
LEMMA LeaseSteps ==
    ASSUME NEW p \in Goroutine,
           Lease!Acquire(p) \/ Lease!AcquireLost(p) \/ Lease!Release(p)
    PROVE  [Lease!Next]_(Lease!vars)
  BY DEF Lease!Next

(* Every step of the service is one of LeaseLock or leaves the lock alone. *)
LEMMA LeaseStep ==
    ASSUME ~Overstay, TypeInv, LockInv, [Next]_vars
    PROVE  [Lease!Next]_(Lease!vars)
<1> DEFINE stutter == lockOwner' = lockOwner /\ Inside' = Inside
<1>a. stutter => [Lease!Next]_(Lease!vars)
  BY DEF Lease!vars
<1> USE TrainerAssumption DEF TypeInv, TypeOK, HoldsLock, Inside, Goroutine, Goto, Return, Answer,
        queueVars, localVars
<1>1. ASSUME NEW r \in Replica, PullLock(r) PROVE Lease!Acquire(r)
  BY <1>1 DEF PullLock, Granted, Lock, Lease!Acquire
<1>2. ASSUME NEW r \in Replica, LockLost(r) PROVE Lease!AcquireLost(r)
  BY <1>2 DEF LockLost, Lock, Lease!AcquireLost
<1>3. ASSUME NEW r \in Replica,
             \/ PullPeek(r) \/ PullFind(r) \/ PullAllowed(r) \/ PullRateLimited(r)
             \/ PullDequeue(r) \/ PullRemove(r) \/ PullRestamp(r) \/ PullReinsert(r)
             \/ PullRefind(r) \/ PullHistory(r)
      PROVE stutter
  BY <1>3 DEF PullPeek, PullFind, PullAllowed, PullRateLimited, PullDequeue, PullRemove,
     PullRestamp, PullReinsert, PullRefind, PullHistory
<1>4. ASSUME NEW r \in Replica, PullPanic(r) PROVE Lease!Release(r)
  <2>1. HoldsLock(r) /\ lockOwner = Home[r] /\ \A q \in Goroutine : HoldsLock(q) => q = r
    BY <1>4 DEF PullPanic, LockInv, HolderOwns, OneHolder
  <2>2. lockOwner' = NoOwner
    BY <1>4, <2>1 DEF PullPanic, Unlock
  <2>3. Inside = {r} /\ Inside' = {}
    BY <1>4, <2>1 DEF PullPanic, Die
  <2> QED
    BY <2>1, <2>2, <2>3 DEF Lease!Release
<1>5. ASSUME NEW r \in Replica, PullFinish(r) \/ PullUnlock(r) PROVE Lease!Release(r)
  BY <1>5 DEF PullFinish, PullUnlock, Unlock, Lease!Release
<1>6. ASSUME NEW p \in Replica \cup Deleter, DropFind(p) \/ DropRemove(p) PROVE stutter
  BY <1>6 DEF DropFind, DropRemove
<1>7. ASSUME NEW p \in Replica \cup Creator, Submit(p) PROVE stutter
  BY <1>7 DEF Submit, SubmitStore, SubmitDeploy, SubmitFailed, SubmitDone
<1>8. ASSUME NEW c \in Creator, Create(c) PROVE stutter
  BY <1>8 DEF Create, CreateBegin, CreateSize, CreateStamp, CreateInsert, CreateStore
<1>9. ASSUME NEW p \in Halter \cup Updater,
             Update(p) \/ UpdateBegin(p) \/ HaltBegin(p) \/ HaltKill(p)
      PROVE stutter
  BY <1>9 DEF Update, UpdateFind, UpdateStore, UpdateVerify, UpdateHistory, UpdateBegin,
     HaltBegin, HaltKill
<1>10. ASSUME NEW d \in Deleter, DeleteBegin(d) \/ DeleteFind(d) \/ DeleteUpsert(d) PROVE stutter
  BY <1>10 DEF DeleteBegin, DeleteFind, DeleteUpsert
<1>11. ASSUME NEW d \in Deleter, DeleteLock(d) PROVE Lease!Acquire(d)
  BY <1>11 DEF DeleteLock, Granted, Lock, Lease!Acquire
<1>12. ASSUME NEW d \in Deleter, DeleteLockFails(d) PROVE stutter \/ Lease!AcquireLost(d)
  BY <1>12 DEF DeleteLockFails, SpawnKill, Lock, Lease!AcquireLost
<1>13. ASSUME NEW d \in Deleter, DeleteUnlock(d) PROVE Lease!Release(d)
  BY <1>13 DEF DeleteUnlock, SpawnKill, Unlock, Lease!Release
<1>14. ASSUME NEW k \in killPending, BackgroundKill(k) PROVE stutter
  BY <1>14 DEF BackgroundKill
<1>15. ASSUME LeaseExpires PROVE Lease!Expire
  BY <1>15 DEF LeaseExpires, Lease!Expire
<1>16. ASSUME NEW r \in Replica, Crash(r) PROVE Lease!Crash(r)
  BY <1>16 DEF Crash, Die, Lease!Crash
<1>17. ASSUME UNCHANGED vars PROVE stutter
  BY <1>17 DEF vars
<1> HIDE DEF stutter
<1>18. (Lease!Expire \/ \E r \in Replica : Lease!Crash(r)) => [Lease!Next]_(Lease!vars)
  BY DEF Lease!Next
<1> QED
  BY <1>a, <1>1, <1>2, <1>3, <1>4, <1>5, <1>6, <1>7, <1>8, <1>9, <1>10, <1>11, <1>12, <1>13,
     <1>14, <1>15, <1>16, <1>17, <1>18, LeaseSteps DEF Next, Pull, Delete

(* The service uses the queue lock the way LeaseLock describes it: pullers and *)
(* Delete handlers, which share a queueID, work on the queue between a Lock    *)
(* that has succeeded and its Unlock only, also when they crash or panic.      *)
THEOREM UsesLeaseLock == ASSUME ~Overstay PROVE Spec => LeaseSpec
<1>1. Init => Lease!Init
  BY TrainerAssumption DEF Init, Lease!Init, Inside, HoldsLock, Goroutine
<1>2. TrainerInv /\ [Next]_vars => [Lease!Next]_(Lease!vars)
  BY LeaseStep DEF TrainerInv
<1> QED
  BY <1>1, <1>2, TrainerInvariant, PTL DEF Spec, LeaseSpec, Lease!Spec

--------------------------------------------------------------------------------
(***************************************************************************)
(* The history.  PENDING is recorded by a puller whose submission has been *)
(* accepted, and by an update when the LCM reports that status of a job it *)
(* has been given.                                                         *)
(***************************************************************************)
Submitted(r) ==
    pc[r] \in {"dequeue", "deqRemove", "restamp", "reinsert", "refind", "finish", "history"}

Updating(p) == pc[p] \in {"uFind", "uStore", "uVerify", "uHist"}

HistoryInv ==
    /\ \A r \in Replica : Submitted(r) => deploys[job[r]] > 0
    /\ \A u \in Updater : Updating(u) => deploys[job[u]] > 0
    /\ \A h \in Halter : Updating(h) \/ pc[h] = "kill" => req[h] = "HALTED"
    /\ PendingHistoryDeployed

(* Every step keeps the invariant of the history. *)
LEMMA HistoryStep ==
    ASSUME TypeInv, HistoryInv, [Next]_vars
    PROVE  HistoryInv'
<1> USE TrainerAssumption DEF TypeInv, TypeOK, RepositoryTypeOK, LocalsOK, HasJob, HistoryInv,
        Submitted, Updating, PendingHistoryDeployed, Goroutine, Goto, Return, Answer,
        repoVars, lcmVars, localVars
<1>1. ASSUME NEW r \in Replica,
             \/ PullLock(r) \/ LockLost(r) \/ PullPeek(r) \/ PullFind(r) \/ PullAllowed(r)
             \/ PullRateLimited(r) \/ PullDequeue(r) \/ PullRemove(r) \/ PullRestamp(r)
             \/ PullReinsert(r) \/ PullRefind(r) \/ PullFinish(r) \/ PullUnlock(r)
      PROVE HistoryInv'
  BY <1>1 DEF PullLock, Granted, LockLost, PullPeek, PullFind, PullAllowed, PullRateLimited,
     PullDequeue, PullRemove, PullRestamp, PullReinsert, PullRefind, PullFinish, PullUnlock
<1>2. ASSUME NEW r \in Replica, PullPanic(r) \/ Crash(r) PROVE HistoryInv'
  BY <1>2 DEF PullPanic, Crash, Die
<1>3. ASSUME NEW r \in Replica, PullHistory(r) PROVE HistoryInv'
  BY <1>3 DEF PullHistory, RecordJobStatus
<1>4. ASSUME NEW p \in Replica \cup Deleter, DropFind(p) \/ DropRemove(p) PROVE HistoryInv'
  BY <1>4 DEF DropFind, DropRemove
<1>5. ASSUME NEW p \in Replica \cup Creator, SubmitStore(p) PROVE HistoryInv'
  BY <1>5 DEF SubmitStore, SubmitFailed
<1>6. ASSUME NEW p \in Replica \cup Creator, SubmitDeploy(p) PROVE HistoryInv'
  BY <1>6 DEF SubmitDeploy, SubmitFailed, SubmitDone, Deploy
<1>7. ASSUME NEW c \in Creator, Create(c) PROVE HistoryInv'
  BY <1>7 DEF Create, CreateBegin, CreateSize, CreateStamp, CreateInsert, CreateStore
<1>8. ASSUME NEW u \in Updater, UpdateBegin(u) PROVE HistoryInv'
  BY <1>8 DEF UpdateBegin
<1>9. ASSUME NEW h \in Halter, HaltBegin(h) \/ HaltKill(h) PROVE HistoryInv'
  BY <1>9 DEF HaltBegin, HaltKill
<1>10. ASSUME NEW p \in Halter \cup Updater, UpdateFind(p) \/ UpdateStore(p) \/ UpdateVerify(p)
       PROVE HistoryInv'
  BY <1>10 DEF UpdateFind, UpdateStore, UpdateVerify
<1>11. ASSUME NEW p \in Halter \cup Updater, UpdateHistory(p) PROVE HistoryInv'
  BY <1>11 DEF UpdateHistory, RecordJobStatus
<1>12. ASSUME NEW d \in Deleter,
              \/ DeleteBegin(d) \/ DeleteLock(d) \/ DeleteLockFails(d) \/ DeleteUnlock(d)
              \/ DeleteFind(d) \/ DeleteUpsert(d)
       PROVE HistoryInv'
  BY <1>12 DEF DeleteBegin, DeleteLock, Granted, DeleteLockFails, DeleteUnlock, SpawnKill,
     DeleteFind, DeleteUpsert
<1>13. ASSUME NEW k \in killPending, BackgroundKill(k) PROVE HistoryInv'
  BY <1>13 DEF BackgroundKill
<1>14. CASE LeaseExpires
  BY <1>14 DEF LeaseExpires
<1>15. CASE UNCHANGED vars
  BY <1>15 DEF vars
<1> QED
  BY <1>1, <1>2, <1>3, <1>4, <1>5, <1>6, <1>7, <1>8, <1>9, <1>10, <1>11, <1>12, <1>13, <1>14,
     <1>15 DEF Next, Pull, Submit, Update, Delete

(* A job whose history says PENDING has been accepted by the LCM, whatever fails *)
(* and whatever statuses the LCM reports: a submission that fails is never       *)
(* recorded as one that has succeeded.                                           *)
THEOREM PendingMeansDeployed == Spec => []PendingHistoryDeployed
<1>1. Init => TypeInv /\ HistoryInv
  BY TypeInit, TrainerAssumption
     DEF Init, HistoryInv, Submitted, Updating, PendingHistoryDeployed, Goroutine
<1>2. TypeInv /\ HistoryInv /\ [Next]_vars => (TypeInv /\ HistoryInv)'
  BY TypeStep, HistoryStep
<1>3. HistoryInv => PendingHistoryDeployed
  BY DEF HistoryInv
<1> QED
  BY <1>1, <1>2, <1>3, PTL DEF Spec

--------------------------------------------------------------------------------
(***************************************************************************)
(* The entries.  An id is generated once, its create request makes one     *)
(* entry of it, and whoever takes an entry out of the queue to put it back *)
(* has really taken it out.  None of this needs the lock.                  *)
(***************************************************************************)
Carries(p) == pc[p] \in {"restamp", "reinsert", "insert"}

(* c has an id for which it has not made an entry yet. *)
Announced(c) == pc[c] \in {"size", "stamp"}

(* Job j has no entry in the queue or outside it. *)
NoEntryOf(j) ==
    /\ \A e \in queue : e.job # j
    /\ \A p \in Goroutine : Carries(p) => ent[p].job # j

EntriesApart == \A e, f \in queue : e.job = f.job => e = f

CarriedIsOut == \A p \in Goroutine, e \in queue : Carries(p) => ent[p].job # e.job

CarriersApart ==
    \A p, q \in Goroutine : Carries(p) /\ Carries(q) /\ ent[p].job = ent[q].job => p = q

AnnouncedApart ==
    \A c, d \in Creator : Announced(c) /\ Announced(d) /\ job[c] = job[d] => c = d

AnnouncedNoEntry == \A c \in Creator : Announced(c) => job[c] \in started /\ NoEntryOf(job[c])

FreshNoEntry == \A j \in Job \ started : NoEntryOf(j)

EntryInv ==
    /\ EntriesApart
    /\ CarriedIsOut
    /\ CarriersApart
    /\ AnnouncedApart
    /\ AnnouncedNoEntry
    /\ FreshNoEntry

(* A step that adds no entry, and lets nobody carry or announce one, keeps the *)
(* invariant of the entries.                                                   *)
LEMMA FewerEntries ==
    ASSUME EntryInv, queue' \subseteq queue, started' = started,
           \A p \in Goroutine : Carries(p)' => Carries(p) /\ ent'[p].job = ent[p].job,
           \A c \in Creator : Announced(c)' => Announced(c) /\ job'[c] = job[c]
    PROVE  EntryInv'
  BY DEF EntryInv, EntriesApart, CarriedIsOut, CarriersApart, AnnouncedApart, AnnouncedNoEntry,
     FreshNoEntry, NoEntryOf

(* Every step keeps the invariant of the entries. *)
LEMMA EntryStep ==
    ASSUME TypeInv, EntryInv, [Next]_vars
    PROVE  EntryInv'
<1> DEFINE fewer ==
      /\ queue' \subseteq queue /\ started' = started
      /\ \A p \in Goroutine : Carries(p)' => Carries(p) /\ ent'[p].job = ent[p].job
      /\ \A c \in Creator : Announced(c)' => Announced(c) /\ job'[c] = job[c]
<1>a. fewer => EntryInv'
  BY FewerEntries
<1> USE TrainerAssumption DEF TypeInv, TypeOK, LocalsOK, HasJob, HasEntry, Carries, Announced,
        Goroutine, Goto, Return, Answer, queueVars, localVars
<1>1. ASSUME NEW r \in Replica,
             \/ PullLock(r) \/ LockLost(r) \/ PullPeek(r) \/ PullFind(r) \/ PullAllowed(r)
             \/ PullRateLimited(r) \/ PullDequeue(r) \/ PullRefind(r) \/ PullFinish(r)
             \/ PullHistory(r) \/ PullUnlock(r)
      PROVE fewer
  BY <1>1 DEF PullLock, Granted, LockLost, PullPeek, PullFind, PullAllowed, PullRateLimited,
     PullDequeue, PullRefind, PullFinish, PullHistory, PullUnlock
<1>2. ASSUME NEW r \in Replica, PullPanic(r) \/ Crash(r) PROVE fewer
  BY <1>2 DEF PullPanic, Crash, Die
<1>3. ASSUME NEW r \in Replica, PullRestamp(r) PROVE fewer
  BY <1>3 DEF PullRestamp
<1>4. ASSUME NEW p \in Replica \cup Deleter, DropFind(p) \/ DropRemove(p) PROVE fewer
  BY <1>4 DEF DropFind, DropRemove, Remove
<1>5. ASSUME NEW p \in Replica \cup Creator, Submit(p) PROVE fewer
  BY <1>5 DEF Submit, SubmitStore, SubmitDeploy, SubmitFailed, SubmitDone
<1>6. ASSUME NEW c \in Creator, CreateSize(c) \/ CreateStore(c) PROVE fewer
  BY <1>6 DEF CreateSize, CreateStore
<1>7. ASSUME NEW p \in Halter \cup Updater,
             Update(p) \/ UpdateBegin(p) \/ HaltBegin(p) \/ HaltKill(p)
      PROVE fewer
  BY <1>7 DEF Update, UpdateFind, UpdateStore, UpdateVerify, UpdateHistory, UpdateBegin,
     HaltBegin, HaltKill
<1>8. ASSUME NEW d \in Deleter,
             \/ DeleteBegin(d) \/ DeleteLock(d) \/ DeleteLockFails(d) \/ DeleteUnlock(d)
             \/ DeleteFind(d) \/ DeleteUpsert(d)
      PROVE fewer
  BY <1>8 DEF DeleteBegin, DeleteLock, Granted, DeleteLockFails, DeleteUnlock, SpawnKill,
     DeleteFind, DeleteUpsert
<1>9. ASSUME NEW k \in killPending, BackgroundKill(k) PROVE fewer
  BY <1>9 DEF BackgroundKill
<1>10. ASSUME LeaseExpires PROVE fewer
  BY <1>10 DEF LeaseExpires
<1>11. ASSUME UNCHANGED vars PROVE fewer
  BY <1>11 DEF vars
<1> HIDE DEF fewer
<1>12. ASSUME NEW r \in Replica, PullRemove(r) PROVE EntryInv'
  BY <1>12 DEF PullRemove, Remove, EntryInv, EntriesApart, CarriedIsOut, CarriersApart,
     AnnouncedApart, AnnouncedNoEntry, FreshNoEntry, NoEntryOf
<1>13. ASSUME NEW r \in Replica, PullReinsert(r) PROVE EntryInv'
  BY <1>13 DEF PullReinsert, Insert, EntryInv, EntriesApart, CarriedIsOut, CarriersApart,
     AnnouncedApart, AnnouncedNoEntry, FreshNoEntry, NoEntryOf
<1>14. ASSUME NEW c \in Creator, CreateBegin(c) PROVE EntryInv'
  BY <1>14 DEF CreateBegin, EntryInv, EntriesApart, CarriedIsOut, CarriersApart,
     AnnouncedApart, AnnouncedNoEntry, FreshNoEntry, NoEntryOf
<1>15. ASSUME NEW c \in Creator, CreateStamp(c) PROVE EntryInv'
  BY <1>15 DEF CreateStamp, EntryInv, EntriesApart, CarriedIsOut, CarriersApart,
     AnnouncedApart, AnnouncedNoEntry, FreshNoEntry, NoEntryOf
<1>16. ASSUME NEW c \in Creator, CreateInsert(c) PROVE EntryInv'
  BY <1>16 DEF CreateInsert, Insert, EntryInv, EntriesApart, CarriedIsOut, CarriersApart,
     AnnouncedApart, AnnouncedNoEntry, FreshNoEntry, NoEntryOf
<1> QED
  BY <1>a, <1>1, <1>2, <1>3, <1>4, <1>5, <1>6, <1>7, <1>8, <1>9, <1>10, <1>11, <1>12, <1>13,
     <1>14, <1>15, <1>16 DEF Next, Pull, Create, Delete

(* The backlog has one entry for each of its jobs. *)
LEMMA EntryInit == Init => EntryInv
  BY TrainerAssumption DEF Init, EntryInv, EntriesApart, CarriedIsOut, CarriersApart,
     AnnouncedApart, AnnouncedNoEntry, FreshNoEntry, NoEntryOf, Carries, Announced, Goroutine

(* A set in which any two elements are equal has at most one. *)
LEMMA AtMostOne ==
    ASSUME NEW S, \A x, y \in S : x = y
    PROVE  \/ S = {} /\ Cardinality(S) = 0
           \/ S # {} /\ Cardinality(S) = 1
<1>1. CASE S = {}
  BY <1>1, FS_EmptySet
<1>2. CASE S # {}
  <2>1. PICK x \in S : TRUE
    BY <1>2
  <2>2. S = {x}
    BY <2>1
  <2> QED
    BY <2>2, FS_Singleton
<1> QED
  BY <1>1, <1>2

(* A job never has two entries, counting one that is on its way into the queue:   *)
(* not after a Dequeue of the wrong job, a failed insert or a crash, and not even *)
(* when a lease runs out under a puller that is still at work.                    *)
THEOREM EntriesAreUnique == Spec => []UniqueEntries
<1>1. Init => TypeInv /\ EntryInv
  BY TypeInit, EntryInit
<1>2. TypeInv /\ EntryInv /\ [Next]_vars => (TypeInv /\ EntryInv)'
  BY TypeStep, EntryStep
<1>3. EntryInv => UniqueEntries
  <2> SUFFICES ASSUME EntryInv, NEW j \in Job
               PROVE  Cardinality(EntriesOf(j)) + Cardinality(Carrying(j)) <= 1
    BY DEF UniqueEntries
  <2>1. /\ \A e, f \in EntriesOf(j) : e = f
        /\ \A p, q \in Carrying(j) : p = q
        /\ EntriesOf(j) = {} \/ Carrying(j) = {}
    BY DEF EntryInv, EntriesApart, CarriedIsOut, CarriersApart, Carries, EntriesOf, Carrying
  <2> QED
    BY <2>1, AtMostOne
<1> QED
  BY <1>1, <1>2, <1>3, PTL DEF Spec

--------------------------------------------------------------------------------
(***************************************************************************)
(* The length of the queue.  What counts against the bound is the entries  *)
(* in the queue, the create requests that have passed the size check and   *)
(* have not inserted their entry, and the entry that a puller is putting   *)
(* back.  A request that passes the check sees neither of the other two,   *)
(* and by the lock there is one puller at most that puts an entry back.    *)
(***************************************************************************)
Admitted == {c \in Creator : pc[c] \in {"stamp", "insert"}}

PutsBack(r) == pc[r] \in {"restamp", "reinsert"}

Taken == IF \E r \in Replica : PutsBack(r) THEN 1 ELSE 0

LengthInv ==
    /\ IsFiniteSet(queue)
    /\ Size + Cardinality(Admitted) + Taken <= QueueSizeLimit + Cardinality(Creator)

(* The sizes that the argument adds up are numbers. *)
LEMMA SizesAreNumbers ==
    ASSUME IsFiniteSet(Creator), IsFiniteSet(queue)
    PROVE  /\ Size \in Nat /\ Cardinality(Creator) \in Nat /\ Taken \in {0, 1}
           /\ IsFiniteSet(Admitted) /\ Cardinality(Admitted) \in Nat
           /\ Cardinality(Admitted) <= Cardinality(Creator)
<1>1. Admitted \in SUBSET Creator
  BY DEF Admitted
<1> QED
  BY <1>1, FS_Subset, FS_CardinalityType DEF Size, Taken

(* A step that adds no entry, admits no request and takes no entry out to put it *)
(* back keeps the bound.                                                         *)
LEMMA NotLonger ==
    ASSUME IsFiniteSet(Creator), LengthInv, queue' \subseteq queue, Admitted' \subseteq Admitted,
           \A r \in Replica : PutsBack(r)' => PutsBack(r)
    PROVE  LengthInv'
<1>1. IsFiniteSet(queue) /\ IsFiniteSet(Admitted)
  BY SizesAreNumbers DEF LengthInv
<1>2. IsFiniteSet(queue') /\ Cardinality(queue') <= Cardinality(queue)
      /\ Cardinality(queue') \in Nat /\ Cardinality(queue) \in Nat
  BY <1>1, FS_Subset, FS_CardinalityType
<1>3. Cardinality(Admitted') <= Cardinality(Admitted)
      /\ Cardinality(Admitted') \in Nat /\ Cardinality(Admitted) \in Nat
  BY <1>1, FS_Subset, FS_CardinalityType
<1>4. Taken' <= Taken /\ Taken' \in Nat /\ Taken \in Nat
  BY DEF Taken
<1>5. Cardinality(Creator) \in Nat /\ QueueSizeLimit \in Nat
  BY FS_CardinalityType, TrainerAssumption
<1> QED
  BY <1>2, <1>3, <1>4, <1>5 DEF LengthInv, Size

(* A step keeps the bound if it adds up: with what it puts into the queue or *)
(* takes out, admits or lets through, and puts back.                         *)
LEMMA AddsUp ==
    ASSUME IsFiniteSet(Creator), LengthInv, IsFiniteSet(queue'),
           Size' + Cardinality(Admitted') + Taken' <= Size + Cardinality(Admitted) + Taken
    PROVE  LengthInv'
<1>1. /\ Cardinality(queue') \in Nat /\ Cardinality(queue) \in Nat
      /\ Cardinality(Creator) \in Nat /\ QueueSizeLimit \in Nat
  BY FS_CardinalityType, TrainerAssumption DEF LengthInv
<1>2. Admitted \in SUBSET Creator /\ Admitted' \in SUBSET Creator
  BY DEF Admitted
<1>3. Cardinality(Admitted') \in Nat /\ Cardinality(Admitted) \in Nat
  BY <1>2, FS_Subset, FS_CardinalityType
<1>4. Taken' \in Nat /\ Taken \in Nat
  BY DEF Taken
<1> QED
  BY <1>1, <1>3, <1>4 DEF LengthInv, Size

(* A queue into which at most one entry is inserted grows by one at most. *)
LEMMA OneMore ==
    ASSUME NEW S, NEW T, NEW x, IsFiniteSet(S), T = S \/ T = S \cup {x}
    PROVE  /\ IsFiniteSet(T) /\ Cardinality(T) \in Nat /\ Cardinality(S) \in Nat
           /\ Cardinality(T) <= Cardinality(S) + 1
<1>1. Cardinality(S) \in Nat
  BY FS_CardinalityType
<1> QED
  BY <1>1, FS_AddElement

(* Every step keeps the bound. *)
LEMMA LengthStep ==
    ASSUME QueueSizeLimit > 0, IsFiniteSet(Creator), TypeInv, LockInv, LengthInv, [Next]_vars
    PROVE  LengthInv'
<1> DEFINE notLonger ==
      /\ queue' \subseteq queue /\ Admitted' \subseteq Admitted
      /\ \A r \in Replica : PutsBack(r)' => PutsBack(r)
<1>a. notLonger => LengthInv'
  BY NotLonger
<1>b. /\ IsFiniteSet(queue) /\ Cardinality(queue) \in Nat /\ Cardinality(Creator) \in Nat
      /\ IsFiniteSet(Admitted) /\ Cardinality(Admitted) \in Nat
      /\ QueueSizeLimit \in Nat /\ Taken \in {0, 1}
  BY SizesAreNumbers, TrainerAssumption DEF LengthInv, Size
<1>c. Taken' \in {0, 1}
  BY DEF Taken
<1> USE TrainerAssumption DEF TypeInv, TypeOK, PutsBack, Admitted, Goroutine, Goto, Return, Answer,
        queueVars, localVars
<1>1. ASSUME NEW r \in Replica,
             \/ PullLock(r) \/ LockLost(r) \/ PullPeek(r) \/ PullFind(r) \/ PullAllowed(r)
             \/ PullRateLimited(r) \/ PullDequeue(r) \/ PullRestamp(r) \/ PullRefind(r)
             \/ PullFinish(r) \/ PullHistory(r) \/ PullUnlock(r)
      PROVE notLonger
  BY <1>1 DEF PullLock, Granted, LockLost, PullPeek, PullFind, PullAllowed, PullRateLimited,
     PullDequeue, PullRestamp, PullRefind, PullFinish, PullHistory, PullUnlock
<1>2. ASSUME NEW r \in Replica, PullPanic(r) \/ Crash(r) PROVE notLonger
  BY <1>2 DEF PullPanic, Crash, Die
<1>3. ASSUME NEW p \in Replica \cup Deleter, DropFind(p) \/ DropRemove(p) PROVE notLonger
  BY <1>3 DEF DropFind, DropRemove, Remove
<1>4. ASSUME NEW p \in Replica \cup Creator, Submit(p) PROVE notLonger
  BY <1>4 DEF Submit, SubmitStore, SubmitDeploy, SubmitFailed, SubmitDone
<1>5. ASSUME NEW c \in Creator, CreateBegin(c) \/ CreateStamp(c) \/ CreateStore(c) PROVE notLonger
  BY <1>5 DEF CreateBegin, CreateStamp, CreateStore
<1>6. ASSUME NEW p \in Halter \cup Updater,
             Update(p) \/ UpdateBegin(p) \/ HaltBegin(p) \/ HaltKill(p)
      PROVE notLonger
  BY <1>6 DEF Update, UpdateFind, UpdateStore, UpdateVerify, UpdateHistory, UpdateBegin,
     HaltBegin, HaltKill
<1>7. ASSUME NEW d \in Deleter,
             \/ DeleteBegin(d) \/ DeleteLock(d) \/ DeleteLockFails(d) \/ DeleteUnlock(d)
             \/ DeleteFind(d) \/ DeleteUpsert(d)
      PROVE notLonger
  BY <1>7 DEF DeleteBegin, DeleteLock, Granted, DeleteLockFails, DeleteUnlock, SpawnKill,
     DeleteFind, DeleteUpsert
<1>8. ASSUME NEW k \in killPending, BackgroundKill(k) PROVE notLonger
  BY <1>8 DEF BackgroundKill
<1>9. ASSUME LeaseExpires PROVE notLonger
  BY <1>9 DEF LeaseExpires
<1>10. ASSUME UNCHANGED vars PROVE notLonger
  BY <1>10 DEF vars
<1> HIDE DEF notLonger, Admitted, PutsBack
<1>11. ASSUME NEW r \in Replica, PullRemove(r) PROVE LengthInv'
  <2>1. Admitted' = Admitted
    BY <1>11 DEF PullRemove, Admitted
  <2>2. CASE ent[r] \in queue /\ queue' = queue \ {ent[r]}
    <3>1. IsFiniteSet(queue') /\ Cardinality(queue') = Cardinality(queue) - 1
      BY <1>b, <2>2, FS_RemoveElement
    <3> QED
      BY <1>b, <1>c, <2>1, <3>1, AddsUp DEF Size
  <2>3. CASE ~(ent[r] \in queue /\ queue' = queue \ {ent[r]})
    <3>1. queue' \subseteq queue /\ pc'[r] = "finish"
      BY <1>11, <2>3 DEF PullRemove, Remove
    <3>2. notLonger
      BY <1>11, <2>1, <3>1 DEF PullRemove, notLonger, PutsBack
    <3> QED
      BY <1>a, <3>2
  <2> QED
    BY <2>2, <2>3
<1>12. ASSUME NEW r \in Replica, PullReinsert(r) PROVE LengthInv'
  <2>1. Admitted' = Admitted
    BY <1>12 DEF PullReinsert, Admitted
  <2>2. Taken = 1
    BY <1>12 DEF PullReinsert, Taken, PutsBack
  <2>3. ASSUME NEW q \in Replica PROVE ~PutsBack(q)'
    <3>1. PutsBack(q) => q = r
      BY <1>12 DEF PullReinsert, PutsBack, LockInv, OneHolder, HoldsLock
    <3> QED
      BY <1>12, <3>1 DEF PullReinsert, PutsBack
  <2>4. Taken' = 0
    BY <2>3 DEF Taken
  <2>5. queue' = queue \/ queue' = queue \cup {ent[r]}
    BY <1>12 DEF PullReinsert, Insert
  <2>6. /\ IsFiniteSet(queue') /\ Cardinality(queue') \in Nat
        /\ Cardinality(queue') <= Cardinality(queue) + 1
    BY <1>b, <2>5, OneMore
  <2> QED
    BY <1>b, <2>1, <2>2, <2>4, <2>6, AddsUp DEF Size
<1>13. ASSUME NEW c \in Creator, CreateInsert(c) PROVE LengthInv'
  <2>1. c \in Admitted /\ Admitted' = Admitted \ {c}
    BY <1>13 DEF CreateInsert, Admitted
  <2>2. Cardinality(Admitted') = Cardinality(Admitted) - 1
    BY <1>b, <2>1, FS_RemoveElement
  <2>3. Taken' = Taken
    BY <1>13 DEF CreateInsert, Taken, PutsBack
  <2>4. queue' = queue \/ queue' = queue \cup {ent[c]}
    BY <1>13 DEF CreateInsert, Insert
  <2>5. /\ IsFiniteSet(queue') /\ Cardinality(queue') \in Nat
        /\ Cardinality(queue') <= Cardinality(queue) + 1
    BY <1>b, <2>4, OneMore
  <2> QED
    BY <1>b, <2>2, <2>3, <2>5, AddsUp DEF Size
<1>14. ASSUME NEW c \in Creator, CreateSize(c) PROVE LengthInv'
  <2>1. queue' = queue /\ Taken' = Taken
    BY <1>14 DEF CreateSize, Taken, PutsBack
  <2>2. CASE pc'[c] = "stamp"
    <3>1. Size < QueueSizeLimit
      BY <1>14, <2>2, <1>b DEF CreateSize, QueueFull, SizeReturns, Size
    <3>2. Cardinality(Admitted') \in Nat /\ Cardinality(Admitted') <= Cardinality(Creator)
      <4>1. Admitted' \in SUBSET Creator
        BY DEF Admitted
      <4> QED
        BY <4>1, FS_Subset, FS_CardinalityType
    <3>3. Cardinality(queue) < QueueSizeLimit
      BY <3>1 DEF Size
    <3>4. Cardinality(queue') + Cardinality(Admitted') + Taken'
            <= QueueSizeLimit + Cardinality(Creator)
      BY <1>b, <1>c, <2>1, <3>2, <3>3
    <3> QED
      BY <1>b, <2>1, <3>4 DEF LengthInv, Size
  <2>3. CASE pc'[c] # "stamp"
    <3>1. notLonger
      BY <1>14, <2>1, <2>3 DEF CreateSize, notLonger, Admitted, PutsBack
    <3> QED
      BY <1>a, <3>1
  <2> QED
    BY <2>2, <2>3
<1> QED
  BY <1>a, <1>1, <1>2, <1>3, <1>4, <1>5, <1>6, <1>7, <1>8, <1>9, <1>10, <1>11, <1>12, <1>13,
     <1>14 DEF Next, Pull, Create, Delete

(* The backlog has as many entries as jobs, so it starts within the bound. *)
LEMMA LengthInit ==
    ASSUME Init, IsFiniteSet(Creator),
           Cardinality(Backlog) <= QueueSizeLimit + Cardinality(Creator)
    PROVE  LengthInv
<1>1. PICK order \in [Backlog -> 1 .. Cardinality(Backlog)] :
        queue = {[job |-> j, submitted |-> order[j]] : j \in Backlog}
  BY DEF Init
<1> DEFINE f == [j \in Backlog |-> [job |-> j, submitted |-> order[j]]]
<1>2. f \in Surjection(Backlog, queue)
  BY <1>1 DEF Surjection
<1>3. IsFiniteSet(Backlog) /\ Cardinality(Backlog) \in Nat /\ Cardinality(Creator) \in Nat
  BY TrainerAssumption, FS_Subset, FS_CardinalityType
<1>4. IsFiniteSet(queue) /\ Cardinality(queue) <= Cardinality(Backlog)
  BY <1>2, <1>3, FS_Surjection
<1>5. Admitted = {} /\ Taken = 0
  BY TrainerAssumption DEF Init, Admitted, Taken, PutsBack, Goroutine
<1>6. Cardinality(Admitted) = 0 /\ Cardinality(queue) \in Nat
  BY <1>4, <1>5, FS_EmptySet, FS_CardinalityType
<1> QED
  BY <1>3, <1>4, <1>5, <1>6, TrainerAssumption DEF LengthInv, Size

(* The queue never outgrows its limit by more than one entry for each create     *)
(* request that runs at the same time, if the backlog has not already: although  *)
(* Size is asked without the lock, and although a puller may put an entry back.  *)
THEOREM QueueIsBounded ==
    ASSUME ~Overstay, IsFiniteSet(Creator),
           Cardinality(Backlog) <= QueueSizeLimit + Cardinality(Creator)
    PROVE  Spec => []QueueBound
<1>1. CASE QueueSizeLimit > 0
  <2>1. Init => LengthInv
    BY LengthInit
  <2>2. TrainerInv /\ LengthInv /\ [Next]_vars => LengthInv'
    BY <1>1, LengthStep DEF TrainerInv
  <2>3. LengthInv => QueueBound
    <3> SUFFICES ASSUME LengthInv PROVE Size <= QueueSizeLimit + Cardinality(Creator)
      BY DEF QueueBound
    <3>1. /\ Size \in Nat /\ Cardinality(Creator) \in Nat /\ Taken \in {0, 1}
          /\ Cardinality(Admitted) \in Nat /\ QueueSizeLimit \in Nat
      BY SizesAreNumbers, TrainerAssumption DEF LengthInv
    <3> QED
      BY <3>1 DEF LengthInv
  <2> QED
    BY <2>1, <2>2, <2>3, TrainerInvariant, PTL DEF Spec
<1>2. CASE ~(QueueSizeLimit > 0)
  <2>1. QueueBound
    BY <1>2 DEF QueueBound
  <2> QED
    BY <2>1, PTL
<1> QED
  BY <1>1, <1>2
================================================================================
