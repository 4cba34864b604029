------------------------------ MODULE TrainerProofs ----------------------------
(***************************************************************************)
(* Proofs about the life of training jobs, for any number of replicas,     *)
(* requests and jobs.                                                      *)
(***************************************************************************)
EXTENDS Trainer, FiniteSetTheorems, TLAPS

(* Where a goroutine relies on having found an entry, a job or a record. *)
HasEntry(p) ==
    pc[p] \in {"deqRemove", "restamp", "reinsert", "refind", "dropRemove", "insert"}

HasJob(p) ==
    \/ pc[p] \in {"find", "ratelimit", "dequeue", "deqRemove", "restamp", "reinsert",
                  "refind", "finish", "history", "drop", "dropRemove", "store", "deploy",
                  "size", "stamp", "insert", "storeQueued", "storeFailed", "kill", "uFind",
                  "uStore", "uVerify", "uHist", "lock", "contended", "reFind", "upsert"}
    \/ p \in Deleter /\ pc[p] = "unlock"

LocalsOK ==
    \A p \in Goroutine :
        /\ HasEntry(p) => ent[p] \in Entry
        /\ HasJob(p) => job[p] \in Job
        /\ pc[p] = "upsert" => tr[p] \in Record

TypeInv == TypeOK /\ LocalsOK

(* What Store and Delete write are records. *)
LEMMA LiveRecord ==
    ASSUME NEW s \in Status
    PROVE  Live(s) \in Record /\ Live(s) # NoRec /\ Live(s).status = s
<1>1. Live(s) \in Record
  BY DEF Live, Record
<1>2. Live(s) # NoRec
  BY <1>1, TrainerAssumption
<1> QED
  BY <1>1, <1>2 DEF Live

(* A tombstone is a record with the deleted flag. *)
LEMMA TombstoneRecord ==
    ASSUME NEW t \in Record
    PROVE  Tombstone(t) \in Record /\ Tombstone(t) # NoRec /\ Tombstone(t).deleted
<1>1. Tombstone(t) \in Record
  BY DEF Tombstone, Record
<1>2. Tombstone(t) # NoRec
  BY <1>1, TrainerAssumption
<1> QED
  BY <1>1, <1>2 DEF Tombstone

(* The steps of the pullers keep the types. *)
LEMMA PullType ==
    ASSUME TypeInv, NEW r \in Replica, Pull(r)
    PROVE  TypeInv'
<1> USE TrainerAssumption DEF TypeInv, TypeOK, RepositoryTypeOK, LocalsOK, HasEntry, HasJob,
        Goroutine, Location, Goto, Return, repoVars, queueVars, lcmVars, localVars
<1>1. CASE PullLock(r)
  BY <1>1 DEF PullLock, Granted, Lock
<1>2. CASE LockLost(r)
  BY <1>2 DEF LockLost, Lock
<1>3. CASE PullPeek(r)
  BY <1>3 DEF PullPeek, Entry
<1>4. CASE PullFind(r)
  BY <1>4 DEF PullFind
<1>5. CASE PullAllowed(r) \/ PullRateLimited(r)
  BY <1>5 DEF PullAllowed, PullRateLimited
<1>6. CASE PullDequeue(r)
  BY <1>6 DEF PullDequeue
<1>7. CASE PullRemove(r)
  BY <1>7 DEF PullRemove, Remove
<1>8. CASE PullRestamp(r)
  BY <1>8 DEF PullRestamp, Entry
<1>9. CASE PullReinsert(r)
  BY <1>9 DEF PullReinsert, Insert
<1>10. CASE PullRefind(r)
  BY <1>10 DEF PullRefind
<1>11. CASE PullPanic(r)
  BY <1>11 DEF PullPanic, Die, Unlock, Status
<1>12. CASE PullFinish(r)
  BY <1>12 DEF PullFinish, Unlock
<1>13. CASE PullHistory(r)
  BY <1>13 DEF PullHistory, RecordJobStatus, Status
<1>14. CASE PullUnlock(r)
  BY <1>14 DEF PullUnlock, Unlock
<1> QED
  BY <1>1, <1>2, <1>3, <1>4, <1>5, <1>6, <1>7, <1>8, <1>9, <1>10, <1>11, <1>12, <1>13, <1>14
     DEF Pull

(* The operations that several goroutines share keep the types. *)
LEMMA SharedType ==
    ASSUME TypeInv, NEW p \in Goroutine,
           DropFind(p) \/ DropRemove(p) \/ Submit(p) \/ Update(p)
    PROVE  TypeInv'
<1> USE TrainerAssumption DEF TypeInv, TypeOK, RepositoryTypeOK, LocalsOK, HasEntry, HasJob,
        Location, Goto, Return, Answer, repoVars, queueVars, lcmVars, localVars
<1>1. CASE DropFind(p)
  BY <1>1 DEF DropFind, EntriesOf
<1>2. CASE DropRemove(p)
  BY <1>2 DEF DropRemove, Remove
<1>3. CASE SubmitStore(p)
  <2>1. Live("PENDING") \in Record
    BY LiveRecord DEF Status
  <2> QED
    BY <1>3, <2>1 DEF SubmitStore, SubmitFailed, Store, StoreFails
<1>4. CASE SubmitDeploy(p)
  BY <1>4 DEF SubmitDeploy, SubmitFailed, SubmitDone, Deploy
<1>5. CASE UpdateFind(p)
  BY <1>5 DEF UpdateFind
<1>6. CASE UpdateStore(p)
  <2>1. Live(req[p]) \in Record
    BY LiveRecord
  <2> QED
    BY <1>6, <2>1 DEF UpdateStore, Store, StoreFails
<1>7. CASE UpdateVerify(p)
  BY <1>7 DEF UpdateVerify
<1>8. CASE UpdateHistory(p)
  BY <1>8 DEF UpdateHistory, RecordJobStatus
<1> QED
  BY <1>1, <1>2, <1>3, <1>4, <1>5, <1>6, <1>7, <1>8 DEF Submit, Update

(* The steps of the request handlers, and those of no goroutine, keep the types. *)
LEMMA HandlerType ==
    ASSUME TypeInv,
           \/ \E c \in Creator : Create(c)
           \/ \E u \in Updater : UpdateBegin(u)
           \/ \E h \in Halter : HaltBegin(h) \/ HaltKill(h)
           \/ \E d \in Deleter : \/ DeleteBegin(d) \/ DeleteLock(d) \/ DeleteLockFails(d)
                                \/ DeleteUnlock(d) \/ DeleteFind(d) \/ DeleteUpsert(d)
           \/ \E k \in killPending : BackgroundKill(k)
           \/ LeaseExpires
           \/ \E r \in Replica : Crash(r)
    PROVE  TypeInv'
<1> USE TrainerAssumption DEF TypeInv, TypeOK, RepositoryTypeOK, LocalsOK, HasEntry, HasJob,
        Goroutine, Location, Goto, Return, Answer, repoVars, queueVars, lcmVars, localVars
<1>1. ASSUME NEW c \in Creator, CreateBegin(c) PROVE TypeInv'
  BY <1>1 DEF CreateBegin
<1>2. ASSUME NEW c \in Creator, CreateSize(c) PROVE TypeInv'
  BY <1>2 DEF CreateSize
<1>3. ASSUME NEW c \in Creator, CreateStamp(c) PROVE TypeInv'
  BY <1>3 DEF CreateStamp, Entry
<1>4. ASSUME NEW c \in Creator, CreateInsert(c) PROVE TypeInv'
  BY <1>4 DEF CreateInsert, Insert
<1>5. ASSUME NEW c \in Creator, CreateStore(c) PROVE TypeInv'
  <2>1. Live("QUEUED") \in Record /\ Live("FAILED") \in Record
    BY LiveRecord DEF Status
  <2> QED
    BY <1>5, <2>1 DEF CreateStore, Store, StoreFails
<1>6. ASSUME NEW u \in Updater, UpdateBegin(u) PROVE TypeInv'
  BY <1>6 DEF UpdateBegin
<1>7. ASSUME NEW h \in Halter, HaltBegin(h) PROVE TypeInv'
  BY <1>7 DEF HaltBegin, Status
<1>8. ASSUME NEW h \in Halter, HaltKill(h) PROVE TypeInv'
  BY <1>8 DEF HaltKill
<1>9. ASSUME NEW d \in Deleter, DeleteBegin(d) PROVE TypeInv'
  BY <1>9 DEF DeleteBegin
<1>10. ASSUME NEW d \in Deleter, DeleteLock(d) PROVE TypeInv'
  BY <1>10 DEF DeleteLock, Lock, Granted
<1>11. ASSUME NEW d \in Deleter, DeleteLockFails(d) PROVE TypeInv'
  BY <1>11 DEF DeleteLockFails, Lock, SpawnKill
<1>12. ASSUME NEW d \in Deleter, DeleteUnlock(d) PROVE TypeInv'
  BY <1>12 DEF DeleteUnlock, Unlock, SpawnKill
<1>13. ASSUME NEW d \in Deleter, DeleteFind(d) PROVE TypeInv'
  BY <1>13 DEF DeleteFind, Found
<1>14. ASSUME NEW d \in Deleter, DeleteUpsert(d) PROVE TypeInv'
  <2>1. Tombstone(tr[d]) \in Record
    BY <1>14, TombstoneRecord DEF DeleteUpsert
  <2> QED
    BY <1>14, <2>1 DEF DeleteUpsert, Store, StoreFails
<1>15. ASSUME NEW k \in killPending, BackgroundKill(k) PROVE TypeInv'
  BY <1>15 DEF BackgroundKill
<1>16. CASE LeaseExpires
  BY <1>16 DEF LeaseExpires
<1>17. ASSUME NEW r \in Replica, Crash(r) PROVE TypeInv'
  BY <1>17 DEF Crash, Die, Status
<1> QED
  BY <1>1, <1>2, <1>3, <1>4, <1>5, <1>6, <1>7, <1>8, <1>9, <1>10, <1>11, <1>12, <1>13,
     <1>14, <1>15, <1>16, <1>17 DEF Create

(* Every step keeps the types. *)
LEMMA TypeStep == TypeInv /\ [Next]_vars => TypeInv'
<1> SUFFICES ASSUME TypeInv, [Next]_vars PROVE TypeInv'
  OBVIOUS
<1>1. CASE Next
  BY <1>1, PullType, SharedType, HandlerType DEF Next, Delete, Goroutine
<1>2. CASE UNCHANGED vars
  BY <1>2 DEF vars, TypeInv, TypeOK, RepositoryTypeOK, LocalsOK, HasEntry, HasJob
<1> QED
  BY <1>1, <1>2

(* Initially, the backlog is stored and queued. *)
LEMMA TypeInit == Init => TypeInv
<1> SUFFICES ASSUME Init PROVE TypeInv
  OBVIOUS
<1>1. Cardinality(Backlog) \in Nat
  BY TrainerAssumption, FS_Subset, FS_CardinalityType
<1>2. Live("QUEUED") \in Record /\ "NOT_STARTED" \in Status \ {"QUEUED"}
  BY LiveRecord DEF Status
<1>3. queue \in SUBSET Entry
  BY <1>1, TrainerAssumption DEF Init, Entry
<1>4. RepositoryTypeOK
  BY <1>2, TrainerAssumption DEF Init, RepositoryTypeOK
<1> QED
  BY <1>1, <1>2, <1>3, <1>4, TrainerAssumption
     DEF Init, TypeInv, TypeOK, LocalsOK, HasEntry, HasJob, Location

(* Type correctness of the whole service.  It rests on LocalsOK: no goroutine ever *)
(* works on an entry, a job or a record that it has not found.                     *)
THEOREM TypeCorrect == Spec => []TypeOK
<1>1. TypeInv => TypeOK
  BY DEF TypeInv
<1> QED
  BY <1>1, TypeInit, TypeStep, PTL DEF Spec

--------------------------------------------------------------------------------
(***************************************************************************)
(* The queue lock.  As long as no lease runs out under a live holder, the  *)
(* lock document names the replica of whoever works under the lock, and    *)
(* only one goroutine does.  The second part is not implied by the first:  *)
(* the puller and the Delete handlers of a replica share a queueID.        *)
(***************************************************************************)
HolderOwns == \A p \in Goroutine : HoldsLock(p) => lockOwner = Home[p]

OneHolder == \A p, q \in Goroutine : HoldsLock(p) /\ HoldsLock(q) => p = q

LockInv == HolderOwns /\ OneHolder

(* No step lets a second goroutine in. *)
LEMMA LockStep ==
    ASSUME ~Overstay, TypeInv, LockInv, [Next]_vars
    PROVE  LockInv'
<1> USE TrainerAssumption DEF TypeInv, TypeOK, LockInv, HolderOwns, OneHolder, HoldsLock,
        Goroutine, Goto, Return, Answer, queueVars, localVars
<1>1. ASSUME NEW r \in Replica, PullLock(r) PROVE LockInv'
  BY <1>1 DEF PullLock, Granted, Lock
<1>2. ASSUME NEW r \in Replica, LockLost(r) PROVE LockInv'
  BY <1>2 DEF LockLost, Lock
<1>3. ASSUME NEW r \in Replica,
             \/ PullPeek(r) \/ PullFind(r) \/ PullAllowed(r) \/ PullRateLimited(r)
             \/ PullDequeue(r) \/ PullRemove(r) \/ PullRestamp(r) \/ PullReinsert(r)
             \/ PullRefind(r)
      PROVE LockInv'
  BY <1>3 DEF PullPeek, PullFind, PullAllowed, PullRateLimited, PullDequeue, PullRemove,
     PullRestamp, PullReinsert, PullRefind
<1>4. ASSUME NEW r \in Replica, PullPanic(r) PROVE LockInv'
  BY <1>4 DEF PullPanic, Die, Unlock
<1>5. ASSUME NEW r \in Replica, PullFinish(r) \/ PullUnlock(r) \/ PullHistory(r) PROVE LockInv'
  BY <1>5 DEF PullFinish, PullUnlock, PullHistory, Unlock
<1>6. ASSUME NEW p \in Replica \cup Deleter, DropFind(p) \/ DropRemove(p) PROVE LockInv'
  BY <1>6 DEF DropFind, DropRemove
<1>7. ASSUME NEW p \in Replica \cup Creator, Submit(p) PROVE LockInv'
  BY <1>7 DEF Submit, SubmitStore, SubmitDeploy, SubmitFailed, SubmitDone
<1>8. ASSUME NEW c \in Creator, Create(c) PROVE LockInv'
  BY <1>8 DEF Create, CreateBegin, CreateSize, CreateStamp, CreateInsert, CreateStore
<1>9. ASSUME NEW p \in Halter \cup Updater,
             Update(p) \/ UpdateBegin(p) \/ HaltBegin(p) \/ HaltKill(p)
      PROVE LockInv'
  BY <1>9 DEF Update, UpdateFind, UpdateStore, UpdateVerify, UpdateHistory, UpdateBegin,
     HaltBegin, HaltKill
<1>10. ASSUME NEW d \in Deleter, DeleteBegin(d) \/ DeleteFind(d) \/ DeleteUpsert(d) PROVE LockInv'
  BY <1>10 DEF DeleteBegin, DeleteFind, DeleteUpsert
<1>11. ASSUME NEW d \in Deleter, DeleteLock(d) PROVE LockInv'
  BY <1>11 DEF DeleteLock, Granted, Lock
<1>12. ASSUME NEW d \in Deleter, DeleteLockFails(d) PROVE LockInv'
  BY <1>12 DEF DeleteLockFails, SpawnKill, Lock
<1>13. ASSUME NEW d \in Deleter, DeleteUnlock(d) PROVE LockInv'
  BY <1>13 DEF DeleteUnlock, SpawnKill, Unlock
<1>14. ASSUME NEW k \in killPending, BackgroundKill(k) PROVE LockInv'
  BY <1>14 DEF BackgroundKill
<1>15. CASE LeaseExpires
  BY <1>15 DEF LeaseExpires
<1>16. ASSUME NEW r \in Replica, Crash(r) PROVE LockInv'
  BY <1>16 DEF Crash, Die
<1>17. CASE UNCHANGED vars
  BY <1>17 DEF vars
<1> QED
  BY <1>1, <1>2, <1>3, <1>4, <1>5, <1>6, <1>7, <1>8, <1>9, <1>10, <1>11, <1>12, <1>13,
     <1>14, <1>15, <1>16, <1>17 DEF Next, Pull, Delete

--------------------------------------------------------------------------------
(***************************************************************************)
(* Submission.  A goroutine that is going to call the LCM for a job is the *)
(* only one: pullers exclude each other by the lock; a puller and a create *)
(* request cannot meet on a job, because the request stores the record as  *)
(* PENDING before it calls the LCM and pullers pass over such a record.    *)
(* It takes the whole invariant to see that nothing ever stores QUEUED     *)
(* over a later status: only CreateTrainingJob stores QUEUED, for an id    *)
(* without a record, and the writers of stale copies change the status.    *)
(***************************************************************************)
Creating(c) == pc[c] \in {"size", "stamp", "insert", "storeQueued", "storeFailed", "store"}

FreshIds == \A j \in Job \ started : rec[j] = NoRec /\ deploys[j] = 0

CreatingFresh ==
    \A c \in Creator : Creating(c) =>
        job[c] \in started /\ rec[job[c]] = NoRec /\ deploys[job[c]] = 0

CreatorsApart ==
    \A c, d \in Creator :
        /\ Creating(c) \/ pc[c] = "deploy"
        /\ Creating(d) \/ pc[d] = "deploy"
        /\ job[c] = job[d]
        => c = d

PullingFresh ==
    \A r \in Replica : pc[r] \in {"ratelimit", "store"} =>
        rec[job[r]] # NoRec /\ deploys[job[r]] = 0

DeployingFresh ==
    \A p \in Replica \cup Creator : pc[p] = "deploy" =>
        rec[job[p]] # NoRec /\ ~FoundQueued(job[p]) /\ deploys[job[p]] = 0

DeployersApart ==
    \A c \in Creator, r \in Replica :
        pc[c] = "deploy" /\ pc[r] \in {"ratelimit", "store", "deploy"} => job[c] # job[r]

WritersFound ==
    \A p \in Halter \cup Updater \cup Deleter :
        pc[p] \in {"uStore", "upsert"} => rec[job[p]] # NoRec

JobInv ==
    /\ FreshIds
    /\ CreatingFresh
    /\ CreatorsApart
    /\ PullingFresh
    /\ DeployingFresh
    /\ DeployersApart
    /\ WritersFound
    /\ DeployedNotQueued
    /\ NoDoubleDeploy

(* The steps of the pullers outside submitJobToLCM keep the invariant. *)
LEMMA PullJobs ==
    ASSUME TypeInv, LockInv, JobInv, NEW r \in Replica, Pull(r)
    PROVE  JobInv'
<1> USE TrainerAssumption DEF TypeInv, TypeOK, RepositoryTypeOK, LocalsOK, HasJob,
        JobInv, FreshIds, Creating, CreatingFresh, CreatorsApart, PullingFresh, DeployingFresh,
        DeployersApart, WritersFound, DeployedNotQueued, NoDoubleDeploy, FoundQueued, Found,
        Goroutine, Goto, Return, repoVars, lcmVars, localVars
<1>1. CASE PullLock(r) \/ LockLost(r)
  BY <1>1 DEF PullLock, LockLost, Granted
<1>2. CASE PullPeek(r)
  BY <1>2 DEF PullPeek
<1>3. CASE PullFind(r)
  BY <1>3 DEF PullFind
<1>4. CASE PullAllowed(r) \/ PullRateLimited(r)
  BY <1>4 DEF PullAllowed, PullRateLimited
<1>5. CASE PullDequeue(r) \/ PullRemove(r) \/ PullRestamp(r) \/ PullReinsert(r) \/ PullRefind(r)
  BY <1>5 DEF PullDequeue, PullRemove, PullRestamp, PullReinsert, PullRefind
<1>6. CASE PullPanic(r)
  BY <1>6 DEF PullPanic, Die
<1>7. CASE PullFinish(r) \/ PullHistory(r) \/ PullUnlock(r)
  BY <1>7 DEF PullFinish, PullHistory, PullUnlock
<1> QED
  BY <1>1, <1>2, <1>3, <1>4, <1>5, <1>6, <1>7 DEF Pull

(* submitJobToLCM keeps the invariant. *)
LEMMA SubmitJobs ==
    ASSUME TypeInv, LockInv, JobInv, NEW p \in Replica \cup Creator, Submit(p)
    PROVE  JobInv'
<1> USE TrainerAssumption DEF TypeInv, TypeOK, RepositoryTypeOK, LocalsOK, HasJob,
        JobInv, FreshIds, Creating, CreatingFresh, CreatorsApart, PullingFresh, DeployingFresh,
        DeployersApart, WritersFound, DeployedNotQueued, NoDoubleDeploy, FoundQueued, Found,
        Goroutine, Goto, Return, repoVars, lcmVars, localVars
<1>a. \A q \in Replica : p \in Replica /\ pc[p] \in {"store", "deploy"}
          /\ pc[q] \in {"ratelimit", "store", "deploy"} => p = q
  BY DEF LockInv, OneHolder, HoldsLock
<1>b. Live("PENDING") # NoRec /\ Live("PENDING").status = "PENDING"
  BY LiveRecord DEF Status
<1>1. CASE SubmitStore(p)
  BY <1>1, <1>a, <1>b DEF SubmitStore, SubmitFailed, Store, StoreFails
<1>2. CASE SubmitDeploy(p)
  BY <1>2, <1>a DEF SubmitDeploy, SubmitFailed, SubmitDone, Deploy
<1> QED
  BY <1>1, <1>2 DEF Submit

(* CreateTrainingJob keeps the invariant. *)
LEMMA CreateJobs ==
    ASSUME TypeInv, JobInv, NEW c \in Creator, Create(c)
    PROVE  JobInv'
<1> USE TrainerAssumption DEF TypeInv, TypeOK, RepositoryTypeOK, LocalsOK, HasJob,
        JobInv, FreshIds, Creating, CreatingFresh, CreatorsApart, PullingFresh, DeployingFresh,
        DeployersApart, WritersFound, DeployedNotQueued, NoDoubleDeploy, FoundQueued, Found,
        Goroutine, Goto, Return, repoVars, lcmVars, localVars
<1>1. CASE CreateBegin(c)
  BY <1>1 DEF CreateBegin
<1>2. CASE CreateSize(c)
  BY <1>2 DEF CreateSize
<1>3. CASE CreateStamp(c) \/ CreateInsert(c)
  BY <1>3 DEF CreateStamp, CreateInsert
<1>4. CASE CreateStore(c)
  <2>1. Live("QUEUED") # NoRec /\ Live("FAILED") # NoRec
    BY LiveRecord DEF Status
  <2> QED
    BY <1>4, <2>1 DEF CreateStore, Store, StoreFails
<1> QED
  BY <1>1, <1>2, <1>3, <1>4 DEF Create

(* The update, halt and delete handlers, the background kills, expiring leases *)
(* and crashes keep the invariant.                                             *)
LEMMA OtherJobs ==
    ASSUME TypeInv, JobInv,
           \/ \E p \in Replica \cup Deleter : DropFind(p) \/ DropRemove(p)
           \/ \E u \in Updater : UpdateBegin(u) \/ Update(u)
           \/ \E h \in Halter : HaltBegin(h) \/ HaltKill(h) \/ Update(h)
           \/ \E d \in Deleter : \/ DeleteBegin(d) \/ DeleteLock(d) \/ DeleteLockFails(d)
                                \/ DeleteUnlock(d) \/ DeleteFind(d) \/ DeleteUpsert(d)
           \/ \E k \in killPending : BackgroundKill(k)
           \/ LeaseExpires
           \/ \E r \in Replica : Crash(r)
    PROVE  JobInv'
<1> USE TrainerAssumption DEF TypeInv, TypeOK, RepositoryTypeOK, LocalsOK, HasJob,
        JobInv, FreshIds, Creating, CreatingFresh, CreatorsApart, PullingFresh, DeployingFresh,
        DeployersApart, WritersFound, DeployedNotQueued, NoDoubleDeploy, FoundQueued, Found,
        Goroutine, Goto, Return, Answer, repoVars, lcmVars, localVars
<1>1. ASSUME NEW p \in Replica \cup Deleter, DropFind(p) \/ DropRemove(p) PROVE JobInv'
  BY <1>1 DEF DropFind, DropRemove
<1>2. ASSUME NEW u \in Updater, UpdateBegin(u) PROVE JobInv'
  BY <1>2 DEF UpdateBegin
<1>3. ASSUME NEW h \in Halter, HaltBegin(h) \/ HaltKill(h) PROVE JobInv'
  BY <1>3 DEF HaltBegin, HaltKill
<1>4. ASSUME NEW p \in Halter \cup Updater, UpdateFind(p) \/ UpdateVerify(p) \/ UpdateHistory(p)
      PROVE JobInv'
  BY <1>4 DEF UpdateFind, UpdateVerify, UpdateHistory
<1>5. ASSUME NEW p \in Halter \cup Updater, UpdateStore(p) PROVE JobInv'
  <2>1. Live(req[p]) # NoRec /\ Live(req[p]).status # "QUEUED"
    BY LiveRecord
  <2> QED
    BY <1>5, <2>1 DEF UpdateStore, Store, StoreFails
<1>6. ASSUME NEW d \in Deleter, DeleteBegin(d) PROVE JobInv'
  BY <1>6 DEF DeleteBegin
<1>7. ASSUME NEW d \in Deleter, DeleteLock(d) PROVE JobInv'
  BY <1>7 DEF DeleteLock, Granted
<1>8. ASSUME NEW d \in Deleter, DeleteLockFails(d) \/ DeleteUnlock(d) PROVE JobInv'
  BY <1>8 DEF DeleteLockFails, DeleteUnlock, SpawnKill
<1>9. ASSUME NEW d \in Deleter, DeleteFind(d) PROVE JobInv'
  BY <1>9 DEF DeleteFind
<1>10. ASSUME NEW d \in Deleter, DeleteUpsert(d) PROVE JobInv'
  <2>1. Tombstone(tr[d]) # NoRec /\ Tombstone(tr[d]).deleted
    BY <1>10, TombstoneRecord DEF DeleteUpsert
  <2> QED
    BY <1>10, <2>1 DEF DeleteUpsert, Store, StoreFails
<1>11. ASSUME NEW k \in killPending, BackgroundKill(k) PROVE JobInv'
  BY <1>11 DEF BackgroundKill
<1>12. CASE LeaseExpires
  BY <1>12 DEF LeaseExpires
<1>13. ASSUME NEW r \in Replica, Crash(r) PROVE JobInv'
  BY <1>13 DEF Crash, Die
<1> QED
  BY <1>1, <1>2, <1>3, <1>4, <1>5, <1>6, <1>7, <1>8, <1>9, <1>10, <1>11, <1>12, <1>13
     DEF Update

(* The invariant of the whole service. *)
TrainerInv == TypeInv /\ LockInv /\ JobInv

(* Every step keeps the invariant of the whole service. *)
LEMMA TrainerStep ==
    ASSUME ~Overstay, TrainerInv, [Next]_vars
    PROVE  TrainerInv'
<1>1. TypeInv' /\ LockInv'
  BY TypeStep, LockStep DEF TrainerInv
<1>2. CASE Next
  <2>1. JobInv'
    BY <1>2, PullJobs, SubmitJobs, CreateJobs, OtherJobs DEF Next, Delete, TrainerInv
  <2> QED
    BY <1>1, <2>1 DEF TrainerInv
<1>3. CASE UNCHANGED vars
  <2>1. JobInv'
    BY <1>3 DEF vars, TrainerInv, JobInv, FreshIds, Creating, CreatingFresh, CreatorsApart,
       PullingFresh, DeployingFresh, DeployersApart, WritersFound, DeployedNotQueued,
       NoDoubleDeploy, FoundQueued, Found
  <2> QED
    BY <1>1, <2>1 DEF TrainerInv
<1> QED
  BY <1>2, <1>3

(* The invariant of the whole service holds of every reachable state. *)
LEMMA TrainerInvariant == ASSUME ~Overstay PROVE Spec => []TrainerInv
<1>1. Init => TrainerInv
  <2> SUFFICES ASSUME Init PROVE TrainerInv
    OBVIOUS
  <2>1. LockInv
    BY TrainerAssumption DEF Init, LockInv, HolderOwns, OneHolder, HoldsLock, Goroutine
  <2>a. /\ \A j \in Job : deploys[j] = 0
        /\ \A p \in Goroutine : pc[p] = "idle"
        /\ \A j \in Job \ started : rec[j] = NoRec
    BY DEF Init
  <2>2. JobInv
    BY <2>a, TrainerAssumption DEF JobInv, FreshIds, Creating, CreatingFresh, CreatorsApart,
       PullingFresh, DeployingFresh, DeployersApart, WritersFound, DeployedNotQueued,
       NoDoubleDeploy, Goroutine
  <2> QED
    BY <2>1, <2>2, TypeInit DEF TrainerInv
<1>2. TrainerInv /\ [Next]_vars => TrainerInv'
  BY TrainerStep
<1> QED
  BY <1>1, <1>2, PTL DEF Spec

(* No job is submitted to the LCM twice: not by two replicas that pull it, not *)
(* by a puller and a create request, and not after crashes, failed calls whose *)
(* effect is unknown, or concurrent halts, updates and deletions.              *)
THEOREM SubmittedOnce == ASSUME ~Overstay PROVE Spec => []NoDoubleDeploy
<1>1. TrainerInv => NoDoubleDeploy
  BY DEF TrainerInv, JobInv
<1> QED
  BY <1>1, TrainerInvariant, PTL

(* A job that the LCM has accepted has a record that nobody sees as QUEUED. *)
THEOREM DeployedIsNotQueued == ASSUME ~Overstay PROVE Spec => []DeployedNotQueued
<1>1. TrainerInv => DeployedNotQueued
  BY DEF TrainerInv, JobInv
<1> QED
  BY <1>1, TrainerInvariant, PTL

(* Two goroutines never work on the queue under the lock at the same time. *)
THEOREM QueueIsExclusive == ASSUME ~Overstay PROVE Spec => []QueueMutex
<1>1. TrainerInv => QueueMutex
  BY DEF TrainerInv, LockInv, OneHolder, QueueMutex, Lease!Mutex, Inside
<1> QED
  BY <1>1, TrainerInvariant, PTL

(* A job that has left the status QUEUED, or has been deleted, is never visibly *)
(* QUEUED again, although updates write back copies that they have read before. *)
THEOREM NoRequeue == ASSUME ~Overstay PROVE Spec => NeverRequeued
<1> DEFINE Requeue == \E j \in Job : rec[j] # NoRec /\ ~FoundQueued(j) /\ FoundQueued(j)'
<1>1. ASSUME TrainerInv, Next, Requeue PROVE FALSE
  <2>1. PICK j \in Job : rec[j] # NoRec /\ ~FoundQueued(j) /\ FoundQueued(j)'
    BY <1>1
  <2>2. rec' # rec
    BY <2>1 DEF FoundQueued, Found
  <2> USE TrainerAssumption DEF FoundQueued, Found, TrainerInv, TypeInv, TypeOK, RepositoryTypeOK
  <2>3. ASSUME NEW p \in Goroutine, SubmitStore(p) PROVE FALSE
    <3>1. Live("PENDING").status = "PENDING"
      BY LiveRecord DEF Status
    <3> QED
      BY <1>1, <2>1, <2>3, <3>1 DEF SubmitStore, Store, StoreFails
  <2>4. ASSUME NEW c \in Creator, CreateStore(c) PROVE FALSE
    <3>1. rec[job[c]] = NoRec
      BY <1>1, <2>4 DEF CreateStore, JobInv, CreatingFresh, Creating
    <3> QED
      BY <1>1, <2>1, <2>4, <3>1 DEF CreateStore, Store, StoreFails
  <2>5. ASSUME NEW p \in Goroutine, UpdateStore(p) PROVE FALSE
    <3>1. Live(req[p]).status # "QUEUED"
      BY <1>1, LiveRecord
    <3> QED
      BY <1>1, <2>1, <2>5, <3>1 DEF UpdateStore, Store, StoreFails
  <2>6. ASSUME NEW d \in Deleter, DeleteUpsert(d) PROVE FALSE
    <3>1. Tombstone(tr[d]).deleted
      BY <1>1, <2>6, TombstoneRecord DEF LocalsOK, DeleteUpsert, Goroutine
    <3> QED
      BY <1>1, <2>1, <2>6, <3>1 DEF DeleteUpsert, Store, StoreFails
  <2>7. rec' = rec \/ (\E p \in Goroutine : SubmitStore(p) \/ UpdateStore(p))
        \/ (\E c \in Creator : CreateStore(c)) \/ (\E d \in Deleter : DeleteUpsert(d))
    BY <1>1 DEF Next, Goroutine, repoVars,
       Pull, PullLock, LockLost, PullPeek, PullFind, PullAllowed, PullRateLimited, PullDequeue,
       PullRemove, PullRestamp, PullReinsert, PullRefind, PullPanic, PullFinish, PullHistory,
       PullUnlock, DropFind, DropRemove, Submit, SubmitDeploy,
       Create, CreateBegin, CreateSize, CreateStamp, CreateInsert,
       Update, UpdateBegin, UpdateFind, UpdateVerify, UpdateHistory, HaltBegin, HaltKill,
       Delete, DeleteBegin, DeleteLock, DeleteLockFails, DeleteUnlock, DeleteFind,
       BackgroundKill, LeaseExpires, Crash
  <2> QED
    BY <2>2, <2>3, <2>4, <2>5, <2>6, <2>7
<1>2. TrainerInv /\ [Next]_vars =>
        [\A j \in Job : rec[j] # NoRec /\ ~FoundQueued(j) => ~FoundQueued(j)']_vars
  BY <1>1
<1> QED
  BY <1>2, TrainerInvariant, PTL DEF Spec, NeverRequeued

--------------------------------------------------------------------------------
(***************************************************************************)
(* The queue without a backlog.  An entry can only come from a create      *)
(* request that has found the queue non-empty, or from a Dequeue that has  *)
(* taken an entry out; neither can happen first.                           *)
(***************************************************************************)
NobodyInserts ==
    \A p \in Goroutine : pc[p] \notin {"deqRemove", "restamp", "reinsert", "stamp", "insert"}

EmptyInv == TypeInv /\ queue = {} /\ NobodyInserts

(* No step starts to insert an entry into an empty queue. *)
LEMMA EmptyStep ==
    ASSUME EmptyInv, [Next]_vars
    PROVE  queue' = {} /\ NobodyInserts'
<1> USE TrainerAssumption DEF EmptyInv, NobodyInserts, TypeInv, TypeOK, Goroutine, Goto, Return,
        Answer, queueVars, localVars
<1>1. ASSUME NEW r \in Replica, Pull(r) PROVE queue' = {} /\ NobodyInserts'
  BY <1>1 DEF Pull, PullLock, Granted, LockLost, PullPeek, PullFind, PullAllowed,
     PullRateLimited, PullDequeue, PullRemove, PullRestamp, PullReinsert, PullRefind, PullPanic,
     Die, PullFinish, PullHistory, PullUnlock
<1>2. ASSUME NEW p \in Replica \cup Deleter, DropFind(p) \/ DropRemove(p)
      PROVE  queue' = {} /\ NobodyInserts'
  BY <1>2 DEF DropFind, DropRemove, EntriesOf, Remove
<1>3. ASSUME NEW p \in Replica \cup Creator, Submit(p) PROVE queue' = {} /\ NobodyInserts'
  BY <1>3 DEF Submit, SubmitStore, SubmitDeploy, SubmitFailed, SubmitDone
<1>4. ASSUME NEW c \in Creator, CreateSize(c) PROVE queue' = {} /\ NobodyInserts'
  <2>1. Size = 0
    BY FS_EmptySet DEF Size
  <2> QED
    BY <1>4, <2>1 DEF CreateSize
<1>5. ASSUME NEW c \in Creator, CreateBegin(c) \/ CreateStamp(c) \/ CreateInsert(c) \/ CreateStore(c)
      PROVE  queue' = {} /\ NobodyInserts'
  BY <1>5 DEF CreateBegin, CreateStamp, CreateInsert, CreateStore
<1>6. ASSUME NEW p \in Halter \cup Updater,
             Update(p) \/ UpdateBegin(p) \/ HaltBegin(p) \/ HaltKill(p)
      PROVE  queue' = {} /\ NobodyInserts'
  BY <1>6 DEF Update, UpdateFind, UpdateStore, UpdateVerify, UpdateHistory, UpdateBegin,
     HaltBegin, HaltKill
<1>7. ASSUME NEW d \in Deleter,
             \/ DeleteBegin(d) \/ DeleteLock(d) \/ DeleteLockFails(d) \/ DeleteUnlock(d)
             \/ DeleteFind(d) \/ DeleteUpsert(d)
      PROVE  queue' = {} /\ NobodyInserts'
  BY <1>7 DEF DeleteBegin, DeleteLock, Granted, DeleteLockFails, DeleteUnlock, SpawnKill,
     DeleteFind, DeleteUpsert
<1>8. ASSUME NEW k \in killPending, BackgroundKill(k) PROVE queue' = {} /\ NobodyInserts'
  BY <1>8 DEF BackgroundKill
<1>9. CASE LeaseExpires
  BY <1>9 DEF LeaseExpires
<1>10. ASSUME NEW r \in Replica, Crash(r) PROVE queue' = {} /\ NobodyInserts'
  BY <1>10 DEF Crash, Die
<1>11. CASE UNCHANGED vars
  BY <1>11 DEF vars
<1> QED
  BY <1>1, <1>2, <1>3, <1>4, <1>5, <1>6, <1>7, <1>8, <1>9, <1>10, <1>11 DEF Next, Delete, Create

(* Without a backlog the service never queues a job, whatever fails: a job that *)
(* finds the queue empty is not checked against the ratelimiter, whose call in  *)
(* line 850 is commented out, and goes to the LCM.                              *)
THEOREM EmptyStaysEmpty == ASSUME Backlog = {} PROVE Spec => []QueueNeverUsed
<1>1. Init => EmptyInv
  BY TypeInit DEF Init, EmptyInv, NobodyInserts
<1>2. EmptyInv /\ [Next]_vars => EmptyInv'
  BY EmptyStep, TypeStep DEF EmptyInv
<1>3. EmptyInv => QueueNeverUsed
  BY DEF EmptyInv, NobodyInserts, QueueNeverUsed, Goroutine
<1> QED
  BY <1>1, <1>2, <1>3, PTL DEF Spec
================================================================================
