--------------------------------- MODULE Trainer -------------------------------
(***************************************************************************)
(* The life of training jobs in trainer/trainer_impl.go.  Several replicas *)
(* of the trainer share the mongo collections of Repository and JobQueue   *)
(* and one LCM, which runs the jobs.  Each replica has a goroutine that    *)
(* pulls jobs from the queue, and serves create, update, halt and delete   *)
(* requests in goroutines of their own.                                    *)
(*                                                                         *)
(* Every call of mongo, the LCM or the ratelimiter is one step; what a     *)
(* goroutine has read stays in its local variables (job, tr, ent) while    *)
(* the other goroutines go on.                                             *)
(***************************************************************************)
EXTENDS Repository, JobQueue

CONSTANTS
    Backlog,         \* jobs that an earlier release has left in the queue
    Creator,         \* goroutines for CreateTrainingJob; each serves many requests
    Halter,          \* goroutines for HaltTrainingJob, one request each
    Deleter,         \* goroutines for DeleteTrainingJob, one request each
    Updater,         \* goroutines for UpdateTrainingJob, one request each
    Home,            \* the replica on which a goroutine runs
    UpdateStatus,    \* the statuses that the LCM reports
    QueueSizeLimit,  \* the configured limit; 0 is no limit
    MaxCrashes,      \* how many replicas may be killed
    NoJob, NoEntry   \* absent values

Goroutine == Replica \cup Creator \cup Halter \cup Deleter \cup Updater

ASSUME TrainerAssumption ==
    /\ Backlog \subseteq Job
    /\ IsFiniteSet(Job)
    /\ \A j \in Job : j # NoJob
    /\ NoRec \notin Record
    /\ NoOwner \notin Replica
    /\ Home \in [Goroutine -> Replica]
    /\ \A r \in Replica : Home[r] = r
    /\ UpdateStatus \subseteq Status \ {"QUEUED"}
    /\ QueueSizeLimit \in Nat
    /\ MaxCrashes \in Nat
    /\ Faults \in BOOLEAN /\ Overstay \in BOOLEAN
    /\ Replica \cap (Creator \cup Halter \cup Deleter \cup Updater) = {}
    /\ Creator \cap (Halter \cup Deleter \cup Updater) = {}
    /\ Deleter \cap (Halter \cup Updater) = {}
    /\ Halter \cap Updater = {}

VARIABLES
    started,      \* training ids that CreateTrainingJob has generated
    deploys,      \* how often the LCM has accepted each job
    running,      \* the jobs that the LCM is running
    killPending,  \* background kills of Delete: <<replica, job>>
    pc,           \* the call that each goroutine makes next
    job,          \* the training id it works on
    tr,           \* its copy of the training record
    ent,          \* the queue entry it has found, or is about to insert
    req           \* the status that it has been asked to set

lcmVars == <<deploys, running>>
localVars == <<job, tr, ent, req>>
vars == <<rec, history, queue, clk, lockOwner, started, deploys, running,
          killPending, pc, job, tr, ent, req>>

Entry == [job : Job, submitted : Nat]

Location ==
    {"idle", "dead",
     \* pullJobFromQueue, under the lock
     "peek", "find", "ratelimit", "dequeue", "deqRemove", "restamp", "reinsert",
     "refind", "finish", "unlock",
     \* queue.Delete
     "drop", "dropRemove",
     \* pullJobFromQueue, after Unlock
     "history",
     \* submitJobToLCM
     "store", "deploy",
     \* CreateTrainingJob
     "size", "stamp", "insert", "storeQueued", "storeFailed",
     \* HaltTrainingJob and updateTrainingJobPostLock
     "kill", "uFind", "uStore", "uVerify", "uHist",
     \* DeleteTrainingJob
     "lock", "contended", "reFind", "upsert",
     \* a handler has answered its request, without or with an error
     "ok", "failed"}

Finished == {"COMPLETED", "FAILED", "HALTED"}

TypeOK ==
    /\ RepositoryTypeOK
    /\ queue \in SUBSET Entry
    /\ clk \in Nat
    /\ lockOwner \in Replica \cup {NoOwner}
    /\ started \in SUBSET Job
    /\ deploys \in [Job -> Nat]
    /\ running \in SUBSET Job
    /\ killPending \in SUBSET (Replica \X Job)
    /\ pc \in [Goroutine -> Location]
    /\ job \in [Goroutine -> Job \cup {NoJob}]
    /\ tr \in [Goroutine -> Record \cup {NoRec}]
    /\ ent \in [Goroutine -> Entry \cup {NoEntry}]
    /\ req \in [Goroutine -> Status \ {"QUEUED"}]

(* The jobs of the backlog were stored and queued by an earlier release. *)
Init ==
    /\ rec = [j \in Job |-> IF j \in Backlog THEN Live("QUEUED") ELSE NoRec]
    /\ history = [j \in Job |-> {}]
    /\ \E order \in [Backlog -> 1 .. Cardinality(Backlog)] :
         /\ \A i, j \in Backlog : order[i] = order[j] => i = j
         /\ queue = {[job |-> j, submitted |-> order[j]] : j \in Backlog}
    /\ clk = Cardinality(Backlog) + 1
    /\ lockOwner = NoOwner
    /\ started = Backlog
    /\ deploys = [j \in Job |-> 0]
    /\ running = {}
    /\ killPending = {}
    /\ pc = [p \in Goroutine |-> "idle"]
    /\ job = [p \in Goroutine |-> NoJob]
    /\ tr = [p \in Goroutine |-> NoRec]
    /\ ent = [p \in Goroutine |-> NoEntry]
    /\ req = [p \in Goroutine |-> "NOT_STARTED"]

Goto(p, l) == pc' = [pc EXCEPT ![p] = l]

(* The goroutine is done with its request; its local variables are gone. *)
Return(p, l) ==
    /\ Goto(p, l)
    /\ job' = [job EXCEPT ![p] = NoJob]
    /\ tr' = [tr EXCEPT ![p] = NoRec]
    /\ ent' = [ent EXCEPT ![p] = NoEntry]
    /\ UNCHANGED req

(* An answered request leaves its training id behind for the properties. *)
Answer(p, l) ==
    /\ Goto(p, l)
    /\ tr' = [tr EXCEPT ![p] = NoRec]
    /\ ent' = [ent EXCEPT ![p] = NoEntry]
    /\ UNCHANGED <<job, req>>

(* p gets the lock and goes on at l.  A Delete handler that is in Lock at that *)
(* time may run out of attempts: QueueLock shows that only this makes Lock     *)
(* give up (GiveUpOnlyIfContended).                                            *)
Granted(p, l) ==
    pc' = [q \in Goroutine |-> IF q = p THEN l
                               ELSE IF pc[q] = "lock" THEN "contended" ELSE pc[q]]

--------------------------------------------------------------------------------
(* pullJobFromQueue                                                          *)

(* The ticker fires, or the previous pull has succeeded, and Lock succeeds. *)
PullLock(r) ==
    /\ pc[r] = "idle"
    /\ Lock(r)
    /\ Granted(r, "peek")
    /\ UNCHANGED <<rec, history, queue, clk, started, lcmVars, killPending, localVars>>

(* Lock inserts its document but returns an error: nobody holds the lock. *)
LockLost(r) ==
    /\ pc[r] = "idle"
    /\ Faults /\ Lock(r)
    /\ UNCHANGED <<rec, history, queue, clk, started, lcmVars, killPending, pc, localVars>>

(* Empty and Peek.  An empty queue and an error both end the pull. *)
PullPeek(r) ==
    /\ pc[r] = "peek"
    /\ \/ \E e \in queue :
            /\ Earliest(e)
            /\ job' = [job EXCEPT ![r] = e.job]
            /\ Goto(r, "find")
       \/ /\ queue = {} \/ Faults
          /\ Goto(r, "unlock")
          /\ UNCHANGED job
    /\ UNCHANGED <<repoVars, queueVars, started, lcmVars, killPending, tr, ent, req>>

(* Wrong: the status of the record is not checked. *)
PullFindAnyStatus(r) ==
    /\ pc[r] = "find"
    /\ \/ Found(job[r]) /\ tr' = [tr EXCEPT ![r] = rec[job[r]]] /\ Goto(r, "ratelimit")
       \/ ~Found(job[r]) /\ Goto(r, "drop") /\ UNCHANGED tr
    /\ UNCHANGED <<repoVars, queueVars, started, lcmVars, killPending, job, ent, req>>

(* Wrong: an entry that cannot be submitted is left in the queue. *)
PullFindKeepsEntry(r) ==
    /\ pc[r] = "find"
    /\ IF FoundQueued(job[r])
       THEN tr' = [tr EXCEPT ![r] = rec[job[r]]] /\ Goto(r, "ratelimit")
       ELSE Goto(r, "unlock") /\ UNCHANGED tr
    /\ UNCHANGED <<repoVars, queueVars, started, lcmVars, killPending, job, ent, req>>

(* Find.  An entry whose record is missing, deleted or not QUEUED is dropped. *)
PullFind(r) ==
    /\ pc[r] = "find"
    /\ \/ /\ FoundQueued(job[r])
          /\ tr' = [tr EXCEPT ![r] = rec[job[r]]]
          /\ Goto(r, "ratelimit")
       \/ /\ ~FoundQueued(job[r])
          /\ Goto(r, "drop")
          /\ UNCHANGED tr
       \/ /\ Faults
          /\ Goto(r, "unlock")
          /\ UNCHANGED tr
    /\ UNCHANGED <<repoVars, queueVars, started, lcmVars, killPending, job, ent, req>>

(* rateLimitTrainingJob: a ratelimiter that cannot be reached allows the job. *)
PullAllowed(r) ==
    /\ pc[r] = "ratelimit"
    /\ Goto(r, "store")
    /\ UNCHANGED <<repoVars, queueVars, started, lcmVars, killPending, localVars>>

PullRateLimited(r) ==
    /\ pc[r] = "ratelimit"
    /\ Goto(r, "unlock")
    /\ UNCHANGED <<repoVars, queueVars, started, lcmVars, killPending, localVars>>

(* Dequeue finds the earliest entry, which need not be the one that Peek saw. *)
PullDequeue(r) ==
    /\ pc[r] = "dequeue"
    /\ \/ \E e \in queue :
            /\ Earliest(e)
            /\ ent' = [ent EXCEPT ![r] = e]
            /\ Goto(r, "deqRemove")
       \/ /\ queue = {} \/ Faults
          /\ Goto(r, "finish")
          /\ UNCHANGED ent
    /\ UNCHANGED <<repoVars, queueVars, started, lcmVars, killPending, job, tr, req>>

(* Wrong: an entry of another job is enqueued again without being removed. *)
PullRemoveKeepsEntry(r) ==
    /\ pc[r] = "deqRemove"
    /\ IF ent[r].job = job[r]
       THEN Remove(ent[r]) /\ Goto(r, "finish")
       ELSE UNCHANGED queue /\ Goto(r, "restamp")
    /\ UNCHANGED <<repoVars, clk, lockOwner, started, lcmVars, killPending, localVars>>

(* Dequeue removes that entry by its _id.  An entry of another job has to be *)
(* enqueued again.  If the removal fails, the entry stays or is lost.        *)
PullRemove(r) ==
    /\ pc[r] = "deqRemove"
    /\ \/ /\ ent[r] \in queue
          /\ Remove(ent[r])
          /\ Goto(r, IF ent[r].job = job[r] THEN "finish" ELSE "restamp")
       \/ /\ ent[r] \notin queue \/ Faults
          /\ UNCHANGED queue
          /\ Goto(r, "finish")
       \/ /\ Faults
          /\ Remove(ent[r])
          /\ Goto(r, "finish")
    /\ UNCHANGED <<repoVars, clk, lockOwner, started, lcmVars, killPending, localVars>>

(* Enqueue of the wrong job: it goes to the end of the queue. *)
PullRestamp(r) ==
    /\ pc[r] = "restamp"
    /\ ent' = [ent EXCEPT ![r] = [job |-> @.job, submitted |-> clk]]
    /\ clk' = clk + 1
    /\ Goto(r, "reinsert")
    /\ UNCHANGED <<repoVars, queue, lockOwner, started, lcmVars, killPending, job, tr, req>>

PullReinsert(r) ==
    /\ pc[r] = "reinsert"
    /\ \/ Insert(ent[r]) /\ Goto(r, "finish")
       \/ Faults /\ Insert(ent[r]) /\ Goto(r, "refind")
       \/ Faults /\ UNCHANGED queue /\ Goto(r, "refind")
    /\ UNCHANGED <<repoVars, clk, lockOwner, started, lcmVars, killPending, localVars>>

(* The wrong job could not be enqueued again and its record is looked up.  If *)
(* it is found nothing happens: the condition is inverted.                    *)
PullRefind(r) ==
    /\ pc[r] = "refind"
    /\ Found(ent[r].job)
    /\ Goto(r, "finish")
    /\ UNCHANGED <<repoVars, queueVars, started, lcmVars, killPending, localVars>>

(* All goroutines of a replica end, and with them their local variables. *)
Die(r) ==
    /\ pc' = [p \in Goroutine |-> IF Home[p] = r THEN "dead" ELSE pc[p]]
    /\ job' = [p \in Goroutine |-> IF Home[p] = r THEN NoJob ELSE job[p]]
    /\ tr' = [p \in Goroutine |-> IF Home[p] = r THEN NoRec ELSE tr[p]]
    /\ ent' = [p \in Goroutine |-> IF Home[p] = r THEN NoEntry ELSE ent[p]]
    /\ req' = [p \in Goroutine |-> IF Home[p] = r THEN "NOT_STARTED" ELSE req[p]]
    /\ killPending' = {k \in killPending : k[1] # r}

(* If Find fails, the nil record is dereferenced.  The deferred function *)
(* unlocks the queue and the process dies.                               *)
PullPanic(r) ==
    /\ pc[r] = "refind"
    /\ ~Found(ent[r].job) \/ Faults
    /\ Unlock(r)
    /\ Die(r)
    /\ UNCHANGED <<repoVars, queue, clk, started, lcmVars>>

(* Unlock at the end of a pull that has submitted its job. *)
PullFinish(r) ==
    /\ pc[r] = "finish"
    /\ Unlock(r) \/ (Faults /\ UNCHANGED lockOwner)
    /\ Goto(r, "history")
    /\ UNCHANGED <<repoVars, queue, clk, started, lcmVars, killPending, localVars>>

PullHistory(r) ==
    /\ pc[r] = "history"
    /\ RecordJobStatus(job[r], "PENDING")
    /\ Return(r, "idle")
    /\ UNCHANGED <<rec, queueVars, started, lcmVars, killPending>>

(* The deferred Unlock of a pull that has submitted nothing. *)
PullUnlock(r) ==
    /\ pc[r] = "unlock"
    /\ Unlock(r) \/ (Faults /\ UNCHANGED lockOwner)
    /\ Return(r, "idle")
    /\ UNCHANGED <<repoVars, queue, clk, started, lcmVars, killPending>>

Pull(r) ==
    \/ PullLock(r) \/ LockLost(r) \/ PullPeek(r) \/ PullFind(r)
    \/ PullAllowed(r) \/ PullRateLimited(r)
    \/ PullDequeue(r) \/ PullRemove(r)
    \/ PullRestamp(r) \/ PullReinsert(r) \/ PullRefind(r) \/ PullPanic(r)
    \/ PullFinish(r) \/ PullHistory(r) \/ PullUnlock(r)

--------------------------------------------------------------------------------
(* queue.Delete, called by the puller and by DeleteTrainingJob under the lock *)

DropFind(p) ==
    /\ pc[p] = "drop"
    /\ \/ \E e \in EntriesOf(job[p]) :
            /\ ent' = [ent EXCEPT ![p] = e]
            /\ Goto(p, "dropRemove")
       \/ /\ EntriesOf(job[p]) = {} \/ Faults
          /\ Goto(p, "unlock")
          /\ UNCHANGED ent
    /\ UNCHANGED <<repoVars, queueVars, started, lcmVars, killPending, job, tr, req>>

DropRemove(p) ==
    /\ pc[p] = "dropRemove"
    /\ Remove(ent[p]) \/ (Faults /\ UNCHANGED queue)
    /\ Goto(p, "unlock")
    /\ UNCHANGED <<repoVars, clk, lockOwner, started, lcmVars, killPending, localVars>>

--------------------------------------------------------------------------------
(* submitJobToLCM, called by the puller and by CreateTrainingJob              *)

(* Wrong: the puller goes on after a failed submission. *)
SubmitFailedGoesOn(p) ==
    IF p \in Replica
    THEN Goto(p, "dequeue") /\ UNCHANGED localVars
    ELSE Return(p, "idle")

(* The puller leaves the entry in the queue; the create request fails. *)
SubmitFailed(p) ==
    IF p \in Replica
    THEN Goto(p, "unlock") /\ UNCHANGED localVars
    ELSE Return(p, "idle")

SubmitDone(p) ==
    IF p \in Replica
    THEN Goto(p, "dequeue") /\ UNCHANGED localVars
    ELSE Return(p, "idle")

(* Wrong: the job is submitted before its record is marked PENDING. *)
SubmitStoreUnmarked(p) ==
    /\ pc[p] = "store"
    /\ Store(job[p], Live("QUEUED"))
    /\ Goto(p, "deploy")
    /\ UNCHANGED <<history, queueVars, started, lcmVars, killPending, localVars>>

(* The record is stored with status PENDING before the LCM is called.  A *)
(* failure of createJobConfig is one that leaves the record alone.       *)
SubmitStore(p) ==
    /\ pc[p] = "store"
    /\ \/ /\ Store(job[p], Live("PENDING"))
          /\ Goto(p, "deploy") /\ UNCHANGED localVars
       \/ /\ StoreFails(job[p], Live("PENDING"))
          /\ SubmitFailed(p)
    /\ UNCHANGED <<history, queueVars, started, lcmVars, killPending>>

(* The LCM accepts a job. *)
Deploy(j) ==
    /\ deploys' = [deploys EXCEPT ![j] = @ + 1]
    /\ running' = running \cup {j}

(* DeployTrainingJob: an error, such as the 60 s timeout, may come although *)
(* the LCM has accepted the job.                                            *)
SubmitDeploy(p) ==
    /\ pc[p] = "deploy"
    /\ \/ Deploy(job[p]) /\ SubmitDone(p)
       \/ Faults /\ Deploy(job[p]) /\ SubmitFailed(p)
       \/ Faults /\ UNCHANGED lcmVars /\ SubmitFailed(p)
    /\ UNCHANGED <<repoVars, queueVars, started, killPending>>

--------------------------------------------------------------------------------
(* CreateTrainingJob                                                          *)

(* The request is valid, an id is generated and the model is uploaded. *)
CreateBegin(c) ==
    /\ pc[c] = "idle"
    /\ \E j \in Job \ started :
         /\ started' = started \cup {j}
         /\ job' = [job EXCEPT ![c] = j]
    /\ Goto(c, "size")
    /\ UNCHANGED <<repoVars, queueVars, lcmVars, killPending, tr, ent, req>>

(* Size returns n, or 0 with an error that is only logged. *)
SizeReturns(n) == n = Size \/ (Faults /\ n = 0)

(* Wrong: a queue that is longer than the limit does not count as full. *)
QueueFullOnce(n) == QueueSizeLimit > 0 /\ n = QueueSizeLimit

QueueFull(n) == QueueSizeLimit > 0 /\ n >= QueueSizeLimit

(* Wrong: the entry is inserted without having been filled in. *)
CreateSizeNoStamp(c) ==
    /\ pc[c] = "size"
    /\ Goto(c, IF Size = 0 THEN "store" ELSE "insert")
    /\ UNCHANGED <<repoVars, queueVars, started, lcmVars, killPending, localVars>>

(* A full queue rejects the job; a job that finds the queue empty goes to the *)
(* LCM; any other job is queued.                                              *)
CreateSize(c) ==
    /\ pc[c] = "size"
    /\ \E n \in {0, Size} :
         /\ SizeReturns(n)
         /\ \/ /\ QueueFull(n)
               /\ Return(c, "idle")
            \/ /\ ~QueueFull(n)
               /\ Goto(c, IF n = 0 THEN "store" ELSE "stamp")
               /\ UNCHANGED localVars
    /\ UNCHANGED <<repoVars, queueVars, started, lcmVars, killPending>>

(* Enqueue reads the clock ... *)
CreateStamp(c) ==
    /\ pc[c] = "stamp"
    /\ ent' = [ent EXCEPT ![c] = [job |-> job[c], submitted |-> clk]]
    /\ clk' = clk + 1
    /\ Goto(c, "insert")
    /\ UNCHANGED <<repoVars, queue, lockOwner, started, lcmVars, killPending, job, tr, req>>

(* ... and inserts the entry, without the lock and before there is a record. *)
CreateInsert(c) ==
    /\ pc[c] = "insert"
    /\ \/ Insert(ent[c]) /\ Goto(c, "storeQueued")
       \/ Faults /\ Insert(ent[c]) /\ Goto(c, "storeFailed")
       \/ Faults /\ UNCHANGED queue /\ Goto(c, "storeFailed")
    /\ UNCHANGED <<repoVars, clk, lockOwner, started, lcmVars, killPending, localVars>>

CreateStore(c) ==
    /\ \/ /\ pc[c] = "storeQueued"
          /\ Store(job[c], Live("QUEUED")) \/ StoreFails(job[c], Live("QUEUED"))
       \/ /\ pc[c] = "storeFailed"
          /\ Store(job[c], Live("FAILED")) \/ StoreFails(job[c], Live("FAILED"))
    /\ Return(c, "idle")
    /\ UNCHANGED <<history, queueVars, started, lcmVars, killPending>>

Create(c) ==
    CreateBegin(c) \/ CreateSize(c) \/ CreateStamp(c) \/ CreateInsert(c) \/ CreateStore(c)

--------------------------------------------------------------------------------
(* updateTrainingJobPostLock, called for UpdateTrainingJob and by Halt        *)

(* The record is read.  A halt of a finished job changes nothing, and its *)
(* caller gets no error.                                                  *)
UpdateFind(p) ==
    /\ pc[p] = "uFind"
    /\ \/ /\ Found(job[p])
          /\ \/ /\ req[p] = "HALTED" /\ rec[job[p]].status \in Finished
                /\ Answer(p, "ok")
             \/ /\ ~(req[p] = "HALTED" /\ rec[job[p]].status \in Finished)
                /\ tr' = [tr EXCEPT ![p] = rec[job[p]]]
                /\ Goto(p, "uStore")
                /\ UNCHANGED <<job, ent, req>>
       \/ /\ ~Found(job[p]) \/ Faults
          /\ Answer(p, "failed")
    /\ UNCHANGED <<repoVars, queueVars, started, lcmVars, killPending>>

(* Wrong: the copy read before is written back as it was. *)
UpdateStoreStale(p) ==
    /\ pc[p] = "uStore"
    /\ Store(job[p], tr[p])
    /\ Goto(p, "uVerify")
    /\ UNCHANGED <<history, queueVars, started, lcmVars, killPending, localVars>>

(* The copy read before, with the new status, replaces the document. *)
UpdateStore(p) ==
    /\ pc[p] = "uStore"
    /\ \/ Store(job[p], Live(req[p])) /\ Goto(p, "uVerify") /\ UNCHANGED localVars
       \/ StoreFails(job[p], Live(req[p])) /\ Answer(p, "failed")
    /\ UNCHANGED <<history, queueVars, started, lcmVars, killPending>>

UpdateVerify(p) ==
    /\ pc[p] = "uVerify"
    /\ \/ Found(job[p]) /\ Goto(p, "uHist") /\ UNCHANGED localVars
       \/ (~Found(job[p]) \/ Faults) /\ Answer(p, "failed")
    /\ UNCHANGED <<repoVars, queueVars, started, lcmVars, killPending>>

(* A change of status, and every report of PROCESSING, goes to the history. *)
UpdateHistory(p) ==
    /\ pc[p] = "uHist"
    /\ IF req[p] # tr[p].status \/ req[p] = "PROCESSING"
       THEN RecordJobStatus(job[p], req[p])
       ELSE UNCHANGED history
    /\ Answer(p, "ok")
    /\ UNCHANGED <<rec, queueVars, started, lcmVars, killPending>>

(* The LCM reports a status of a job that it has been given.  It reports *)
(* COMPLETED or FAILED when the job has ended.                           *)
UpdateBegin(u) ==
    /\ pc[u] = "idle"
    /\ \E j \in Job, s \in UpdateStatus :
         /\ deploys[j] > 0
         /\ job' = [job EXCEPT ![u] = j]
         /\ req' = [req EXCEPT ![u] = s]
         /\ running' = IF s \in Finished THEN running \ {j} ELSE running
    /\ Goto(u, "uFind")
    /\ UNCHANGED <<repoVars, queueVars, started, deploys, killPending, tr, ent>>

--------------------------------------------------------------------------------
(* HaltTrainingJob                                                            *)

(* A request for a job that is not found fails and does nothing. *)
HaltBegin(h) ==
    /\ pc[h] = "idle"
    /\ \E j \in started :
         /\ Found(j)
         /\ job' = [job EXCEPT ![h] = j]
    /\ req' = [req EXCEPT ![h] = "HALTED"]
    /\ Goto(h, "kill")
    /\ UNCHANGED <<repoVars, queueVars, started, lcmVars, killPending, tr, ent>>

(* KillTrainingJob.  "Not found" is as good as success. *)
HaltKill(h) ==
    /\ pc[h] = "kill"
    /\ \/ running' = running \ {job[h]} /\ Goto(h, "uFind") /\ UNCHANGED localVars
       \/ Faults /\ running' \in {running, running \ {job[h]}} /\ Answer(h, "failed")
    /\ UNCHANGED <<repoVars, queueVars, started, deploys, killPending>>

--------------------------------------------------------------------------------
(* DeleteTrainingJob                                                          *)

(* Wrong: the entry is removed without the lock. *)
DeleteBeginUnlocked(d) ==
    /\ pc[d] = "idle"
    /\ \E j \in started : Found(j) /\ job' = [job EXCEPT ![d] = j]
    /\ Goto(d, "drop")
    /\ UNCHANGED <<repoVars, queueVars, started, lcmVars, killPending, tr, ent, req>>

(* The record is read.  A job that is QUEUED is looked for in the queue. *)
DeleteBegin(d) ==
    /\ pc[d] = "idle"
    /\ \E j \in started :
         /\ Found(j)
         /\ job' = [job EXCEPT ![d] = j]
         /\ \/ /\ rec[j].status = "QUEUED"
               /\ Goto(d, "lock")
               /\ UNCHANGED killPending
            \/ /\ rec[j].status # "QUEUED"
               /\ Goto(d, "reFind")
               /\ killPending' = killPending \cup {<<Home[d], j>>}
    /\ UNCHANGED <<repoVars, queueVars, started, lcmVars, tr, ent, req>>

(* Lock under the queueID of the replica, which its puller uses as well. *)
DeleteLock(d) ==
    /\ pc[d] \in {"lock", "contended"}
    /\ Lock(Home[d])
    /\ Granted(d, "drop")
    /\ UNCHANGED <<repoVars, queue, clk, started, lcmVars, killPending, localVars>>

(* From here on the kill runs in the background. *)
SpawnKill(d) ==
    /\ Goto(d, "reFind")
    /\ killPending' = killPending \cup {<<Home[d], job[d]>>}

(* Lock returns an error.  The entry stays for the puller to clean up. *)
DeleteLockFails(d) ==
    /\ pc[d] \in {"lock", "contended"}
    /\ \/ (pc[d] = "contended" \/ Faults) /\ UNCHANGED lockOwner
       \/ Faults /\ Lock(Home[d])
    /\ SpawnKill(d)
    /\ UNCHANGED <<repoVars, queue, clk, started, lcmVars, localVars>>

DeleteUnlock(d) ==
    /\ pc[d] = "unlock"
    /\ Unlock(Home[d]) \/ (Faults /\ UNCHANGED lockOwner)
    /\ SpawnKill(d)
    /\ UNCHANGED <<repoVars, queue, clk, started, lcmVars, localVars>>

(* repo.Delete reads the record again ... *)
DeleteFind(d) ==
    /\ pc[d] = "reFind"
    /\ \/ /\ Found(job[d])
          /\ tr' = [tr EXCEPT ![d] = rec[job[d]]]
          /\ Goto(d, "upsert")
          /\ UNCHANGED <<job, ent, req>>
       \/ /\ ~Found(job[d]) \/ Faults
          /\ Answer(d, "failed")
    /\ UNCHANGED <<repoVars, queueVars, started, lcmVars, killPending>>

(* ... and replaces it by a tombstone.  The goroutine that deletes the job's *)
(* data in the TDS assigns the same err variable, so the answer can be       *)
(* either one whatever the upsert has returned.                              *)
DeleteUpsert(d) ==
    /\ pc[d] = "upsert"
    /\ Store(job[d], Tombstone(tr[d])) \/ StoreFails(job[d], Tombstone(tr[d]))
    /\ Answer(d, "ok") \/ (Faults /\ Answer(d, "failed"))
    /\ UNCHANGED <<history, queueVars, started, lcmVars, killPending>>

(* The background goroutine kills the job; its failures are only logged. *)
BackgroundKill(k) ==
    /\ killPending' = killPending \ {k}
    /\ running' = running \ {k[2]} \/ (Faults /\ UNCHANGED running)
    /\ UNCHANGED <<repoVars, queueVars, started, deploys, pc, localVars>>

--------------------------------------------------------------------------------

Delete(d) ==
    \/ DeleteBegin(d) \/ DeleteLock(d) \/ DeleteLockFails(d)
    \/ DropFind(d) \/ DropRemove(d) \/ DeleteUnlock(d)
    \/ DeleteFind(d) \/ DeleteUpsert(d)

Submit(p) == SubmitStore(p) \/ SubmitDeploy(p)

Update(p) == UpdateFind(p) \/ UpdateStore(p) \/ UpdateVerify(p) \/ UpdateHistory(p)

(* Is p between a successful Lock and its Unlock? *)
HoldsLock(p) ==
    \/ p \in Replica /\ pc[p] \notin {"idle", "history", "dead"}
    \/ p \in Deleter /\ pc[p] \in {"drop", "dropRemove", "unlock"}

(* A lock document is removed when its lease is over: that of a dead replica, *)
(* one that a failed Unlock has left, or, with Overstay, one still in use.    *)
LeaseExpires ==
    /\ lockOwner # NoOwner
    /\ Overstay \/ ~\E p \in Goroutine : HoldsLock(p) /\ Home[p] = lockOwner
    /\ lockOwner' = NoOwner
    /\ UNCHANGED <<repoVars, queue, clk, started, lcmVars, killPending, pc, localVars>>

(* A replica is killed.  A restarted one has a new queueID: it is another *)
(* element of Replica.                                                    *)
Crash(r) ==
    /\ pc[r] # "dead"
    /\ Cardinality({q \in Replica : pc[q] = "dead"}) < MaxCrashes
    /\ Die(r)
    /\ UNCHANGED <<repoVars, queueVars, started, lcmVars>>

Next ==
    \/ \E r \in Replica :
         Pull(r) \/ Submit(r) \/ DropFind(r) \/ DropRemove(r) \/ Crash(r)
    \/ \E c \in Creator : Create(c) \/ Submit(c)
    \/ \E u \in Updater : UpdateBegin(u) \/ Update(u)
    \/ \E h \in Halter : HaltBegin(h) \/ HaltKill(h) \/ Update(h)
    \/ \E d \in Deleter : Delete(d)
    \/ \E k \in killPending : BackgroundKill(k)
    \/ LeaseExpires

Spec == Init /\ [][Next]_vars

(* The ticker keeps firing and every call returns: each goroutine that can go *)
(* on does.  Lock retries for longer than anybody holds the queue, so a       *)
(* puller that finds it free again and again gets it, and a ratelimiter that  *)
(* is asked again and again allows the job some time.                         *)
Fairness ==
    /\ \A r \in Replica :
         /\ WF_vars(Pull(r) \/ Submit(r) \/ DropFind(r) \/ DropRemove(r))
         /\ SF_vars(PullLock(r))
         /\ SF_vars(PullAllowed(r))
    /\ \A c \in Creator : WF_vars(Create(c) \/ Submit(c))
    /\ \A h \in Halter : WF_vars(HaltKill(h) \/ Update(h))
    /\ \A u \in Updater : WF_vars(Update(u))
    /\ \A d \in Deleter : WF_vars(DeleteLock(d) \/ DropFind(d) \/ DropRemove(d)
                                     \/ DeleteUnlock(d) \/ DeleteFind(d) \/ DeleteUpsert(d))
    /\ WF_vars(LeaseExpires)

FairSpec == Spec /\ Fairness

--------------------------------------------------------------------------------
(* No job is given to the LCM twice, whichever replicas pull it, crash or lose *)
(* answers while submitting it: "so that multiple trainers do not peek/submit  *)
(* the same job to lcm" (queue.go:233).                                        *)
NoDoubleDeploy == \A j \in Job : deploys[j] <= 1

(* A job that the LCM has been given has a record, and no client and no puller *)
(* ever sees that record as QUEUED: the copies of the record that other        *)
(* goroutines have read earlier and write back later cannot requeue it.        *)
DeployedNotQueued == \A j \in Job : deploys[j] > 0 => rec[j] # NoRec /\ ~FoundQueued(j)

(* Once a job has left the status QUEUED, or has been deleted, it is never *)
(* visibly QUEUED again.                                                   *)
NeverRequeued == [][\A j \in Job : rec[j] # NoRec /\ ~FoundQueued(j) => ~FoundQueued(j)']_vars

(* The goroutines that hold an entry of job j which is not in the queue. *)
Carrying(j) ==
    {p \in Goroutine : pc[p] \in {"restamp", "reinsert", "insert"} /\ ent[p].job = j}

(* A job has at most one entry, in the queue or on its way back into it after *)
(* a Dequeue of the wrong job.                                                *)
UniqueEntries == \A j \in Job : Cardinality(EntriesOf(j)) + Cardinality(Carrying(j)) <= 1

(* The size limit is checked without the lock, so that each create request in *)
(* progress can overshoot it by one, and an entry that the puller has taken    *)
(* out by mistake and puts back is not counted meanwhile; nothing makes the    *)
(* queue longer than that.                                                     *)
QueueBound ==
    QueueSizeLimit > 0 => Size <= QueueSizeLimit + Cardinality(Creator)

(* A job whose history says PENDING has been accepted by the LCM: "submitting *)
(* to LCM failed, don't update job history" (trainer_impl.go:624).            *)
PendingHistoryDeployed ==
    \A j \in Job : "PENDING" \in history[j] => deploys[j] > 0

(* Without a backlog nothing is ever queued, since a job that finds the queue  *)
(* empty is not checked against the ratelimiter (trainer_impl.go:848-852).     *)
QueueNeverUsed == queue = {} /\ \A c \in Creator : pc[c] # "stamp"

Inside == {p \in Goroutine : HoldsLock(p)}

Lease == INSTANCE LeaseLock WITH
    Owner <- Replica, QueueID <- Home, owner <- lockOwner, inside <- Inside

(* The pullers and the Delete handlers use the queue lock as LeaseLock says: *)
(* they work on the queue between Lock and Unlock only.                      *)
LeaseSpec == Lease!Spec

(* Two goroutines, of one replica or of two, never work under the lock at once. *)
QueueMutex == Lease!Mutex

(* Every entry of the queue is taken out again: it is submitted, dropped or *)
(* deleted, and an entry that nothing can be done with does not block the   *)
(* queue for the ones behind it.                                            *)
EntriesDrain == \A j \in Job : EntriesOf(j) # {} ~> EntriesOf(j) = {}

--------------------------------------------------------------------------------
(* What comments of the code say, and the code does not do.                  *)

(* "job not found in mongo, assuming job was deleted" (trainer_impl.go:589): a *)
(* visible QUEUED record always has an entry, or a goroutine that is about to  *)
(* change one of the two.                                                      *)
QueuedJobHasEntry ==
    \A j \in Job : FoundQueued(j) =>
        \/ EntriesOf(j) # {}
        \/ \E p \in Goroutine : job[p] = j /\ pc[p] \notin {"idle", "ok", "failed", "dead"}

(* "submitting to LCM failed, don't update job history or dequeue"            *)
(* (trainer_impl.go:624): the entry of a job leaves the queue only after the  *)
(* job was submitted, unless the job was halted or deleted.                   *)
FailedSubmitStaysQueued ==
    [][\A j \in Job : EntriesOf(j) # {} /\ EntriesOf(j)' = {} /\ Found(j)
            /\ rec[j].status = "PENDING" => deploys[j] > 0]_vars
================================================================================
