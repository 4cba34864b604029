# A TLA+ model of the FfDL trainer

The trainer is the service of FfDL that accepts deep-learning training jobs. It stores a record
of each job in mongo, keeps jobs that may not run yet in a queue, hands jobs to the life cycle
manager (LCM), which runs them, and answers requests to update, halt and delete them. Several
replicas of the service share the database. This directory holds TLA+ modules that model what
the replicas do to the shared state, how a replica starts and stops, how it admits jobs, streams
logs and moves models between object stores and clients, TLC configurations that check them on small instances, and
proofs, checked by TLAPS, of the properties that matter most.

Paths such as `queue.go` mean `src/trainer/queue.go`, and so on.

* [Inventory](#inventory): the parts of the system and what is hard about them
* [Modules](#modules): which module models what, and how
* [Runs](#runs): what TLC checks, the bounds, fairness
* [Findings](#findings): where the code does not do what it says
* [Proofs](#proofs): what holds for every value of the constants
* [Not modelled](#not-modelled)

## Inventory

| Part | State | Operations | Talks to |
|---|---|---|---|
| Queue lock (`queue.go`) | lock collection of a queue: one document with `queueID` and `expires` | `Lock` (15 attempts, 5 s apart, 60 s lease), `Unlock` | mongo; called by the puller and by Delete |
| Job queue (`queue.go`) | collection of entries (training id, time submitted) | `Enqueue`, `Dequeue`, `Peek`, `Delete`, `Size`, `Empty` | mongo |
| Repositories (`repository.go`) | training records, job history | `Store`, `Find*`, `Delete` (soft), `RecordJobStatus` | mongo |
| Puller (`pullJobFromQueue`, `submitJobToLCM`, `rateLimitTrainingJob`) | one goroutine per replica and queue | a pull per tick | queue, records, LCM, ratelimiter |
| Handlers (`CreateTrainingJob`, `UpdateTrainingJob`, `HaltTrainingJob`, `DeleteTrainingJob`) | one goroutine per request, and the background goroutines of Delete | | queue, records, LCM, TDS, object store |
| Read handlers (`GetTrainingJob`, `GetAllTrainingsJobs`, ...) | none | | records, object store |
| Resource defaults, queue selection, limits (`setDefaultResourceRequirements`, `TransformResourceName`, `getGpuLimitByType`, `validateRequest`) | none | pure functions | |
| Start and stop (`StartQueues`, `StopTrainer`, `resettable_metrics.go`) | ticker goroutines, stop channels, sessions | | puller |
| Log and metric streams (`GetTrainedModelLogs`, `GetTrainingLogs`, `GetTrainingEMetrics`) | position in the log | | TDS |
| Model download (`GetTrainedModel`) | a pipe between a goroutine and a gRPC stream | | object store |
| Object stores (`src/storage`) | connection; objects | `Connect`, `UploadArchive`, `DownloadArchive`, `DeleteArchive`, ... | S3, Swift |
| Usage metrics | counters and gauges | | prometheus |
| Clients, call logger, configuration, generated messages | | | |

How they interact. Nothing is shared between replicas but mongo, the LCM and the ratelimiter; no
mongo operation touches more than one document and none is conditional on a version. A handler
reads a record with `Find`, makes other calls, and writes the whole record back with `Store`. The
only mutual exclusion between replicas is the queue lock, and only the pullers and Delete use it;
`CreateTrainingJob` enqueues without it.

What is hard:

* The lock is a lease. It can run out under a goroutine that still works, it outlives a crashed
  holder, it names a replica and not a goroutine, and clocks differ.
* A pull is about ten remote calls. Every one may fail, with or without effect, or be the last
  thing the process does. In between other goroutines create, update, halt and delete the same job.
* Records are read, kept across calls and written back whole.
* Kill, deploy and status reports of the LCM race with each other.
* A shutdown closes mongo sessions and stops goroutines, over unbuffered channels, while pulls and
  requests go on; using a closed session panics.
* Values that are fixed when a job is admitted (its queue, its resources, the location of its
  model, its data stores) are used much later by operations that recompute them in other ways.
* A log is followed while it grows and its job ends; a model is downloaded by two goroutines with a
  pipe between them, each of which may fail while the other goes on.
* A bucket is looked at, created, filled and removed by separate calls without a lock.

What makes the parts correct, and where it is stated:

* the lock excludes (`Mutex`), its users see no more than an abstract lease lock (`LeaseSpec`),
  and it cannot be blocked by a dead process (`GiveUpOnlyIfContended`);
* a job is submitted at most once (`NoDoubleDeploy`) and never goes back to QUEUED
  (`DeployedNotQueued`, `NeverRequeued`);
* the queue holds a job at most once (`UniqueEntries`), is bounded (`QueueBound`) and drains
  (`EntriesDrain`);
* the history tells the truth about submissions (`PendingHistoryDeployed`);
* a shutdown ends (`ShutdownEnds`), with every puller stopped outside a pull (`StoppedClean`), and
  pulls keep what they need to release their lock, also when they panic (`PullerHasQueue`);
* what admission fixes fits what comes later (`Configurable`, `ModelFetchable`,
  `ResourcesSettled`, `FoundByDelete`), and the usage gauge is balanced (`GaugeBalanced`);
* a log is streamed without gaps (`NoGaps`), completely (`CompleteWhenOk`), and not for ever
  (`ReadersEnd`);
* an uploaded archive stays as long as nobody asks to delete its job (`AckedStays`), a download that
  is reported as successful has every object that its listings returned (`CompleteZip`), its
  goroutine ends unless a call of S3 hangs (`WriterEnds`) and does not take the process with it
  (`DownloadSurvives`).

The list of hazards, each at its line, is in `PROJECT.json`.

## Modules

```
LeaseLock  <-- refines --  QueueLock        (proofs: QueueLockProofs,  runs: MCQueueLock)
    ^
    `------ refines ------  Trainer          (proofs: TrainerProofs and TrainerQueueProofs, which
                            extends                   extends it,       runs: MCTrainer)
                            Repository, JobQueue

Service                                      (proofs: ServiceProofs,    run: Service itself)
Admission                                    (proofs: AdmissionProofs,  run: MCAdmission)
LogFollow                                    (proofs: LogFollowProofs,  run: LogFollow itself)
ObjectStore  <-- extends --  ModelStore      (proofs: ModelStoreProofs, run: MCModelStore)
```

Trainer is about many jobs and replicas and keeps of a record only its status. Service, Admission,
LogFollow and ModelStore each take one aspect that Trainer abstracts from: the process, the content
of one job's record, and the two kinds of streams. They share no variables with Trainer; where they
touch it (a pull, an update, a deletion) they repeat the steps of Trainer at the grain they need.

**LeaseLock** is what callers of the queue lock rely on, without time: the lock document
(`owner`) and the goroutines that are between a successful `Lock` and the end of `Unlock`
(`inside`). `AcquireLost` is an insert that was applied but reported as failed, `Expire` the
removal of a document whose lease is over. With `Overstay = FALSE` a lease does not run out under
a goroutine that relies on it; then `Mutex` holds.

**QueueLock** is `Lock` and `Unlock` as they are. `now` is true time, each replica's clock is
ahead of it by `Skew`; `locks` is the lock collection. A mongo call carries a clock value that was
read before the call, so reading the clock (`CallLock`, `StampExpiry`, `Retry`) and the effect of
the call (`RemoveExpired`, `Insert`, `InsertFails`) are different steps, between which time passes
and other goroutines go on. `attempt` is the loop counter, `mark` the clock value read or the time
at which the sleep ends. With `Faulty`, every mongo call may fail, an insert or removal with or
without effect. `HoldBound` bounds the time from the reading of the expiry to the end of `Unlock`:
it stands for the 1 s and 60 s timeouts and the mongo calls of a pull. `UniqueIndex` is the
outcome of `EnsureIndex`, whose error the code ignores. `beaten` is the only ghost variable.

**Repository** and **JobQueue** hold the shared collections and the effect of one mongo call on
each. A training record is its status and its deleted flag; an entry is a training id and the time
it was stamped with. `clk` only orders the stamps: two are never equal. The lock appears in
JobQueue the way LeaseLock describes it.

**Trainer** composes the two with the goroutines. A goroutine is at a place (`pc`) named for the
call it makes next and has local variables: the training id (`job`), the record it has read
(`tr`), the entry it has found (`ent`), the status it was asked to set (`req`). One action is one
remote call and the local code up to the next one.

| Actions | Code |
|---|---|
| `PullLock` ... `PullUnlock` | `pullJobFromQueue`; `PullRefind` and `PullPanic` are the branch for a wrongly dequeued job, whose condition is inverted |
| `SubmitStore`, `SubmitDeploy` | `submitJobToLCM`, for the puller and for Create |
| `DropFind`, `DropRemove` | `queue.Delete`, for the puller and for Delete |
| `CreateBegin` ... `CreateStore` | `CreateTrainingJob` after validation |
| `UpdateBegin`, `UpdateFind` ... `UpdateHistory` | `UpdateTrainingJob`, `updateTrainingJobPostLock` |
| `HaltBegin`, `HaltKill`, then `Update...` | `HaltTrainingJob` |
| `DeleteBegin` ... `DeleteUpsert`, `BackgroundKill` | `DeleteTrainingJob`, `deleteJobFromQueue`, `repo.Delete` |
| `LeaseExpires`, `Crash` | `Lock` removing an expired document; a killed process |

`Size`, `Empty` and `Peek` are one step: only lock holders remove entries, so a queue that is not
empty stays so until `Peek`. `CreateTrainingJob` up to the upload of the model is `CreateBegin`
here; Admission and ModelStore have its details. A failure of
`createJobConfig` is a failure of `SubmitStore` that leaves the record alone. The LCM is a set of
running jobs and a count of accepted deployments per job; `KillTrainingJob` removes a job from the
set, and a kill of a job that is not there succeeds, as both callers tolerate "not found". The
ratelimiter allows or refuses as it likes. A restarted replica has a new `queueID` and is another
element of `Replica`.

**The empty queue.** In `CreateTrainingJob` the call of the ratelimiter is commented out
(`trainer_impl.go:850`), and a job that finds the queue empty goes to the LCM directly. So a queue
that is empty stays empty: theorem `EmptyStaysEmpty` shows it. The code that pulls from the
queue is reached only for entries that are already in mongo, left there by a release in which the
ratelimiter was called or by one that is running beside this one. The constant `Backlog` is the
set of these jobs; all runs start with some.

**Service** is one process from `NewService` to the end of `StopTrainer`. `open` is the set of
mongo sessions, one per repository and queue; `puller` and `handler` say which call a goroutine
makes next, and `SessionOf` and `HandlerSession` which session that call clones. A call on a closed
session panics (`PullPanic`, `HandlerPanic`). Under the lock of a pull the deferred `Unlock` comes
before the end of the process, as a step of its own (`PullDeferred`): it may fail, and meanwhile
another goroutine may panic and end the process. Documents of the lock that no goroutine is going to
remove are `Left`: by an `Unlock` that failed, whose error is ignored (`Unlocks`), or by an insert
that was applied but reported as failed (`GivesUp`); they go when their lease ends (`LockExpires`).
`StopTrainer` is its statements one by one: a send on an unbuffered
channel is a joint step with the receiver (`StopMetrics`, `StopQueue`). The outcome of a call is any
that the code distinguishes; what it does to the queue is in Trainer. The requests are
DeleteTrainingJob, the only handler that uses both kinds of sessions and the lock.

**Admission** is the life of one job's record. `Validate` is `validateRequest`, the look at the GPU
limits and `setDefaultResourceRequirements`; `Upload`, `ChooseQueue`, `CreateStore`, `CreateSubmit`
and `Count` the rest of `CreateTrainingJob`; `Pull`, `Update` and `Delete` what happens to the
record and its queue entry later. A request has the fields on which a decision depends. Names of
GPU types are a few representatives (`k80` for `nvidia-TeslaK80`, `K80` for its transformed form),
so that `TransformResourceName` is not the identity. A location is the name of the store that has
the model. `limits` is `gpu.limits` as a sequence, because one reader takes the first match and
another the last. The location of a new request is empty: the API server does not set it. `Update`
takes a job off the gauge before `Store`, which may fail with or without effect, and so may the
deletion of the record in `Delete`. The monitor may repeat an update.

**LogFollow** is `GetTrainedModelLogs` (with and without Follow), `GetTrainingLogs` and
`GetTrainingEMetrics`. Lines are numbers; the TDS answers with the lines that it has, a page at
most. The ten minutes of `waitUntilJobStart` and the four of the context are timers that may fire
at any time; the messages about the wait that `waitUntilJobStart` sends are no lines and are left
out. `StatusChanges` stands for everything that Update, Halt and Delete do to the job's status.
`asked` (the lines at the last query) and `from` are there for the properties.

**ObjectStore** and **ModelStore** are the buckets of the internal and the user's store with the
calls that S3 and Swift make, and the handlers that use them. `kind` says which store a bucket is
in; the two differ in what an error of the existence check means, in creating an existing bucket,
deleting a missing object, in the directories that are counted and downloaded, and in what
`Disconnect` leaves. In `GetTrainedModel` the handler (`Download...`) and its goroutine
(`Write...`) meet in `pipe`; an entry of the zip is whole or cut off. A listing
of S3 returns at most `MaxKeys` objects and nobody asks for the rest; one of Swift may lack objects,
which is why Swift lists twice and compares the counts (`WriteList`, `WriteVerify`). The calls of S3
in a download have no timeout, and one of them may never return (`WriteHangs`). `deleted` (the
archives whose job a request asked to delete), `base` (the objects at the start of a download)
and `missed` (those its listings left out) are there for the properties.

**Definitions marked "Wrong"** are the changed forms of a definition that show that a property
can fail (`mutants` in `PROJECT.json`). No specification uses them.

## Runs

`tlc -workers 2 -config <cfg> <module>` in this directory.

| Run | cfg, module | Checks | Shows |
|---|---|---|---|
| queuelock_safe | QueueLockSafe, MCQueueLock | `TypeOK`, `Mutex`, `LeaseSpec` | with leases that cover hold time and skew, the lock excludes and refines LeaseLock, with failing calls and crashes at every point |
| queuelock_giveup | QueueLockGiveUp, MCQueueLock | `GiveUpOnlyIfContended` | `Lock` gives up only if somebody was granted the lock meanwhile; a stale document is no reason |
| trainer_queue | TrainerQueue, MCTrainer | `TypeOK`, `NoDoubleDeploy`, `UniqueEntries`, `PendingHistoryDeployed`, `QueueBound` | two replicas and two create requests at a time, at a size limit of 2 and with a backlog beyond it, with faults and a crash |
| trainer_lifecycle | TrainerLifecycle, MCTrainer | `NoDoubleDeploy`, `DeployedNotQueued`, `QueueMutex`, `NeverRequeued`, `LeaseSpec` | one job, pulled by two replicas while it is updated, halted and deleted, with faults |
| trainer_drain | TrainerDrain, MCTrainer | `EntriesDrain` | every entry leaves the queue, though Delete competes for the lock and a replica dies, perhaps with the lock |
| service_stop | ServiceStop, Service | `PullerHasQueue`, `StoppedClean`, `ShutdownEnds` | a process with two queues and one request at a time is told to stop at any point, with `Lock` and `Unlock` that may fail with or without effect |
| admission | Admission, MCAdmission | `TypeOK`, `Configurable`, `ModelFetchable`, `ResourcesSettled`, `FoundByDelete`, `GaugeBalanced` | requests that vary in resources, data stores and completeness, against three sets of limits, with stores and deletions of the record that may fail |
| log_follow | LogFollow, LogFollow | `TypeOK`, `NoGaps`, `CompleteWhenOk`, `ReadersEnd` | a request of any kind, with failing calls, for a log that grows while the job changes or is deleted |
| model_store | ModelStore, MCModelStore | `TypeOK`, `AckedStays`, `CompleteZip`, `DownloadSurvives`, `WriterEnds` | an upload, a deletion, a read and a download of two objects, on S3 and on Swift, with calls that fail, listings that lack objects and calls of S3 that hang |
| trainer_stranded, trainer_overstay, trainer_submit_fails | cfg of the same name, MCTrainer | one property each | violated, see [Findings](#findings) |

**Bounds of QueueLock.** Three goroutines on two replicas: a puller and a Delete handler with the
same `queueID`, and the puller of another replica. The proofs need of the constants 15, 5 and 60
only `LeaseCoversHold` (index present and `HoldBound + MaxSkew <= LockExpiration`) and
`RetriesOutlastLease` (`(LockRetries - 1) * LockRetryDelay > LockExpiration + MaxSkew`). The runs
use the smallest numbers that satisfy them with no slack: lease 2, hold 1, skew 1 for the first;
4 attempts 1 s apart against a lease of 2 for the second. An off-by-one in either direction is a
violation, as the mutants show. `MaxTime` (3 and 5) lets a lease be taken, run out and be taken
again, and lets `Lock` run through all attempts. The clock stops there, so deadlock is not checked.

**Bounds of Trainer.** Two replicas are enough for every race between pullers; handlers all run on
`r1` and so share its `queueID` with its puller and compete with `r2`. A creator serves any number
of requests, one at a time; halters, deleters and updaters one request each: their races are
between a request and the puller or one other request. `trainer_queue` has five jobs and a
backlog of three against a limit of two, so that the queue shrinks below its limit while requests
come in, two creators can be beyond the size check at once, and a wrongly dequeued job can be
enqueued again; jobs inside and outside the backlog and creators are symmetric. One replica may
crash. `trainer_lifecycle` has one job, all goroutines working on it, and no crash, which would
only make it larger: a process that dies is one whose goroutines take no more steps, and the
theorems on the same properties include crashes. `trainer_drain` has a job in the backlog and a
new one, a deleter and a crash. With `Faults`, every call of mongo and of the LCM may fail with or without effect.
Deadlock is not checked in the runs with faults, because the panic after a failed re-enqueue can
end all replicas, and then the system has stopped.

**Bounds of the others.** Service: two queues, so that one is still being pulled while the other
is closed, and one request at a time, so that a handler and a puller meet at a lock; two handlers
that meet there differ from this in their names only.
Admission: the limits have a type that is offered, one that is exhausted, one that is missing and
one that is named twice in either order; two terminal updates may reach the gauge (`MaxEnds`), of a job that
ends twice or of one that is updated again after a failed store. LogFollow: five lines on pages of two make full pages, a part of one and an empty one; statuses
before the start, while running, and the two last ones; one reader, because readers share nothing.
ModelStore: two objects in the directory that both stores count, each of which is there or not when
the download begins and may be written meanwhile, and listings of S3 that stop at one object, so
that they are whole or cut off; a size limit of one, which a listing that lacks an object stays
under; two attempts instead of ten; one download, because downloads share nothing but the buckets.
What happens with several objects
and directories is proved. Deadlock is not checked: requests end, and a process that has stopped stays so.

**Fairness.** *trainer_drain*: Every goroutine that can take a step does: each call returns,
because it has a timeout, and the ticker of `StartQueues` keeps firing. Strong fairness of `PullLock`:
the lock is free again and again, `Lock` tries for 75 s, and a tick follows; a puller is not
beaten every time. Strong fairness of `PullAllowed`: a ratelimiter that is asked again and again
says yes some time (and a ratelimiter that cannot be reached counts as yes). Neither is a guarantee of the
code; without the first a puller starves, without the second a job waits for ever, as it should.
No fairness is assumed of the arrival of requests, of crashes or of faults, and the run has no
faults: a job whose submission fails every time stays in the queue.
*service_stop*: calls return (`Lock` gives up after its retries), `StopTrainer` goes on where it
can, and strong fairness of `StopQueue`: Go's `select` chooses at random among the cases that are
ready, so a puller that is at its `select` again and again takes the stop some time. Nothing is
assumed of signals, requests or midnight. *log_follow*: calls return, and the two timers run.
*model_store*: calls of the store return, those of S3 in a download unless `WriteHangs`
says that they never will, and `Send` returns. Where a process may die or a client go away,
the properties say so.

## Findings

Each is a run that TLC must find violated, about a sentence in the code.

* **trainer_overstay**, `NoDoubleDeploy`. The lease is 60 s; the pull under it waits up to 60 s for the LCM and 1 s
  for the ratelimiter, besides the mongo calls. The lease is never renewed or checked. If it runs
  out before PENDING is stored, a second replica submits the same job.
* **trainer_stranded**, `QueuedJobHasEntry`. Create enqueues the job before it stores the record.
  A pull in between drops the entry ("assuming job was deleted"); the job stays QUEUED for ever.
* **trainer_submit_fails**, `FailedSubmitStaysQueued`. A failed submission leaves the entry but
  the record is PENDING already; the next pull drops the entry. The job is never submitted.

Known deviations that have no run of their own; the models contain them, so that the
properties that are checked hold in spite of them:

* `Dequeue` takes the earliest entry, Create enqueues without the lock and clocks are read before
  the insert, so an earlier entry can appear between `Peek` and `Dequeue` ("This should never
  happen", `trainer_impl.go:633`). The branch that enqueues the wrong job again is in Trainer.
* A kill between the store of PENDING and the deployment is answered "not found", which Halt takes
  for "no longer running" (`trainer_impl.go:1370`); the job runs although its halt was confirmed.
* An update that has read a record before Delete overwrote it writes it back without the deleted
  flag: there is no lock although `trainer_impl.go:979` suggests one.
* A terminal update erases the data stores, so `GetTrainedModel` looks for the results of a
  finished job in the internal store (`DownloadBegin`); a job that is stored as FAILED because it could
  not be enqueued keeps its data stores (`ChooseQueue`).
* `MODEL_STORE_TYPE` is empty if the connection of the output store has a type
  (`CreateJobConfig`).
* Delete removes no archive: `DeleteArchive` gets `JobId`, which nothing sets
  (`trainer_impl.go:1311`), though the comment two lines above says "delete model content from data
  store". `AckedStays` speaks only of archives whose job nobody asked to delete, and would hold of a
  Delete that does what the comment says.
* A directory with more than 1000 objects is downloaded from S3 without the rest of them
  (`s3_object_store.go:271`, `:345`), and two listings of Swift that are short by the same number
  are taken for complete (`swift_object_store.go:251`); the download succeeds. `CompleteZip` excepts
  what the listings left out, on S3 only for directories with more objects than that.
* A call of S3 that hangs keeps the download for ever ("TODO download hangs",
  `s3_object_store.go:297`): `WriterEnds` excepts it.
* An `Unlock` that fails is not noticed (`trainer_impl.go:559`, `:657`): the document stays until its
  lease ends, after StopTrainer has returned too.
* The size of a download is checked against fewer directories than are downloaded (`SizeDirs`,
  `ZipDirs`), and Swift retries an object into an entry that has a part of it already (`WriteCopy`).
* A terminal update takes the GPUs off the gauge before `Store` (`trainer_impl.go:1075`, `:1086`): if
  that fails the job goes on uncounted, and the update that is tried again takes them off twice.
  Jobs with several learners, and jobs that end more than once, leave the gauge too low too, and
  jobs that are deleted before their end leave it too high. `GaugeBalanced` speaks of what it shows
  up to the first terminal update and after it, whether or not that was stored.
* A request without a GPU type, or for no GPUs, is not checked against any limit and may be queued
  where Delete does not look: `ResourcesSettled` and `FoundByDelete` except them. Delete's
  comment says that the entry is then removed when the job is pulled.
* A client that goes away during a download leaves the goroutine blocked for ever, or makes it use
  a disconnected S3 store, which panics: `WriterEnds` and `DownloadSurvives` except this.

`UpdateFind` also shows that a halt of a finished job is answered as a success although the
comment (`trainer_impl.go:1002`) promises an error; there is no run for it, since it takes one look
at the code and no interleaving.

## Proofs

`tlapm <module>` for QueueLockProofs, TrainerProofs, TrainerQueueProofs, ServiceProofs,
AdmissionProofs, LogFollowProofs and ModelStoreProofs. Models use no recursion. Every invariant,
action property and refinement that a passing run checks is also a theorem.

**QueueLockProofs**, for every number of goroutines, replicas, attempts, every lease and skew:

* `TypeCorrect`.
* `MutualExclusion`, if `LeaseCoversHold`. `Mutex` alone is not inductive: it says nothing about
  the documents. `MutexInv` adds that clock values that were read lie in the past, that nobody is
  past `HoldBound`, that there is at most one document, and that a holder's own document is there.
  A `RemoveExpired` then cannot remove a holder's document, since the cutoff is at most
  `now + MaxSkew`, and the document expires no earlier than `mark + LockExpiration`.
* `NeverGivesUpOnAStaleLock`, if `RetriesOutlastLease`. `GiveUpInv` relates the loop counter to the
  time: as long as nobody has inserted a document since the call began, all documents expire by
  the time the call began plus a lease and the skew, and attempt `i` is made no earlier than
  `i * LockRetryDelay` after it; at the last attempt the collection is empty and the insert succeeds.
* `ImplementsLeaseLock`, if `LeaseCoversHold`: every step maps to a step of LeaseLock or a stutter.

**TrainerProofs**, for every set of jobs, replicas and requests:

* `TypeCorrect`, unconditionally. `TypeInv` adds to `TypeOK` that a goroutine at a place where it
  uses a job, an entry or a record has one.
* `QueueIsExclusive`, if `~Overstay`: `LockInv`, a goroutine under the lock is the only one and
  the document names its replica.
* `SubmittedOnce`, `DeployedIsNotQueued`, `NoRequeue`, if `~Overstay`. `JobInv` says who may still
  submit a job: ids not yet given out have no record; a create request has its id to itself; a
  puller between `Find` and `Store` has a job that was never deployed; one that is about to deploy
  has marked its record; no creator and puller have the same job; and whoever is about to write a
  record back has seen one. `TrainerInv` is the conjunction of the three.
* `EmptyStaysEmpty`, if `Backlog = {}`: nobody is ever about to insert (`NobodyInserts`), since a
  create request that finds the queue empty goes to the LCM.

**TrainerQueueProofs**, about the queue, for every set of jobs, replicas and requests:

* `UsesLeaseLock`, if `~Overstay`: Trainer implements LeaseLock. `Inside` maps the place of a
  goroutine to whether it works under the lock; `LeaseStep` goes through the actions that change
  the lock document or `Inside`, a crash and a panic included, and shows that the others stutter.
* `PendingMeansDeployed`, unconditionally. A history entry is written by a puller after an accepted
  deployment, or by an update. `HistoryInv` says that the first has a deployed job, that the LCM
  reports on deployed jobs only, and that a halt writes nothing but HALTED.
* `EntriesAreUnique`, unconditionally, even if leases run out. `EntryInv` counts an entry that a
  goroutine carries: entries in the queue have different jobs; a job that is carried, or that a
  create request is going to enqueue, has no entry, and only one goroutine carries or announces it.
* `QueueIsBounded`, if `~Overstay`, there are finitely many creators at a time, and the backlog fits
  the bound. `LengthInv` adds to the size the requests that have passed the check (`Admitted`) and the
  entry that a puller has taken out by mistake (`Taken`); under the lock there is at most one. The
  bound is the limit plus the number of creators. One less, which is what the check alone
  suggests, is false: an entry that is put back is not there when `Size` is asked.

`~Overstay` is what `MutualExclusion` and `ImplementsLeaseLock` establish from `LeaseCoversHold`,
and `trainer_overstay` shows that it is needed.

**ServiceProofs**, for any sets of queues and handlers: `PullersHaveQueues` and
`StopsCleanly`. Neither is inductive alone. `IInv` adds what the phase of the boot and of the
shutdown implies about the sessions and pullers (`Phases`), that a running puller, one that panics included, has the
session of its queue (`PullerOpen`), and that the puller owns the lock only in the locked part of a
pull or while it panics (`LockInPull`).

**AdmissionProofs**, for any sets of requests and limits, from `AdmissionAssumption`:
`TypeCorrect`, `NoNilInputStore`, `LearnerFindsModel`, `ResourcesAreSettled`, `DeleteFindsEntry`,
`GaugeReturnsToZero`. `IInv` says what is known at each place of `CreateTrainingJob`: the request
is validated and its resources are settled (`AdmittedInv`), there is nothing before the upload
(`NothingBefore`), the location is that of the output store (`LocationInv`); and how record, entry
and configuration follow from the request (`RecordInv`, `EntryInv`, `ConfigInv`). A QUEUED record
still has the data stores of the request, which is why `createJobConfig` finds them. `GaugeInv`
gives the gauge at every point, up to the first terminal update and after it, and `EndedInv` says
that a record which has ended has had such an update.

**LogFollowProofs**, for any page size, number of lines and readers: `TypeCorrect`, `LinesInOrder`,
`OkIsComplete`. `PageInv` says that a page ends no later than the log did at the query, that it is
empty only if there was nothing from `rindex` on, and that a reader which has seen an empty page
stands right behind the last line there was.

**ModelStoreProofs**, for any archives, objects, directories and requests, from
`ObjectStoreAssumption` and `ModelStoreAssumption`:

* `TypeCorrect`, with `SendsItem`: a handler that is about to send has read something.
* `UploadsStay`. `ArchiveInv`: a bucket with objects exists, and an archive is in the internal store
  before its upload to the user's begins. No step takes an object away, and a bucket is removed only
  while it is empty, so a deletion that saw it empty before the upload does no harm later. That
  includes the archives of deleted jobs, since Delete takes none away; the theorem leaves them out.
* `ProcessSurvives`. `ClientInv`: a goroutine that still lists or copies has a client, or Send has
  failed. It needs `Phases`: the handler disconnects after the write end was closed, and then the
  goroutine lists and copies no more.
* `OkZipIsComplete`, for any `MaxKeys` and any listings as `Listings` allows them. `ZipOf` says of each
  object that was there at the beginning and that no listing has left out (`missed`) that it is in
  the zip as a whole (received, read, or in the pipe), in the current directory's list, or in a
  directory still to be listed, unless an error is on its way; and that the end of the zip is the
  last that was written once the goroutine closes. Swift's retries leave a cut-off entry and keep
  the object in the list; its second listing is of the directory of the first (`VerifiesDir`).
  `MissedInv` says that S3 leaves objects out only of directories with more than `MaxKeys`.

Only model-checked: liveness (`EntriesDrain`, `ShutdownEnds`, `ReadersEnd`, `WriterEnds`), since
fairness and `ENABLED` are out of the prover's reach.

## Not modelled

* Generated gRPC code, thin clients (`src/lcm-client`, `src/client`, `src/plugins`), logging and the
  call logger: they make no decision.
* Dialling mongo with TLS and credentials, URL rewriting of the object stores: pure I/O.
* `GetTrainingJob`, `GetTrainingStatusID`, `GetAllTrainingsJobs`, `GetVersions`: they read one
  snapshot and change nothing. `ResumeTrainingJob` only returns an error.
* `deleteJobFromTDS`: it runs beside Delete and only its error is visible, through a shared variable.
* `DownloadTrainedModelLogFile` of the stores, which no handler calls; the in-memory store, which
  tests use; the stubs for mounted volumes.
* Counters for prometheus; of the metrics only the usage gauge and the resetting goroutines are modelled.
* The credentials, names and images that `createJobConfig` copies into the message.

Theorems still worth adding: the safety part of the liveness arguments (what must hold for a pull, a
shutdown or a download to go on), and that Service uses the locks of its queues as LeaseLock
describes.
