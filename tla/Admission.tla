------------------------------- MODULE Admission -------------------------------
(***************************************************************************)
(* How trainer_impl.go admits a training job and what becomes of the       *)
(* values that it fixes then: validateRequest, the check of the GPU type   *)
(* against the configured limits, setDefaultResourceRequirements, the      *)
(* choice of the queue, createJobConfig, and trainerUsageGauge.            *)
(*                                                                         *)
(* This is the life of one job.  Other jobs matter only because they make  *)
(* the queue non-empty, or full, when the job is created; the steps of the *)
(* queue and of the repository are in Trainer, and those of the object     *)
(* stores in ModelStore.                                                   *)
(***************************************************************************)
EXTENDS Integers, Sequences

CONSTANTS
    Request,   \* the CreateRequests that are considered
    Limits,    \* the values of gpu.limits: sequences of [name, limit]
    MaxEnds,   \* bound on the terminal updates that reach the gauge
    None       \* no record, no data store, no job configuration

(* The names of resource types that users and operators write.  They stand *)
(* for nvidia-TeslaK80 (k80), its transformed form (K80), and so on.       *)
(* TransformResourceName maps them to upper case, with - and . replaced.   *)
Name == {"", "K80", "k80", "P100", "CPU", "cpu"}

TransformResourceName(n) ==
    IF n = "k80" THEN "K80" ELSE IF n = "cpu" THEN "CPU" ELSE n

Resources == [gpuType : Name, gpus : Nat, learners : Nat]

(* A data store of the user: what is known of its connection is whether it  *)
(* has a type of its own, and how it answers.                               *)
Datastore ==
    [id : STRING \ {"internal"}, type : STRING, override : STRING,
     state : {"ok", "incomplete", "refused"}, bucket : STRING]

(* complete stands for the user, the name and content of the model and the *)
(* command; image for an image of the user's own.                          *)
CreateRequest ==
    [complete : BOOLEAN, image : BOOLEAN, framework : {"known", "unknown"},
     resources : Resources \cup {None}, input : Seq(STRING), output : Seq(STRING),
     stores : Seq(Datastore), location : STRING]

ASSUME AdmissionAssumption ==
    /\ Request \subseteq CreateRequest
    /\ \A q \in Request : q.location = ""
    /\ Limits \subseteq Seq([name : Name, limit : Int])
    /\ MaxEnds \in Nat
    /\ None \notin Resources \cup Datastore

VARIABLES
    limits,     \* gpu.limits
    internal,   \* does the trainer have an object store of its own?
    request,    \* the request, as the handler has changed it
    asked,      \* the GPU type of the request before the defaults
    pc,         \* what CreateTrainingJob does next
    reason,     \* why the request was rejected
    record,     \* the training record
    entry,      \* the queues that have an entry of the job
    config,     \* the job configuration that the LCM has got
    gauge,      \* trainerUsageGauge, by GPU type
    ends,       \* how many terminal updates have reached the gauge
    alive       \* is the trainer process running?

vars == <<limits, internal, request, asked, pc, reason, record, entry, config, gauge,
          ends, alive>>
configuration == <<limits, internal>>

--------------------------------------------------------------------------------
(* Limits and queues                                                         *)

Matches(l, t) == {i \in DOMAIN l : TransformResourceName(l[i].name) = t}

(* getGpuLimitByType takes the first match ... *)
GpuLimitByType(l, t) ==
    IF Matches(l, t) = {} THEN 0
    ELSE l[CHOOSE i \in Matches(l, t) : \A k \in Matches(l, t) : i <= k].limit

(* ... and getGpuMapFromConfig the last. *)
GpuAvailable(l, t) ==
    l[CHOOSE i \in Matches(l, t) : \A k \in Matches(l, t) : k <= i].limit

(* The queue for a type: there is one for each known type with a limit. *)
QueueFor(t) ==
    IF t \in {"K80", "P100", "CPU"} /\ GpuLimitByType(limits, t) > 0 THEN t ELSE "ANY"

Offered(t) == Matches(limits, t) # {} /\ GpuAvailable(limits, t) # 0

(* An empty type is accepted unseen. *)
ResourcesAccepted(r) ==
    /\ r # None
    /\ r.gpuType = "" \/ Offered(TransformResourceName(r.gpuType))

--------------------------------------------------------------------------------
(* Defaults                                                                  *)

(* Wrong: only a job without a type and without GPUs becomes a CPU job. *)
SetDefaultsTypeFirst(r) ==
    LET type == IF r.gpus = 0 /\ r.gpuType = "" THEN "CPU" ELSE r.gpuType
    IN [gpuType |-> IF type = "" THEN "k80" ELSE type,
        gpus |-> IF TransformResourceName(type) = "CPU" THEN 0 ELSE r.gpus,
        learners |-> r.learners]

(* setDefaultResourceRequirements: no GPUs make a job a CPU job, a CPU job has *)
(* no GPUs, and the type is k80 if it is still not set.  The defaults of the   *)
(* CPUs and the memory are left out, since nothing here depends on them.       *)
SetDefaults(r) ==
    LET type == IF r.gpus = 0 THEN "CPU" ELSE r.gpuType
    IN [gpuType |-> IF type = "" THEN "k80" ELSE type,
        gpus |-> IF TransformResourceName(type) = "CPU" THEN 0 ELSE r.gpus,
        learners |-> r.learners]

(* The GPUs of all learners. *)
GpusUsed(r) == IF r.learners > 1 THEN r.gpus * r.learners ELSE r.gpus

--------------------------------------------------------------------------------
(* Data stores                                                               *)

Named(n, ds) == {i \in DOMAIN ds : ds[i].id = n}

FindDatastore(n, ds) ==
    IF Named(n, ds) = {} THEN None
    ELSE ds[CHOOSE i \in Named(n, ds) : \A k \in Named(n, ds) : i <= k]

InternalStore == [id |-> "internal", type |-> "s3", override |-> "", state |-> "ok", bucket |-> "trained"]

(* The internal store is the fallback, whether or not there is one. *)
OutputDatastore(output, ds) ==
    IF output # <<>> /\ FindDatastore(output[1], ds) # None
    THEN FindDatastore(output[1], ds) ELSE InternalStore

(* The error code, "" if there is none: the store can be incomplete, or    *)
(* refuse the connection or have no such bucket.                           *)
ValidateDatastore(d) ==
    IF d.state = "incomplete" THEN "manifest"
    ELSE IF d.state = "refused" THEN "credentials" ELSE ""

(* Wrong: only output data must name a data store. *)
ValidateReferenceOutputOnly(names, ds) ==
    IF names = <<>> \/ FindDatastore(names[1], ds) = None THEN ""
    ELSE ValidateDatastore(FindDatastore(names[1], ds))

ValidateReference(names, ds) ==
    IF names = <<>> THEN ""
    ELSE IF FindDatastore(names[1], ds) = None THEN "manifest"
    ELSE ValidateDatastore(FindDatastore(names[1], ds))

OutputCount(q) == Len(q.output) <= 1 /\ (internal \/ q.output # <<>>)

(* The user, the model definition and the command: a framework is not      *)
(* looked up if the request brings an image of its own.                    *)
Complete(q) ==
    /\ q.complete
    /\ q.image \/ q.framework = "known"

ValidateRequest(q) ==
    IF ~Complete(q) \/ Len(q.input) # 1 \/ ~OutputCount(q) \/ q.stores = <<>> THEN "manifest"
    ELSE IF ValidateReference(q.input, q.stores) # "" THEN ValidateReference(q.input, q.stores)
    ELSE ValidateReference(q.output, q.stores)

--------------------------------------------------------------------------------
(* Job configuration                                                         *)

StoreType(d) == IF d.override # "" THEN d.override ELSE d.type

(* The environment variables that depend on the data stores.  A type in the *)
(* connection of the output store makes MODEL_STORE_TYPE empty, because     *)
(* RESULT_STORE_TYPE is read before it is set.                              *)
CreateJobConfig(r) ==
    LET data == FindDatastore(r.input[1], r.stores)
        results == OutputDatastore(r.output, r.stores)
    IN [DATA_STORE_TYPE |-> StoreType(data),
        MODEL_STORE_TYPE |-> IF results.override # "" THEN "" ELSE results.type,
        MODEL_STORE |-> results.id,
        MODEL_STORE_OBJECTID |-> r.location,
        RESULT_STORE_TYPE |-> StoreType(results),
        RESULT_STORE_OBJECTID |-> results.bucket,
        GPU_COUNT |-> r.resources.gpus,
        gpu_type |-> r.resources.gpuType]

(* createJobConfig dereferences the input store without a check. *)
CanConfigure(r) == FindDatastore(r.input[1], r.stores) # None

--------------------------------------------------------------------------------

Finished == {"COMPLETED", "FAILED", "HALTED"}

Record(status, location) ==
    [status |-> status, resources |-> request.resources, input |-> request.input,
     output |-> request.output, stores |-> request.stores, location |-> location]

TypeOK ==
    /\ limits \in Limits
    /\ internal \in BOOLEAN
    /\ asked \in Name
    /\ pc \in {"idle", "upload", "queue", "store", "submit", "count", "done", "rejected"}
    /\ reason \in {"", "manifest", "credentials", "resources", "upload", "full", "failed"}
    /\ entry \subseteq {"K80", "P100", "CPU", "ANY"}
    /\ gauge \in [Name -> Int]
    /\ ends \in 0 .. MaxEnds
    /\ alive \in BOOLEAN

Init ==
    /\ limits \in Limits
    /\ internal \in BOOLEAN
    /\ request \in Request
    /\ asked = ""
    /\ pc = "idle"
    /\ reason = ""
    /\ record = None
    /\ entry = {}
    /\ config = None
    /\ gauge = [t \in Name |-> 0]
    /\ ends = 0
    /\ alive = TRUE

--------------------------------------------------------------------------------
(* CreateTrainingJob                                                         *)

Reject(why) == pc' = "rejected" /\ reason' = why

(* Validation, the limits and the defaults.  The queue is that of the type   *)
(* in the request, which the defaults may change.                            *)
Validate ==
    /\ alive
    /\ pc = "idle"
    /\ \/ /\ ValidateRequest(request) # ""
          /\ Reject(ValidateRequest(request))
          /\ UNCHANGED <<request, asked>>
       \/ /\ ValidateRequest(request) = ""
          /\ ~ResourcesAccepted(request.resources)
          /\ Reject("resources")
          /\ UNCHANGED <<request, asked>>
       \/ /\ ValidateRequest(request) = ""
          /\ ResourcesAccepted(request.resources)
          /\ asked' = TransformResourceName(request.resources.gpuType)
          /\ request' = [request EXCEPT !.resources = SetDefaults(@)]
          /\ pc' = "upload"
          /\ UNCHANGED reason
    /\ UNCHANGED <<configuration, record, entry, config, gauge, ends, alive>>

(* Wrong: the location stays that of the internal store. *)
UploadKeepsLocation ==
    /\ alive
    /\ pc = "upload"
    /\ pc' = "queue"
    /\ request' = [request EXCEPT !.location =
                     IF OutputDatastore(request.output, request.stores).bucket = "none" THEN ""
                     ELSE IF internal THEN "internal"
                     ELSE OutputDatastore(request.output, request.stores).id]
    /\ UNCHANGED <<configuration, asked, reason, record, entry, config, gauge, ends, alive>>

(* The model is uploaded to the internal store and to the output store, whose *)
(* location is kept, unless there is to be no result.  A connection to the    *)
(* output store that fails ends the process (Fatalf).                         *)
Upload ==
    /\ alive
    /\ pc = "upload"
    /\ LET out == OutputDatastore(request.output, request.stores) IN
         \/ /\ out.bucket = "none"
            /\ pc' = "queue"
            /\ UNCHANGED <<request, reason, alive>>
         \/ /\ out.bucket # "none"
            /\ \/ /\ pc' = "queue"
                  /\ request' = [request EXCEPT !.location = out.id]
                  /\ UNCHANGED <<reason, alive>>
               \/ Reject("upload") /\ UNCHANGED <<request, alive>>
               \/ alive' = FALSE /\ UNCHANGED <<request, pc, reason>>
    /\ UNCHANGED <<configuration, asked, record, entry, config, gauge, ends>>

(* Wrong: the name of the type is not transformed ... *)
ChooseQueueRaw ==
    /\ alive
    /\ pc = "queue"
    /\ entry' = {IF request.resources.gpuType = asked THEN QueueFor(asked) ELSE "ANY"}
    /\ pc' = "store"
    /\ UNCHANGED <<configuration, request, asked, reason, record, config, gauge, ends, alive>>

(* ... or there is no queue for the other types. *)
ChooseQueueNoFallback ==
    /\ alive
    /\ pc = "queue"
    /\ entry' = {asked}
    /\ pc' = "store"
    /\ UNCHANGED <<configuration, request, asked, reason, record, config, gauge, ends, alive>>

(* The queue is full; or it has entries, and the job is enqueued; or it is    *)
(* empty.  A job that cannot be enqueued is stored as FAILED.  A call that    *)
(* fails may have had its effect.                                             *)
ChooseQueue ==
    /\ alive
    /\ pc = "queue"
    /\ \/ Reject("full") /\ UNCHANGED <<entry, record>>
       \/ /\ entry' = {QueueFor(asked)}
          /\ pc' = "store"
          /\ UNCHANGED <<reason, record>>
       \/ /\ Reject("failed")
          /\ record' \in {record, Record("FAILED", request.location)}
          /\ entry' \in {entry, {QueueFor(asked)}}
       \/ pc' = "submit" /\ UNCHANGED <<entry, reason, record>>
    /\ UNCHANGED <<configuration, request, asked, config, gauge, ends, alive>>

CreateStore ==
    /\ alive
    /\ pc = "store"
    /\ \/ /\ record' = Record("QUEUED", request.location)
          /\ pc' = "count"
          /\ UNCHANGED reason
       \/ /\ Reject("failed")
          /\ record' \in {record, Record("QUEUED", request.location)}
    /\ UNCHANGED <<configuration, request, asked, entry, config, gauge, ends, alive>>

(* submitJobToLCM for a job that is in no queue.  The record cannot be stored, *)
(* or the deployment fails, with or without effect.                           *)
CreateSubmit ==
    /\ alive
    /\ pc = "submit"
    /\ LET r == Record("PENDING", request.location) IN
         \/ ~CanConfigure(r) /\ alive' = FALSE /\ UNCHANGED <<pc, reason, record, config>>
         \/ /\ CanConfigure(r)
            /\ record' = r
            /\ config' = CreateJobConfig(r)
            /\ pc' = "count"
            /\ UNCHANGED <<reason, alive>>
         \/ /\ CanConfigure(r)
            /\ \/ UNCHANGED <<record, config>>
               \/ record' = r /\ config' \in {config, CreateJobConfig(r)}
            /\ Reject("failed")
            /\ UNCHANGED alive
    /\ UNCHANGED <<configuration, request, asked, entry, gauge, ends>>

Count ==
    /\ alive
    /\ pc = "count"
    /\ gauge' = [gauge EXCEPT ![request.resources.gpuType] = @ + request.resources.gpus]
    /\ pc' = "done"
    /\ UNCHANGED <<configuration, request, asked, reason, record, entry, config, ends, alive>>

--------------------------------------------------------------------------------
(* The job afterwards                                                        *)

Queued == record # None /\ record.status = "QUEUED"

Marked(status) == [record EXCEPT !.status = status]

(* A puller takes the entry and submits the job, or drops the entry of a job *)
(* that is not QUEUED; after a failed submission the entry stays.            *)
Pull(q) ==
    /\ alive
    /\ q \in entry
    /\ \/ /\ ~Queued
          /\ entry' = entry \ {q}
          /\ UNCHANGED <<record, config, alive>>
       \/ /\ Queued
          /\ \/ ~CanConfigure(record) /\ alive' = FALSE /\ UNCHANGED <<entry, record, config>>
             \/ /\ CanConfigure(record)
                /\ record' = Marked("PENDING")
                /\ \/ entry' = entry \ {q} /\ config' = CreateJobConfig(record)
                   \/ entry' = entry /\ config' \in {config, CreateJobConfig(record)}
                /\ UNCHANGED alive
    /\ UNCHANGED <<configuration, request, asked, pc, reason, gauge, ends>>

(* The owner halts the job, or the monitor of a deployed job reports on it. *)
UpdateAccepted(status) ==
    /\ alive
    /\ record # None
    /\ status = "HALTED" \/ config # None
    /\ ~(record.status \in Finished /\ status = "HALTED")

(* The GPUs of the job are taken off the gauge. *)
Uncount ==
    /\ ends < MaxEnds
    /\ gauge' = [gauge EXCEPT ![record.resources.gpuType] = @ - GpusUsed(record.resources)]
    /\ ends' = ends + 1

(* A terminal update erases the data stores. *)
Updated(status) ==
    IF status \in Finished THEN [Marked(status) EXCEPT !.stores = <<>>] ELSE Marked(status)

(* Wrong: the gauge changes only after Store has returned without an error. *)
UpdateStoresFirst(status) ==
    /\ UpdateAccepted(status)
    /\ \/ record' = Updated(status) /\ status \in Finished /\ Uncount
       \/ record' = Updated(status) /\ status \notin Finished /\ UNCHANGED <<gauge, ends>>
       \/ record' \in {record, Updated(status)} /\ UNCHANGED <<gauge, ends>>
    /\ UNCHANGED <<configuration, request, asked, pc, reason, entry, config, alive>>

(* UpdateTrainingJob.  A terminal update takes the GPUs off the gauge, whether *)
(* or not the job had ended before, and before Store, which may fail with or   *)
(* without effect.                                                             *)
Update(status) ==
    /\ UpdateAccepted(status)
    /\ IF status \in Finished THEN Uncount ELSE UNCHANGED <<gauge, ends>>
    /\ record' \in {record, Updated(status)}
    /\ UNCHANGED <<configuration, request, asked, pc, reason, entry, config, alive>>

(* DeleteTrainingJob looks for the entry in the queue of the stored type.  Its *)
(* deletion of the record may fail, with or without effect.                    *)
Delete ==
    /\ alive
    /\ record # None
    /\ entry' \in IF record.status = "QUEUED"
                  THEN {entry, entry \ {QueueFor(TransformResourceName(record.resources.gpuType))}}
                  ELSE {entry}
    /\ record' \in {record, None}
    /\ UNCHANGED <<configuration, request, asked, pc, reason, config, gauge, ends, alive>>

Create == Validate \/ Upload \/ ChooseQueue \/ CreateStore \/ CreateSubmit \/ Count

Next ==
    \/ Create
    \/ \E q \in entry : Pull(q)
    \/ \E s \in Finished \cup {"PROCESSING"} : Update(s)
    \/ Delete

Spec == Init /\ [][Next]_vars

--------------------------------------------------------------------------------
(* createJobConfig never dereferences a missing input store: a job that it    *)
(* may be called for has one, although terminal updates erase the data stores *)
(* of records whose entries are still in the queue.                           *)
Configurable ==
    /\ pc \in {"queue", "store", "submit"} => CanConfigure(request)
    /\ Queued => CanConfigure(record)

(* The learner is told to fetch the model from the store that it was uploaded *)
(* to, unless the user wants no result; and results go to the internal store  *)
(* only if there is one.                                                      *)
ModelFetchable ==
    config # None =>
        /\ config.MODEL_STORE_OBJECTID =
             IF config.RESULT_STORE_OBJECTID = "none" THEN "" ELSE config.MODEL_STORE
        /\ config.MODEL_STORE = "internal" => internal

(* The resources of an admitted job are settled: applying the defaults again  *)
(* changes neither its GPUs nor its type (though it may write the type in     *)
(* another way), and a job has no GPUs exactly if its type is CPU.  Its type  *)
(* has a limit, unless the user named none or wanted no GPUs, in which case   *)
(* the limit of the type that it gets is never looked at.                     *)
ResourcesSettled ==
    pc \notin {"idle", "rejected"} =>
        LET r == request.resources
            t == TransformResourceName(r.gpuType)
        IN /\ SetDefaults(r).gpus = r.gpus
           /\ TransformResourceName(SetDefaults(r).gpuType) = t
           /\ r.gpus = 0 <=> t = "CPU"
           /\ asked = "" \/ r.gpus = 0 \/ Offered(t)

(* DeleteTrainingJob looks for the entry of a queued job where the  *)
(* creation has put it, although one goes by the stored type and the other by the  *)
(* type of the request, unless the user named no type or wanted no GPUs.      *)
FoundByDelete ==
    Queued /\ entry # {} =>
        \/ entry = {QueueFor(TransformResourceName(record.resources.gpuType))}
        \/ asked = "" \/ record.resources.gpus = 0

(* trainerUsageGauge once CreateTrainingJob has returned, for a job with one   *)
(* learner that at most one terminal update has taken off it: it is counted    *)
(* with the GPUs that it uses, under its type, until that update, and not      *)
(* after it; and a job whose record says that it has ended is never counted,   *)
(* also when the Store that said so has failed.                                *)
GaugeBalanced ==
    pc = "done" /\ ends <= 1 /\ request.resources.learners <= 1 =>
        /\ gauge = [t \in Name |->
                      IF ends = 0 /\ t = request.resources.gpuType THEN request.resources.gpus ELSE 0]
        /\ record # None /\ record.status \in Finished => \A t \in Name : gauge[t] = 0
================================================================================
