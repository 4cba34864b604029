----------------------------- MODULE AdmissionProofs ---------------------------
(***************************************************************************)
(* Proofs about the admission of a job, for any set of requests and any    *)
(* limits.                                                                 *)
(*                                                                         *)
(* What CreateTrainingJob has fixed in the request stays as it is, and the *)
(* record, the entry and the job configuration are copies of it: the       *)
(* invariant says which part of each copy is still the same.               *)
(***************************************************************************)
EXTENDS Admission, WellFoundedInduction, TLAPS

(* The request has passed validation ... *)
Admitted ==
    pc \notin {"idle", "rejected"} \/ (pc = "rejected" /\ reason \in {"upload", "full", "failed"})

(* ... and its model has been uploaded. *)
Uploaded ==
    \/ pc \in {"queue", "store", "submit", "count", "done"}
    \/ pc = "rejected" /\ reason \in {"full", "failed"}

Output == OutputDatastore(request.output, request.stores)

(* What setDefaultResourceRequirements leaves. *)
Settled(r) ==
    /\ SetDefaults(r).gpus = r.gpus
    /\ TransformResourceName(SetDefaults(r).gpuType) = TransformResourceName(r.gpuType)
    /\ r.gpus = 0 <=> TransformResourceName(r.gpuType) = "CPU"

AdmittedInv ==
    Admitted =>
        /\ request.resources \in Resources /\ Settled(request.resources)
        /\ \/ asked = "" \/ request.resources.gpus = 0
           \/ /\ asked = TransformResourceName(request.resources.gpuType)
              /\ Offered(asked)
        /\ CanConfigure(request)
        /\ Output.id = "internal" => internal

(* Nothing is there before a request is admitted. *)
NothingBefore ==
    ~Uploaded => record = None /\ entry = {} /\ config = None

LocationInv ==
    /\ ~Admitted \/ pc = "upload" => request.location = ""
    /\ Uploaded => request.location = IF Output.bucket = "none" THEN "" ELSE Output.id

(* The record is a copy of the request; a terminal update erases its stores. *)
RecordInv ==
    record # None =>
        /\ record = [Record(record.status, request.location) EXCEPT !.stores = record.stores]
        /\ record.status = "QUEUED" => record.stores = request.stores

EntryInv == entry \subseteq {QueueFor(asked)}

ConfigInv ==
    config # None =>
        /\ config.MODEL_STORE = Output.id
        /\ config.MODEL_STORE_OBJECTID = request.location
        /\ config.RESULT_STORE_OBJECTID = Output.bucket

(* The gauge after at most one terminal update. *)
GaugeInv ==
    /\ gauge \in [Name -> Int] /\ ends \in 0 .. MaxEnds
    /\ ~Uploaded => ends = 0 /\ \A t \in Name : gauge[t] = 0
    /\ Uploaded /\ ends <= 1 => \A t \in Name :
         gauge[t] = IF t # request.resources.gpuType THEN 0
                    ELSE (IF pc = "done" THEN request.resources.gpus ELSE 0)
                           - (IF ends = 1 THEN GpusUsed(request.resources) ELSE 0)

(* Only a terminal update that has reached the gauge ends a job that was *)
(* created.                                                              *)
EndedInv ==
    Uploaded /\ pc # "rejected" /\ record # None /\ record.status \in Finished => ends > 0

Types ==
    /\ internal \in BOOLEAN
    /\ ~Uploaded => request \in CreateRequest
    /\ asked \in Name

IInv ==
    Types /\ AdmittedInv /\ NothingBefore /\ LocationInv /\ RecordInv /\ EntryInv
      /\ ConfigInv /\ GaugeInv /\ EndedInv

(* The defaults leave resources that are settled, and change the type only of *)
(* a job without a type or without GPUs.                                      *)
LEMMA DefaultsSettle ==
    ASSUME NEW r \in Resources
    PROVE  /\ SetDefaults(r) \in Resources
           /\ Settled(SetDefaults(r))
           /\ r.gpuType = "" \/ SetDefaults(r).gpus = 0 \/ SetDefaults(r).gpuType = r.gpuType
BY DEF Resources, SetDefaults, Settled, TransformResourceName, Name

(* The numbers that the gauge adds and subtracts. *)
LEMMA UsedGpus ==
    ASSUME NEW r \in Resources
    PROVE  /\ r.gpuType \in Name /\ r.gpus \in Int /\ GpusUsed(r) \in Int
           /\ r.learners <= 1 => GpusUsed(r) = r.gpus
<1>1. r.gpuType \in Name /\ r.gpus \in Nat /\ r.learners \in Nat
    BY DEF Resources
<1>2. \A a, b \in Nat : a * b \in Int
    OBVIOUS
<1>3. r.gpus * r.learners \in Int
    BY <1>1, <1>2
<1> QED BY <1>1, <1>3 DEF GpusUsed

(* A set of numbers that is not empty has a least one. *)
LEMMA LeastNumber ==
    ASSUME NEW I \in SUBSET Nat, I # {}
    PROVE  \E i \in I : \A k \in I : i <= k
<1>1. PICK i \in I : \A k \in I : <<k, i>> \notin OpToRel(<, Nat)
    BY WFMin, NatLessThanWellFounded
<1>2. \A k \in I : ~(k < i)
    BY <1>1 DEF OpToRel
<1> QED BY <1>2

(* A data store that is found is one of the list. *)
LEMMA FoundInList ==
    ASSUME NEW ds \in Seq(Datastore), NEW n, FindDatastore(n, ds) # None
    PROVE  FindDatastore(n, ds) \in Datastore
<1> DEFINE I == Named(n, ds)
<1>1. I # {} /\ I \subseteq 1 .. Len(ds) /\ Len(ds) \in Nat
    BY DEF FindDatastore, Named
<1>2. \E i \in I : \A k \in I : i <= k
    BY <1>1, LeastNumber
<1> DEFINE c == CHOOSE i \in I : \A k \in I : i <= k
<1>3. c \in I
    BY <1>2
<1>4. FindDatastore(n, ds) = ds[c]
    BY <1>1 DEF FindDatastore
<1> QED BY <1>1, <1>3, <1>4

(* Arithmetic facts, stated apart from the Boolean variables of the model.    *)
LEMMA Arithmetic ==
    /\ \A s : Len(s) = 1 => s # <<>>
    /\ \A n \in Nat : 0 \in 0 .. n
    /\ [t \in Name |-> 0] \in [Name -> Int]
<1>1. \A s : Len(s) = 1 => s # <<>>
    OBVIOUS
<1>2. \A n \in Nat : 0 \in 0 .. n
    OBVIOUS
<1>3. [t \in Name |-> 0] \in [Name -> Int]
    OBVIOUS
<1> QED BY <1>1, <1>2, <1>3

(* What a valid request guarantees about the data stores it names. *)
LEMMA ValidRequest ==
    ASSUME NEW q \in CreateRequest, internal \in BOOLEAN, ValidateRequest(q) = ""
    PROVE  /\ CanConfigure(q)
           /\ OutputDatastore(q.output, q.stores).id = "internal" => internal
<1>1. /\ Len(q.input) = 1 /\ OutputCount(q)
      /\ ValidateReference(q.input, q.stores) = ""
      /\ ValidateReference(q.output, q.stores) = ""
    BY DEF ValidateRequest
<1>2. CanConfigure(q)
    <2>1. q.input # <<>>
        BY <1>1, Arithmetic, Zenon
    <2> QED BY <1>1, <2>1 DEF ValidateReference, CanConfigure
<1>3. CASE q.output = <<>>
    BY <1>1, <1>2, <1>3 DEF OutputCount
<1>4. CASE q.output # <<>>
    <2>1. FindDatastore(q.output[1], q.stores) # None
        BY <1>1, <1>4 DEF ValidateReference
    <2>2. FindDatastore(q.output[1], q.stores) \in Datastore
        BY <2>1, FoundInList DEF CreateRequest
    <2>3. FindDatastore(q.output[1], q.stores).id # "internal"
        BY <2>2 DEF Datastore
    <2> QED BY <1>2, <1>4, <2>1, <2>3 DEF OutputDatastore
<1> QED BY <1>3, <1>4

LEMMA InitIInv == Init => IInv
<1> SUFFICES ASSUME Init PROVE IInv
    OBVIOUS
<1>1. ~Admitted /\ ~Uploaded
    BY DEF Init, Admitted, Uploaded
<1>2. Types
    BY AdmissionAssumption DEF Init, Types, Name
<1>3. AdmittedInv /\ NothingBefore /\ RecordInv /\ EntryInv /\ ConfigInv
    BY <1>1 DEF Init, AdmittedInv, NothingBefore, RecordInv, EntryInv, ConfigInv
<1>4. LocationInv
    BY <1>1, AdmissionAssumption DEF Init, LocationInv
<1>6. EndedInv
    BY <1>1 DEF EndedInv
<1>5. GaugeInv
    <2>1. gauge \in [Name -> Int] /\ \A t \in Name : gauge[t] = 0
        BY Arithmetic, Zenon DEF Init
    <2>2. ends = 0 /\ ends \in 0 .. MaxEnds
        BY AdmissionAssumption, Arithmetic, Zenon DEF Init
    <2> QED BY <1>1, <2>1, <2>2 DEF GaugeInv
<1> QED BY <1>2, <1>3, <1>4, <1>5, <1>6 DEF IInv

(* Validate establishes what is said of an admitted request. *)
LEMMA ValidateIInv == IInv /\ Validate => IInv'
<1> SUFFICES ASSUME IInv, Validate PROVE IInv'
    OBVIOUS
<1> USE AdmissionAssumption DEF IInv, Types, NothingBefore, RecordInv, EntryInv, ConfigInv,
        GaugeInv, EndedInv, LocationInv, configuration, Uploaded, Admitted
<1>1. CASE pc' = "rejected"
    <2>1. reason' \in {"manifest", "credentials", "resources"} /\ UNCHANGED <<request, asked>>
        BY <1>1 DEF Validate, Reject, ValidateRequest, ValidateReference, ValidateDatastore
    <2>2. ~Admitted' /\ ~Uploaded' /\ ~Admitted /\ ~Uploaded
        BY <1>1, <2>1 DEF Validate
    <2> QED BY <2>1, <2>2 DEF Validate, AdmittedInv, QueueFor
<1>2. CASE pc' = "upload"
    <2> DEFINE r == request.resources
    <2>1. /\ ValidateRequest(request) = "" /\ ResourcesAccepted(r)
          /\ asked' = TransformResourceName(r.gpuType)
          /\ request' = [request EXCEPT !.resources = SetDefaults(@)]
          /\ pc = "idle"
        BY <1>2 DEF Validate, Reject
    <2>2. r \in Resources
        BY <2>1 DEF ResourcesAccepted, CreateRequest
    <2>3. /\ SetDefaults(r) \in Resources /\ Settled(SetDefaults(r))
          /\ r.gpuType = "" \/ SetDefaults(r).gpus = 0 \/ SetDefaults(r).gpuType = r.gpuType
        BY <2>2, DefaultsSettle
    <2>4. /\ request' \in CreateRequest /\ request'.resources = SetDefaults(r)
          /\ request'.input = request.input /\ request'.output = request.output
          /\ request'.stores = request.stores /\ request'.location = ""
        BY <2>1, <2>3 DEF CreateRequest
    <2>5. asked' \in Name
        BY <2>1, <2>2 DEF TransformResourceName, Resources, Name
    <2>6. CanConfigure(request) /\ (Output.id = "internal" => internal)
        BY <2>1, ValidRequest DEF Output
    <2>7. AdmittedInv'
        <3>1. (CanConfigure(request) /\ (Output.id = "internal" => internal))'
            BY <2>4, <2>6 DEF Validate, CanConfigure, Output
        <3>2. \/ asked' = "" \/ request'.resources.gpus = 0
              \/ /\ asked' = TransformResourceName(request'.resources.gpuType)
                 /\ Offered(asked)'
            <4>1. r.gpuType = "" => asked' = ""
                BY <2>1 DEF TransformResourceName
            <4>2. r.gpuType # "" => Offered(asked)'
                BY <2>1 DEF ResourcesAccepted, Offered, Validate
            <4> QED BY <2>1, <2>3, <2>4, <4>1, <4>2
        <3> QED BY <2>3, <2>4, <3>1, <3>2 DEF AdmittedInv
    <2> QED BY <1>2, <2>1, <2>4, <2>5, <2>7 DEF Validate
<1> QED BY <1>1, <1>2 DEF Validate, Reject

(* Upload fixes where the model is. *)
LEMMA UploadIInv == IInv /\ Upload => IInv'
<1> SUFFICES ASSUME IInv, Upload PROVE IInv'
    OBVIOUS
<1> DEFINE out == OutputDatastore(request.output, request.stores)
<1>1. /\ Admitted /\ ~Uploaded /\ pc = "upload"
      /\ request \in CreateRequest /\ request.location = ""
      /\ record = None /\ entry = {} /\ config = None
    BY DEF IInv, Types, NothingBefore, LocationInv, Upload, Admitted, Uploaded
<1>2. UNCHANGED <<limits, internal, asked, record, entry, config, gauge, ends>>
    BY DEF Upload, configuration
<1>3. /\ request'.resources = request.resources /\ request'.input = request.input
      /\ request'.output = request.output /\ request'.stores = request.stores
    <2>1. CASE request' = [request EXCEPT !.location = out.id]
        BY <1>1, <2>1 DEF CreateRequest
    <2> QED BY <2>1 DEF Upload
<1>4. Output' = out
    BY <1>3 DEF Output
<1>5. Admitted' /\ AdmittedInv'
    <2>1. Admitted'
        BY <1>1 DEF Upload, Reject, Admitted
    <2>2. CanConfigure(request)' /\ Offered(asked)' = Offered(asked)
        BY <1>1, <1>2, <1>3 DEF IInv, AdmittedInv, CanConfigure, Offered
    <2> QED BY <1>1, <1>2, <1>3, <1>4, <2>1, <2>2 DEF IInv, AdmittedInv, Output
<1>6. Types' /\ NothingBefore' /\ RecordInv' /\ EntryInv' /\ ConfigInv'
    <2>1. ~Uploaded' => UNCHANGED request
        BY <1>1 DEF Upload, Reject, Uploaded
    <2> QED BY <1>1, <1>2, <2>1 DEF IInv, Types, NothingBefore, RecordInv, EntryInv, ConfigInv
<1>7. LocationInv'
    <2>1. CASE Uploaded'
        <3>1. pc' = "queue"
            BY <1>1, <2>1 DEF Upload, Reject, Uploaded
        <3>2. request'.location = IF out.bucket = "none" THEN "" ELSE out.id
            BY <1>1, <3>1 DEF Upload, Reject, CreateRequest
        <3> QED BY <1>4, <1>5, <3>1, <3>2 DEF LocationInv
    <2>2. CASE ~Uploaded'
        <3>1. request'.location = ""
            BY <1>1, <2>2 DEF Upload, Reject, Uploaded
        <3> QED BY <2>2, <3>1 DEF LocationInv
    <2> QED BY <2>1, <2>2
<1>8. GaugeInv'
    <2>1. /\ gauge' \in [Name -> Int] /\ ends' \in 0 .. MaxEnds /\ ends' = 0
          /\ \A t \in Name : gauge'[t] = 0
        BY <1>1, <1>2 DEF IInv, GaugeInv
    <2>2. pc' # "done"
        BY <1>1 DEF Upload, Reject
    <2> QED BY <2>1, <2>2 DEF GaugeInv
<1>9. EndedInv'
    BY <1>1, <1>2 DEF EndedInv
<1> QED BY <1>5, <1>6, <1>7, <1>8, <1>9 DEF IInv

--------------------------------------------------------------------------------
(* From now on the request does not change.                                  *)

(* What is said of the request alone holds after any later step. *)
LEMMA LaterSteps ==
    ASSUME IInv, Uploaded, Uploaded', UNCHANGED <<configuration, request, asked>>
    PROVE  Types' /\ AdmittedInv' /\ NothingBefore' /\ LocationInv'
<1>1. Admitted /\ Admitted' /\ pc' # "upload" /\ Output' = Output
    BY DEF Uploaded, Admitted, Output
<1>2. Types' /\ NothingBefore' /\ LocationInv'
    BY <1>1 DEF IInv, Types, NothingBefore, LocationInv, configuration
<1>3. AdmittedInv'
    BY <1>1 DEF IInv, AdmittedInv, configuration, CanConfigure, Offered
<1> QED BY <1>2, <1>3

LEMMA SameEntry ==
    ASSUME IInv, UNCHANGED <<configuration, asked>>, entry' \subseteq entry
    PROVE  EntryInv'
<1>1. QueueFor(asked)' = QueueFor(asked)
    BY DEF configuration, QueueFor
<1> QED BY <1>1 DEF IInv, EntryInv

LEMMA SameRecord ==
    ASSUME IInv, UNCHANGED <<request, record>>
    PROVE  RecordInv'
BY DEF IInv, RecordInv, Record

LEMMA SameConfig ==
    ASSUME IInv, UNCHANGED <<request, config>>
    PROVE  ConfigInv'
BY DEF IInv, ConfigInv, Output

LEMMA SameGauge ==
    ASSUME IInv, Uploaded, Uploaded', UNCHANGED <<request, gauge, ends>>,
           pc' = "done" <=> pc = "done"
    PROVE  GaugeInv'
BY DEF IInv, GaugeInv

(* What has ended stays so; a record in another status says nothing. *)
LEMMA SameEnd ==
    ASSUME IInv, Uploaded, UNCHANGED ends, pc = "rejected" => pc' = "rejected",
           \/ record' = record
           \/ record' = None
           \/ record' # None /\ record'.status \notin Finished
           \/ pc' = "rejected"
    PROVE  EndedInv'
BY DEF IInv, EndedInv

(* The record that is made from the request is a copy of it. *)
LEMMA NewRecord ==
    ASSUME NEW s, UNCHANGED request, record' = Record(s, request.location)
    PROVE  RecordInv'
BY DEF RecordInv, Record

(* A job configuration that is made from a copy of the request. *)
LEMMA NewConfig ==
    ASSUME NEW r, UNCHANGED request, r.output = request.output,
           r.stores = request.stores, r.location = request.location,
           config' = CreateJobConfig(r)
    PROVE  ConfigInv'
BY DEF ConfigInv, CreateJobConfig, Output

(* A record that is there. *)
LEMMA RecordCopy ==
    ASSUME IInv, record # None
    PROVE  /\ Uploaded /\ Admitted
           /\ record.resources = request.resources /\ record.input = request.input
           /\ record.output = request.output /\ record.location = request.location
           /\ record.status = "QUEUED" => record.stores = request.stores
<1>1. Uploaded /\ Admitted
    BY DEF IInv, NothingBefore, Uploaded, Admitted
<1>2. /\ record = [Record(record.status, request.location) EXCEPT !.stores = record.stores]
      /\ record.status = "QUEUED" => record.stores = request.stores
    BY DEF IInv, RecordInv
<1> QED BY <1>1, <1>2 DEF Record

LEMMA ChooseQueueIInv == IInv /\ ChooseQueue => IInv'
<1> SUFFICES ASSUME IInv, ChooseQueue PROVE IInv'
    OBVIOUS
<1>1. /\ Uploaded /\ Uploaded' /\ pc' # "done" /\ pc # "done"
      /\ UNCHANGED <<configuration, request, asked, config, gauge, ends>>
    BY DEF ChooseQueue, Reject, Uploaded
<1>2. RecordInv'
    BY <1>1, SameRecord, NewRecord DEF ChooseQueue
<1>3. EntryInv'
    <2>1. CASE entry' = {QueueFor(asked)}
        <3>1. QueueFor(asked)' = QueueFor(asked)
            BY <1>1 DEF configuration, QueueFor
        <3> QED BY <2>1, <3>1 DEF EntryInv
    <2>2. CASE UNCHANGED entry
        BY <1>1, <2>2, SameEntry
    <2> QED BY <2>1, <2>2 DEF ChooseQueue
<1>4. EndedInv'
    BY <1>1, SameEnd DEF ChooseQueue, Reject
<1> QED BY <1>1, <1>2, <1>3, <1>4, LaterSteps, SameConfig, SameGauge DEF IInv

LEMMA CreateStoreIInv == IInv /\ CreateStore => IInv'
<1> SUFFICES ASSUME IInv, CreateStore PROVE IInv'
    OBVIOUS
<1>1. /\ Uploaded /\ Uploaded' /\ pc' # "done" /\ pc # "done"
      /\ UNCHANGED <<configuration, request, asked, entry, config, gauge, ends>>
    BY DEF CreateStore, Reject, Uploaded
<1>2. RecordInv'
    BY <1>1, SameRecord, NewRecord DEF CreateStore
<1>3. EndedInv'
    BY <1>1, SameEnd DEF CreateStore, Reject, Record, Finished
<1> QED BY <1>1, <1>2, <1>3, LaterSteps, SameEntry, SameConfig, SameGauge DEF IInv

LEMMA CreateSubmitIInv == IInv /\ CreateSubmit => IInv'
<1> SUFFICES ASSUME IInv, CreateSubmit PROVE IInv'
    OBVIOUS
<1> DEFINE r == Record("PENDING", request.location)
<1>1. /\ Uploaded /\ Uploaded' /\ pc' # "done" /\ pc # "done"
      /\ UNCHANGED <<configuration, request, asked, entry, gauge, ends>>
    BY DEF CreateSubmit, Reject, Uploaded
<1>2. RecordInv'
    BY <1>1, SameRecord, NewRecord DEF CreateSubmit
<1>3. ConfigInv'
    <2>1. CASE config' = CreateJobConfig(r)
        <3>1. r.output = request.output /\ r.stores = request.stores /\ r.location = request.location
            BY DEF Record
        <3> HIDE DEF r
        <3> QED BY <1>1, <2>1, <3>1, NewConfig
    <2>2. CASE UNCHANGED config
        BY <1>1, <2>2, SameConfig
    <2> QED BY <2>1, <2>2 DEF CreateSubmit
<1>4. EndedInv'
    <2>1. r.status \notin Finished
        BY DEF Record, Finished
    <2>2. \/ record' = record \/ record' = r
        BY DEF CreateSubmit
    <2>3. pc # "rejected"
        BY DEF CreateSubmit
    <2> HIDE DEF r
    <2> QED BY <1>1, <2>1, <2>2, <2>3 DEF IInv, EndedInv
<1> QED BY <1>1, <1>2, <1>3, <1>4, LaterSteps, SameEntry, SameGauge DEF IInv

LEMMA CountIInv == IInv /\ Count => IInv'
<1> SUFFICES ASSUME IInv, Count PROVE IInv'
    OBVIOUS
<1>1. /\ Uploaded /\ Uploaded' /\ Admitted /\ pc = "count" /\ pc' = "done"
      /\ UNCHANGED <<configuration, request, asked, record, entry, config, ends>>
    BY DEF Count, Uploaded, Admitted
<1> DEFINE t0 == request.resources.gpuType
           n == request.resources.gpus
<1>2. t0 \in Name /\ n \in Int /\ GpusUsed(request.resources) \in Int
    BY <1>1, UsedGpus DEF IInv, AdmittedInv
<1>3. gauge \in [Name -> Int] /\ gauge' = [gauge EXCEPT ![t0] = @ + n]
    BY DEF IInv, GaugeInv, Count
<1>4. GaugeInv'
    <2>1. gauge' \in [Name -> Int] /\ ends' \in 0 .. MaxEnds
        BY <1>1, <1>2, <1>3 DEF IInv, GaugeInv
    <2>2. \A t \in Name : gauge'[t] = IF t # t0 THEN gauge[t] ELSE gauge[t] + n
        BY <1>2, <1>3
    <2>3. ends <= 1 => \A t \in Name :
            gauge[t] = IF t # t0 THEN 0 ELSE 0 - (IF ends = 1 THEN GpusUsed(request.resources) ELSE 0)
        BY <1>1 DEF IInv, GaugeInv
    <2> QED BY <1>1, <1>2, <2>1, <2>2, <2>3 DEF GaugeInv
<1> QED BY <1>1, <1>4, LaterSteps, SameRecord, SameEntry, SameConfig, SameEnd DEF IInv

LEMMA PullIInv == ASSUME NEW q \in entry PROVE IInv /\ Pull(q) => IInv'
<1> SUFFICES ASSUME IInv, Pull(q) PROVE IInv'
    OBVIOUS
<1>1. /\ Uploaded /\ Uploaded' /\ pc' = pc /\ entry' \subseteq entry
      /\ UNCHANGED <<configuration, request, asked, gauge, ends>>
    BY DEF IInv, NothingBefore, Pull, Uploaded
<1>2. CASE UNCHANGED <<record, config>>
    BY <1>1, <1>2, LaterSteps, SameRecord, SameEntry, SameConfig, SameGauge, SameEnd DEF IInv
<1>3. CASE Queued /\ record' = Marked("PENDING")
              /\ config' \in {config, CreateJobConfig(record)}
    <2>1. RecordInv'
        BY <1>1, <1>3 DEF IInv, RecordInv, Record, Queued, Marked
    <2>2. ConfigInv'
        <3>1. CASE config' = CreateJobConfig(record)
            BY <1>1, <1>3, <3>1, RecordCopy, NewConfig DEF Queued
        <3> QED BY <1>1, <1>3, <3>1, SameConfig
    <2>3. EndedInv'
        <3>1. record'.status \notin Finished
            BY <1>3 DEF IInv, RecordInv, Record, Queued, Marked, Finished
        <3> QED BY <1>1, <3>1 DEF EndedInv
    <2> QED BY <1>1, <2>1, <2>2, <2>3, LaterSteps, SameEntry, SameGauge DEF IInv
<1> QED BY <1>2, <1>3 DEF Pull

LEMMA UpdateIInv == ASSUME NEW s \in Finished \cup {"PROCESSING"} PROVE IInv /\ Update(s) => IInv'
<1> SUFFICES ASSUME IInv, Update(s) PROVE IInv'
    OBVIOUS
<1>1. /\ Uploaded /\ Uploaded' /\ Admitted /\ pc' = pc /\ record # None /\ s # "QUEUED"
      /\ record.resources = request.resources
      /\ UNCHANGED <<configuration, request, asked, entry, config>>
    BY RecordCopy DEF Update, UpdateAccepted, Uploaded, Finished
<1>2. RecordInv'
    <2> DEFINE old == record.stores
               mk == Marked(s)
               none == <<>>
    <2>1. mk = [Record(s, request.location) EXCEPT !.stores = old]
        BY <1>1 DEF IInv, RecordInv, Record, Marked
    <2>2. record' = record \/ record' = [mk EXCEPT !.stores = none] \/ record' = mk
        BY DEF Update, Updated
    <2>5. CASE record' = record
        BY <1>1, <2>5, SameRecord
    <2> HIDE DEF old, mk, none
    <2>3. CASE record' = [mk EXCEPT !.stores = none]
        BY <1>1, <2>1, <2>3 DEF RecordInv, Record
    <2>4. CASE record' = mk
        BY <1>1, <2>1, <2>4 DEF RecordInv, Record
    <2> QED BY <2>2, <2>3, <2>4, <2>5
<1> DEFINE t0 == request.resources.gpuType
           n == GpusUsed(request.resources)
<1>3. t0 \in Name /\ n \in Int /\ request.resources.gpus \in Int
    BY <1>1, UsedGpus DEF IInv, AdmittedInv
<1>6. s \notin Finished => record' = record \/ record'.status \notin Finished
    <2>1. CASE s \notin Finished /\ record' = Marked(s)
        <3>1. record'.status = s
            BY <1>1, <2>1 DEF IInv, RecordInv, Record, Marked
        <3> QED BY <2>1, <3>1
    <2> QED BY <2>1 DEF Update, Updated
<1>4. CASE gauge' = [gauge EXCEPT ![t0] = @ - n] /\ ends < MaxEnds /\ ends' = ends + 1
    <2>1. gauge \in [Name -> Int] /\ ends \in 0 .. MaxEnds /\ MaxEnds \in Nat
        BY AdmissionAssumption DEF IInv, GaugeInv
    <2>2. gauge' \in [Name -> Int] /\ ends' \in 0 .. MaxEnds
        BY <1>3, <1>4, <2>1
    <2>3. \A t \in Name : gauge'[t] = IF t # t0 THEN gauge[t] ELSE gauge[t] - n
        BY <1>3, <1>4, <2>1
    <2>4. ends' <= 1 => ends = 0 /\ ends' = 1
        BY <1>4, <2>1
    <2>5. ends = 0 => \A t \in Name :
            gauge[t] = IF t # t0 THEN 0 ELSE IF pc = "done" THEN request.resources.gpus ELSE 0
        BY <1>1, <1>3 DEF IInv, GaugeInv
    <2> HIDE DEF n
    <2>6. ends' <= 1 => \A t \in Name :
            gauge'[t] = IF t # t0 THEN 0
                        ELSE (IF pc = "done" THEN request.resources.gpus ELSE 0) - n
        BY <1>3, <2>1, <2>3, <2>4, <2>5
    <2>7. GaugeInv'
        BY <1>1, <2>2, <2>4, <2>6 DEF GaugeInv, n
    <2>8. EndedInv'
        BY <1>4, <2>1 DEF EndedInv
    <2> QED BY <1>1, <1>2, <2>7, <2>8, LaterSteps, SameEntry, SameConfig DEF IInv
<1>5. CASE UNCHANGED <<gauge, ends>> /\ s \notin Finished
    <2>1. EndedInv'
        BY <1>1, <1>5, <1>6 DEF IInv, EndedInv
    <2> QED BY <1>1, <1>2, <1>5, <2>1, LaterSteps, SameEntry, SameConfig, SameGauge DEF IInv
<1> QED BY <1>1, <1>4, <1>5 DEF Update, Uncount

LEMMA DeleteIInv == IInv /\ Delete => IInv'
<1> SUFFICES ASSUME IInv, Delete PROVE IInv'
    OBVIOUS
<1>1. /\ Uploaded /\ Uploaded' /\ pc' = pc /\ entry' \subseteq entry
      /\ record' = record \/ record' = None
      /\ UNCHANGED <<configuration, request, asked, config, gauge, ends>>
    BY RecordCopy DEF Delete, Uploaded
<1>2. RecordInv'
    BY <1>1, SameRecord DEF RecordInv
<1> QED BY <1>1, <1>2, LaterSteps, SameEntry, SameConfig, SameGauge, SameEnd DEF IInv

LEMMA StutterIInv == IInv /\ UNCHANGED vars => IInv'
<1> SUFFICES ASSUME IInv, UNCHANGED vars PROVE IInv'
    OBVIOUS
<1>1. UNCHANGED <<limits, internal, request, asked, pc, reason, record, entry, config, gauge, ends>>
    BY DEF vars
<1>2. /\ Admitted' = Admitted /\ Uploaded' = Uploaded /\ Output' = Output
      /\ Offered(asked)' = Offered(asked) /\ CanConfigure(request)' = CanConfigure(request)
      /\ QueueFor(asked)' = QueueFor(asked)
    BY <1>1 DEF Admitted, Uploaded, Output, Offered, CanConfigure, QueueFor
<1> QED BY <1>1, <1>2 DEF IInv, Types, AdmittedInv, NothingBefore, LocationInv, RecordInv, Record,
             EntryInv, ConfigInv, GaugeInv, EndedInv

--------------------------------------------------------------------------------

(* The invariant holds in every state.  It says what each copy of the request *)
(* still shares with it; the properties follow from it.                       *)
THEOREM Invariance == Spec => []IInv
<1>1. Init => IInv
    BY InitIInv
<1>2. IInv /\ [Next]_vars => IInv'
    BY ValidateIInv, UploadIInv, ChooseQueueIInv, CreateStoreIInv, CreateSubmitIInv, CountIInv,
       PullIInv, UpdateIInv, DeleteIInv, StutterIInv DEF Next, Create
<1> QED BY <1>1, <1>2, PTL DEF Spec

(* The variables that the invariant above says nothing of. *)
ControlTypes ==
    /\ limits \in Limits
    /\ pc \in {"idle", "upload", "queue", "store", "submit", "count", "done", "rejected"}
    /\ reason \in {"", "manifest", "credentials", "resources", "upload", "full", "failed"}
    /\ alive \in BOOLEAN

(* A request is rejected for one of the reasons of validateRequest. *)
LEMMA RejectionReasons ==
    ASSUME NEW q PROVE ValidateRequest(q) \in {"", "manifest", "credentials"}
BY DEF ValidateRequest, ValidateReference, ValidateDatastore

LEMMA ControlStep == ControlTypes /\ [Next]_vars => ControlTypes'
<1> SUFFICES ASSUME ControlTypes, [Next]_vars PROVE ControlTypes'
    OBVIOUS
<1> USE DEF ControlTypes, configuration, Reject
<1>1. CASE Validate
    BY <1>1, RejectionReasons DEF Validate
<1>2. CASE Upload
    BY <1>2 DEF Upload
<1>3. CASE ChooseQueue \/ CreateStore \/ Count
    BY <1>3 DEF ChooseQueue, CreateStore, Count
<1>4. CASE CreateSubmit
    BY <1>4 DEF CreateSubmit
<1>5. ASSUME NEW q \in entry, Pull(q) PROVE ControlTypes'
    BY <1>5 DEF Pull
<1>6. CASE Delete \/ \E s \in Finished \cup {"PROCESSING"} : Update(s)
    BY <1>6 DEF Delete, Update, UpdateAccepted
<1>7. CASE UNCHANGED vars
    BY <1>7 DEF vars
<1> QED BY <1>1, <1>2, <1>3, <1>4, <1>5, <1>6, <1>7 DEF Next, Create

(* Type correctness: every job is in one of the queues that getAllResourceTypes *)
(* and the limits know, and is counted under a known type.                      *)
THEOREM TypeCorrect == Spec => []TypeOK
<1>1. Init => ControlTypes
    BY DEF Init, ControlTypes
<1>2. IInv /\ ControlTypes => TypeOK
    <2> SUFFICES ASSUME IInv, ControlTypes PROVE TypeOK
        OBVIOUS
    <2>1. entry \subseteq {"K80", "P100", "CPU", "ANY"}
        BY DEF IInv, EntryInv, QueueFor
    <2> QED BY <2>1 DEF IInv, Types, GaugeInv, ControlTypes, TypeOK
<1> QED BY <1>1, <1>2, ControlStep, Invariance, PTL DEF Spec

(* createJobConfig is never called for a record without its input store.      *)
THEOREM NoNilInputStore == Spec => []Configurable
<1>1. IInv => Configurable
    <2> SUFFICES ASSUME IInv PROVE Configurable
        OBVIOUS
    <2>1. Admitted => CanConfigure(request)
        BY DEF IInv, AdmittedInv
    <2>2. pc \in {"queue", "store", "submit"} => Admitted
        BY DEF Admitted
    <2>3. Queued => CanConfigure(record)
        BY <2>1, RecordCopy DEF Queued, CanConfigure
    <2> QED BY <2>1, <2>2, <2>3 DEF Configurable
<1> QED BY <1>1, Invariance, PTL

(* The learner is pointed to the store that CreateTrainingJob has uploaded    *)
(* the model to.                                                              *)
THEOREM LearnerFindsModel == Spec => []ModelFetchable
<1>1. IInv => ModelFetchable
    <2> SUFFICES ASSUME IInv, config # None PROVE ModelFetchable
        BY DEF ModelFetchable
    <2>1. Uploaded /\ Admitted
        BY DEF IInv, NothingBefore, Uploaded, Admitted
    <2> QED BY <2>1 DEF IInv, AdmittedInv, LocationInv, ConfigInv, ModelFetchable
<1> QED BY <1>1, Invariance, PTL

(* The defaults and the limits leave settled resources.                       *)
THEOREM ResourcesAreSettled == Spec => []ResourcesSettled
<1>1. IInv => ResourcesSettled
    <2> SUFFICES ASSUME IInv, pc \notin {"idle", "rejected"} PROVE ResourcesSettled
        BY DEF ResourcesSettled
    <2>1. Admitted
        BY DEF Admitted
    <2> QED BY <2>1 DEF IInv, AdmittedInv, Settled, ResourcesSettled
<1> QED BY <1>1, Invariance, PTL

(* DeleteTrainingJob and CreateTrainingJob agree on the queue of a job that   *)
(* names a GPU type and uses it.                                              *)
THEOREM DeleteFindsEntry == Spec => []FoundByDelete
<1>1. IInv => FoundByDelete
    <2> SUFFICES ASSUME IInv, Queued, entry # {} PROVE FoundByDelete
        BY DEF FoundByDelete
    <2>1. entry = {QueueFor(asked)}
        BY DEF IInv, EntryInv
    <2>2. Admitted /\ record.resources = request.resources
        BY RecordCopy DEF Queued
    <2>3. \/ asked = "" \/ request.resources.gpus = 0
          \/ asked = TransformResourceName(request.resources.gpuType)
        BY <2>2 DEF IInv, AdmittedInv
    <2> QED BY <2>1, <2>2, <2>3 DEF FoundByDelete
<1> QED BY <1>1, Invariance, PTL

(* The gauge of a job with one learner goes up and down by the same amount,   *)
(* under the same label, and down before the record can say that the job has  *)
(* ended, whether or not the Store of the terminal update fails.              *)
THEOREM GaugeReturnsToZero == Spec => []GaugeBalanced
<1>1. IInv => GaugeBalanced
    <2> SUFFICES ASSUME IInv, pc = "done", ends <= 1, request.resources.learners <= 1
                 PROVE  /\ gauge = [t \in Name |->
                              IF ends = 0 /\ t = request.resources.gpuType
                              THEN request.resources.gpus ELSE 0]
                        /\ record # None /\ record.status \in Finished =>
                              \A t \in Name : gauge[t] = 0
        BY DEF GaugeBalanced
    <2>1. Uploaded /\ Admitted
        BY DEF Uploaded, Admitted
    <2>2. /\ request.resources.gpus \in Int
          /\ GpusUsed(request.resources) = request.resources.gpus
        BY <2>1, UsedGpus DEF IInv, AdmittedInv
    <2>3. gauge \in [Name -> Int] /\ ends \in 0 .. MaxEnds /\ MaxEnds \in Nat
        BY AdmissionAssumption DEF IInv, GaugeInv
    <2>4. ends = 0 \/ ends = 1
        BY <2>3
    <2>5. \A t \in Name : gauge[t] = IF ends = 0 /\ t = request.resources.gpuType
                                    THEN request.resources.gpus ELSE 0
        BY <2>1, <2>2, <2>4 DEF IInv, GaugeInv
    <2>6. record # None /\ record.status \in Finished => ends = 1
        BY <2>1, <2>4 DEF IInv, EndedInv
    <2> QED BY <2>3, <2>5, <2>6
<1> QED BY <1>1, Invariance, PTL
================================================================================
