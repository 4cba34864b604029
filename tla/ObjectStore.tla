------------------------------- MODULE ObjectStore -----------------------------
(***************************************************************************)
(* The S3 and Swift object stores of the storage package: buckets and the  *)
(* objects in them, as the calls made by storage/s3_object_store.go and    *)
(* storage/swift_object_store.go see and change them.  Each call is a step *)
(* of its own; an archive is uploaded or deleted by several of them, and   *)
(* nothing locks a bucket meanwhile.                                       *)
(***************************************************************************)
EXTENDS Naturals, Sequences, FiniteSets, Functions

CONSTANTS
    Archive,     \* the names of model archives, one per training id
    ResultKey,   \* the names of the objects that a job writes
    Dir,         \* the directory of each of these: "root", "learner" or "logs"
    MaxKeys,     \* the most objects that one listing of S3 returns (1000)
    Faults       \* may calls of a store or of the client fail?

Bucket == {"models", "trained", "results"}

ASSUME ObjectStoreAssumption ==
    /\ Archive \cap ResultKey = {}
    /\ Dir \in [ResultKey -> {"root", "learner", "logs"}]
    /\ IsFiniteSet(ResultKey) /\ MaxKeys \in Nat \ {0}
    /\ Faults \in BOOLEAN

VARIABLES
    kind,     \* the type of the store that has each bucket
    exists,   \* the buckets that exist
    objects   \* the objects: <<bucket, name>>

storeVars == <<kind, exists, objects>>

StoreTypeOK ==
    /\ kind \in [Bucket -> {"s3", "swift"}]
    /\ exists \subseteq Bucket
    /\ objects \subseteq Bucket \X (Archive \cup ResultKey)

IsEmpty(b) == ~\E o \in objects : o[1] = b

(* What UploadArchive learns about its bucket.  Swift takes repeated timeouts *)
(* for the answer that there is no such container, and any other error for    *)
(* the answer that there is one.                                              *)
ExistsAnswers(b) ==
    {IF b \in exists THEN "yes" ELSE "no"} \cup
        (IF ~Faults THEN {} ELSE IF kind[b] = "s3" THEN {"error"} ELSE {"no", "yes"})

CreateBucket(b) == exists' = exists \cup {b}

(* S3 refuses to create a bucket that is there already, in most regions. *)
CreateBucketFails(b) == (Faults \/ (kind[b] = "s3" /\ b \in exists)) /\ UNCHANGED exists

Put(b, k) == b \in exists /\ objects' = objects \cup {<<b, k>>}

(* The bucket is gone, or the call fails with or without effect. *)
PutFails(b, k) ==
    \/ b \notin exists /\ UNCHANGED objects
    \/ Faults /\ UNCHANGED objects
    \/ Faults /\ Put(b, k)

(* Wrong: the bucket is removed with what is in it. *)
RemoveBucketForced(b) ==
    /\ exists' = exists \ {b}
    /\ objects' = {o \in objects : o[1] # b}

(* Both stores refuse to remove a bucket that is not empty; the error is *)
(* logged.                                                               *)
RemoveBucket(b) ==
    /\ exists' = IF IsEmpty(b) THEN exists \ {b} ELSE exists
    /\ UNCHANGED objects

(* Deleting an object that is not there succeeds in S3 and fails in Swift. *)
DeleteMissingSucceeds(b) == kind[b] = "s3" /\ b \in exists

(* The objects of a job in one of its directories. *)
ObjectsIn(b, d) == {k \in ResultKey : <<b, k>> \in objects /\ Dir[k] = d}

(* What one listing of a directory may return.  S3 stops at MaxKeys objects,  *)
(* and nobody asks for the rest; Swift does not always return all of them.    *)
Listings(b, d) == {L \in SUBSET ObjectsIn(b, d) :
    IF kind[b] = "s3"
    THEN \/ Cardinality(L) = MaxKeys
         \/ Cardinality(L) < MaxKeys /\ L = ObjectsIn(b, d)
    ELSE Faults \/ L = ObjectsIn(b, d)}

(* The directories that DownloadTrainedModelAsZipStream copies, in order ... *)
ZipDirs(b) ==
    IF kind[b] = "s3" THEN <<"root", "learner", "logs">> ELSE <<"root", "learner">>

(* ... and those whose objects GetTrainedModelSize counts. *)
SizeDirs(b) == IF kind[b] = "s3" THEN {"root", "learner"} ELSE {"learner"}

(* The sizes that it may return: one listing for each of the directories, and *)
(* every object counts as one unit.                                           *)
GetTrainedModelSize(b) ==
    {Cardinality(UNION Range(f)) : f \in
        {g \in [SizeDirs(b) -> SUBSET ResultKey] : \A d \in SizeDirs(b) : g[d] \in Listings(b, d)}}
================================================================================
