----------------------------- MODULE ModelStoreProofs --------------------------
(***************************************************************************)
(* Proofs about uploads, deletions and downloads, for any number of        *)
(* archives, objects and requests.                                         *)
(***************************************************************************)
EXTENDS ModelStore, SequenceTheorems, FiniteSetTheorems, TLAPS

(* What the handler sends it has read. *)
SendsItem == \A d \in Downloader : pc[d] = "send" => item[d] \in Item

(* The second listing of Swift is of the directory of the first. *)
VerifiesDir == \A d \in Downloader : wpc[d] = "verify" => dirs[d] # <<>>

TypeInv == TypeOK /\ SendsItem

(* A local variable that is given a value of its type keeps its type. *)
LEMMA Assign ==
    ASSUME NEW S, NEW T, NEW f \in [S -> T], NEW x \in S, NEW v \in T
    PROVE  [f EXCEPT ![x] = v] \in [S -> T]
  OBVIOUS

(* The directories of a zip. *)
LEMMA ZipDirsType ==
    ASSUME NEW b
    PROVE  ZipDirs(b) \in Seq({"root", "learner", "logs"})
<1>1. <<"root", "learner", "logs">> \in Seq({"root", "learner", "logs"})
  OBVIOUS
<1>2. <<"root", "learner">> \in Seq({"root", "learner", "logs"})
  OBVIOUS
<1> QED
  BY <1>1, <1>2 DEF ZipDirs

(* The uploads, deletions and reads of archives, and the job. *)
StoreNext ==
    \/ \E a \in Archive : UploadBegin(a) \/ Upload(a)
    \/ \E d \in Deleter : DeleteBegin(d) \/ DeleteList(d) \/ DeleteBucket(d)
    \/ \E g \in Reader, a \in Archive : GetModelDefinition(g, a)
    \/ \E k \in ResultKey : JobWrites(k)
    \/ JobFinishes

(* They keep the types. *)
LEMMA StoreType ==
    ASSUME TypeInv, StoreNext
    PROVE  TypeInv'
<1>a. UNCHANGED <<handlerVars, writerVars>>
  BY DEF StoreNext, Upload, UploadBegin, UploadHead, UploadCreate, UploadPut, UploadConnect, DeleteBegin,
     DeleteList, DeleteBucket, GetModelDefinition, JobWrites, JobFinishes
<1>b. HandlerTypeOK' /\ WriterTypeOK' /\ SendsItem'
  BY <1>a DEF TypeInv, TypeOK, HandlerTypeOK, WriterTypeOK, SendsItem, handlerVars, writerVars
<1> USE DEF TypeInv, TypeOK, StoreTypeOK, ArchiveTypeOK, storeVars, uploadVars, deleterVars
<1>1. ASSUME NEW a \in Archive, UploadBegin(a) \/ UploadHead(a)
      PROVE  StoreTypeOK' /\ ArchiveTypeOK'
  BY <1>1 DEF UploadBegin, UploadHead, UploadGoes
<1>2. ASSUME NEW a \in Archive, UploadCreate(a) PROVE StoreTypeOK' /\ ArchiveTypeOK'
  BY <1>2 DEF UploadCreate, UploadGoes, CreateBucket, CreateBucketFails
<1>3. ASSUME NEW a \in Archive, UploadPut(a) PROVE StoreTypeOK' /\ ArchiveTypeOK'
  BY <1>3 DEF UploadPut, UploadGoes, Put, PutFails
<1>4. ASSUME NEW a \in Archive, UploadConnect(a) PROVE StoreTypeOK' /\ ArchiveTypeOK'
  BY <1>4 DEF UploadConnect, UploadGoes, Bucket
<1>5. ASSUME NEW d \in Deleter, DeleteBegin(d) \/ DeleteList(d)
      PROVE  StoreTypeOK' /\ ArchiveTypeOK'
  BY <1>5 DEF DeleteBegin, DeleteList, DeleteGoes
<1>6. ASSUME NEW d \in Deleter, DeleteBucket(d) PROVE StoreTypeOK' /\ ArchiveTypeOK'
  BY <1>6 DEF DeleteBucket, DeleteGoes, RemoveBucket
<1>7. ASSUME NEW g \in Reader, NEW a \in Archive, GetModelDefinition(g, a)
      PROVE  StoreTypeOK' /\ ArchiveTypeOK'
  BY <1>7 DEF GetModelDefinition
<1>8. ASSUME NEW k \in ResultKey, JobWrites(k) PROVE StoreTypeOK' /\ ArchiveTypeOK'
  BY <1>8 DEF JobWrites, Bucket
<1>9. CASE JobFinishes
  BY <1>9, <1>b DEF JobFinishes
<1> QED
  BY <1>b, <1>1, <1>2, <1>3, <1>4, <1>5, <1>6, <1>7, <1>8, <1>9 DEF Upload, StoreNext

(* The handler of a download keeps the types. *)
LEMMA DownloadType ==
    ASSUME TypeInv, NEW d \in Downloader, DownloadBegin(d) \/ Download(d)
    PROVE  TypeInv'
<1>a. UNCHANGED <<storeVars, alive, uploadVars, deleterVars, got, finished>>
  BY DEF Download, DownloadBegin, DownloadConnect, DownloadSize, DownloadRead, DownloadSend,
     DownloadEnd
<1>b. StoreTypeOK' /\ ArchiveTypeOK'
  BY <1>a DEF TypeInv, TypeOK, StoreTypeOK, ArchiveTypeOK, storeVars, uploadVars,
     deleterVars
<1> USE DEF TypeInv, TypeOK, HandlerTypeOK, SendsItem, Goto
<1>1. CASE DownloadBegin(d)
  BY <1>1, <1>b DEF DownloadBegin, Bucket, WriterTypeOK, writerVars
<1>2. CASE DownloadConnect(d)
  BY <1>2, <1>b DEF DownloadConnect, WriterTypeOK, writerVars
<1>3. CASE DownloadSize(d)
  <2>1. ZipDirs(from[d]) \in Seq({"root", "learner", "logs"})
    BY ZipDirsType
  <2>2. ZipObjects(from[d]) \in SUBSET ResultKey
    BY DEF ZipObjects, ObjectsIn
  <2>a. dirs' \in {dirs, [dirs EXCEPT ![d] = ZipDirs(from[d])]}
    BY <1>3 DEF DownloadSize
  <2>3. dirs' \in [Downloader -> Seq({"root", "learner", "logs"})]
    BY <2>a, <2>1, Assign DEF WriterTypeOK
  <2>4. base' \in [Downloader -> SUBSET ResultKey]
    <3>1. base' = base \/ base' = [base EXCEPT ![d] = ZipObjects(from[d])]
      BY <1>3 DEF DownloadSize
    <3> QED
      BY <3>1, <2>2, Assign DEF WriterTypeOK
  <2>5. wpc' \in [Downloader -> WriterStep]
    BY <1>3 DEF DownloadSize, WriterTypeOK, WriterStep
  <2>6. WriterTypeOK'
    BY <1>3, <2>3, <2>4, <2>5 DEF DownloadSize, WriterTypeOK
  <2>7. pc' \in [Downloader -> {"idle", "connect", "size", "stream", "send", "ok", "failed"}]
        /\ \A q \in Downloader : pc'[q] = "send" => pc[q] = "send"
    BY <1>3 DEF DownloadSize
  <2>8. UNCHANGED <<from, connected, item, recv, broken>>
    BY <1>3 DEF DownloadSize
  <2> QED
    BY <1>b, <2>6, <2>7, <2>8
<1>4. CASE DownloadRead(d)
  <2>1. WriterTypeOK'
    BY <1>4 DEF DownloadRead, WriterTypeOK
  <2> QED
    BY <1>4, <1>b, <2>1 DEF DownloadRead, WriterTypeOK
<1>5. CASE DownloadSend(d)
  <2>1. Append(recv[d], item[d]) \in Seq(Item)
    BY <1>5 DEF DownloadSend
  <2>2. recv' \in [Downloader -> Seq(Item)]
    BY <1>5, <2>1 DEF DownloadSend
  <2>3. connected' \in [Downloader -> BOOLEAN] /\ broken' \in [Downloader -> BOOLEAN]
    BY <1>5 DEF DownloadSend, Disconnect
  <2>4. WriterTypeOK'
    BY <1>5 DEF DownloadSend, WriterTypeOK, writerVars
  <2> QED
    BY <1>5, <1>b, <2>2, <2>3, <2>4 DEF DownloadSend
<1>6. CASE DownloadEnd(d)
  BY <1>6, <1>b DEF DownloadEnd, Disconnect, WriterTypeOK, writerVars
<1> QED
  BY <1>1, <1>2, <1>3, <1>4, <1>5, <1>6 DEF Download

(* A call that fails is tried again, or is the end of the download. *)
LEMMA FailSteps ==
    ASSUME NEW d \in Downloader, NEW l, CallFails(d, l)
    PROVE  \/ wpc' = [wpc EXCEPT ![d] = l] /\ todo' = todo /\ dirs' = dirs
           \/ /\ wpc' = [wpc EXCEPT ![d] = "closeErr"]
              /\ todo' = [todo EXCEPT ![d] = {}] /\ dirs' = [dirs EXCEPT ![d] = <<>>]
  BY DEF CallFails, WriterGoes

(* What WriteCopy does to the pipe and to the objects that are to be copied: it  *)
(* copies one, fails to, perhaps after having written a part of it, or finds all *)
(* of them copied.                                                               *)
LEMMA CopySteps ==
    ASSUME NEW d \in Downloader, WriteCopy(d)
    PROVE  /\ alive /\ wpc[d] = "copy" /\ pipe[d] = Nothing
           /\ \/ \E k \in todo[d] :
                   /\ pipe' = [pipe EXCEPT ![d] = [key |-> k, whole |-> TRUE]]
                   /\ todo' = [todo EXCEPT ![d] = todo[d] \ {k}]
                   /\ wpc' = wpc /\ dirs' = dirs
              \/ /\ \/ pipe' = pipe
                    \/ \E k \in todo[d] : pipe' = [pipe EXCEPT ![d] = [key |-> k, whole |-> FALSE]]
                 /\ CallFails(d, "copy")
              \/ /\ todo[d] = {} /\ pipe' = pipe /\ todo' = todo /\ dirs' = dirs
                 /\ wpc' = [wpc EXCEPT ![d] = "list"]
<1>1. todo[d] # {} => NextObject(d) \in todo[d]
  BY DEF NextObject
<1> QED
  BY <1>1 DEF WriteCopy, WriterMay, Writes, WritesEntry, WriterGoes

(* It writes an entry of one of the objects, or nothing. *)
LEMMA CopyWrites ==
    ASSUME NEW d \in Downloader, WriteCopy(d) \/ WriteHangs(d)
    PROVE  pipe' = pipe \/ \E k \in todo[d], w \in BOOLEAN :
                               pipe' = [pipe EXCEPT ![d] = [key |-> k, whole |-> w]]
<1>1. todo[d] # {} => NextObject(d) \in todo[d]
  BY DEF NextObject
<1>2. CASE pipe' = pipe
  BY <1>2
<1>3. CASE pipe' # pipe
  <2>1. todo[d] # {} /\ (WritesEntry(d, TRUE) \/ WritesEntry(d, FALSE))
    BY <1>3 DEF WriteCopy, WriteHangs
  <2>2. PICK w \in BOOLEAN : pipe' = [pipe EXCEPT ![d] = [key |-> NextObject(d), whole |-> w]]
    BY <2>1 DEF WritesEntry, Writes
  <2> QED
    BY <1>1, <2>1, <2>2
<1> QED
  BY <1>2, <1>3

(* What a listing returns is in the directory; S3 leaves objects out only if *)
(* there are more than MaxKeys.                                              *)
LEMMA ListingFacts ==
    ASSUME NEW b, NEW x, NEW L \in Listings(b, x)
    PROVE  /\ L \subseteq ObjectsIn(b, x) /\ L \subseteq ResultKey
           /\ Cardinality(L) \in Nat
           /\ kind[b] = "s3" /\ ~(ObjectsIn(b, x) \subseteq L) =>
                 Cardinality(ObjectsIn(b, x)) > MaxKeys
<1>1. L \subseteq ObjectsIn(b, x) /\ ObjectsIn(b, x) \subseteq ResultKey
  BY DEF Listings, ObjectsIn
<1>2. IsFiniteSet(ObjectsIn(b, x)) /\ IsFiniteSet(L)
  BY <1>1, FS_Subset, ObjectStoreAssumption
<1>3. Cardinality(L) \in Nat /\ Cardinality(ObjectsIn(b, x)) \in Nat
  BY <1>2, FS_CardinalityType
<1>4. ASSUME kind[b] = "s3", ~(ObjectsIn(b, x) \subseteq L)
      PROVE  Cardinality(ObjectsIn(b, x)) > MaxKeys
  <2>1. Cardinality(L) = MaxKeys
    BY <1>4 DEF Listings
  <2>2. Cardinality(L) <= Cardinality(ObjectsIn(b, x))
    BY <1>1, <1>2, FS_Subset
  <2>3. Cardinality(L) # Cardinality(ObjectsIn(b, x))
    BY <1>1, <1>2, <1>4, FS_Subset
  <2> QED
    BY <1>3, <2>1, <2>2, <2>3
<1> QED
  BY <1>1, <1>3, <1>4

(* Accepting a listing keeps the types, and so does a failing call. *)
LEMMA AcceptType ==
    ASSUME TypeInv, NEW d \in Downloader, dirs[d] # <<>>,
           NEW L \in Listings(from[d], Head(dirs[d])), Accept(d, L)
    PROVE  /\ todo' \in [Downloader -> SUBSET ResultKey]
           /\ missed' \in [Downloader -> SUBSET ResultKey]
           /\ dirs' \in [Downloader -> Seq({"root", "learner", "logs"})]
           /\ tries' \in [Downloader -> 0 .. Attempts - 1]
           /\ wpc' \in [Downloader -> WriterStep]
<1> USE DEF TypeInv, TypeOK, WriterTypeOK, Accept
<1>1. L \in SUBSET ResultKey
  BY ListingFacts
<1>2. missed[d] \cup (ObjectsIn(from[d], Head(dirs[d])) \ L) \in SUBSET ResultKey
  BY DEF ObjectsIn
<1>3. Tail(dirs[d]) \in Seq({"root", "learner", "logs"})
  OBVIOUS
<1>4. 0 \in 0 .. Attempts - 1 /\ "copy" \in WriterStep
  BY ModelStoreAssumption DEF WriterStep
<1>5. dirs' = [dirs EXCEPT ![d] = Tail(dirs[d])]
  OBVIOUS
<1> QED
  BY <1>1, <1>2, <1>3, <1>4, <1>5, Assign DEF WriterGoes

LEMMA FailType ==
    ASSUME TypeInv, NEW d \in Downloader, NEW l \in {"list", "copy"}, CallFails(d, l)
    PROVE  /\ todo' \in [Downloader -> SUBSET ResultKey]
           /\ dirs' \in [Downloader -> Seq({"root", "learner", "logs"})]
           /\ tries' \in [Downloader -> 0 .. Attempts - 1]
           /\ wpc' \in [Downloader -> WriterStep]
<1> USE DEF TypeInv, TypeOK, WriterTypeOK
<1>1. /\ todo' = todo \/ todo' = [todo EXCEPT ![d] = {}]
      /\ dirs' = dirs \/ dirs' = [dirs EXCEPT ![d] = <<>>]
      /\ wpc' = [wpc EXCEPT ![d] = l] \/ wpc' = [wpc EXCEPT ![d] = "closeErr"]
  BY FailSteps
<1>2. \/ tries[d] < Attempts - 1 /\ tries' = [tries EXCEPT ![d] = tries[d] + 1]
      \/ tries' = [tries EXCEPT ![d] = 0]
  BY DEF CallFails
<1>3. <<>> \in Seq({"root", "learner", "logs"}) /\ {} \in SUBSET ResultKey
      /\ {"closeErr", l} \subseteq WriterStep
  BY DEF WriterStep
<1>4. tries' \in [Downloader -> 0 .. Attempts - 1]
  <2>1. 0 \in 0 .. Attempts - 1
        /\ (tries[d] < Attempts - 1 => tries[d] + 1 \in 0 .. Attempts - 1)
    BY ModelStoreAssumption
  <2> QED
    BY <1>2, <2>1, Assign
<1>5. todo' \in [Downloader -> SUBSET ResultKey]
  BY <1>1, <1>3, Assign
<1>6. dirs' \in [Downloader -> Seq({"root", "learner", "logs"})]
  BY <1>1, <1>3, Assign
<1>7. wpc' \in [Downloader -> WriterStep]
  BY <1>1, <1>3, Assign
<1> QED
  BY <1>4, <1>5, <1>6, <1>7

(* The goroutine of a download keeps the types. *)
LEMMA WriteType ==
    ASSUME TypeInv, VerifiesDir, NEW d \in Downloader, Write(d)
    PROVE  TypeInv'
<1>a. UNCHANGED <<storeVars, uploadVars, deleterVars, got, finished, handlerVars>> /\ alive' \in {alive, FALSE}
  BY DEF Write, WriteList, WriteVerify, WriteCopy, WriteEnd, WriteHangs, WritePanic, WriteClose
<1>b. StoreTypeOK' /\ ArchiveTypeOK' /\ HandlerTypeOK' /\ SendsItem'
  BY <1>a DEF TypeInv, TypeOK, StoreTypeOK, ArchiveTypeOK, HandlerTypeOK, SendsItem, storeVars,
     uploadVars, deleterVars, handlerVars
<1> USE DEF TypeInv, TypeOK, WriterTypeOK, WriterMay, Writes, WriterGoes
<1>1. CASE WriteList(d)
  <2>1. UNCHANGED <<pipe, werr, base>> /\ dirs[d] # <<>>
    BY <1>1 DEF WriteList
  <2>2. CASE \E L \in Listings(from[d], Head(dirs[d])) : Accept(d, L) /\ UNCHANGED seen
    BY <1>b, <2>1, <2>2, AcceptType
  <2>3. CASE \E L \in Listings(from[d], Head(dirs[d])) :
               /\ seen' = [seen EXCEPT ![d] = Cardinality(L)]
               /\ wpc' = [wpc EXCEPT ![d] = "verify"]
               /\ UNCHANGED <<todo, missed, dirs, tries>>
    <3>1. PICK L \in Listings(from[d], Head(dirs[d])) :
               /\ seen' = [seen EXCEPT ![d] = Cardinality(L)]
               /\ wpc' = [wpc EXCEPT ![d] = "verify"]
      BY <2>3
    <3>2. Cardinality(L) \in Nat /\ "verify" \in WriterStep
      BY ListingFacts DEF WriterStep
    <3>3. seen' \in [Downloader -> Nat] /\ wpc' \in [Downloader -> WriterStep]
      BY <3>1, <3>2, Assign
    <3> QED
      BY <1>b, <2>1, <2>3, <3>3
  <2>4. CASE CallFails(d, "list") /\ UNCHANGED <<missed, seen>>
    BY <1>b, <2>1, <2>4, FailType
  <2> QED
    BY <1>1, <2>2, <2>3, <2>4 DEF WriteList
<1>2. CASE WriteVerify(d)
  <2>1. UNCHANGED <<pipe, werr, base>> /\ seen' = [seen EXCEPT ![d] = 0]
    BY <1>2 DEF WriteVerify
  <2>2. seen' \in [Downloader -> Nat]
    BY <2>1
  <2>3. dirs[d] # <<>>
    BY <1>2 DEF WriteVerify, VerifiesDir
  <2>4. CASE \E L \in Listings(from[d], Head(dirs[d])) : Accept(d, L)
    BY <1>b, <2>1, <2>2, <2>3, <2>4, AcceptType
  <2>5. CASE CallFails(d, "list") /\ UNCHANGED missed
    BY <1>b, <2>1, <2>2, <2>5, FailType
  <2> QED
    BY <1>2, <2>4, <2>5 DEF WriteVerify
<1>5. CASE WriteCopy(d) \/ WriteHangs(d)
  <2>1. \A k \in todo[d], w \in BOOLEAN : [key |-> k, whole |-> w] \in Item
    BY DEF Item, Entry
  <2>2. pipe' \in [Downloader -> Item \cup {Nothing}]
    BY <1>5, CopyWrites, <2>1, Assign
  <2>3. UNCHANGED <<werr, seen, base, missed>>
    BY <1>5 DEF WriteCopy, WriteHangs
  <2>4. CASE CallFails(d, "copy")
    BY <1>b, <2>2, <2>3, <2>4, FailType
  <2>5. CASE WriteCopy(d) /\ ~CallFails(d, "copy")
    <3>1. tries' = tries \/ tries' = [tries EXCEPT ![d] = 0]
      BY <2>5 DEF WriteCopy
    <3>2. tries' \in [Downloader -> 0 .. Attempts - 1]
      <4>1. 0 \in 0 .. Attempts - 1
        BY ModelStoreAssumption
      <4> QED
        BY <3>1, <4>1, Assign
    <3>3. dirs' = dirs
      BY <2>5 DEF WriteCopy
    <3>4. todo' = todo \/ \E k : todo' = [todo EXCEPT ![d] = todo[d] \ {k}]
      BY <2>5 DEF WriteCopy
    <3>5. ASSUME NEW k, todo' = [todo EXCEPT ![d] = todo[d] \ {k}]
          PROVE  todo' \in [Downloader -> SUBSET ResultKey]
      BY <3>5
    <3>6. todo' \in [Downloader -> SUBSET ResultKey]
      BY <3>4, <3>5
    <3>7. wpc' \in [Downloader -> WriterStep]
      BY <2>5 DEF WriteCopy, WriterStep
    <3> QED
      BY <1>b, <2>2, <2>3, <3>2, <3>3, <3>6, <3>7
  <2>6. CASE WriteHangs(d)
    <3>1. wpc' \in [Downloader -> WriterStep] /\ UNCHANGED <<todo, dirs, tries>>
      BY <2>6 DEF WriteHangs, WriterStep
    <3> QED
      BY <1>b, <2>2, <2>3, <3>1
  <2> QED
    BY <1>5, <2>4, <2>5, <2>6
<1>6. CASE WriteEnd(d)
  <2>1. End \in Item
    BY DEF Item
  <2>2. pipe' \in [Downloader -> Item \cup {Nothing}]
    BY <1>6, <2>1 DEF WriteEnd
  <2>3. wpc' \in [Downloader -> WriterStep]
    BY <1>6 DEF WriteEnd, WriterStep
  <2> QED
    BY <1>6, <1>b, <2>2, <2>3 DEF WriteEnd
<1>3. CASE WritePanic(d)
  BY <1>3, <1>b DEF WritePanic, writerVars
<1>4. CASE WriteClose(d)
  BY <1>4, <1>b DEF WriteClose, WriterStep
<1> QED
  BY <1>1, <1>2, <1>3, <1>4, <1>5, <1>6 DEF Write

(* No step forgets the directory that is being verified. *)
LEMMA VerifyStep ==
    ASSUME TypeInv, VerifiesDir, Next
    PROVE  VerifiesDir'
<1> USE DEF TypeInv, TypeOK, WriterTypeOK, VerifiesDir
<1>1. CASE StoreNext
  BY <1>1 DEF StoreNext, Upload, UploadBegin, UploadHead, UploadCreate, UploadPut, UploadConnect,
     DeleteBegin, DeleteList, DeleteBucket, GetModelDefinition, JobWrites, JobFinishes, writerVars
<1>2. ASSUME NEW d \in Downloader, DownloadBegin(d) \/ Download(d) PROVE VerifiesDir'
  <2>1. CASE DownloadSize(d)
    BY <2>1 DEF DownloadSize
  <2>2. CASE ~DownloadSize(d)
    BY <1>2, <2>2 DEF Download, DownloadBegin, DownloadConnect, DownloadRead, DownloadSend,
       DownloadEnd, writerVars
  <2> QED
    BY <2>1, <2>2
<1>3. ASSUME NEW d \in Downloader, Write(d) PROVE VerifiesDir'
  <2>1. CASE wpc' = [wpc EXCEPT ![d] = "verify"] /\ dirs' = dirs /\ dirs[d] # <<>>
    BY <2>1
  <2>2. CASE /\ \E l \in {"list", "copy", "hung", "closeErr", "close", "exit"} :
                    wpc' = [wpc EXCEPT ![d] = l]
             /\ \/ dirs' = dirs \/ dirs' = [dirs EXCEPT ![d] = <<>>]
                \/ dirs' = [dirs EXCEPT ![d] = Tail(dirs[d])]
    BY <2>2
  <2>3. CASE wpc' = wpc /\ dirs' = dirs
    BY <2>3
  <2>4. CASE WriteList(d) \/ WriteVerify(d)
    <3>1. CASE CallFails(d, "list")
      BY <3>1, <2>2, FailSteps
    <3>2. CASE ~CallFails(d, "list")
      BY <2>4, <2>1, <2>2, <3>2 DEF WriteList, WriteVerify, Accept, WriterGoes
    <3> QED
      BY <3>1, <3>2
  <2>5. CASE WriteCopy(d)
    <3>1. CASE CallFails(d, "copy")
      BY <3>1, <2>2, FailSteps
    <3>2. CASE ~CallFails(d, "copy")
      BY <2>5, <2>2, <2>3, <3>2, CopySteps
    <3> QED
      BY <3>1, <3>2
  <2>6. CASE WriteEnd(d) \/ WriteHangs(d) \/ WritePanic(d) \/ WriteClose(d)
    BY <2>6, <2>2, <2>3 DEF WriteEnd, WriteHangs, WritePanic, WriteClose, WriterGoes, writerVars
  <2> QED
    BY <1>3, <2>4, <2>5, <2>6 DEF Write
<1> QED
  BY <1>1, <1>2, <1>3 DEF Next, StoreNext

(* Every step keeps the types. *)
LEMMA TypeStep == TypeInv /\ VerifiesDir /\ [Next]_vars => TypeInv' /\ VerifiesDir'
<1> SUFFICES ASSUME TypeInv, VerifiesDir, [Next]_vars PROVE TypeInv' /\ VerifiesDir'
  OBVIOUS
<1>1. CASE Next
  BY <1>1, StoreType, DownloadType, WriteType, VerifyStep DEF Next, StoreNext
<1>2. CASE UNCHANGED vars
  BY <1>2 DEF vars, TypeInv, SendsItem, TypeOK, StoreTypeOK, ArchiveTypeOK, HandlerTypeOK,
     WriterTypeOK, VerifiesDir
<1> QED
  BY <1>1, <1>2

(* The initial state has its types. *)
LEMMA TypeInit == Init => TypeInv /\ VerifiesDir
<1> SUFFICES ASSUME Init PROVE TypeInv /\ VerifiesDir
  OBVIOUS
<1>1. StoreTypeOK /\ ArchiveTypeOK
  BY ModelStoreAssumption DEF Init, StoreTypeOK, ArchiveTypeOK, Bucket
<1>2. HandlerTypeOK /\ SendsItem
  BY DEF Init, HandlerTypeOK, SendsItem, Bucket
<1>3. WriterTypeOK
  BY ModelStoreAssumption DEF Init, WriterTypeOK, WriterStep
<1>4. VerifiesDir
  BY DEF Init, VerifiesDir
<1> QED
  BY <1>1, <1>2, <1>3, <1>4 DEF TypeInv, TypeOK

(* Type correctness: what goes through the pipe to the client is an entry of the *)
(* zip or its end, and Swift never tries an object more than Attempts times.     *)
THEOREM TypeCorrect == Spec => []TypeOK
<1>1. TypeInv => TypeOK
  BY DEF TypeInv
<1> QED
  BY <1>1, TypeInit, TypeStep, PTL DEF Spec

--------------------------------------------------------------------------------
(* The phases of a download: which steps of the handler go with which steps of *)
(* its goroutine, and with which end of the pipe.                              *)
Phases == \A d \in Downloader :
    /\ pc[d] \in {"idle", "connect", "size"} => wpc[d] = "idle"
    /\ pc[d] \in {"stream", "send", "ok"} => wpc[d] # "idle"
    /\ pc[d] # "send" => item[d] = Nothing
    /\ pc[d] = "ok" => werr[d] = "EOF" /\ pipe[d] = Nothing
    /\ wpc[d] \notin {"close", "exit"} => werr[d] = "none"
    /\ wpc[d] = "close" => werr[d] # "EOF"
    /\ wpc[d] = "idle" => pipe[d] = Nothing

(* A bucket with objects exists; an archive is in the internal store before its *)
(* upload to the user's begins.                                                 *)
ArchiveInv ==
    /\ \A o \in objects : o[1] \in exists
    /\ \A a \in Archive : ub[a] \in {"models", "results"}
    /\ \A a \in Archive : ub[a] = "results" \/ upc[a] = "connect" => <<"models", a>> \in objects
    /\ AckedStays

(* The goroutine has a client as long as it needs one, or Send has failed. *)
ClientInv ==
    /\ \A d \in Downloader : wpc[d] \in {"list", "verify", "copy"} => ClientUsable(d) \/ broken[d]
    /\ DownloadSurvives

(* A download that has not failed, of which no error is on its way. *)
Sound(d) ==
    /\ pc[d] \in {"stream", "send", "ok"}
    /\ wpc[d] \in {"list", "verify", "copy", "close", "exit"}
    /\ werr[d] # "err"

(* What has been written to the zip. *)
Written(d) == Range(recv[d]) \cup {item[d], pipe[d]}

(* The end of the zip is the last that was written. *)
EndWritten(d) ==
    \/ pipe[d] = End
    \/ pipe[d] = Nothing /\ item[d] = End
    \/ pipe[d] = Nothing /\ item[d] = Nothing /\ recv[d] # <<>> /\ Last(recv[d]) = End

(* An object that was there when the download began is still there; unless a   *)
(* listing has left it out it is in the zip or still to be copied, and the zip *)
(* is ended when nothing is to be copied any more.                             *)
ZipOf(d) ==
    /\ wpc[d] \in {"idle", "list", "verify"} => todo[d] = {}
    /\ wpc[d] # "idle" => \A k \in base[d] : <<from[d], k>> \in objects
    /\ Sound(d) => \A k \in base[d] \ missed[d] :
          \/ [key |-> k, whole |-> TRUE] \in Written(d)
          \/ k \in todo[d]
          \/ Dir[k] \in Range(dirs[d])
    /\ Sound(d) /\ wpc[d] \in {"close", "exit"} =>
          todo[d] = {} /\ dirs[d] = <<>> /\ EndWritten(d)

ZipInv == \A d \in Downloader : ZipOf(d)

(* S3 leaves objects out of a listing only if there are too many of them. *)
MissedOf(d) ==
    /\ wpc[d] = "idle" => missed[d] = {}
    /\ kind[from[d]] = "s3" =>
          \A k \in missed[d] : Cardinality(ObjectsIn(from[d], Dir[k])) > MaxKeys

MissedInv == \A d \in Downloader : MissedOf(d)

IInv == TypeInv /\ VerifiesDir /\ Phases /\ ArchiveInv /\ ClientInv /\ ZipInv /\ MissedInv

(* The steps of StoreNext touch no download, and take no object away. *)
LEMMA StoreFrame ==
    ASSUME TypeInv, StoreNext
    PROVE  /\ UNCHANGED <<kind, handlerVars, writerVars>>
           /\ objects \subseteq objects'
<1> USE DEF Upload, UploadBegin, UploadHead, UploadCreate, UploadPut, UploadConnect, DeleteBegin,
     DeleteList, DeleteBucket, GetModelDefinition, JobWrites, JobFinishes
<1>1. UNCHANGED <<kind, handlerVars, writerVars>>
  BY DEF StoreNext, storeVars
<1>2. objects \subseteq objects'
  BY DEF StoreNext, storeVars, Put, PutFails, RemoveBucket
<1> QED
  BY <1>1, <1>2

(* A download touches no store and no archive. *)
LEMMA DownloadFrame ==
    ASSUME NEW d \in Downloader, DownloadBegin(d) \/ Download(d) \/ Write(d)
    PROVE  UNCHANGED <<storeVars, uploadVars, deleterVars, got, finished>>
  BY DEF Download, DownloadBegin, DownloadConnect, DownloadSize, DownloadRead, DownloadSend,
     DownloadEnd, Write, WriteList, WriteVerify, WriteCopy, WriteEnd, WriteHangs, WritePanic,
     WriteClose

(* The steps of a download keep its phases. *)
LEMMA PhasesStep ==
    ASSUME TypeInv, Phases, NEW d \in Downloader, DownloadBegin(d) \/ Download(d) \/ Write(d)
    PROVE  Phases'
<1> USE DEF TypeInv, TypeOK, HandlerTypeOK, WriterTypeOK, Phases, Goto, WriterMay, WriterGoes,
     Writes, writerVars, handlerVars
<1>1. CASE DownloadBegin(d)
  BY <1>1 DEF DownloadBegin
<1>2. CASE DownloadConnect(d)
  BY <1>2 DEF DownloadConnect
<1>3. CASE DownloadSize(d)
  BY <1>3 DEF DownloadSize
<1>4. CASE DownloadRead(d)
  BY <1>4 DEF DownloadRead
<1>5. CASE DownloadSend(d)
  BY <1>5 DEF DownloadSend
<1>6. CASE DownloadEnd(d)
  BY <1>6 DEF DownloadEnd
<1>7. CASE WriteList(d) \/ WriteVerify(d)
  BY <1>7 DEF WriteList, WriteVerify, Accept, CallFails
<1>8. CASE WriteCopy(d) \/ WriteHangs(d)
  <2>1. /\ wpc[d] \in {"list", "copy"} /\ werr[d] = "none" /\ pc[d] # "ok"
        /\ UNCHANGED <<werr, handlerVars>>
    BY <1>8 DEF WriteCopy, WriteHangs
  <2>2. \/ wpc' = wpc
        \/ \E l \in {"list", "copy", "hung", "closeErr"} : wpc' = [wpc EXCEPT ![d] = l]
    <3>1. CASE CallFails(d, "copy")
      BY <3>1, FailSteps
    <3>2. CASE ~CallFails(d, "copy")
      BY <1>8, <3>2, CopySteps DEF WriteHangs
    <3> QED
      BY <3>1, <3>2
  <2>3. \A q \in Downloader : q # d => pipe'[q] = pipe[q]
    BY <1>8, CopyWrites
  <2>4. ASSUME NEW q \in Downloader, q # d
        PROVE  UNCHANGED <<pc[q], wpc[q], item[q], werr[q], pipe[q]>>
    BY <2>1, <2>2, <2>3, <2>4
  <2>5. UNCHANGED <<pc[d], item[d], werr[d]>> /\ wpc'[d] \in {"list", "copy", "hung", "closeErr"}
    BY <2>1, <2>2
  <2> QED
    BY <2>1, <2>4, <2>5
<1>9. CASE WritePanic(d)
  BY <1>9 DEF WritePanic
<1>10. CASE WriteClose(d)
  BY <1>10 DEF WriteClose
<1>11. CASE WriteEnd(d)
  <2>1. wpc[d] = "list" /\ werr[d] = "none" /\ pc[d] # "ok" /\ UNCHANGED <<werr, handlerVars>>
    BY <1>11 DEF WriteEnd
  <2>2. wpc' = [wpc EXCEPT ![d] = "close"] /\ \A q \in Downloader : q # d => pipe'[q] = pipe[q]
    BY <1>11 DEF WriteEnd
  <2> QED
    BY <2>1, <2>2
<1> QED
  BY <1>1, <1>2, <1>3, <1>4, <1>5, <1>6, <1>7, <1>8, <1>9, <1>10, <1>11 DEF Download, Write

(* The archives: objects stay, and only an empty bucket is removed. *)
LEMMA ArchiveStep ==
    ASSUME TypeInv, ArchiveInv, StoreNext
    PROVE  ArchiveInv'
<1> USE DEF TypeInv, TypeOK, StoreTypeOK, ArchiveTypeOK, ArchiveInv, AckedStays, UploadGoes,
     DeleteGoes, storeVars, uploadVars, deleterVars
<1>1. ASSUME NEW a \in Archive, UploadBegin(a) \/ UploadHead(a) PROVE ArchiveInv'
  BY <1>1 DEF UploadBegin, UploadHead
<1>2. ASSUME NEW a \in Archive, UploadCreate(a) PROVE ArchiveInv'
  BY <1>2 DEF UploadCreate, CreateBucket, CreateBucketFails
<1>3. ASSUME NEW a \in Archive, UploadPut(a) PROVE ArchiveInv'
  BY <1>3 DEF UploadPut, Put, PutFails
<1>4. ASSUME NEW a \in Archive, UploadConnect(a) PROVE ArchiveInv'
  BY <1>4 DEF UploadConnect
<1>5. ASSUME NEW d \in Deleter, DeleteBegin(d) \/ DeleteList(d) PROVE ArchiveInv'
  BY <1>5 DEF DeleteBegin, DeleteList
<1>6. ASSUME NEW d \in Deleter, DeleteBucket(d) PROVE ArchiveInv'
  BY <1>6 DEF DeleteBucket, RemoveBucket, IsEmpty
<1>7. ASSUME NEW g \in Reader, NEW a \in Archive, GetModelDefinition(g, a) PROVE ArchiveInv'
  BY <1>7 DEF GetModelDefinition
<1>8. ASSUME NEW k \in ResultKey, JobWrites(k) PROVE ArchiveInv'
  BY <1>8 DEF JobWrites
<1>9. CASE JobFinishes
  BY <1>9 DEF JobFinishes
<1> QED
  BY <1>1, <1>2, <1>3, <1>4, <1>5, <1>6, <1>7, <1>8, <1>9 DEF Upload, StoreNext

(* The connection to the user's store, when a job is created, can end the process; *)
(* the other steps of the handlers of archives cannot.                             *)
LEMMA ClientStoreStep ==
    ASSUME TypeInv, ClientInv, StoreNext
    PROVE  ClientInv'
<1>1. UNCHANGED <<kind, handlerVars, writerVars>>
  BY StoreFrame
<1>2. alive
  BY DEF StoreNext, Upload, UploadBegin, UploadHead, UploadCreate, UploadPut, UploadConnect,
     DeleteBegin, DeleteList, DeleteBucket, GetModelDefinition, JobWrites, JobFinishes
<1>3. alive' \in BOOLEAN /\ (~alive' => \E a \in Archive : upc'[a] = "connect")
  <2>1. CASE \E a \in Archive : UploadConnect(a)
    BY <1>2, <2>1 DEF UploadConnect, TypeInv, TypeOK, ArchiveTypeOK
  <2>2. CASE ~\E a \in Archive : UploadConnect(a)
    BY <1>2, <2>2 DEF StoreNext, Upload, UploadBegin, UploadHead, UploadCreate, UploadPut,
       DeleteBegin, DeleteList, DeleteBucket, GetModelDefinition, JobWrites, JobFinishes
  <2> QED
    BY <2>1, <2>2
<1> QED
  BY <1>1, <1>3 DEF ClientInv, DownloadSurvives, ClientUsable, handlerVars, writerVars

(* A download disconnects only when its goroutine is closing the pipe, or has   *)
(* been deserted after a failed Send.                                           *)
LEMMA ClientStep ==
    ASSUME TypeInv, Phases, ClientInv, NEW d \in Downloader,
           DownloadBegin(d) \/ Download(d) \/ Write(d)
    PROVE  ClientInv'
<1>a. UNCHANGED <<storeVars, uploadVars>>
  BY DownloadFrame
<1>b. CASE WritePanic(d)
  BY <1>a, <1>b DEF WritePanic, TypeInv, TypeOK, HandlerTypeOK, WriterTypeOK, ClientInv,
     DownloadSurvives, ClientUsable, writerVars, handlerVars, storeVars, uploadVars
<1>c. CASE ~WritePanic(d)
  <2>1. alive'
    <3>1. CASE DownloadBegin(d) \/ Download(d)
      BY <3>1 DEF Download, DownloadBegin, DownloadConnect, DownloadSize, DownloadRead, DownloadSend,
         DownloadEnd
    <3>2. CASE WriteHangs(d)
      BY <3>2 DEF WriteHangs, WriterMay
    <3>3. CASE WriteClose(d)
      BY <3>3 DEF WriteClose, WriterMay
    <3>4. CASE WriteList(d) \/ WriteVerify(d)
      BY <3>4 DEF WriteList, WriteVerify, WriterMay
    <3>5. CASE WriteCopy(d)
      <4>1. alive /\ UNCHANGED alive
        BY <3>5, CopySteps, Zenon DEF WriteCopy
      <4> QED
        BY <4>1
    <3>6. CASE WriteEnd(d)
      BY <3>6 DEF WriteEnd, WriterMay
    <3> QED
      BY <1>c, <3>1, <3>2, <3>3, <3>4, <3>5, <3>6 DEF Write
  <2>2. SUFFICES ASSUME NEW q \in Downloader, wpc'[q] \in {"list", "verify", "copy"}
                 PROVE  connected'[q] \/ kind'[from'[q]] = "swift" \/ broken'[q]
    BY <2>1 DEF ClientInv, DownloadSurvives, ClientUsable
  <2>3. wpc[q] \in {"list", "verify", "copy"} => connected[q] \/ kind[from[q]] = "swift" \/ broken[q]
    BY DEF ClientInv, ClientUsable
  <2> USE <1>a, <2>2, <2>3 DEF TypeInv, TypeOK, HandlerTypeOK, WriterTypeOK, Goto, WriterMay,
       WriterGoes, writerVars, handlerVars, storeVars
  <2>4. CASE DownloadBegin(d)
    BY <2>4 DEF DownloadBegin, Phases
  <2>5. CASE DownloadConnect(d)
    BY <2>5 DEF DownloadConnect, Phases
  <2>6. CASE DownloadSize(d)
    BY <2>6 DEF DownloadSize, SizeReturns
  <2>7. CASE DownloadRead(d)
    BY <2>7 DEF DownloadRead
  <2>8. CASE DownloadSend(d)
    <3>1. CASE q = d
      BY <2>8, <3>1 DEF DownloadSend, Disconnect
    <3>2. CASE q # d
      BY <2>8, <3>2 DEF DownloadSend, Disconnect
    <3> QED
      BY <3>1, <3>2
  <2>9. CASE DownloadEnd(d)
    BY <2>9 DEF DownloadEnd, Disconnect, Phases
  <2>10. CASE WriteList(d) \/ WriteVerify(d) \/ WriteCopy(d)
    <3>1. wpc[d] \in {"list", "verify", "copy"} /\ UNCHANGED handlerVars
      BY <2>10 DEF WriteList, WriteVerify, WriteCopy
    <3>2. q # d => wpc'[q] = wpc[q]
      BY <2>10, FailSteps DEF WriteList, WriteVerify, WriteCopy, Accept
    <3> QED
      BY <3>1, <3>2
  <2>12. CASE WriteClose(d) \/ WriteEnd(d) \/ WriteHangs(d)
    BY <2>12 DEF WriteClose, WriteEnd, WriteHangs
  <2> QED
    BY <1>c, <2>4, <2>5, <2>6, <2>7, <2>8, <2>9, <2>10, <2>12 DEF Download, Write
<1> QED
  BY <1>b, <1>c

(* What is in a sequence after an element has been appended, and before one has *)
(* been taken off.                                                              *)
LEMMA RangeAppend ==
    ASSUME NEW S, NEW s \in Seq(S), NEW x \in S
    PROVE  /\ Range(Append(s, x)) = Range(s) \cup {x}
           /\ Append(s, x) # <<>> /\ Last(Append(s, x)) = x
<1>1. Append(s, x) \in Seq(S) /\ Len(Append(s, x)) = Len(s) + 1
      /\ Append(s, x)[Len(s) + 1] = x /\ \A i \in 1 .. Len(s) : Append(s, x)[i] = s[i]
  OBVIOUS
<1>2. DOMAIN Append(s, x) = 1 .. Len(s) + 1 /\ DOMAIN s = 1 .. Len(s) /\ Len(s) \in Nat
  BY <1>1
<1>3. \A i : i \in 1 .. Len(s) + 1 <=> (i \in 1 .. Len(s) \/ i = Len(s) + 1)
  BY <1>2
<1>4. Range(Append(s, x)) = Range(s) \cup {x}
  BY <1>1, <1>2, <1>3 DEF Range
<1>5. Last(Append(s, x)) = x
  BY <1>1 DEF Last
<1>6. Append(s, x) # <<>>
  BY AppendProperties
<1> QED
  BY <1>4, <1>5, <1>6

LEMMA RangeTail ==
    ASSUME NEW S, NEW s \in Seq(S), s # <<>>
    PROVE  Range(s) \subseteq {Head(s)} \cup Range(Tail(s))
<1>1. /\ Tail(s) \in Seq(S) /\ Len(Tail(s)) = Len(s) - 1 /\ Head(s) = s[1]
      /\ Len(s) \in Nat \ {0} /\ \A i \in 1 .. Len(s) - 1 : Tail(s)[i] = s[i + 1]
  OBVIOUS
<1>2. DOMAIN Tail(s) = 1 .. Len(s) - 1 /\ DOMAIN s = 1 .. Len(s)
  BY <1>1
<1>3. ASSUME NEW i \in 1 .. Len(s) PROVE s[i] \in {Head(s)} \cup Range(Tail(s))
  <2>1. CASE i = 1
    BY <1>1, <2>1
  <2>2. CASE i # 1
    <3>1. i - 1 \in 1 .. Len(s) - 1 /\ (i - 1) + 1 = i
      BY <1>1, <2>2
    <3>2. Tail(s)[i - 1] = s[i]
      BY <1>1, <3>1
    <3> QED
      BY <1>2, <3>1, <3>2 DEF Range
  <2> QED
    BY <2>1, <2>2
<1> QED
  BY <1>2, <1>3 DEF Range

(* The variables of a download. *)
DownloadState(d) == <<pc[d], from[d], connected[d], item[d], recv[d], broken[d], wpc[d], pipe[d],
                      werr[d], todo[d], dirs[d], tries[d], seen[d], base[d], missed[d]>>

(* A download touches no other one. *)
LEMMA OtherDownloads ==
    ASSUME TypeInv, NEW d \in Downloader, NEW q \in Downloader, q # d,
           DownloadBegin(d) \/ Download(d) \/ Write(d)
    PROVE  UNCHANGED DownloadState(q)
<1> USE DEF TypeInv, TypeOK, HandlerTypeOK, WriterTypeOK, DownloadState, Goto, Disconnect, WriterGoes,
     Writes, writerVars, handlerVars
<1>1. CASE DownloadBegin(d) \/ DownloadConnect(d) \/ DownloadSize(d)
  BY <1>1 DEF DownloadBegin, DownloadConnect, DownloadSize
<1>2. CASE DownloadRead(d) \/ DownloadSend(d) \/ DownloadEnd(d)
  BY <1>2 DEF DownloadRead, DownloadSend, DownloadEnd
<1>3. CASE WriteList(d) \/ WriteVerify(d)
  BY <1>3 DEF WriteList, WriteVerify, Accept, CallFails
<1>4. CASE WriteCopy(d)
  <2>1. CASE CallFails(d, "copy")
    BY <1>4, <2>1 DEF WriteCopy, CallFails, WritesEntry
  <2>2. CASE ~CallFails(d, "copy")
    BY <1>4, <2>2 DEF WriteCopy, WritesEntry
  <2> QED
    BY <2>1, <2>2
<1>5. CASE WritePanic(d) \/ WriteClose(d) \/ WriteEnd(d) \/ WriteHangs(d)
  BY <1>5 DEF WritePanic, WriteClose, WriteEnd, WriteHangs, WritesEntry
<1> QED
  BY <1>1, <1>2, <1>3, <1>4, <1>5 DEF Download, Write

(* The handler of a download passes on what it reads. *)
LEMMA ZipDownload ==
    ASSUME TypeInv, Phases, ZipInv, NEW d \in Downloader, DownloadBegin(d) \/ Download(d)
    PROVE  ZipOf(d)'
<1>a. UNCHANGED objects
  BY DownloadFrame DEF storeVars
<1>b. ZipOf(d)
  BY DEF ZipInv
<1> USE <1>a, <1>b DEF TypeInv, TypeOK, HandlerTypeOK, WriterTypeOK, Phases, ZipOf, Sound, Goto,
     writerVars
<1>1. CASE DownloadBegin(d)
  BY <1>1 DEF DownloadBegin
<1>2. CASE DownloadConnect(d)
  BY <1>2 DEF DownloadConnect
<1>3. CASE DownloadSize(d)
  <2>1. CASE wpc'[d] = "idle"
    BY <1>3, <2>1 DEF DownloadSize
  <2>2. CASE wpc'[d] # "idle"
    <3>1. /\ wpc'[d] = "list" /\ todo'[d] = {} /\ from'[d] = from[d]
          /\ dirs'[d] = ZipDirs(from[d])
          /\ base'[d] = UNION {ObjectsIn(from[d], x) : x \in Range(ZipDirs(from[d]))}
      BY <1>3, <2>2 DEF DownloadSize, ZipObjects
    <3>2. ASSUME NEW k \in base'[d]
          PROVE  <<from'[d], k>> \in objects' /\ Dir[k] \in Range(dirs'[d])
      <4>1. PICK x \in Range(ZipDirs(from[d])) : k \in ObjectsIn(from[d], x)
        BY <3>1
      <4>2. <<from[d], k>> \in objects /\ Dir[k] = x
        BY <4>1 DEF ObjectsIn
      <4> QED
        BY <3>1, <4>1, <4>2
    <3> QED
      BY <3>1, <3>2
  <2> QED
    BY <2>1, <2>2
<1>4. CASE DownloadRead(d)
  <2>1. /\ Written(d)' = Written(d) /\ (EndWritten(d) => EndWritten(d)')
    BY <1>4, ModelStoreAssumption DEF DownloadRead, Written, EndWritten
  <2> QED
    BY <1>4, <2>1 DEF DownloadRead
<1>5. CASE DownloadSend(d)
  <2>1. CASE recv' = [recv EXCEPT ![d] = Append(@, item[d])]
    <3>1. item[d] \in Item /\ item[d] # Nothing
      BY <1>5, ModelStoreAssumption DEF DownloadSend, SendsItem
    <3>a. recv[d] \in Seq(Item) /\ recv'[d] = Append(recv[d], item[d])
      BY <2>1
    <3>2. /\ recv'[d] # <<>> /\ Last(recv'[d]) = item[d]
          /\ Range(recv'[d]) = Range(recv[d]) \cup {item[d]}
      BY ONLY <3>1, <3>a, RangeAppend
    <3>3. item'[d] = Nothing /\ pipe'[d] = pipe[d]
      BY <1>5 DEF DownloadSend
    <3>4. Written(d) \subseteq Written(d)' /\ (EndWritten(d) => EndWritten(d)')
      BY <3>1, <3>2, <3>3 DEF Written, EndWritten
    <3> QED
      BY <1>5, <3>4 DEF DownloadSend
  <2>2. CASE pc'[d] = "failed"
    BY <1>5, <2>2 DEF DownloadSend
  <2> QED
    BY <1>5, <2>1, <2>2 DEF DownloadSend
<1>6. CASE DownloadEnd(d)
  <2>1. Written(d)' = Written(d) /\ EndWritten(d)' = EndWritten(d)
    BY <1>6 DEF DownloadEnd, Written, EndWritten
  <2> QED
    BY <1>6, <2>1 DEF DownloadEnd
<1> QED
  BY <1>1, <1>2, <1>3, <1>4, <1>5, <1>6 DEF Download

(* Nothing is neither an entry nor the end. *)
LEMMA NothingIsNoItem ==
    /\ Nothing # End
    /\ \A k \in ResultKey : [key |-> k, whole |-> TRUE] # Nothing
<1>1. \A k \in ResultKey : [key |-> k, whole |-> TRUE] \in Entry
  BY DEF Entry
<1>2. Nothing \notin Entry \cup {End}
  BY ModelStoreAssumption DEF Item
<1> QED
  BY <1>1, <1>2

(* The goroutine writes an entry for each object, and the end after the last one. *)
LEMMA ZipWrite ==
    ASSUME TypeInv, VerifiesDir, Phases, ZipInv, NEW d \in Downloader, Write(d)
    PROVE  ZipOf(d)'
<1>a. UNCHANGED <<objects, handlerVars, base>>
  BY DEF Write, WriteList, WriteVerify, WriteCopy, WriteEnd, WriteHangs, WritePanic, WriteClose,
     storeVars, writerVars
<1>b. ZipOf(d)
  BY DEF ZipInv
<1>c. \A k \in base[d] : [key |-> k, whole |-> TRUE] # Nothing
  BY NothingIsNoItem DEF TypeInv, TypeOK, WriterTypeOK
<1> USE <1>a, <1>b DEF TypeInv, TypeOK, HandlerTypeOK, WriterTypeOK, Phases, ZipOf, Sound,
     WriterMay, WriterGoes, Writes, handlerVars
<1>0. ASSUME NEW l \in {"list", "copy"}, CallFails(d, l), wpc[d] \in {"list", "verify", "copy"},
             l = "list" => wpc[d] # "copy",
             pipe' = pipe \/ \E k \in todo[d] : pipe' = [pipe EXCEPT ![d] = [key |-> k, whole |-> FALSE]],
             pipe[d] = Nothing, UNCHANGED <<werr, missed>>
      PROVE  ZipOf(d)'
  <2>1. \A k \in base[d] : [key |-> k, whole |-> TRUE] \in Written(d) =>
                            [key |-> k, whole |-> TRUE] \in Written(d)'
    BY <1>0, <1>c DEF Written
  <2>2. CASE wpc' = [wpc EXCEPT ![d] = l] /\ todo' = todo /\ dirs' = dirs
    BY <1>0, <2>1, <2>2
  <2>3. CASE wpc'[d] = "closeErr"
    BY <1>0, <2>3
  <2> QED
    BY <1>0, <2>2, <2>3, FailSteps
<1>e. ASSUME NEW L \in Listings(from[d], Head(dirs[d])), Accept(d, L), dirs[d] # <<>>,
             wpc[d] \in {"list", "verify"}, UNCHANGED <<pipe, werr>>
      PROVE  ZipOf(d)'
  <2>1. /\ wpc'[d] = "copy" /\ todo'[d] = L /\ dirs'[d] = Tail(dirs[d])
        /\ missed'[d] = missed[d] \cup (ObjectsIn(from[d], Head(dirs[d])) \ L)
    BY <1>e DEF Accept
  <2>2. Range(dirs[d]) \subseteq {Head(dirs[d])} \cup Range(dirs'[d])
    BY <1>e, <2>1, RangeTail
  <2>3. \A k \in base[d] \ missed'[d] :
            Dir[k] \in Range(dirs[d]) => k \in todo'[d] \/ Dir[k] \in Range(dirs'[d])
    BY <1>e, <2>1, <2>2 DEF ObjectsIn
  <2>4. Written(d)' = Written(d)
    BY <1>e DEF Written
  <2>5. todo[d] = {} /\ (Sound(d)' => Sound(d))
    BY <1>e
  <2> QED
    BY <1>e, <2>1, <2>3, <2>4, <2>5
<1>1. CASE WriteList(d)
  <2>1. /\ wpc[d] = "list" /\ dirs[d] # <<>> /\ UNCHANGED <<pipe, werr>> /\ pipe[d] = Nothing
    BY <1>1 DEF WriteList
  <2>2. CASE \E L \in Listings(from[d], Head(dirs[d])) : Accept(d, L)
    BY <2>1, <2>2, <1>e
  <2>3. CASE wpc' = [wpc EXCEPT ![d] = "verify"] /\ UNCHANGED <<todo, missed, dirs>>
    BY <2>1, <2>3 DEF Written
  <2>4. CASE CallFails(d, "list") /\ UNCHANGED missed
    BY <2>1, <2>4, <1>0
  <2> QED
    BY <1>1, <2>2, <2>3, <2>4 DEF WriteList
<1>5. CASE WriteVerify(d)
  <2>1. /\ wpc[d] = "verify" /\ dirs[d] # <<>> /\ UNCHANGED <<pipe, werr>> /\ pipe[d] = Nothing
    BY <1>5 DEF WriteVerify, VerifiesDir
  <2>2. CASE \E L \in Listings(from[d], Head(dirs[d])) : Accept(d, L)
    BY <2>1, <2>2, <1>e
  <2>3. CASE CallFails(d, "list") /\ UNCHANGED missed
    BY <2>1, <2>3, <1>0
  <2> QED
    BY <1>5, <2>2, <2>3 DEF WriteVerify
<1>6. CASE WriteEnd(d)
  <2>1. wpc[d] = "list" /\ pipe[d] = Nothing /\ pipe'[d] = End /\ todo'[d] = {} /\ dirs'[d] = <<>>
        /\ wpc'[d] = "close"
    BY <1>6 DEF WriteEnd
  <2>2. EndWritten(d)'
    BY <2>1 DEF EndWritten
  <2>3. \A k \in base[d] : [key |-> k, whole |-> TRUE] \in Written(d) =>
                            [key |-> k, whole |-> TRUE] \in Written(d)'
    BY <1>c, <2>1 DEF Written
  <2> QED
    BY <1>6, <2>1, <2>2, <2>3 DEF WriteEnd
<1>7. CASE WriteHangs(d)
  <2>1. wpc[d] \in {"list", "copy"} /\ wpc'[d] = "hung"
    BY <1>7 DEF WriteHangs
  <2>2. base'[d] = base[d] /\ from'[d] = from[d]
    OBVIOUS
  <2>3. \A k \in base[d] : <<from[d], k>> \in objects
    BY <2>1
  <2> HIDE DEF Written, EndWritten
  <2> QED
    BY <2>1, <2>2, <2>3
<1>2. CASE WriteCopy(d)
  <2>1. wpc[d] = "copy" /\ pipe[d] = Nothing /\ werr' = werr /\ missed' = missed
    BY <1>2 DEF WriteCopy
  <2>2. \A k \in base[d] : [key |-> k, whole |-> TRUE] \in Written(d) =>
                            [key |-> k, whole |-> TRUE] \in Written(d)'
    BY <1>c, <2>1 DEF Written
  <2>3. ASSUME NEW k \in todo[d], todo' = [todo EXCEPT ![d] = todo[d] \ {k}], wpc' = wpc, dirs' = dirs,
               pipe' = [pipe EXCEPT ![d] = [key |-> k, whole |-> TRUE]]
        PROVE  ZipOf(d)'
    <3>1. [key |-> k, whole |-> TRUE] \in Written(d)' /\ todo'[d] = todo[d] \ {k}
      BY <2>3 DEF Written
    <3> QED
      BY <2>1, <2>2, <2>3, <3>1
  <2>4. ASSUME CallFails(d, "copy"),
               pipe' = pipe \/ \E k \in todo[d] : pipe' = [pipe EXCEPT ![d] = [key |-> k, whole |-> FALSE]]
        PROVE  ZipOf(d)'
    BY <2>1, <2>4, <1>0
  <2>5. ASSUME todo' = todo, todo[d] = {}, dirs' = dirs, wpc' = [wpc EXCEPT ![d] = "list"]
        PROVE  ZipOf(d)'
    BY <2>1, <2>2, <2>5
  <2> QED
    BY <1>2, <2>3, <2>4, <2>5, CopySteps
<1>3. CASE WritePanic(d)
  BY <1>3 DEF WritePanic, writerVars, Written, EndWritten
<1>4. CASE WriteClose(d)
  <2>1. Written(d)' = Written(d) /\ EndWritten(d)' = EndWritten(d)
    BY <1>4 DEF WriteClose, Written, EndWritten
  <2> QED
    BY <1>4, <2>1 DEF WriteClose
<1> QED
  BY <1>1, <1>2, <1>3, <1>4, <1>5, <1>6, <1>7 DEF Write

(* With more objects in it a directory is still too large for a listing. *)
LEMMA MoreObjects ==
    ASSUME NEW S, NEW T, S \subseteq T, T \subseteq ResultKey, Cardinality(S) > MaxKeys
    PROVE  Cardinality(T) > MaxKeys
<1>1. IsFiniteSet(T) /\ IsFiniteSet(S)
  BY FS_Subset, ObjectStoreAssumption
<1>2. Cardinality(S) <= Cardinality(T) /\ Cardinality(S) \in Nat /\ Cardinality(T) \in Nat
  BY <1>1, FS_Subset, FS_CardinalityType
<1> QED
  BY <1>2, ObjectStoreAssumption

(* What a download leaves out of its listings. *)
LEMMA MissedWrites ==
    ASSUME TypeInv, VerifiesDir, Phases, MissedInv, NEW d \in Downloader,
           DownloadBegin(d) \/ Download(d) \/ Write(d)
    PROVE  MissedOf(d)'
<1>a. UNCHANGED <<kind, objects>>
  BY DownloadFrame DEF storeVars
<1>b. MissedOf(d)
  BY DEF MissedInv
<1>c. \A b, x : ObjectsIn(b, x)' = ObjectsIn(b, x)
  BY <1>a DEF ObjectsIn
<1> USE <1>a, <1>b, <1>c DEF MissedOf, TypeInv, TypeOK, HandlerTypeOK, WriterTypeOK, Phases,
     handlerVars, writerVars
<1>1. CASE DownloadBegin(d)
  <2>1. missed'[d] = {}
    BY <1>1 DEF DownloadBegin
  <2> QED
    BY <2>1
<1>2. CASE Download(d)
  <2>1. missed' = missed /\ from' = from /\ (wpc'[d] = "idle" => wpc[d] = "idle")
    BY <1>2 DEF Download, DownloadConnect, DownloadSize, DownloadRead, DownloadSend, DownloadEnd
  <2> QED
    BY <2>1
<1>3. ASSUME NEW L \in Listings(from[d], Head(dirs[d])), Accept(d, L), from' = from
      PROVE  MissedOf(d)'
  <2>1. /\ wpc'[d] = "copy"
        /\ missed'[d] = missed[d] \cup (ObjectsIn(from[d], Head(dirs[d])) \ L)
    BY <1>3 DEF Accept, WriterGoes
  <2>2. kind[from[d]] = "s3" /\ ~(ObjectsIn(from[d], Head(dirs[d])) \subseteq L) =>
            Cardinality(ObjectsIn(from[d], Head(dirs[d]))) > MaxKeys
    BY ONLY <1>3, ListingFacts
  <2>3. \A k \in ObjectsIn(from[d], Head(dirs[d])) : Dir[k] = Head(dirs[d])
    BY DEF ObjectsIn
  <2>4. ASSUME NEW k \in missed'[d], kind[from[d]] = "s3"
        PROVE  Cardinality(ObjectsIn(from[d], Dir[k])) > MaxKeys
    BY <2>1, <2>2, <2>3, <2>4
  <2> QED
    BY <1>3, <2>1, <2>4
<1>4. CASE Write(d)
  <2>1. from' = from /\ wpc[d] # "idle"
    BY <1>4 DEF Write, WriteList, WriteVerify, WriteCopy, WriteEnd, WriteHangs, WritePanic, WriteClose,
       WriterMay
  <2>2. CASE missed' = missed /\ wpc'[d] # "idle"
    BY <2>1, <2>2
  <2>3. CASE \E L \in Listings(from[d], Head(dirs[d])) : Accept(d, L)
    BY <1>3, <2>1, <2>3
  <2>4. CASE WriteList(d) \/ WriteVerify(d)
    BY <2>2, <2>3, <2>4, FailSteps DEF WriteList, WriteVerify, WriterGoes
  <2>5. CASE WriteCopy(d)
    <3>1. missed' = missed /\ wpc[d] = "copy"
      BY <2>5 DEF WriteCopy, WriterMay
    <3>2. CASE CallFails(d, "copy")
      BY <2>2, <3>1, <3>2, FailSteps
    <3>3. CASE ~CallFails(d, "copy")
      <4>1. wpc' = wpc \/ wpc' = [wpc EXCEPT ![d] = "list"]
        BY <2>5, <3>3, CopySteps
      <4> QED
        BY <2>1, <2>2, <3>1, <4>1
    <3> QED
      BY <3>2, <3>3
  <2>6. CASE WriteEnd(d) \/ WriteHangs(d) \/ WritePanic(d) \/ WriteClose(d)
    <3>1. missed' = missed
      BY <2>6 DEF WriteEnd, WriteHangs, WritePanic, WriteClose
    <3>2. wpc' = wpc \/ \E l \in {"hung", "close", "exit"} : wpc' = [wpc EXCEPT ![d] = l]
      BY <2>6 DEF WriteEnd, WriteHangs, WritePanic, WriteClose, WriterGoes
    <3> QED
      BY <2>1, <2>2, <3>1, <3>2
  <2> QED
    BY <1>4, <2>4, <2>5, <2>6 DEF Write
<1> QED
  BY <1>1, <1>2, <1>4

(* Every step keeps the invariant. *)
LEMMA Step == IInv /\ [Next]_vars => IInv'
<1> SUFFICES ASSUME IInv, [Next]_vars PROVE IInv'
  OBVIOUS
<1>a. TypeInv' /\ VerifiesDir'
  BY TypeStep DEF IInv
<1>1. CASE StoreNext
  <2>1. UNCHANGED <<kind, handlerVars, writerVars>> /\ objects \subseteq objects'
    BY <1>1, StoreFrame DEF IInv
  <2>2. Phases'
    BY <2>1 DEF IInv, Phases, handlerVars, writerVars
  <2>3. ZipInv'
    BY <2>1 DEF IInv, ZipInv, ZipOf, Sound, Written, EndWritten, handlerVars, writerVars
  <2>4. ASSUME NEW d \in Downloader PROVE MissedOf(d)'
    <3>1. UNCHANGED <<kind, from, missed, wpc>> /\ MissedOf(d)
      BY <2>1 DEF IInv, MissedInv, handlerVars, writerVars
    <3>2. ASSUME NEW k \in missed[d], kind[from[d]] = "s3"
          PROVE  Cardinality(ObjectsIn(from[d], Dir[k])') > MaxKeys
      <4>1. /\ ObjectsIn(from[d], Dir[k]) \subseteq ObjectsIn(from[d], Dir[k])'
            /\ ObjectsIn(from[d], Dir[k])' \subseteq ResultKey
        BY <2>1, <3>1 DEF ObjectsIn
      <4> QED
        BY <3>1, <3>2, <4>1, MoreObjects DEF MissedOf
    <3> QED
      BY <3>1, <3>2 DEF MissedOf
  <2> QED
    BY <1>a, <1>1, <2>2, <2>3, <2>4, ArchiveStep, ClientStoreStep DEF IInv, MissedInv
<1>2. ASSUME NEW d \in Downloader, DownloadBegin(d) \/ Download(d) \/ Write(d)
      PROVE  IInv'
  <2>1. UNCHANGED <<storeVars, uploadVars, deleterVars, got, finished>>
    BY <1>2, DownloadFrame
  <2>2. ArchiveInv'
    BY <2>1 DEF IInv, ArchiveInv, AckedStays, storeVars, uploadVars, deleterVars
  <2>3. Phases' /\ ClientInv'
    BY <1>2, PhasesStep, ClientStep DEF IInv
  <2>4. ASSUME NEW q \in Downloader PROVE ZipOf(q)'
    <3>1. CASE q = d
      BY <1>2, <3>1, ZipDownload, ZipWrite DEF IInv
    <3>2. CASE q # d
      <4>1. UNCHANGED DownloadState(q)
        BY <1>2, <3>2, OtherDownloads DEF IInv
      <4> QED
        BY <2>1, <4>1 DEF IInv, ZipInv, ZipOf, Sound, Written, EndWritten, DownloadState, storeVars
    <3> QED
      BY <3>1, <3>2
  <2>5. ASSUME NEW q \in Downloader PROVE MissedOf(q)'
    <3>1. CASE q = d
      BY <1>2, <3>1, MissedWrites DEF IInv
    <3>2. CASE q # d
      <4>1. UNCHANGED DownloadState(q)
        BY <1>2, <3>2, OtherDownloads DEF IInv
      <4> QED
        <5>1. MissedOf(q) /\ UNCHANGED <<kind, from[q], missed[q], wpc[q]>>
          BY <2>1, <4>1 DEF IInv, MissedInv, DownloadState, storeVars
        <5>2. \A b, x : ObjectsIn(b, x)' = ObjectsIn(b, x)
          BY <2>1 DEF ObjectsIn, storeVars
        <5> QED
          BY <5>1, <5>2 DEF MissedOf
    <3> QED
      BY <3>1, <3>2
  <2> QED
    BY <1>a, <2>2, <2>3, <2>4, <2>5 DEF IInv, ZipInv, MissedInv
<1>3. CASE UNCHANGED vars
  <2>1. Phases' /\ ClientInv'
    BY <1>3 DEF vars, IInv, Phases, ClientInv, ClientUsable, DownloadSurvives
  <2>2. ArchiveInv'
    BY <1>3 DEF vars, IInv, ArchiveInv, AckedStays
  <2>3. ZipInv'
    BY <1>3 DEF vars, IInv, ZipInv, ZipOf, Sound, Written, EndWritten
  <2>4. MissedInv'
    <3>1. \A b, x : ObjectsIn(b, x)' = ObjectsIn(b, x)
      BY <1>3 DEF vars, ObjectsIn
    <3> QED
      BY <1>3, <3>1 DEF vars, IInv, MissedInv, MissedOf
  <2> QED
    BY <1>a, <2>1, <2>2, <2>3, <2>4 DEF IInv
<1> QED
  BY <1>1, <1>2, <1>3 DEF Next, StoreNext

(* The invariant holds at the beginning. *)
LEMMA Start == Init => IInv
<1> SUFFICES ASSUME Init PROVE IInv
  OBVIOUS
<1>1. TypeInv /\ VerifiesDir
  BY TypeInit
<1>2. Phases
  BY DEF Init, Phases
<1>3. ArchiveInv
  BY DEF Init, ArchiveInv, AckedStays
<1>4. ClientInv
  BY DEF Init, ClientInv, DownloadSurvives
<1>5. ZipInv
  BY DEF Init, ZipInv, ZipOf, Sound
<1>6. MissedInv
  BY DEF Init, MissedInv, MissedOf
<1> QED
  BY <1>1, <1>2, <1>3, <1>4, <1>5, <1>6 DEF IInv

(* A download that has returned nil has sent a complete zip. *)
LEMMA OkMeansComplete == IInv => CompleteZip
<1> SUFFICES ASSUME IInv, NEW d \in Downloader, pc[d] = "ok"
             PROVE  /\ recv[d] # <<>> /\ Last(recv[d]) = End
                    /\ \A k \in base[d] \ missed[d] :
                          [key |-> k, whole |-> TRUE] \in Range(recv[d])
  BY DEF IInv, MissedInv, MissedOf, CompleteZip
<1>1. werr[d] = "EOF" /\ pipe[d] = Nothing /\ item[d] = Nothing /\ wpc[d] = "exit"
  BY DEF IInv, Phases, TypeInv, TypeOK, WriterTypeOK
<1>2. Sound(d) /\ ZipOf(d)
  BY <1>1 DEF IInv, Sound, ZipInv
<1>3. Nothing # End /\ \A k \in base[d] : [key |-> k, whole |-> TRUE] # Nothing
  BY NothingIsNoItem DEF IInv, TypeInv, TypeOK, WriterTypeOK
<1>4. recv[d] # <<>> /\ Last(recv[d]) = End /\ todo[d] = {} /\ dirs[d] = <<>>
  BY <1>1, <1>2, <1>3 DEF ZipOf, EndWritten
<1>5. Range(dirs[d]) = {}
  BY <1>4 DEF Range
<1>6. \A k \in base[d] \ missed[d] : [key |-> k, whole |-> TRUE] \in Written(d)
  BY <1>2, <1>4, <1>5 DEF ZipOf
<1> QED
  BY <1>1, <1>3, <1>4, <1>6 DEF Written

(* The invariant of the specification. *)
THEOREM Invariance == Spec => []IInv
  BY Start, Step, PTL DEF Spec

(* UploadArchive and DeleteArchive: an archive that was uploaded stays in both   *)
(* stores while its job is not deleted, whichever calls of other deletions and   *)
(* uploads come between.                                                         *)
THEOREM UploadsStay == Spec => []AckedStays
<1>1. IInv => AckedStays
  BY DEF IInv, ArchiveInv
<1> QED
  BY <1>1, Invariance, PTL

(* GetTrainedModel: when it returns nil its client has the end of the zip and a *)
(* whole entry for each object that no listing has left out; a listing of S3     *)
(* leaves something out only of a directory with more than MaxKeys objects.      *)
THEOREM OkZipIsComplete == Spec => []CompleteZip
  BY OkMeansComplete, Invariance, PTL

(* GetTrainedModel and CreateTrainingJob: the process ends only when a client has *)
(* gone away during a download, or when the user's store cannot be reached.       *)
THEOREM ProcessSurvives == Spec => []DownloadSurvives
<1>1. IInv => DownloadSurvives
  BY DEF IInv, ClientInv
<1> QED
  BY <1>1, Invariance, PTL
================================================================================
