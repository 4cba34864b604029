-------------------------------- MODULE ModelStore -----------------------------
(***************************************************************************)
(* What the handlers of one trainer process (trainer_impl.go) do with the  *)
(* object stores: CreateTrainingJob uploads the model archive to the       *)
(* internal store and to the user's, DeleteTrainingJob deletes an archive, *)
(* GetModelDefinition downloads one, and GetTrainedModel streams what the  *)
(* job has written, as a zip, through a pipe that a goroutine of its own   *)
(* fills.                                                                  *)
(***************************************************************************)
EXTENDS ObjectStore, SequencesExt

CONSTANTS
    Deleter,      \* goroutines for DeleteTrainingJob
    Reader,       \* goroutines for GetModelDefinition
    Downloader,   \* goroutines for GetTrainedModel, and the one each starts
    Attempts,     \* how often Swift tries to get an object (10)
    SizeLimit,    \* the limit on the size of a download (200 MB)
    Kinds,        \* the types that the stores of the buckets may have
    Nothing       \* the pipe is empty; no archive

(* An entry of the zip, whole or cut off, and the directory at its end. *)
Entry == [key : ResultKey, whole : BOOLEAN]
End == [key |-> "central directory", whole |-> TRUE]
Item == Entry \cup {End}

ASSUME ModelStoreAssumption ==
    /\ Attempts \in Nat \ {0} /\ SizeLimit \in Nat
    /\ Kinds \subseteq [Bucket -> {"s3", "swift"}]
    /\ \A f \in Kinds : f["models"] = f["trained"]
    /\ Nothing \notin Archive \cup Item

VARIABLES
    alive,      \* is the process running?
    upc, ub,    \* of the CreateTrainingJob of an archive: next call, bucket
    acked,      \* the archives that are in both stores by the handler's knowledge
    dpc,        \* next call of each DeleteTrainingJob
    deleted,    \* the archives whose job some DeleteTrainingJob was asked to delete
    got,        \* what the client of GetModelDefinition has got
    finished,   \* the job that is downloaded has ended
    pc,         \* next step of each GetTrainedModel
    from,       \* the bucket that it reads
    connected,  \* has its store a client?
    item,       \* what it has read from the pipe
    recv,       \* what its client has got
    broken,     \* Send has failed
    wpc,        \* next step of its goroutine
    pipe,       \* what the goroutine is writing
    werr,       \* how the write end of the pipe is closed
    todo,       \* objects of the current directory that are still to be copied
    dirs,       \* directories that are still to be listed
    tries,      \* attempts of the current call of Swift
    seen,       \* the number of objects in the first of two listings of Swift
    base,       \* the objects there were when the download began
    missed      \* the objects that its listings have left out

uploadVars == <<upc, ub, acked>>
deleterVars == <<dpc, deleted>>
writerVars == <<wpc, pipe, werr, todo, dirs, tries, seen, base, missed>>
handlerVars == <<pc, from, connected, item, recv, broken>>
vars == <<kind, exists, objects, alive, upc, ub, acked, dpc, deleted, got, finished, pc,
          from, connected, item, recv, broken, wpc, pipe, werr, todo, dirs, tries, seen,
          base, missed>>

ArchiveTypeOK ==
    /\ alive \in BOOLEAN /\ finished \in BOOLEAN
    /\ upc \in [Archive -> {"idle", "head", "create", "put", "connect", "ok", "failed"}]
    /\ ub \in [Archive -> Bucket]
    /\ acked \subseteq Archive
    /\ dpc \in [Deleter -> {"idle", "list", "rmBucket", "done"}]
    /\ deleted \subseteq Archive
    /\ got \in [Reader -> Archive \cup {Nothing, "empty"}]

WriterStep == {"idle", "list", "verify", "copy", "hung", "closeErr", "close", "exit"}

HandlerTypeOK ==
    /\ pc \in [Downloader -> {"idle", "connect", "size", "stream", "send", "ok", "failed"}]
    /\ from \in [Downloader -> Bucket]
    /\ connected \in [Downloader -> BOOLEAN]
    /\ item \in [Downloader -> Item \cup {Nothing}]
    /\ recv \in [Downloader -> Seq(Item)]
    /\ broken \in [Downloader -> BOOLEAN]

WriterTypeOK ==
    /\ wpc \in [Downloader -> WriterStep]
    /\ pipe \in [Downloader -> Item \cup {Nothing}]
    /\ werr \in [Downloader -> {"none", "EOF", "err"}]
    /\ todo \in [Downloader -> SUBSET ResultKey]
    /\ dirs \in [Downloader -> Seq({"root", "learner", "logs"})]
    /\ tries \in [Downloader -> 0 .. Attempts - 1]
    /\ seen \in [Downloader -> Nat]
    /\ base \in [Downloader -> SUBSET ResultKey]
    /\ missed \in [Downloader -> SUBSET ResultKey]

TypeOK == StoreTypeOK /\ ArchiveTypeOK /\ HandlerTypeOK /\ WriterTypeOK

(* The bucket of the user's store was validated; models and trained are in   *)
(* the internal store, which is new or has been used before.                 *)
Init ==
    /\ kind \in Kinds
    /\ exists \in {{"results"}, Bucket}
    /\ objects = {}
    /\ alive = TRUE
    /\ upc = [a \in Archive |-> "idle"]
    /\ ub = [a \in Archive |-> "models"]
    /\ acked = {}
    /\ dpc = [d \in Deleter |-> "idle"]
    /\ deleted = {}
    /\ got = [g \in Reader |-> Nothing]
    /\ finished = FALSE
    /\ pc = [d \in Downloader |-> "idle"]
    /\ from = [d \in Downloader |-> "results"]
    /\ connected = [d \in Downloader |-> FALSE]
    /\ item = [d \in Downloader |-> Nothing]
    /\ recv = [d \in Downloader |-> <<>>]
    /\ broken = [d \in Downloader |-> FALSE]
    /\ wpc = [d \in Downloader |-> "idle"]
    /\ pipe = [d \in Downloader |-> Nothing]
    /\ werr = [d \in Downloader |-> "none"]
    /\ todo = [d \in Downloader |-> {}]
    /\ dirs = [d \in Downloader |-> <<>>]
    /\ tries = [d \in Downloader |-> 0]
    /\ seen = [d \in Downloader |-> 0]
    /\ base = [d \in Downloader |-> {}]
    /\ missed = [d \in Downloader |-> {}]

--------------------------------------------------------------------------------
(* CreateTrainingJob: UploadArchive to both stores                           *)

UploadGoes(a, l) == upc' = [upc EXCEPT ![a] = l]

UploadBegin(a) ==
    /\ alive
    /\ upc[a] = "idle"
    /\ UploadGoes(a, "head")
    /\ UNCHANGED <<storeVars, alive, ub, acked, deleterVars, got, finished, handlerVars, writerVars>>

UploadHead(a) ==
    /\ alive
    /\ upc[a] = "head"
    /\ \/ "yes" \in ExistsAnswers(ub[a]) /\ UploadGoes(a, "put")
       \/ "no" \in ExistsAnswers(ub[a]) /\ UploadGoes(a, "create")
       \/ "error" \in ExistsAnswers(ub[a]) /\ UploadGoes(a, "failed")
    /\ UNCHANGED <<storeVars, alive, ub, acked, deleterVars, got, finished, handlerVars, writerVars>>

UploadCreate(a) ==
    /\ alive
    /\ upc[a] = "create"
    /\ \/ CreateBucket(ub[a]) /\ UploadGoes(a, "put")
       \/ CreateBucketFails(ub[a]) /\ UploadGoes(a, "failed")
    /\ UNCHANGED <<kind, objects, alive, ub, acked, deleterVars, got, finished, handlerVars, writerVars>>

(* The archive is in the internal store; the user's store comes next. *)
UploadPut(a) ==
    /\ alive
    /\ upc[a] = "put"
    /\ \/ /\ Put(ub[a], a)
          /\ UploadGoes(a, IF ub[a] = "models" THEN "connect" ELSE "ok")
          /\ acked' = IF ub[a] = "models" THEN acked ELSE acked \cup {a}
       \/ PutFails(ub[a], a) /\ UploadGoes(a, "failed") /\ UNCHANGED acked
    /\ UNCHANGED <<kind, exists, alive, ub, deleterVars, got, finished, handlerVars, writerVars>>

(* Connect to the user's store.  An error ends the process (Fatalf), but after *)
(* ten timeouts of Swift there is none: the upload then finds no connection.   *)
UploadConnect(a) ==
    /\ alive
    /\ upc[a] = "connect"
    /\ \/ /\ ub' = [ub EXCEPT ![a] = "results"]
          /\ UploadGoes(a, "head")
          /\ UNCHANGED alive
       \/ /\ Faults /\ kind["results"] = "swift"
          /\ UploadGoes(a, "failed")
          /\ UNCHANGED <<alive, ub>>
       \/ /\ Faults
          /\ alive' = FALSE
          /\ UNCHANGED <<upc, ub>>
    /\ UNCHANGED <<storeVars, acked, deleterVars, got, finished, handlerVars, writerVars>>

Upload(a) == UploadHead(a) \/ UploadCreate(a) \/ UploadPut(a) \/ UploadConnect(a)

--------------------------------------------------------------------------------
(* DeleteTrainingJob: DeleteArchive                                          *)

DeleteGoes(d, l) == dpc' = [dpc EXCEPT ![d] = l]

(* A request to delete the job of an archive, or an older one.  The archive  *)
(* to delete is named after JobId, which is never set, so that none is       *)
(* deleted.  The error that Swift returns then is only logged.               *)
DeleteBegin(d) ==
    /\ alive
    /\ dpc[d] = "idle"
    /\ \/ UNCHANGED deleted
       \/ \E a \in acked : deleted' = deleted \cup {a}
    /\ \/ DeleteMissingSucceeds("models") /\ DeleteGoes(d, "list")
       \/ (~DeleteMissingSucceeds("models") \/ Faults) /\ DeleteGoes(d, "done")
    /\ UNCHANGED <<storeVars, alive, uploadVars, got, finished, handlerVars, writerVars>>

(* ListObjects: the bucket goes with its last object. *)
DeleteList(d) ==
    /\ alive
    /\ dpc[d] = "list"
    /\ \/ IsEmpty("models") /\ DeleteGoes(d, "rmBucket")
       \/ (~IsEmpty("models") \/ Faults) /\ DeleteGoes(d, "done")
    /\ UNCHANGED <<storeVars, alive, uploadVars, deleted, got, finished, handlerVars, writerVars>>

DeleteBucket(d) ==
    /\ alive
    /\ dpc[d] = "rmBucket"
    /\ RemoveBucket("models") \/ (Faults /\ UNCHANGED <<exists, objects>>)
    /\ DeleteGoes(d, "done")
    /\ UNCHANGED <<kind, alive, uploadVars, deleted, got, finished, handlerVars, writerVars>>

--------------------------------------------------------------------------------
(* GetModelDefinition: an archive that cannot be downloaded is sent as an     *)
(* empty one.                                                                *)
GetModelDefinition(g, a) ==
    /\ alive
    /\ got[g] = Nothing /\ upc[a] = "ok"
    /\ \/ <<"models", a>> \in objects /\ got' = [got EXCEPT ![g] = a]
       \/ /\ <<"models", a>> \notin objects \/ Faults
          /\ got' = [got EXCEPT ![g] = "empty"]
    /\ UNCHANGED <<storeVars, alive, uploadVars, deleterVars, finished, handlerVars, writerVars>>

--------------------------------------------------------------------------------
(* The job that is downloaded                                                *)

(* The learners write into the user's bucket. *)
JobWrites(k) ==
    /\ alive
    /\ ~finished /\ "results" \in exists
    /\ <<"results", k>> \notin objects
    /\ objects' = objects \cup {<<"results", k>>}
    /\ UNCHANGED <<kind, exists, alive, uploadVars, deleterVars, got, finished, handlerVars, writerVars>>

(* A terminal update erases the data stores in the job's record. *)
JobFinishes ==
    /\ alive
    /\ ~finished
    /\ finished' = TRUE
    /\ UNCHANGED <<storeVars, alive, uploadVars, deleterVars, got, handlerVars, writerVars>>

--------------------------------------------------------------------------------
(* GetTrainedModel: the handler                                              *)

Goto(d, l) == pc' = [pc EXCEPT ![d] = l]

(* The record is read.  Without a data store in it getOutputDatastore falls *)
(* back to the internal store.                                              *)
DownloadBegin(d) ==
    /\ alive
    /\ pc[d] = "idle"
    /\ \/ /\ from' = [from EXCEPT ![d] = IF finished THEN "trained" ELSE "results"]
          /\ Goto(d, "connect")
       \/ Faults /\ Goto(d, "failed") /\ UNCHANGED from
    /\ UNCHANGED <<storeVars, alive, uploadVars, deleterVars, got, finished,
                   connected, item, recv, broken, writerVars>>

(* Connect to the store; Swift may return without a connection. *)
DownloadConnect(d) ==
    /\ alive
    /\ pc[d] = "connect"
    /\ \/ connected' = [connected EXCEPT ![d] = TRUE] /\ Goto(d, "size")
       \/ Faults /\ kind[from[d]] = "swift" /\ Goto(d, "size") /\ UNCHANGED connected
       \/ Faults /\ Goto(d, "failed") /\ UNCHANGED connected
    /\ UNCHANGED <<storeVars, alive, uploadVars, deleterVars, got, finished,
                   from, item, recv, broken, writerVars>>

ZipObjects(b) == UNION {ObjectsIn(b, x) : x \in Range(ZipDirs(b))}

SizeReturns(d) == connected[d] /\ from[d] \in exists

(* Wrong: Disconnect is called here and not deferred. *)
DownloadSizeDisconnects(d) ==
    /\ alive
    /\ pc[d] = "size" /\ SizeReturns(d)
    /\ Goto(d, "stream")
    /\ connected' = [connected EXCEPT ![d] = FALSE]
    /\ wpc' = [wpc EXCEPT ![d] = "list"]
    /\ dirs' = [dirs EXCEPT ![d] = ZipDirs(from[d])]
    /\ base' = [base EXCEPT ![d] = ZipObjects(from[d])]
    /\ UNCHANGED <<storeVars, alive, uploadVars, deleterVars, got, finished,
                   from, item, recv, broken, pipe, werr, todo, tries, seen, missed>>

(* GetTrainedModelSize; then the goroutine is started. *)
DownloadSize(d) ==
    /\ alive
    /\ pc[d] = "size"
    /\ \/ /\ SizeReturns(d) /\ \E n \in GetTrainedModelSize(from[d]) : n <= SizeLimit
          /\ Goto(d, "stream")
          /\ wpc' = [wpc EXCEPT ![d] = "list"]
          /\ dirs' = [dirs EXCEPT ![d] = ZipDirs(from[d])]
          /\ base' = [base EXCEPT ![d] = ZipObjects(from[d])]
       \/ /\ ~SizeReturns(d) \/ Faults \/ \E n \in GetTrainedModelSize(from[d]) : n > SizeLimit
          /\ Goto(d, "failed")
          /\ UNCHANGED <<wpc, dirs, base>>
    /\ UNCHANGED <<storeVars, alive, uploadVars, deleterVars, got, finished,
                   from, connected, item, recv, broken, pipe, werr, todo, tries, seen, missed>>

(* Read from the pipe: the goroutine goes on as soon as its data is taken. *)
DownloadRead(d) ==
    /\ alive
    /\ pc[d] = "stream" /\ pipe[d] # Nothing
    /\ item' = [item EXCEPT ![d] = pipe[d]]
    /\ pipe' = [pipe EXCEPT ![d] = Nothing]
    /\ Goto(d, "send")
    /\ UNCHANGED <<storeVars, alive, uploadVars, deleterVars, got, finished,
                   from, connected, recv, broken, wpc, werr, todo, dirs, tries, seen, base, missed>>

(* The deferred Disconnect drops the client of S3; that of Swift stays and  *)
(* authenticates again.                                                     *)
Disconnect(d) ==
    connected' = [connected EXCEPT ![d] = @ /\ kind[from[d]] = "swift"]

(* After a failed Send the handler returns and leaves the pipe open. *)
DownloadSend(d) ==
    /\ alive
    /\ pc[d] = "send"
    /\ item' = [item EXCEPT ![d] = Nothing]
    /\ \/ /\ recv' = [recv EXCEPT ![d] = Append(@, item[d])]
          /\ Goto(d, "stream")
          /\ UNCHANGED <<connected, broken>>
       \/ /\ Faults
          /\ Goto(d, "failed")
          /\ broken' = [broken EXCEPT ![d] = TRUE]
          /\ Disconnect(d)
          /\ UNCHANGED recv
    /\ UNCHANGED <<storeVars, alive, uploadVars, deleterVars, got, finished, from, writerVars>>

(* The write end is closed: EOF is success, anything else is returned. *)
DownloadEnd(d) ==
    /\ alive
    /\ pc[d] = "stream" /\ pipe[d] = Nothing /\ werr[d] # "none"
    /\ Goto(d, IF werr[d] = "EOF" THEN "ok" ELSE "failed")
    /\ Disconnect(d)
    /\ UNCHANGED <<storeVars, alive, uploadVars, deleterVars, got, finished,
                   from, item, recv, broken, writerVars>>

Download(d) ==
    \/ DownloadConnect(d) \/ DownloadSize(d)
    \/ DownloadRead(d) \/ DownloadSend(d) \/ DownloadEnd(d)

--------------------------------------------------------------------------------
(* GetTrainedModel: the goroutine with DownloadTrainedModelAsZipStream.  A    *)
(* write to the pipe returns when the handler has read it.                    *)

WriterMay(d, l) == alive /\ wpc[d] = l /\ pipe[d] = Nothing

ClientUsable(d) == connected[d] \/ kind[from[d]] = "swift"

Writes(d, x) == pipe' = [pipe EXCEPT ![d] = x]
WriterGoes(d, l) == wpc' = [wpc EXCEPT ![d] = l]

(* A call fails.  Swift tries again from step l, up to its bound.  S3 does not, *)
(* and the download returns, which is the end of its local variables.           *)
CallFails(d, l) ==
    \/ /\ kind[from[d]] = "swift" /\ tries[d] < Attempts - 1
       /\ tries' = [tries EXCEPT ![d] = @ + 1]
       /\ WriterGoes(d, l)
       /\ UNCHANGED <<todo, dirs>>
    \/ /\ kind[from[d]] = "s3" \/ tries[d] = Attempts - 1
       /\ WriterGoes(d, "closeErr")
       /\ tries' = [tries EXCEPT ![d] = 0]
       /\ todo' = [todo EXCEPT ![d] = {}]
       /\ dirs' = [dirs EXCEPT ![d] = <<>>]

(* The objects of a listing are what is to be copied. *)
Accept(d, L) ==
    /\ todo' = [todo EXCEPT ![d] = L]
    /\ missed' = [missed EXCEPT ![d] = @ \cup (ObjectsIn(from[d], Head(dirs[d])) \ L)]
    /\ dirs' = [dirs EXCEPT ![d] = Tail(@)]
    /\ tries' = [tries EXCEPT ![d] = 0]
    /\ WriterGoes(d, "copy")

(* List the next directory.  Swift lists it twice. *)
WriteList(d) ==
    /\ WriterMay(d, "list")
    /\ dirs[d] # <<>> /\ ClientUsable(d)
    /\ \/ /\ from[d] \in exists
          /\ \E L \in Listings(from[d], Head(dirs[d])) :
               \/ kind[from[d]] = "s3" /\ Accept(d, L) /\ UNCHANGED seen
               \/ /\ kind[from[d]] = "swift"
                  /\ seen' = [seen EXCEPT ![d] = Cardinality(L)]
                  /\ WriterGoes(d, "verify")
                  /\ UNCHANGED <<todo, missed, dirs, tries>>
       \/ /\ Faults \/ from[d] \notin exists
          /\ CallFails(d, "list")
          /\ UNCHANGED <<missed, seen>>
    /\ UNCHANGED <<storeVars, alive, uploadVars, deleterVars, got, finished, handlerVars,
                   pipe, werr, base>>

(* The second listing of Swift is used if it has as many objects as the first. *)
WriteVerify(d) ==
    /\ WriterMay(d, "verify")
    /\ \/ /\ from[d] \in exists
          /\ \E L \in Listings(from[d], Head(dirs[d])) : Cardinality(L) = seen[d] /\ Accept(d, L)
          /\ seen' = [seen EXCEPT ![d] = 0]
       \/ /\ Faults \/ from[d] \notin exists
             \/ \E L \in Listings(from[d], Head(dirs[d])) : Cardinality(L) # seen[d]
          /\ CallFails(d, "list")
          /\ seen' = [seen EXCEPT ![d] = 0]
          /\ UNCHANGED missed
    /\ UNCHANGED <<storeVars, alive, uploadVars, deleterVars, got, finished, handlerVars,
                   pipe, werr, base>>

(* After the last directory the zip is closed. *)
WriteEnd(d) ==
    /\ WriterMay(d, "list")
    /\ dirs[d] = <<>>
    /\ Writes(d, End)
    /\ WriterGoes(d, "close")
    /\ UNCHANGED <<storeVars, alive, uploadVars, deleterVars, got, finished, handlerVars,
                   werr, todo, dirs, tries, seen, base, missed>>

(* Objects are copied in the order of their names. *)
NextObject(d) == CHOOSE k \in todo[d] : TRUE

WritesEntry(d, w) == Writes(d, [key |-> NextObject(d), whole |-> w])

(* Wrong: an object that cannot be read is left out. *)
WriteCopySkips(d) ==
    /\ WriterMay(d, "copy")
    /\ ClientUsable(d)
    /\ \/ /\ todo[d] # {}
          /\ WritesEntry(d, TRUE) \/ (Faults /\ UNCHANGED pipe)
          /\ todo' = [todo EXCEPT ![d] = @ \ {NextObject(d)}]
          /\ UNCHANGED wpc
       \/ todo[d] = {} /\ WriterGoes(d, "list") /\ UNCHANGED <<pipe, todo>>
    /\ UNCHANGED <<storeVars, alive, uploadVars, deleterVars, got, finished, handlerVars,
                   werr, dirs, tries, seen, base, missed>>

(* Wrong: the attempts of Swift are not counted up to their bound ... *)
WriteCopyForever(d) ==
    /\ WriterMay(d, "copy")
    /\ ClientUsable(d)
    /\ \/ /\ todo[d] # {}
          /\ WritesEntry(d, TRUE)
          /\ todo' = [todo EXCEPT ![d] = @ \ {NextObject(d)}]
          /\ UNCHANGED <<wpc, tries>>
       \/ /\ todo[d] # {} /\ Faults
          /\ tries' = [tries EXCEPT ![d] = (@ + 1) % Attempts]
          /\ UNCHANGED <<wpc, pipe, todo>>
       \/ todo[d] = {} /\ WriterGoes(d, "list") /\ UNCHANGED <<pipe, todo, tries>>
    /\ UNCHANGED <<storeVars, alive, uploadVars, deleterVars, got, finished, handlerVars,
                   werr, dirs, seen, base, missed>>

(* ... or there is one more of them. *)
WriteCopyOnceMore(d) ==
    \/ WriteCopyForever(d)
    \/ /\ WriterMay(d, "copy") /\ todo[d] # {} /\ Faults /\ tries[d] = Attempts - 1
       /\ tries' = [tries EXCEPT ![d] = @ + 1]
       /\ UNCHANGED <<storeVars, alive, uploadVars, deleterVars, got, finished, handlerVars,
                      wpc, pipe, werr, todo, dirs, seen, base, missed>>

(* Copy an object into an entry of its own.  When S3 fails the download ends. *)
(* Swift tries again and appends to what it has written of the entry.         *)
WriteCopy(d) ==
    /\ WriterMay(d, "copy")
    /\ \/ /\ todo[d] # {} /\ ClientUsable(d)
          /\ WritesEntry(d, TRUE)
          /\ todo' = [todo EXCEPT ![d] = @ \ {NextObject(d)}]
          /\ tries' = [tries EXCEPT ![d] = 0]
          /\ UNCHANGED <<wpc, dirs>>
       \/ /\ todo[d] # {} /\ ClientUsable(d) /\ Faults
          /\ UNCHANGED pipe \/ WritesEntry(d, FALSE)
          /\ CallFails(d, "copy")
       \/ todo[d] = {} /\ WriterGoes(d, "list") /\ UNCHANGED <<pipe, todo, tries, dirs>>
    /\ UNCHANGED <<storeVars, alive, uploadVars, deleterVars, got, finished, handlerVars,
                   werr, seen, base, missed>>

(* ListObjects, GetObject and the copy of its body have no timeout in S3: one *)
(* of them may never return.                                                  *)
WriteHangs(d) ==
    /\ Faults /\ kind[from[d]] = "s3" /\ ClientUsable(d)
    /\ \/ WriterMay(d, "list") /\ dirs[d] # <<>> /\ UNCHANGED pipe
       \/ /\ WriterMay(d, "copy") /\ todo[d] # {}
          /\ UNCHANGED pipe \/ WritesEntry(d, FALSE)
    /\ WriterGoes(d, "hung")
    /\ UNCHANGED <<storeVars, alive, uploadVars, deleterVars, got, finished, handlerVars,
                   werr, todo, dirs, tries, seen, base, missed>>

(* The handler has returned after a failed Send and has dropped the client *)
(* that the goroutine is about to use.                                     *)
WritePanic(d) ==
    /\ alive
    /\ pipe[d] = Nothing /\ ~ClientUsable(d)
    /\ \/ wpc[d] = "list" /\ dirs[d] # <<>>
       \/ wpc[d] = "copy" /\ todo[d] # {}
    /\ alive' = FALSE
    /\ UNCHANGED <<storeVars, uploadVars, deleterVars, got, finished, handlerVars, writerVars>>

(* CloseWithError, and then Close in any case; the pipe keeps its first error. *)
WriteClose(d) ==
    /\ \/ /\ WriterMay(d, "closeErr")
          /\ werr' = [werr EXCEPT ![d] = "err"]
          /\ WriterGoes(d, "close")
       \/ /\ WriterMay(d, "close")
          /\ werr' = [werr EXCEPT ![d] = IF @ = "none" THEN "EOF" ELSE @]
          /\ WriterGoes(d, "exit")
    /\ UNCHANGED <<storeVars, alive, uploadVars, deleterVars, got, finished, handlerVars,
                   pipe, todo, dirs, tries, seen, base, missed>>

Write(d) ==
    \/ WriteList(d) \/ WriteVerify(d) \/ WriteCopy(d) \/ WriteEnd(d)
    \/ WriteHangs(d) \/ WritePanic(d) \/ WriteClose(d)

--------------------------------------------------------------------------------

Next ==
    \/ \E a \in Archive : UploadBegin(a) \/ Upload(a)
    \/ \E d \in Deleter : DeleteBegin(d) \/ DeleteList(d) \/ DeleteBucket(d)
    \/ \E g \in Reader, a \in Archive : GetModelDefinition(g, a)
    \/ \E k \in ResultKey : JobWrites(k)
    \/ JobFinishes
    \/ \E d \in Downloader : DownloadBegin(d) \/ Download(d) \/ Write(d)

Spec == Init /\ [][Next]_vars

(* Every call of a store returns, unless WriteHangs says that it never will, *)
(* and every Send returns.                                                   *)
FairSpec == Spec /\ \A d \in Downloader : WF_vars(Download(d)) /\ WF_vars(Write(d))

--------------------------------------------------------------------------------
(* An archive whose upload was reported as successful stays in both stores as  *)
(* long as nobody asks to delete its job, and so do their buckets: a deletion  *)
(* of another job that finds the bucket empty while the upload is going on     *)
(* removes it before the object arrives, or not at all.                        *)
AckedStays ==
    \A a \in acked \ deleted, b \in {"models", "results"} :
        b \in exists /\ <<b, a>> \in objects

(* GetTrainedModel returns nil only if its client has got the end of the zip,   *)
(* and a whole entry for each object that was there when the download began and *)
(* that no listing has left out: no failing call and no retry loses one.  S3    *)
(* leaves out objects only of a directory with more of them than one listing    *)
(* returns.                                                                     *)
CompleteZip == \A d \in Downloader : pc[d] = "ok" =>
    /\ recv[d] # <<>> /\ Last(recv[d]) = End
    /\ \A k \in base[d] \ missed[d] : [key |-> k, whole |-> TRUE] \in Range(recv[d])
    /\ kind[from[d]] = "s3" =>
          \A k \in missed[d] : Cardinality(ObjectsIn(from[d], Dir[k])) > MaxKeys

(* The goroutine never calls a store that the handler has disconnected unless *)
(* Send has failed: only a client that goes away, or the user's store at      *)
(* creation (Fatalf), can end the process.                                    *)
DownloadSurvives ==
    ~alive => \/ \E a \in Archive : upc[a] = "connect"
              \/ \E d \in Downloader : broken[d]

(* The goroutine of a download ends, unless its client has gone away or a call *)
(* of S3 has hung: the retries of Swift and the pipe never block it for good.  *)
WriterEnds == \A d \in Downloader :
    wpc[d] # "idle" ~> wpc[d] \in {"exit", "hung"} \/ broken[d] \/ ~alive
================================================================================
