-------------------------------- MODULE LogFollow ------------------------------
(***************************************************************************)
(* The handlers of trainer_impl.go that stream a job's log lines or        *)
(* evaluation metrics from the training data service (TDS) to a client:    *)
(* GetTrainedModelLogs with and without Follow, GetTrainingLogs and        *)
(* GetTrainingEMetrics.  The learner writes lines, and the job changes its *)
(* status or is deleted, while they read.                                  *)
(*                                                                         *)
(* Lines are numbered from 1 and are represented by their number.  The TDS *)
(* answers a query with the lines it has from Pos on, a page at most.      *)
(* Time is abstract: a timer that runs may fire at any moment.             *)
(***************************************************************************)
EXTENDS Naturals, Sequences

CONSTANTS
    Reader,     \* goroutines that serve one request each
    JobStatus,  \* the statuses that the job may take
    NotFound,   \* the job has been deleted
    Page,       \* oldEndpointInternalPageSize, and the Pagesize of a query
    MaxLines,   \* bound on the lines that the learner writes
    Faults      \* may calls of mongo, of the TDS or of the client fail?

ASSUME LogFollowAssumption ==
    /\ NotFound \notin JobStatus
    /\ Page \in Nat \ {0} /\ MaxLines \in Nat
    /\ Faults \in BOOLEAN

VARIABLES
    status,   \* the status in the training record
    log,      \* how many lines the TDS has
    alive,    \* is the trainer process running?
    kind,     \* the request that each reader serves
    pc,       \* what it does next
    from,     \* the first line it has asked for
    pos,      \* rindex: the next line it will ask for
    asked,    \* how many lines there were at its last query
    last,     \* the last line of the page it is reading
    fresh,    \* nRecordsFound > 0: the page had a line
    expired,  \* the four minutes of its context are over
    sent      \* the lines that the client has got

jobVars == <<status, log>>
readVars == <<kind, from, pos, asked, last, fresh, expired, sent>>
vars == <<status, log, alive, kind, pc, from, pos, asked, last, fresh, expired, sent>>

NotStarted == {"NOT_STARTED", "QUEUED", "PENDING"}
LearningFinished == {"COMPLETED", "FAILED", "HALTED", "STORING", NotFound}
Done == {"ok", "failed"}

(* GetTrainedModelLogs with and without Follow, GetTrainingLogs, GetTrainingEMetrics *)
Kind == {"follow", "logs", "query", "emetrics"}

TypeOK ==
    /\ status \in JobStatus \cup {NotFound}
    /\ log \in 0 .. MaxLines
    /\ alive \in BOOLEAN
    /\ kind \in [Reader -> Kind]
    /\ pc \in [Reader -> {"idle", "wait", "connect", "query", "recv", "check"} \cup Done]
    /\ from \in [Reader -> 1 .. MaxLines + 1]
    /\ pos \in [Reader -> 1 .. MaxLines + 1]
    /\ asked \in [Reader -> 0 .. MaxLines]
    /\ last \in [Reader -> 0 .. MaxLines]
    /\ fresh \in [Reader -> BOOLEAN]
    /\ expired \in [Reader -> BOOLEAN]
    /\ sent \in [Reader -> Seq(1 .. MaxLines)]

Init ==
    /\ status \in JobStatus
    /\ log = 0
    /\ alive = TRUE
    /\ pc = [r \in Reader |-> "idle"]
    /\ kind \in [Reader -> Kind]
    /\ from = [r \in Reader |-> 1]
    /\ pos = [r \in Reader |-> 1]
    /\ asked = [r \in Reader |-> 0]
    /\ last = [r \in Reader |-> 0]
    /\ fresh = [r \in Reader |-> FALSE]
    /\ expired = [r \in Reader |-> FALSE]
    /\ sent = [r \in Reader |-> <<>>]

Goto(r, l) == pc' = [pc EXCEPT ![r] = l]

--------------------------------------------------------------------------------
(* The job                                                                   *)

(* UpdateTrainingJob or DeleteTrainingJob; any status may follow any other. *)
StatusChanges ==
    /\ alive
    /\ status # NotFound
    /\ status' \in (JobStatus \cup {NotFound}) \ {status}
    /\ UNCHANGED <<log, alive, pc, readVars>>

(* A line reaches the TDS, possibly after the job has ended. *)
LineArrives ==
    /\ alive
    /\ status \notin NotStarted /\ log < MaxLines
    /\ log' = log + 1
    /\ UNCHANGED <<status, alive, pc, readVars>>

--------------------------------------------------------------------------------
(* The handlers                                                              *)

(* A request arrives.  Only a follower waits for the job to start; a Query *)
(* names the first line it wants.                                          *)
Begin(r) ==
    /\ alive
    /\ pc[r] = "idle"
    /\ Goto(r, IF kind[r] = "follow" THEN "wait" ELSE "connect")
    /\ \E p \in 1 .. MaxLines :
         /\ kind[r] \in {"follow", "logs"} => p = 1
         /\ from' = [from EXCEPT ![r] = p]
         /\ pos' = [pos EXCEPT ![r] = p]
    /\ UNCHANGED <<jobVars, alive, kind, asked, last, fresh, expired, sent>>

(* waitUntilJobStart looks at the record every two seconds and gives up after *)
(* ten minutes.  It may send a message about the wait: that is no line of the *)
(* log, and the error of this Send is ignored.                                *)
Wait(r) ==
    /\ alive
    /\ pc[r] = "wait"
    /\ \/ status \notin NotStarted \cup {NotFound} /\ Goto(r, "connect")
       \/ status = NotFound /\ Goto(r, "failed")
       \/ status \in NotStarted /\ Goto(r, "failed")
       \/ Faults /\ Goto(r, "failed")
    /\ UNCHANGED <<jobVars, alive, readVars>>

(* tdsClient, and the context with a timeout of four minutes. *)
Connect(r) ==
    /\ alive
    /\ pc[r] = "connect"
    /\ Goto(r, "query") \/ (Faults /\ Goto(r, "failed"))
    /\ UNCHANGED <<jobVars, alive, readVars>>

(* The context ends. *)
Deadline(r) ==
    /\ alive
    /\ pc[r] \in {"query", "recv", "check"} /\ ~expired[r]
    /\ expired' = [expired EXCEPT ![r] = TRUE]
    /\ UNCHANGED <<jobVars, alive, pc, kind, from, pos, asked, last, fresh, sent>>

(* Wrong: every query has a context of its own. *)
QueryRenewed(r) ==
    /\ alive
    /\ pc[r] = "query" /\ kind[r] # "emetrics"
    /\ asked' = [asked EXCEPT ![r] = log]
    /\ last' = [last EXCEPT ![r] = IF log < pos[r] + Page - 1 THEN log ELSE pos[r] + Page - 1]
    /\ fresh' = [fresh EXCEPT ![r] = FALSE]
    /\ expired' = [expired EXCEPT ![r] = FALSE]
    /\ Goto(r, "recv")
    /\ UNCHANGED <<jobVars, alive, kind, from, pos, sent>>

(* Wrong: a page is taken to be full. *)
QueryFullPage(r) ==
    /\ alive
    /\ pc[r] = "query" /\ ~expired[r]
    /\ asked' = [asked EXCEPT ![r] = log]
    /\ last' = [last EXCEPT ![r] = pos[r] + Page - 1]
    /\ fresh' = [fresh EXCEPT ![r] = FALSE]
    /\ Goto(r, "recv")
    /\ UNCHANGED <<jobVars, alive, kind, from, pos, expired, sent>>

(* GetLogs or GetEMetrics: the TDS opens a stream with the next page. *)
Query(r) ==
    /\ alive
    /\ pc[r] = "query" /\ ~expired[r]
    /\ asked' = [asked EXCEPT ![r] = log]
    /\ last' = [last EXCEPT ![r] = IF log < pos[r] + Page - 1 THEN log ELSE pos[r] + Page - 1]
    /\ fresh' = [fresh EXCEPT ![r] = FALSE]
    /\ Goto(r, "recv")
    /\ UNCHANGED <<jobVars, alive, kind, from, pos, expired, sent>>

(* The call fails.  GetTrainingEMetrics does not look at the error and calls *)
(* Recv of a nil stream, which ends the process.                             *)
QueryFails(r) ==
    /\ alive
    /\ pc[r] = "query" /\ (expired[r] \/ Faults)
    /\ \/ kind[r] # "emetrics" /\ Goto(r, "failed") /\ UNCHANGED alive
       \/ kind[r] = "emetrics" /\ alive' = FALSE /\ UNCHANGED pc
    /\ UNCHANGED <<jobVars, readVars>>

(* Wrong: a line that cannot be sent is skipped. *)
RecvLineUnchecked(r) ==
    /\ alive
    /\ pc[r] = "recv" /\ pos[r] <= last[r]
    /\ \/ sent' = [sent EXCEPT ![r] = Append(@, pos[r])]
       \/ Faults /\ UNCHANGED sent
    /\ pos' = [pos EXCEPT ![r] = @ + 1]
    /\ fresh' = [fresh EXCEPT ![r] = TRUE]
    /\ UNCHANGED <<jobVars, alive, pc, kind, from, asked, last, expired>>

(* Recv returns a line, which is sent to the client. *)
RecvLine(r) ==
    /\ alive
    /\ pc[r] = "recv" /\ pos[r] <= last[r]
    /\ sent' = [sent EXCEPT ![r] = Append(@, pos[r])]
    /\ pos' = [pos EXCEPT ![r] = @ + 1]
    /\ fresh' = [fresh EXCEPT ![r] = TRUE]
    /\ UNCHANGED <<jobVars, alive, pc, kind, from, asked, last, expired>>

(* Recv or Send returns an error. *)
RecvFails(r) ==
    /\ alive
    /\ pc[r] = "recv" /\ (expired[r] \/ Faults)
    /\ Goto(r, "failed")
    /\ UNCHANGED <<jobVars, alive, readVars>>

(* Wrong: one page is all. *)
AfterPageOnce(r) ==
    IF kind[r] = "follow" /\ ~fresh[r] THEN "check" ELSE "ok"

(* What follows the end of a page: GetTrainingLogs and GetTrainingEMetrics  *)
(* read one page, GetTrainedModelLogs reads pages until one is empty.       *)
AfterPage(r) ==
    IF kind[r] \in {"query", "emetrics"} THEN "ok"
    ELSE IF fresh[r] THEN "query"
    ELSE IF kind[r] = "follow" THEN "check" ELSE "ok"

RecvEOF(r) ==
    /\ alive
    /\ pc[r] = "recv" /\ pos[r] > last[r]
    /\ Goto(r, AfterPage(r))
    /\ UNCHANGED <<jobVars, alive, readVars>>

(* isLearningFinished, after an empty page.  A deleted job is finished. *)
Check(r) ==
    /\ alive
    /\ pc[r] = "check"
    /\ \/ status \in LearningFinished /\ Goto(r, "ok")
       \/ status \notin LearningFinished /\ Goto(r, "query")
       \/ Faults /\ Goto(r, "failed")
    /\ UNCHANGED <<jobVars, alive, readVars>>

Read(r) ==
    \/ Wait(r) \/ Connect(r) \/ Query(r) \/ QueryFails(r)
    \/ RecvLine(r) \/ RecvFails(r) \/ RecvEOF(r) \/ Check(r)

Next ==
    \/ StatusChanges \/ LineArrives
    \/ \E r \in Reader : Begin(r) \/ Read(r) \/ Deadline(r)

Spec == Init /\ [][Next]_vars

(* Every call of a reader returns, and its timers run. *)
FairSpec == Spec /\ \A r \in Reader : WF_vars(Read(r)) /\ WF_vars(Deadline(r))

--------------------------------------------------------------------------------
(* The client gets the lines in order from the first one it asked for, each *)
(* exactly once, although pages end and lines arrive at any time: rindex    *)
(* counts the lines sent (trainer_impl.go:1670).                            *)
NoGaps == \A r \in Reader :
    /\ sent[r] = [i \in 1 .. Len(sent[r]) |-> from[r] + i - 1]
    /\ from[r] + Len(sent[r]) = pos[r]

(* GetTrainedModelLogs returns nil only if the client has all lines that there *)
(* were when it last asked; a follower that ends has missed no line that was   *)
(* there before its last query.                                                *)
CompleteWhenOk == \A r \in Reader :
    pc[r] = "ok" /\ kind[r] \in {"follow", "logs"} => Len(sent[r]) = asked[r]

(* Every request ends, even one that follows a job that never starts or never *)
(* finishes: the two timers bound it.                                         *)
ReadersEnd == \A r \in Reader : pc[r] # "idle" ~> pc[r] \in Done \/ ~alive
================================================================================
