--------------------------- MODULE DocumentRender ---------------------------
(***************************************************************************)
(* The PDF side of payslips: the document worker of one backend process    *)
(* (service/hris/document_worker.go), the payslip render handler           *)
(* (payslip_render.go), the render columns of the payslips table           *)
(* (repository/hris/payslips.go) and the files of the encrypted store      *)
(* (document_storage.go).                                                  *)
(*                                                                         *)
(* Requests store snapshots and offer them to an in-memory queue; a ticker *)
(* sweeps the rows the queue has lost; one worker goroutine claims rows,   *)
(* converts them without a database connection and then records the        *)
(* outcome under its claim.  The process may crash between any two steps:  *)
(* rows and files survive, the queue and the worker's batch do not.        *)
(*                                                                         *)
(* A snapshot is the number of the write that stored it (every write       *)
(* encrypts afresh, so no two snapshots are equal).  A PDF is identified   *)
(* with the snapshot it was rendered from: that is what its sha256 tells   *)
(* apart.  A claim and the file written under it share one number: a claim *)
(* writes at most one file, under a fresh random name.                     *)
(***************************************************************************)
EXTENDS Integers, Sequences, FiniteSets

CONSTANTS
    Docs,          \* payslip rows
    QueueCap,      \* capacity of the worker's channel (documentQueueCapacity)
    MaxEdits,      \* bound: snapshots stored in a behaviour
    MaxFaults,     \* bound: crashes and database errors in a behaviour
    MaxSenders,    \* bound: senders of a slip between read and queued delivery
    LostReplies    \* TRUE: a statement may apply although its caller sees an error

ASSUME DocsAssumption == IsFiniteSet(Docs)
ASSUME QueueCapAssumption == QueueCap \in Nat \ {0}
ASSUME BoundsAssumption == MaxEdits \in Nat /\ MaxFaults \in Nat /\ MaxSenders \in Nat
ASSUME LostRepliesAssumption == LostReplies \in BOOLEAN

VARIABLES
    slips,         \* the payslips table
    held,          \* per slip: attachments read by senders, not queued yet
    mail,          \* per slip: its queued or sending delivery
    unmarked,      \* per slip: delivered snapshots MarkSent was not called for yet
    disk,          \* the stored files
    offers,        \* ids a request or the sweep is about to Enqueue
    queue, queued, \* the worker's channel and its dedupe keys
    pc, batch,     \* where the worker is, the ids its current step has left
    jobs,          \* the worker's documentRenderState per id
    replaced,      \* files to delete once the connection is released
    converter,     \* PDFAvailable of this process
    lastId,        \* fresh claim tokens and file names
    edits, faults  \* counters of the bounds

rowVars    == <<slips, held, mail, unmarked>>
queueVars  == <<offers, queue, queued>>
workerVars == <<pc, batch, jobs, replaced>>
boundVars  == <<edits, faults>>
vars == <<rowVars, disk, queueVars, workerVars, converter, lastId, boundVars>>

-----------------------------------------------------------------------------

(* 0 stands for NULL in claim, pdf and sha (numbers start at 1). *)
Slip == [status  : {"absent", "draft", "sent", "void"},
         payload : Nat,
         render  : {"none", "pending", "rendering", "ready", "failed"},
         claim   : Nat,
         stale   : BOOLEAN,
         pdf     : Nat,
         sha     : Nat]

NoSlip == [status |-> "absent", payload |-> 0, render |-> "none",
           claim |-> 0, stale |-> FALSE, pdf |-> 0, sha |-> 0]

(* What a sender read: the row's status and snapshot, and the sha256 of the *)
(* attached PDF (SentSnapshot; 0 is a DOCX).                               *)
Snapshot == [status : {"absent", "draft", "sent", "void"}, payload : Nat, sha : Nat]

(* A delivery in flight: just queued, verified by its live sender, or       *)
(* orphaned by a restart.                                                   *)
Mail   == [phase : {"none", "queued", "verified", "orphaned"}, carries : Snapshot]
MailOf(phase, snapshot) == [phase |-> phase, carries |-> snapshot]

NoMail == MailOf("none", [status |-> "absent", payload |-> 0, sha |-> 0])

InFlight(d) == mail[d].phase # "none"

File == [path : Nat, sha : Nat]

(* "loaded" .. "stored" follow documentRenderState; "unloadable" is a claim *)
(* whose snapshot or logo could not be read, "unclaimed" a claim statement *)
(* that returned an error.                                                 *)
Job   == [state   : {"none", "loaded", "unloadable", "unclaimed",
                     "converted", "failed", "stored"},
          claim   : Nat,
          payload : Nat]

(* render_status 'pending', or 'rendering' claimed before the stale window; *)
(* sent and void slips are never rendered again.                           *)
NeedsRender(row) ==
    /\ row.status = "draft"
    /\ \/ row.render = "pending"
       \/ row.render = "rendering" /\ row.stale

JobOf(state, claim, payload) == [state |-> state, claim |-> claim, payload |-> payload]

NoJob == JobOf("none", 0, 0)

WithState(job, state) == [job EXCEPT !.state = state]

HasJob(d) == jobs[d].state # "none"

FileOf(job) == [path |-> job.claim, sha |-> job.payload]

Init ==
    /\ slips = [d \in Docs |-> NoSlip]
    /\ held = [d \in Docs |-> {}] /\ mail = [d \in Docs |-> NoMail]
    /\ unmarked = [d \in Docs |-> {}]
    /\ disk = {}
    /\ offers = {} /\ queue = <<>> /\ queued = {}
    /\ pc = "idle" /\ batch = {} /\ jobs = [d \in Docs |-> NoJob] /\ replaced = {}
    /\ converter \in BOOLEAN
    /\ lastId = 0
    /\ edits = 0 /\ faults = 0

-----------------------------------------------------------------------------
(* Requests *)

Editable_AfterSend(d) == slips[d].status \in {"absent", "draft", "sent"} /\ ~InFlight(d)

(* A new row, or a draft none of whose deliveries is in flight.            *)
Editable(d) ==
    \/ slips[d].status = "absent"
    \/ slips[d].status = "draft" /\ ~InFlight(d)

Rewritten(row) ==
    [row EXCEPT !.status = "draft", !.payload = edits + 1,
                !.render = IF converter THEN "pending" ELSE "none",
                !.claim = 0, !.stale = FALSE]

(* Generate, Update and VoidReissue store a snapshot: a new draft, or the  *)
(* new content of a draft none of whose deliveries is in flight.  The PDF  *)
(* of the old content stays recorded.  Without a converter the row is      *)
(* 'none' and nothing is queued.                                           *)
StoreSnapshot(d) ==
    /\ edits < MaxEdits
    /\ Editable(d)
    /\ slips' = [slips EXCEPT ![d] = Rewritten(@)]
    /\ offers' = IF converter THEN offers \cup {d} ELSE offers
    /\ edits' = edits + 1
    /\ UNCHANGED <<held, mail, unmarked, disk, queue, queued, workerVars, converter, lastId, faults>>

WithStatus(row, status) == [row EXCEPT !.status = status]

Attached(row) ==
    [status |-> row.status, payload |-> row.payload,
     sha |-> IF row.render = "ready" THEN row.sha ELSE 0]

(* A sender reads the row and the ready PDF, or renders the DOCX when this *)
(* process has no converter (attachment).                                  *)
ReadAttachment(d) ==
    /\ slips[d].status \in {"draft", "sent"}
    /\ IF slips[d].render = "ready"
       THEN [path |-> slips[d].pdf, sha |-> slips[d].sha] \in disk
       ELSE ~converter
    /\ Cardinality(held[d]) < MaxSenders
    /\ Attached(slips[d]) \notin held[d]
    /\ held' = [held EXCEPT ![d] = @ \cup {Attached(slips[d])}]
    /\ UNCHANGED <<slips, mail, unmarked, disk, queueVars, workerVars, converter, lastId, boundVars>>

(* The queued delivery row, one in flight per slip; from here on the draft *)
(* is frozen.  A refused sender just gives up its attachment.              *)
QueueMail(d) ==
    \E read \in held[d] :
        /\ held' = [held EXCEPT ![d] = @ \ {read}]
        /\ mail' = IF InFlight(d) THEN mail ELSE [mail EXCEPT ![d] = MailOf("queued", read)]
        /\ UNCHANGED <<slips, unmarked, disk, queueVars, workerVars, converter, lastId, boundVars>>

StillAttached_Always(row, read) == row.status = read.status

StillAttached(row, read) ==
    /\ row.status = read.status
    /\ row.payload = read.payload
    /\ read.sha \in {0, row.sha}

(* verifyQueued: the frozen row must still be what the attachment was built *)
(* from; otherwise the delivery is cancelled.                              *)
VerifyMail(d) ==
    /\ mail[d].phase = "queued"
    /\ mail' = [mail EXCEPT ![d] = IF StillAttached(slips[d], @.carries)
                                  THEN MailOf("verified", @.carries) ELSE NoMail]
    /\ UNCHANGED <<slips, held, unmarked, disk, queueVars, workerVars, converter, lastId, boundVars>>

(* The delivery row becomes 'sent' (only its live sender does that) or     *)
(* 'failed' (SMTP failure, cancellation, stale sweep).                     *)
CloseMail(d) ==
    /\ InFlight(d)
    /\ \/ UNCHANGED unmarked
       \/ /\ mail[d].phase = "verified"
          /\ unmarked' = [unmarked EXCEPT ![d] = @ \cup {mail[d].carries}]
    /\ mail' = [mail EXCEPT ![d] = NoMail]
    /\ UNCHANGED <<slips, held, disk, queueVars, workerVars, converter, lastId, boundVars>>

(* MarkSent: a draft becomes sent only if it is still what was e-mailed.   *)
MarkSent(d) ==
    \E sent \in unmarked[d] :
        /\ unmarked' = [unmarked EXCEPT ![d] = @ \ {sent}]
        /\ slips' = [slips EXCEPT ![d] =
                       IF /\ @.status = "draft"
                          /\ sent.payload = @.payload
                          /\ sent.sha \in {0, @.sha}
                       THEN WithStatus(@, "sent") ELSE @]
        /\ UNCHANGED <<held, mail, disk, queueVars, workerVars, converter, lastId, boundVars>>

(* A voided slip is kept with its PDF; the reissue is a row of its own. *)
Void(d) ==
    /\ slips[d].status = "sent"
    /\ slips' = [slips EXCEPT ![d] = WithStatus(@, "void")]
    /\ UNCHANGED <<held, mail, unmarked, disk, queueVars, workerVars, converter, lastId, boundVars>>

-----------------------------------------------------------------------------
(* Queue *)

HasRoom_Unbounded(d) == d \notin queued

(* Not waiting already, and the channel takes it without blocking.         *)
HasRoom(d) == d \notin queued /\ Len(queue) < QueueCap

(* DocumentWorker.Enqueue: never blocks; an id already waiting is not      *)
(* queued twice, and a full channel drops the job (the sweep retries).     *)
Enqueue(d) ==
    /\ d \in offers
    /\ offers' = offers \ {d}
    /\ IF HasRoom(d)
       THEN queue' = Append(queue, d) /\ queued' = queued \cup {d}
       ELSE UNCHANGED <<queue, queued>>
    /\ UNCHANGED <<rowVars, disk, workerVars, converter, lastId, boundVars>>

ListPending_Nothing == {}

ListPending == {d \in Docs : NeedsRender(slips[d])}

(* DocumentWorker.Sweep: the per-tenant ticker lists the rows that still   *)
(* need a render and enqueues them one by one.                             *)
Sweep ==
    /\ ~(ListPending \subseteq offers)
    /\ offers' = offers \cup ListPending
    /\ UNCHANGED <<rowVars, disk, queue, queued, workerVars, converter, lastId, boundVars>>

Aged(row) == [row EXCEPT !.stale = TRUE]

(* The clock: a claimed row passes documentRenderStaleAfter. *)
GoStale(d) ==
    /\ slips[d].render = "rendering"
    /\ ~slips[d].stale
    /\ slips' = [slips EXCEPT ![d] = Aged(@)]
    /\ UNCHANGED <<held, mail, unmarked, disk, queueVars, workerVars, converter, lastId, boundVars>>

-----------------------------------------------------------------------------
(* Worker *)

(* Run receives the first job, then waits documentBatchGather. *)
Receive ==
    /\ pc = "idle" /\ queue # <<>>
    /\ batch' = {Head(queue)}
    /\ queue' = Tail(queue)
    /\ pc' = "gather"
    /\ UNCHANGED <<rowVars, disk, offers, queued, jobs, replaced, converter, lastId, boundVars>>

KeysLeft_Kept(drained) == queued

KeysLeft(drained) == queued \ drained

(* Run drains the channel; processQueued releases the dedupe keys. *)
Drain ==
    /\ pc = "gather"
    /\ batch' = batch \cup {queue[i] : i \in 1..Len(queue)}
    /\ queue' = <<>>
    /\ queued' = KeysLeft(batch')
    /\ pc' = "prepare"
    /\ UNCHANGED <<rowVars, disk, offers, jobs, replaced, converter, lastId, boundVars>>

(* prepareBatch without a connection: the rows keep their status. *)
PrepareUnavailable ==
    /\ pc = "prepare" /\ \A d \in Docs : ~HasJob(d)
    /\ faults < MaxFaults
    /\ faults' = faults + 1
    /\ batch' = {} /\ pc' = "idle"
    /\ UNCHANGED <<rowVars, disk, queueVars, jobs, replaced, converter, lastId, edits>>

Claimed(row) == [row EXCEPT !.render = "rendering", !.claim = lastId + 1, !.stale = FALSE]

(* A Prepare that failed is recorded before the next id is prepared. *)
Recordable == \A d \in Docs : jobs[d].state \notin {"unloadable", "unclaimed"}

(* Prepare claims the row and loads its snapshot; a row that needs no      *)
(* render is skipped.                                                      *)
Prepare(d) ==
    /\ pc = "prepare" /\ d \in batch /\ Recordable
    /\ batch' = batch \ {d}
    /\ IF NeedsRender(slips[d])
       THEN /\ slips' = [slips EXCEPT ![d] = Claimed(@)]
            /\ lastId' = lastId + 1
            /\ \E state \in {"loaded", "unloadable"} :
                 jobs' = [jobs EXCEPT ![d] = JobOf(state, lastId + 1, slips[d].payload)]
       ELSE UNCHANGED <<slips, lastId, jobs>>
    /\ UNCHANGED <<held, mail, unmarked, disk, queueVars, pc, replaced, converter, boundVars>>

(* The claim statement returned an error; with LostReplies it may have     *)
(* been applied all the same.                                              *)
PrepareError(d) ==
    /\ pc = "prepare" /\ d \in batch /\ Recordable
    /\ faults < MaxFaults
    /\ faults' = faults + 1
    /\ batch' = batch \ {d}
    /\ \/ UNCHANGED <<slips, lastId>>
       \/ /\ LostReplies /\ NeedsRender(slips[d])
          /\ slips' = [slips EXCEPT ![d] = Claimed(@)]
          /\ lastId' = lastId + 1
    /\ jobs' = [jobs EXCEPT ![d] = JobOf("unclaimed", 0, 0)]
    /\ UNCHANGED <<held, mail, unmarked, disk, queueVars, pc, replaced, converter, edits>>

Failed(row) == [row EXCEPT !.render = "failed", !.claim = 0]

Carries_AnyWaiting(row, claim) == row.render \in {"pending", "rendering"}

Carries(row, claim) == row.claim = claim /\ row.render = "rendering"

(* FailRender under a claim: only the row that still carries it. *)
FailRender(d, claim) ==
    slips' = [slips EXCEPT ![d] = IF Carries(@, claim) THEN Failed(@) ELSE @]

(* Prepare could not read the snapshot: the failure goes under the claim. *)
FailUnloadable(d) ==
    /\ jobs[d].state = "unloadable"
    /\ FailRender(d, jobs[d].claim)
    /\ jobs' = [jobs EXCEPT ![d] = NoJob]
    /\ UNCHANGED <<held, mail, unmarked, disk, queueVars, pc, batch, replaced, converter, lastId, boundVars>>

(* FailRender without a claim: any pending or rendering row. *)
FailWaiting(d) ==
    slips' = [slips EXCEPT ![d] = IF @.render \in {"pending", "rendering"} THEN Failed(@) ELSE @]

(* prepareBatch after a Prepare error. *)
FailUnclaimed(d) ==
    /\ jobs[d].state = "unclaimed"
    /\ FailWaiting(d)
    /\ jobs' = [jobs EXCEPT ![d] = NoJob]
    /\ UNCHANGED <<held, mail, unmarked, disk, queueVars, pc, batch, replaced, converter, lastId, boundVars>>

(* One of these two Fail calls returned a database error: after the first  *)
(* the worker fails the row again without a claim, after the second it     *)
(* gives up.                                                               *)
FailError(d) ==
    /\ jobs[d].state \in {"unloadable", "unclaimed"}
    /\ faults < MaxFaults
    /\ faults' = faults + 1
    /\ \/ UNCHANGED slips
       \/ /\ LostReplies
          /\ \/ jobs[d].state = "unloadable" /\ FailRender(d, jobs[d].claim)
             \/ jobs[d].state = "unclaimed" /\ FailWaiting(d)
    /\ jobs' = [jobs EXCEPT ![d] = IF @.state = "unloadable" THEN JobOf("unclaimed", 0, 0)
                                                             ELSE NoJob]
    /\ UNCHANGED <<held, mail, unmarked, disk, queueVars, pc, batch, replaced, converter, lastId, edits>>

(* renderDocx and convert: no connection is held.  Each document renders   *)
(* and converts or fails on its own (a failed chunk is retried one by one); *)
(* without a converter they all fail.                                      *)
Convert ==
    /\ pc = "prepare" /\ batch = {} /\ Recordable
    /\ \E good \in SUBSET {d \in Docs : HasJob(d)} :
         /\ good # {} => converter
         /\ jobs' = [d \in Docs |->
                       IF ~HasJob(d) THEN jobs[d]
                       ELSE WithState(jobs[d], IF d \in good THEN "converted" ELSE "failed")]
    /\ pc' = IF \E d \in Docs : HasJob(d) THEN "store" ELSE "idle"
    /\ UNCHANGED <<rowVars, disk, queueVars, batch, replaced, converter, lastId, boundVars>>

(* storePDFs: the encrypted file is written whole under a fresh name, or not. *)
Store(d) ==
    /\ pc = "store" /\ jobs[d].state = "converted"
    /\ \/ /\ disk' = disk \cup {FileOf(jobs[d])}
          /\ jobs' = [jobs EXCEPT ![d] = WithState(@, "stored")]
       \/ /\ jobs' = [jobs EXCEPT ![d] = WithState(@, "failed")]
          /\ UNCHANGED disk
    /\ UNCHANGED <<rowVars, queueVars, pc, batch, replaced, converter, lastId, boundVars>>

(* recordOutcome acquires its connection. *)
OpenRecord ==
    /\ pc = "store" /\ \A d \in Docs : jobs[d].state # "converted"
    /\ pc' = "record"
    /\ UNCHANGED <<rowVars, disk, queueVars, batch, jobs, replaced, converter, lastId, boundVars>>

(* recordOutcome without a connection: the new files are deleted, the rows *)
(* stay 'rendering' until the stale sweep.                                 *)
RecordUnavailable ==
    /\ pc = "store" /\ \A d \in Docs : jobs[d].state # "converted"
    /\ faults < MaxFaults
    /\ faults' = faults + 1
    /\ disk' = disk \ {FileOf(jobs[d]) : d \in {x \in Docs : jobs[x].state = "stored"}}
    /\ jobs' = [d \in Docs |-> NoJob]
    /\ pc' = "idle"
    /\ UNCHANGED <<rowVars, queueVars, batch, replaced, converter, lastId, edits>>

(* Fail of the payslip handler, under the claim. *)
RecordFailed(d) ==
    /\ pc = "record" /\ jobs[d].state = "failed"
    /\ FailRender(d, jobs[d].claim)
    /\ jobs' = [jobs EXCEPT ![d] = NoJob]
    /\ UNCHANGED <<held, mail, unmarked, disk, queueVars, pc, batch, replaced, converter, lastId, boundVars>>

HoldsClaim_DraftOnly(d) == slips[d].status = "draft"

HoldsClaim(d) == Carries(slips[d], jobs[d].claim) /\ slips[d].status = "draft"

Ready(row, job) == [row EXCEPT !.render = "ready", !.claim = 0,
                               !.pdf = job.claim, !.sha = job.payload]

Superseded_New(row, job) == {job.claim}
Superseded_None(row, job) == {}

(* The path CompleteRender returns for deletion. *)
Superseded(row, job) == {row.pdf} \ {0, job.claim}

(* CompleteRender: the row points at the new file and the old one is       *)
(* deleted later; a superseded render only loses its own file.             *)
RecordReady(d) ==
    /\ pc = "record" /\ jobs[d].state = "stored"
    /\ IF HoldsClaim(d)
       THEN /\ slips' = [slips EXCEPT ![d] = Ready(@, jobs[d])]
            /\ replaced' = replaced \cup Superseded(slips[d], jobs[d])
            /\ UNCHANGED disk
       ELSE /\ disk' = disk \ {FileOf(jobs[d])}
            /\ UNCHANGED <<slips, replaced>>
    /\ jobs' = [jobs EXCEPT ![d] = NoJob]
    /\ UNCHANGED <<held, mail, unmarked, queueVars, pc, batch, converter, lastId, boundVars>>

(* Complete or Fail returned a database error: the row is left alone (with *)
(* LostReplies it may have been updated) and the new file is deleted.      *)
RecordError(d) ==
    /\ pc = "record" /\ jobs[d].state \in {"failed", "stored"}
    /\ faults < MaxFaults
    /\ faults' = faults + 1
    /\ \/ UNCHANGED slips
       \/ LostReplies /\ jobs[d].state = "failed" /\ FailRender(d, jobs[d].claim)
       \/ /\ LostReplies /\ jobs[d].state = "stored" /\ HoldsClaim(d)
          /\ slips' = [slips EXCEPT ![d] = Ready(@, jobs[d])]
    /\ disk' = IF jobs[d].state = "stored" THEN disk \ {FileOf(jobs[d])} ELSE disk
    /\ jobs' = [jobs EXCEPT ![d] = NoJob]
    /\ UNCHANGED <<held, mail, unmarked, queueVars, pc, batch, replaced, converter, lastId, edits>>

(* The connection is released, then the replaced files are deleted. *)
DeleteReplaced ==
    /\ pc = "record" /\ \A d \in Docs : ~HasJob(d)
    /\ disk' = {f \in disk : f.path \notin replaced}
    /\ replaced' = {}
    /\ pc' = "idle"
    /\ UNCHANGED <<rowVars, queueVars, batch, jobs, converter, lastId, boundVars>>

(* A panic of the batch is recovered: the worker goes on with the next one *)
(* and forgets this one.                                                   *)
Panic ==
    /\ pc \in {"prepare", "store", "record"}
    /\ faults < MaxFaults
    /\ faults' = faults + 1
    /\ pc' = "idle" /\ batch' = {} /\ jobs' = [d \in Docs |-> NoJob] /\ replaced' = {}
    /\ UNCHANGED <<rowVars, disk, queueVars, converter, lastId, edits>>

(* The process stops and starts again, with or without a PDF converter.    *)
(* Everything held in memory is gone, the senders included.                *)
Crash ==
    /\ faults < MaxFaults
    /\ faults' = faults + 1
    /\ offers' = {} /\ queue' = <<>> /\ queued' = {}
    /\ pc' = "idle" /\ batch' = {} /\ jobs' = [d \in Docs |-> NoJob] /\ replaced' = {}
    /\ converter' \in BOOLEAN
    /\ mail' = [d \in Docs |-> IF InFlight(d) THEN MailOf("orphaned", mail[d].carries) ELSE mail[d]]
    /\ held' = [d \in Docs |-> {}] /\ unmarked' = [d \in Docs |-> {}]
    /\ UNCHANGED <<slips, disk, lastId, edits>>

-----------------------------------------------------------------------------

Requests == \E d \in Docs : \/ StoreSnapshot(d) \/ ReadAttachment(d) \/ QueueMail(d)
                            \/ VerifyMail(d) \/ CloseMail(d) \/ MarkSent(d) \/ Void(d)
Worker ==
    \/ Receive \/ Drain \/ PrepareUnavailable \/ Convert
    \/ OpenRecord \/ RecordUnavailable \/ DeleteReplaced \/ Panic
    \/ \E d \in Docs : \/ Prepare(d) \/ PrepareError(d) \/ FailUnloadable(d) \/ FailUnclaimed(d)
                       \/ FailError(d)
                       \/ Store(d) \/ RecordFailed(d) \/ RecordReady(d) \/ RecordError(d)

Next == \/ Requests \/ Worker \/ Sweep \/ Crash
        \/ \E d \in Docs : Enqueue(d) \/ GoStale(d)

Spec == Init /\ [][Next]_vars

(* The worker goroutine keeps running, goroutines about to call Enqueue get *)
(* there, the ticker sweeps every minute and the clock passes the stale     *)
(* window.  Nothing is assumed of requests or faults.                       *)
Fairness ==
    /\ WF_vars(Worker)
    /\ \A d \in Docs : WF_vars(Enqueue(d)) /\ WF_vars(GoStale(d))
    /\ WF_vars(Sweep)

FairSpec == Spec /\ Fairness

-----------------------------------------------------------------------------
(* Properties *)

(* Types, and the sizes the code relies on: the channel never holds more   *)
(* than its capacity, no id in use is newer than the last one drawn.       *)
TypeOK ==
    /\ slips \in [Docs -> Slip]
    /\ held \in [Docs -> SUBSET Snapshot]
    /\ mail \in [Docs -> Mail]
    /\ unmarked \in [Docs -> SUBSET Snapshot]
    /\ disk \subseteq File
    /\ offers \subseteq Docs /\ queued \subseteq Docs
    /\ queue \in Seq(Docs) /\ Len(queue) <= QueueCap
    /\ pc \in {"idle", "gather", "prepare", "store", "record"}
    /\ batch \subseteq Docs
    /\ jobs \in [Docs -> Job]
    /\ replaced \subseteq Nat
    /\ converter \in BOOLEAN
    /\ lastId \in Nat
    /\ edits \in Nat /\ faults \in Nat

Recorded(d) == [path |-> slips[d].pdf, sha |-> slips[d].sha]

(* A row that says 'ready' serves a PDF of its current snapshot, whatever   *)
(* edits, restarts and retries happened while that PDF was being made.      *)
ReadyMatchesSnapshot ==
    \A d \in Docs : slips[d].render = "ready" => slips[d].sha = slips[d].payload

(* The file a row points at is in the store: files are deleted only once    *)
(* no row refers to them, in whatever order the worker and requests run.    *)
RecordedFileExists ==
    \A d \in Docs : slips[d].pdf # 0 => Recorded(d) \in disk

(* An e-mail about to leave carries what the row holds: nothing replaces    *)
(* the snapshot or the attached PDF of a slip that is being sent, and a     *)
(* sender that read an older one never gets past verifyQueued.              *)
MailCarriesSnapshot ==
    \A d \in Docs : mail[d].phase = "verified" =>
        /\ mail[d].carries.payload = slips[d].payload
        /\ mail[d].carries.sha \in {0, slips[d].sha}

(* A dedupe key is held only while its job really waits; a leaked key would *)
(* keep that row from being rendered until the next restart.                *)
KeysAreWaiting ==
    \A d \in queued : \/ \E i \in 1..Len(queue) : queue[i] = d
                      \/ pc = "gather" /\ d \in batch

(* Short of a crash or a database error no file is left behind: every file  *)
(* is recorded by a row, about to be recorded, or about to be deleted.      *)
NoOrphanFiles ==
    faults = 0 =>
        \A f \in disk : \/ \E d \in Docs : f = Recorded(d)
                        \/ \E d \in Docs : jobs[d].state = "stored" /\ f = FileOf(jobs[d])
                        \/ f.path \in replaced

(* "generated PDFs and the delivery log are kept until deleted" (docs/hris-   *)
(* documents.md:241): a document that is offered as ready can be read, also  *)
(* when the reply of the statement that made it ready is lost.              *)
ReadyPdfIsKept ==
    \A d \in Docs : slips[d].render = "ready" => Recorded(d) \in disk

SettledRowKept(d) ==
    /\ slips'[d].status \in {"sent", "void"}
    /\ slips'[d].payload = slips[d].payload
    /\ slips'[d].pdf = slips[d].pdf /\ slips'[d].sha = slips[d].sha

(* Once a slip is sent its content, its recorded PDF and that file never    *)
(* change again, through voiding and through renders still under way.       *)
SettledSlipIsFinal ==
    [][\A d \in Docs : slips[d].status \in {"sent", "void"} =>
          /\ SettledRowKept(d)
          /\ Recorded(d) \in disk => Recorded(d) \in disk']_vars

(* A failure recorded under a claim is about the current snapshot: a render *)
(* of an older one never marks a newer generation failed.                   *)
FailureIsCurrent ==
    [][\A d \in Docs :
          /\ slips[d].render # "failed" /\ slips'[d].render = "failed"
          /\ jobs[d].state # "unclaimed"
          => jobs[d].payload = slips[d].payload]_vars

(* Every draft waiting for its PDF gets an outcome, although the channel    *)
(* drops jobs, claims go stale and restarts empty the queue.                *)
RenderSettles ==
    \A d \in Docs :
        (slips[d].status = "draft" /\ slips[d].render \in {"pending", "rendering"})
            ~> ~(slips[d].status = "draft" /\ slips[d].render \in {"pending", "rendering"})

(* A PDF attachment of the current snapshot was read from a 'ready' row and  *)
(* an older one can never become current again.                             *)
ReadBack(d, read) ==
    /\ read.payload <= slips[d].payload
    /\ read.sha # 0 /\ read.payload = slips[d].payload => slips[d].render = "ready"

(* What makes the above inductive: rows and what senders took from them.    *)
RowsInv ==
    \A d \in Docs : /\ slips[d].payload <= edits
                    /\ slips[d].status = "absent" => slips[d] = NoSlip
                    /\ slips[d].status # "absent" => slips[d].payload > 0
                    /\ slips[d].render = "ready" => slips[d].pdf # 0
                    /\ InFlight(d) \/ held[d] # {} => slips[d].status # "absent"
                    /\ \A read \in held[d] \cup {mail[d].carries} : ReadBack(d, read)

(* A row that still carries a job's claim still has the snapshot the job was *)
(* prepared from, and the file of a stored job is there.                    *)
JobsInv ==
    /\ pc \in {"idle", "gather"} => \A d \in Docs : ~HasJob(d)
    /\ \A d \in Docs :
          /\ jobs[d].state \notin {"none", "unclaimed"} => jobs[d].claim # 0
          /\ jobs[d].claim # 0 /\ Carries(slips[d], jobs[d].claim)
                => jobs[d].payload = slips[d].payload
          /\ jobs[d].state = "stored" => FileOf(jobs[d]) \in disk

(* Numbers are drawn once: what a job is about to write, and what the       *)
(* worker is about to delete, is no file a row points at.                   *)
PathsInv ==
    /\ \A d \in Docs : /\ slips[d].pdf <= lastId /\ slips[d].pdf \notin replaced
                       /\ jobs[d].claim <= lastId
                       /\ jobs[d].claim # 0 => jobs[d].claim \notin replaced
    /\ \A p \in replaced : p # 0 /\ p <= lastId
    /\ \A d, e \in Docs :
          /\ jobs[d].claim # 0 => jobs[d].claim # slips[e].pdf
          /\ d # e /\ jobs[d].claim # 0 => jobs[d].claim # jobs[e].claim
          /\ d # e /\ slips[d].pdf # 0 => slips[d].pdf # slips[e].pdf

RenderInv ==
    /\ TypeOK
    /\ ReadyMatchesSnapshot /\ RecordedFileExists /\ MailCarriesSnapshot
    /\ RowsInv /\ JobsInv /\ PathsInv

-----------------------------------------------------------------------------
(* Refinement *)

ServedSnapshot(d) ==
    IF slips[d].render = "ready" /\ Recorded(d) \in disk THEN slips[d].sha ELSE 0

Document == INSTANCE PayslipDocument WITH
    status  <- [d \in Docs |-> slips[d].status],
    content <- [d \in Docs |-> slips[d].payload],
    served  <- [d \in Docs |-> ServedSnapshot(d)]

(* Seen from outside, the worker, its files and its restarts are one        *)
(* document per slip: every step rewrites, publishes or settles it, or      *)
(* shows nothing.                                                           *)
ImplementsDocument == Document!Spec
=============================================================================
