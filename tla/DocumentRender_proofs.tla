------------------------ MODULE DocumentRender_proofs ------------------------
(* Types of DocumentRender, its inductive invariant and what follows from it,  *)
(* and the refinement of PayslipDocument.                                      *)
EXTENDS DocumentRender, TLAPS

(* Each operator that builds a row, a job or a delivery builds a well-typed *)
(* one.                                                                     *)
LEMMA RowTypes ==
  ASSUME edits \in Nat, lastId \in Nat, converter \in BOOLEAN, NEW row \in Slip, NEW job \in Job
  PROVE  /\ Rewritten(row) \in Slip /\ Aged(row) \in Slip
         /\ Claimed(row) \in Slip /\ Failed(row) \in Slip /\ Ready(row, job) \in Slip
         /\ WithStatus(row, "sent") \in Slip /\ WithStatus(row, "void") \in Slip
         /\ Attached(row) \in Snapshot
         /\ Superseded(row, job) \in SUBSET Nat
         /\ FileOf(job) \in File
  <1>1. Rewritten(row) \in Slip
    <2> DEFINE number == edits + 1
               render == IF converter THEN "pending" ELSE "none"
    <2>1. number \in Nat /\ render \in {"pending", "none"}
      OBVIOUS
    <2>2. Rewritten(row) = [row EXCEPT !.status = "draft", !.payload = number,
                                       !.render = render, !.claim = 0, !.stale = FALSE]
      BY DEF Rewritten
    <2> HIDE DEF number, render
    <2>3. Rewritten(row) = [status |-> "draft", payload |-> number, render |-> render,
                            claim |-> 0, stale |-> FALSE, pdf |-> row.pdf, sha |-> row.sha]
      BY <2>2 DEF Slip
    <2> QED
      BY <2>1, <2>3 DEF Slip
  <1>2. Aged(row) \in Slip
    BY DEF Slip, Aged
  <1>7. Claimed(row) \in Slip
    <2> DEFINE number == lastId + 1
    <2>1. number \in Nat
      OBVIOUS
    <2>2. Claimed(row) = [row EXCEPT !.render = "rendering", !.claim = number, !.stale = FALSE]
      BY DEF Claimed
    <2> HIDE DEF number
    <2> QED
      BY <2>1, <2>2 DEF Slip
  <1>8. Failed(row) \in Slip
    BY DEF Slip, Failed
  <1>3. Ready(row, job) \in Slip
    BY DEF Slip, Ready, Job
  <1>4. WithStatus(row, "sent") \in Slip /\ WithStatus(row, "void") \in Slip
    BY DEF Slip, WithStatus
  <1>5. Attached(row) \in Snapshot
    BY DEF Slip, Attached, Snapshot
  <1>6. Superseded(row, job) \in SUBSET Nat /\ FileOf(job) \in File
    BY DEF Slip, Job, Superseded, FileOf, File
  <1> QED
    BY <1>1, <1>2, <1>3, <1>4, <1>5, <1>6, <1>7, <1>8

LEMMA JobTypes ==
  /\ NoJob \in Job /\ JobOf("unclaimed", 0, 0) \in Job
  /\ \A state \in {"loaded", "unloadable"}, n, m \in Nat : JobOf(state, n, m) \in Job
  /\ \A job \in Job, state \in {"converted", "failed", "stored"} : WithState(job, state) \in Job
  BY DEF NoJob, JobOf, WithState, Job

LEMMA MailTypes ==
  /\ NoMail \in Mail
  /\ \A phase \in {"queued", "verified", "orphaned"}, s \in Snapshot : MailOf(phase, s) \in Mail
  /\ \A m \in Mail : m.carries \in Snapshot
  BY DEF NoMail, MailOf, Mail, Snapshot

LEMMA TypeInit == Init => TypeOK
  <1>1. NoSlip \in Slip
    BY DEF NoSlip, Slip
  <1> QED
    BY <1>1, JobTypes, MailTypes, QueueCapAssumption DEF Init, TypeOK

(* The slip rows and jobs a step reads are well typed, and so is what the   *)
(* step builds from them.                                                   *)
LEMMA BuiltTypes ==
  ASSUME TypeOK, NEW d \in Docs
  PROVE  /\ slips[d] \in Slip /\ slips[d].payload \in Nat /\ jobs[d] \in Job /\ mail[d] \in Mail
         /\ Rewritten(slips[d]) \in Slip /\ Aged(slips[d]) \in Slip
         /\ Claimed(slips[d]) \in Slip /\ Failed(slips[d]) \in Slip
         /\ Ready(slips[d], jobs[d]) \in Slip
         /\ WithStatus(slips[d], "sent") \in Slip /\ WithStatus(slips[d], "void") \in Slip
         /\ Attached(slips[d]) \in Snapshot /\ mail[d].carries \in Snapshot
         /\ Superseded(slips[d], jobs[d]) \in SUBSET Nat
         /\ FileOf(jobs[d]) \in File
  <1>1. slips[d] \in Slip /\ jobs[d] \in Job /\ mail[d] \in Mail
    BY DEF TypeOK
  <1>2. edits \in Nat /\ lastId \in Nat /\ converter \in BOOLEAN
    BY DEF TypeOK
  <1>3. slips[d].payload \in Nat
    BY <1>1 DEF Slip
  <1> QED
    BY <1>1, <1>2, <1>3, RowTypes, MailTypes

LEMMA TypeNext == TypeOK /\ [Next]_vars => TypeOK'
  <1> SUFFICES ASSUME TypeOK, [Next]_vars PROVE TypeOK'
    OBVIOUS
  <1> USE QueueCapAssumption, BuiltTypes, JobTypes, MailTypes DEF TypeOK
  <1>1. ASSUME NEW d \in Docs, StoreSnapshot(d) PROVE TypeOK'
    BY <1>1 DEF StoreSnapshot, rowVars, queueVars, workerVars, boundVars
  <1>2. ASSUME NEW d \in Docs, ReadAttachment(d) PROVE TypeOK'
    BY <1>2 DEF ReadAttachment, rowVars, queueVars, workerVars, boundVars
  <1>2a. ASSUME NEW d \in Docs, QueueMail(d) PROVE TypeOK'
    BY <1>2a DEF QueueMail, rowVars, queueVars, workerVars, boundVars
  <1>2b. ASSUME NEW d \in Docs, VerifyMail(d) PROVE TypeOK'
    BY <1>2b DEF VerifyMail, rowVars, queueVars, workerVars, boundVars
  <1>3. ASSUME NEW d \in Docs, CloseMail(d) PROVE TypeOK'
    BY <1>3 DEF CloseMail, rowVars, queueVars, workerVars, boundVars
  <1>4. ASSUME NEW d \in Docs, MarkSent(d) PROVE TypeOK'
    BY <1>4 DEF MarkSent, rowVars, queueVars, workerVars, boundVars
  <1>5. ASSUME NEW d \in Docs, Void(d) PROVE TypeOK'
    BY <1>5 DEF Void, rowVars, queueVars, workerVars, boundVars
  <1>6. CASE Receive
    BY <1>6 DEF Receive, rowVars, queueVars, workerVars, boundVars
  <1>7. CASE Drain
    BY <1>7 DEF Drain, KeysLeft, rowVars, queueVars, workerVars, boundVars
  <1>8. CASE PrepareUnavailable
    BY <1>8 DEF PrepareUnavailable, rowVars, queueVars, workerVars, boundVars
  <1>9. CASE Convert
    BY <1>9 DEF Convert, rowVars, queueVars, workerVars, boundVars
  <1>10. CASE OpenRecord
    BY <1>10 DEF OpenRecord, rowVars, queueVars, workerVars, boundVars
  <1>11. CASE RecordUnavailable
    BY <1>11 DEF RecordUnavailable, rowVars, queueVars, workerVars, boundVars
  <1>12. CASE DeleteReplaced
    BY <1>12 DEF DeleteReplaced, rowVars, queueVars, workerVars, boundVars
  <1>13. CASE Panic
    BY <1>13 DEF Panic, rowVars, queueVars, workerVars, boundVars
  <1>14. ASSUME NEW d \in Docs, Prepare(d) PROVE TypeOK'
    <2>1. slips' \in [Docs -> Slip] /\ lastId' \in Nat
      <3>1. slips[d] \in Slip /\ lastId + 1 \in Nat
        OBVIOUS
      <3>2. PICK row, claim, fresh : row = slips[d] /\ claim = lastId + 1 /\ fresh = FALSE
        OBVIOUS
      <3>3. PICK next : next = [row EXCEPT !.render = "rendering", !.claim = claim, !.stale = fresh]
        OBVIOUS
      <3>4. fresh \in BOOLEAN
        BY <3>2, Zenon
      <3>5. next \in Slip
        BY ONLY <3>1, <3>2, <3>3, <3>4 DEF Slip
      <3>6. Claimed(slips[d]) = next
        BY <3>2, <3>3 DEF Claimed
      <3>7. slips' = slips \/ slips' = [slips EXCEPT ![d] = next]
        BY <1>14, <3>6 DEF Prepare
      <3>8. lastId' = lastId \/ lastId' = lastId + 1
        BY <1>14 DEF Prepare
      <3>9. slips \in [Docs -> Slip] /\ lastId \in Nat
        OBVIOUS
      <3> QED
        BY ONLY <3>1, <3>5, <3>7, <3>8, <3>9
    <2>2. jobs' \in [Docs -> Job]
      BY <1>14 DEF Prepare
    <2> QED
      BY <1>14, <2>1, <2>2 DEF Prepare, queueVars, boundVars
  <1>15. ASSUME NEW d \in Docs, PrepareError(d) PROVE TypeOK'
    BY <1>15 DEF PrepareError, rowVars, queueVars, workerVars, boundVars
  <1>16. ASSUME NEW d \in Docs, FailUnloadable(d) PROVE TypeOK'
    BY <1>16 DEF FailUnloadable, FailRender, rowVars, queueVars, workerVars, boundVars
  <1>17. ASSUME NEW d \in Docs, FailUnclaimed(d) PROVE TypeOK'
    BY <1>17 DEF FailUnclaimed, FailWaiting, rowVars, queueVars, workerVars, boundVars
  <1>17a. ASSUME NEW d \in Docs, FailError(d) PROVE TypeOK'
    <2>1. slips' \in [Docs -> Slip]
      BY <1>17a DEF FailError, FailRender, FailWaiting
    <2>2. jobs' \in [Docs -> Job] /\ faults' \in Nat
      BY <1>17a DEF FailError
    <2>3. UNCHANGED <<held, mail, unmarked, disk, offers, queue, queued, pc, batch, replaced, converter, lastId, edits>>
      BY <1>17a DEF FailError, queueVars
    <2> QED
      BY <2>1, <2>2, <2>3
  <1>18. ASSUME NEW d \in Docs, Store(d) PROVE TypeOK'
    <2>1. jobs' \in [Docs -> Job]
      <3>1. jobs[d] \in Job
        OBVIOUS
      <3>2. \A state \in {"stored", "failed"} : WithState(jobs[d], state) \in Job
        BY <3>1 DEF WithState, Job
      <3> QED
        BY <1>18, <3>2 DEF Store
    <2>2. disk' \subseteq File
      <3>1. jobs[d] \in Job
        OBVIOUS
      <3>2. FileOf(jobs[d]) \in File
        BY <3>1 DEF FileOf, File, Job
      <3> QED
        BY <1>18, <3>2 DEF Store
    <2>3. UNCHANGED <<rowVars, queueVars, pc, batch, replaced, converter, lastId, boundVars>>
      BY <1>18 DEF Store
    <2> QED
      BY <2>1, <2>2, <2>3 DEF rowVars, queueVars, boundVars
  <1>19. ASSUME NEW d \in Docs, RecordFailed(d) PROVE TypeOK'
    BY <1>19 DEF RecordFailed, FailRender, rowVars, queueVars, workerVars, boundVars
  <1>20. ASSUME NEW d \in Docs, RecordReady(d) PROVE TypeOK'
    BY <1>20 DEF RecordReady, rowVars, queueVars, workerVars, boundVars
  <1>21. ASSUME NEW d \in Docs, RecordError(d) PROVE TypeOK'
    <2>1. slips' \in [Docs -> Slip]
      BY <1>21 DEF RecordError, FailRender
    <2>2. jobs' \in [Docs -> Job] /\ disk' \subseteq File /\ faults' \in Nat
      BY <1>21 DEF RecordError
    <2> QED
      BY <1>21, <2>1, <2>2 DEF RecordError, queueVars
  <1>22. CASE Sweep
    BY <1>22 DEF Sweep, ListPending, rowVars, queueVars, workerVars, boundVars
  <1>23. CASE Crash
    BY <1>23 DEF Crash, rowVars, queueVars, workerVars, boundVars
  <1>24. ASSUME NEW d \in Docs, Enqueue(d) PROVE TypeOK'
    <2>1. CASE HasRoom(d)
      <3>1. queue' = Append(queue, d) /\ queued' = queued \cup {d}
        BY <1>24, <2>1 DEF Enqueue
      <3>2. queue' \in Seq(Docs) /\ Len(queue') = Len(queue) + 1
        BY <3>1
      <3>3. Len(queue') <= QueueCap
        BY <2>1, <3>2 DEF HasRoom
      <3> QED
        BY <1>24, <3>1, <3>2, <3>3 DEF Enqueue, rowVars, workerVars, boundVars
    <2>2. CASE ~HasRoom(d)
      BY <1>24, <2>2 DEF Enqueue, rowVars, workerVars, boundVars
    <2> QED
      BY <2>1, <2>2
  <1>25. ASSUME NEW d \in Docs, GoStale(d) PROVE TypeOK'
    BY <1>25 DEF GoStale, rowVars, queueVars, workerVars, boundVars
  <1>26. CASE UNCHANGED vars
    BY <1>26 DEF vars, rowVars, queueVars, workerVars, boundVars
  <1> HIDE QueueCapAssumption, BuiltTypes, JobTypes, MailTypes DEF TypeOK
  <1>27. CASE Requests
    BY <1>27, <1>1, <1>2, <1>2a, <1>2b, <1>3, <1>4, <1>5 DEF Requests
  <1>28. CASE Worker
    <2>1. CASE \E d \in Docs : \/ Prepare(d) \/ PrepareError(d) \/ FailUnloadable(d)
                               \/ FailUnclaimed(d) \/ FailError(d) \/ Store(d) \/ RecordFailed(d)
                               \/ RecordReady(d) \/ RecordError(d)
      BY <2>1, <1>14, <1>15, <1>16, <1>17, <1>17a, <1>18, <1>19, <1>20, <1>21
    <2> QED
      BY <1>28, <2>1, <1>6, <1>7, <1>8, <1>9, <1>10, <1>11, <1>12, <1>13 DEF Worker
  <1>q. QED
    BY <1>22, <1>23, <1>24, <1>25, <1>26, <1>27, <1>28 DEF Next

(* TypeOK, the worker's channel and number bounds included, in every state. *)
THEOREM TypeCorrect == Spec => []TypeOK
  BY TypeInit, TypeNext, PTL DEF Spec

-----------------------------------------------------------------------------
(* The inductive invariant of DocumentRender and what follows from it.      *)

(* The columns each row operator changes, and those it keeps. *)
LEMMA RowFields ==
  ASSUME edits \in Nat, lastId \in Nat, converter \in BOOLEAN, NEW row \in Slip, NEW job \in Job
  PROVE  /\ Rewritten(row).status = "draft" /\ Rewritten(row).payload = edits + 1
         /\ Rewritten(row).render \in {"pending", "none"} /\ Rewritten(row).claim = 0
         /\ Rewritten(row).pdf = row.pdf /\ Rewritten(row).sha = row.sha
         /\ Claimed(row).render = "rendering" /\ Claimed(row).claim = lastId + 1
         /\ Claimed(row).status = row.status /\ Claimed(row).payload = row.payload
         /\ Claimed(row).pdf = row.pdf /\ Claimed(row).sha = row.sha
         /\ Failed(row).render = "failed" /\ Failed(row).claim = 0
         /\ Failed(row).status = row.status /\ Failed(row).payload = row.payload
         /\ Failed(row).pdf = row.pdf /\ Failed(row).sha = row.sha
         /\ Ready(row, job).render = "ready" /\ Ready(row, job).claim = 0
         /\ Ready(row, job).status = row.status /\ Ready(row, job).payload = row.payload
         /\ Ready(row, job).pdf = job.claim /\ Ready(row, job).sha = job.payload
         /\ Aged(row).status = row.status /\ Aged(row).payload = row.payload
         /\ Aged(row).render = row.render /\ Aged(row).claim = row.claim
         /\ Aged(row).pdf = row.pdf /\ Aged(row).sha = row.sha
  <1>1. /\ Rewritten(row).status = "draft" /\ Rewritten(row).payload = edits + 1
        /\ Rewritten(row).render \in {"pending", "none"} /\ Rewritten(row).claim = 0
        /\ Rewritten(row).pdf = row.pdf /\ Rewritten(row).sha = row.sha
    BY DEF Slip, Rewritten
  <1>2. /\ Claimed(row).render = "rendering" /\ Claimed(row).claim = lastId + 1
        /\ Claimed(row).status = row.status /\ Claimed(row).payload = row.payload
        /\ Claimed(row).pdf = row.pdf /\ Claimed(row).sha = row.sha
    BY DEF Slip, Claimed
  <1>3. /\ Failed(row).render = "failed" /\ Failed(row).claim = 0
        /\ Failed(row).status = row.status /\ Failed(row).payload = row.payload
        /\ Failed(row).pdf = row.pdf /\ Failed(row).sha = row.sha
    BY DEF Slip, Failed
  <1>4. /\ Ready(row, job).render = "ready" /\ Ready(row, job).claim = 0
        /\ Ready(row, job).status = row.status /\ Ready(row, job).payload = row.payload
        /\ Ready(row, job).pdf = job.claim /\ Ready(row, job).sha = job.payload
    BY DEF Slip, Ready
  <1>5. /\ Aged(row).status = row.status /\ Aged(row).payload = row.payload
        /\ Aged(row).render = row.render /\ Aged(row).claim = row.claim
        /\ Aged(row).pdf = row.pdf /\ Aged(row).sha = row.sha
    BY DEF Slip, Aged
  <1> QED
    BY <1>1, <1>2, <1>3, <1>4, <1>5

LEMMA StatusFields ==
  ASSUME NEW row \in Slip, NEW status
  PROVE  /\ WithStatus(row, status).status = status
         /\ WithStatus(row, status).payload = row.payload
         /\ WithStatus(row, status).render = row.render /\ WithStatus(row, status).claim = row.claim
         /\ WithStatus(row, status).pdf = row.pdf /\ WithStatus(row, status).sha = row.sha
  BY DEF Slip, WithStatus

LEMMA JobFields ==
  /\ NoJob.state = "none" /\ NoJob.claim = 0 /\ NoJob.payload = 0
  /\ \A state, claim, payload : /\ JobOf(state, claim, payload).state = state
                                /\ JobOf(state, claim, payload).claim = claim
                                /\ JobOf(state, claim, payload).payload = payload
  /\ \A job \in Job : \A state :
       /\ WithState(job, state).state = state
       /\ WithState(job, state).claim = job.claim
       /\ WithState(job, state).payload = job.payload
       /\ FileOf(WithState(job, state)) = FileOf(job)
  BY DEF NoJob, JobOf, WithState, Job, FileOf

LEMMA MailFields ==
  /\ NoMail.phase = "none" /\ NoMail.carries = [status |-> "absent", payload |-> 0, sha |-> 0]
  /\ \A phase, s : MailOf(phase, s).phase = phase /\ MailOf(phase, s).carries = s
  BY DEF NoMail, MailOf

(* The value types of the fields the invariant compares. *)
LEMMA FieldTypes ==
  ASSUME TypeOK, NEW d \in Docs
  PROVE  /\ slips[d].payload \in Nat /\ slips[d].claim \in Nat
         /\ slips[d].pdf \in Nat /\ slips[d].sha \in Nat
         /\ jobs[d].claim \in Nat /\ jobs[d].payload \in Nat
         /\ mail[d].carries.payload \in Nat /\ mail[d].carries.sha \in Nat
         /\ \A read \in held[d] : read.payload \in Nat /\ read.sha \in Nat
  <1>1. slips[d] \in Slip /\ jobs[d] \in Job /\ mail[d] \in Mail /\ held[d] \in SUBSET Snapshot
    BY DEF TypeOK
  <1> QED
    BY <1>1 DEF Slip, Job, Mail, Snapshot

LEMMA RenderInit == Init => RenderInv
  <1> SUFFICES ASSUME Init PROVE RenderInv
    OBVIOUS
  <1>1. TypeOK
    BY TypeInit
  <1>2. /\ NoSlip.status = "absent" /\ NoSlip.payload = 0 /\ NoSlip.render = "none"
        /\ NoSlip.claim = 0 /\ NoSlip.pdf = 0
    BY DEF NoSlip
  <1>3. ReadyMatchesSnapshot /\ RecordedFileExists /\ MailCarriesSnapshot
    BY <1>2, MailFields DEF Init, ReadyMatchesSnapshot, RecordedFileExists, MailCarriesSnapshot
  <1>4. RowsInv
    BY <1>2, MailFields DEF Init, RowsInv, ReadBack, InFlight
  <1>5. JobsInv
    BY <1>2, JobFields DEF Init, JobsInv, HasJob
  <1>6. PathsInv
    BY <1>2, JobFields DEF Init, PathsInv
  <1> QED
    BY <1>1, <1>3, <1>4, <1>5, <1>6 DEF RenderInv

(* Steps of the queue and the worker's bookkeeping: nothing the invariant    *)
(* speaks of changes.                                                       *)
LEMMA Untouched ==
  ASSUME RenderInv, TypeOK', UNCHANGED <<slips, held, mail, disk, jobs, replaced, lastId, edits>>,
         pc' \in {"idle", "gather"} => \A d \in Docs : ~HasJob(d)
  PROVE  RenderInv'
  <1>1. (ReadyMatchesSnapshot /\ RecordedFileExists /\ MailCarriesSnapshot)'
    BY DEF RenderInv, ReadyMatchesSnapshot, RecordedFileExists, MailCarriesSnapshot, Recorded
  <1>2. RowsInv'
    BY DEF RenderInv, RowsInv, ReadBack, InFlight
  <1>3. JobsInv'
    BY DEF RenderInv, JobsInv, HasJob, Carries
  <1>4. PathsInv'
    BY DEF RenderInv, PathsInv
  <1> QED
    BY <1>1, <1>2, <1>3, <1>4 DEF RenderInv

(* A new snapshot: the row leaves 'ready' and drops its claim, and no e-mail *)
(* of it is in flight.                                                      *)
LEMMA StoreSnapshotStep ==
  ASSUME RenderInv, TypeOK', NEW d \in Docs, StoreSnapshot(d)
  PROVE  RenderInv'
  <1> DEFINE row == Rewritten(slips[d])
  <1>1. TypeOK
    BY DEF RenderInv
  <1>2. slips' = [slips EXCEPT ![d] = row] /\ DOMAIN slips = Docs
    BY <1>1 DEF StoreSnapshot, TypeOK
  <1>3. edits' = edits + 1 /\ edits \in Nat /\ lastId \in Nat /\ converter \in BOOLEAN
    BY <1>1 DEF StoreSnapshot, TypeOK
  <1>4. UNCHANGED <<held, mail, disk, jobs, replaced, lastId, pc>>
    BY DEF StoreSnapshot, workerVars
  <1>5. /\ row.status = "draft" /\ row.payload = edits + 1 /\ row.claim = 0
        /\ row.render \in {"pending", "none"} /\ row.pdf = slips[d].pdf /\ row.sha = slips[d].sha
    BY <1>1, <1>3, BuiltTypes, RowFields
  <1>6. ~InFlight(d)
    BY MailFields DEF RenderInv, RowsInv, StoreSnapshot, Editable
  <1> HIDE DEF row
  <1>7. (ReadyMatchesSnapshot /\ RecordedFileExists /\ MailCarriesSnapshot)'
    BY <1>2, <1>4, <1>5, <1>6 DEF RenderInv, ReadyMatchesSnapshot, RecordedFileExists,
       MailCarriesSnapshot, Recorded, InFlight
  <1>8. RowsInv'
    <2> SUFFICES ASSUME NEW e \in Docs
                 PROVE  /\ slips'[e].payload <= edits'
                        /\ slips'[e].status = "absent" => slips'[e] = NoSlip
                        /\ slips'[e].status # "absent" => slips'[e].payload > 0
                        /\ slips'[e].render = "ready" => slips'[e].pdf # 0
                        /\ InFlight(e)' \/ held'[e] # {} => slips'[e].status # "absent"
                        /\ \A read \in held'[e] \cup {mail'[e].carries} : ReadBack(e, read)'
      BY DEF RowsInv
    <2>1. /\ slips[e].payload \in Nat /\ mail[e].carries.payload \in Nat
          /\ \A read \in held[e] : read.payload \in Nat
      BY <1>1, FieldTypes
    <2>2. CASE e = d
      BY <1>2, <1>3, <1>4, <1>5, <2>1, <2>2 DEF RenderInv, RowsInv, ReadBack, InFlight
    <2>3. CASE e # d
      BY <1>2, <1>3, <1>4, <2>1, <2>3 DEF RenderInv, RowsInv, ReadBack, InFlight
    <2> QED
      BY <2>2, <2>3
  <1>9. JobsInv'
    BY <1>2, <1>4, <1>5 DEF RenderInv, JobsInv, HasJob, Carries
  <1>10. PathsInv'
    BY <1>2, <1>4, <1>5 DEF RenderInv, PathsInv
  <1> QED
    BY <1>7, <1>8, <1>9, <1>10 DEF RenderInv

(* Senders only change what they hold and the delivery in flight. *)
LEMMA SenderStep ==
  ASSUME RenderInv, TypeOK', NEW d \in Docs,
         ReadAttachment(d) \/ QueueMail(d) \/ VerifyMail(d) \/ CloseMail(d)
  PROVE  RenderInv'
  <1>1. TypeOK
    BY DEF RenderInv
  <1>2. UNCHANGED <<slips, disk, jobs, replaced, lastId, edits, pc>>
    BY DEF ReadAttachment, QueueMail, VerifyMail, CloseMail, workerVars, boundVars
  <1>3. (ReadyMatchesSnapshot /\ RecordedFileExists)'
    BY <1>2 DEF RenderInv, ReadyMatchesSnapshot, RecordedFileExists, Recorded
  <1>4. (JobsInv /\ PathsInv)'
    BY <1>2 DEF RenderInv, JobsInv, HasJob, Carries, PathsInv
  <1>5. DOMAIN held = Docs /\ DOMAIN mail = Docs
    BY <1>1 DEF TypeOK
  <1>6. ReadBack(d, NoMail.carries)
    <2>1. slips[d].payload \in Nat
      BY <1>1, FieldTypes
    <2> QED
      BY <2>1, MailFields DEF ReadBack
  <1>7. /\ ReadBack(d, Attached(slips[d]))
        /\ Attached(slips[d]).payload = slips[d].payload
    <2>1. slips[d].payload \in Nat
      BY <1>1, FieldTypes
    <2> QED
      BY <2>1 DEF ReadBack, Attached
  <1>8. MailCarriesSnapshot' /\ RowsInv'
    <2>1. CASE ReadAttachment(d)
      BY <1>2, <1>5, <1>7, <2>1 DEF ReadAttachment, RenderInv, RowsInv, MailCarriesSnapshot,
         ReadBack, InFlight
    <2>2. CASE QueueMail(d)
      <3>1. PICK read \in held[d] :
              /\ held' = [held EXCEPT ![d] = @ \ {read}]
              /\ mail' = IF InFlight(d) THEN mail ELSE [mail EXCEPT ![d] = MailOf("queued", read)]
        BY <2>2 DEF QueueMail
      <3>2. \A e \in Docs : held'[e] \subseteq held[e] /\ (mail'[e] = mail[e] \/ (e = d /\ mail'[e] = MailOf("queued", read)))
        <4>1. \A e \in Docs : held'[e] \subseteq held[e]
          BY <1>5, <3>1
        <4>2. PICK sent : sent = MailOf("queued", read)
          OBVIOUS
        <4>3. mail' = mail \/ mail' = [mail EXCEPT ![d] = sent]
          BY <3>1, <4>2
        <4>4. ASSUME NEW e \in Docs
              PROVE  mail'[e] = mail[e] \/ (e = d /\ mail'[e] = sent)
          <5>1. CASE mail' = mail
            BY <5>1
          <5>2. CASE mail' = [mail EXCEPT ![d] = sent]
            BY ONLY <1>5, <5>2, d \in Docs, e \in Docs
          <5> QED
            BY ONLY <4>3, <5>1, <5>2
        <4> QED
          BY <4>1, <4>2, <4>4
      <3>3. MailCarriesSnapshot'
        <4>1. \A e \in Docs : mail'[e].phase = "verified" => mail'[e] = mail[e]
          BY <3>2, MailFields
        <4> QED
          BY <1>2, <4>1 DEF RenderInv, MailCarriesSnapshot
      <3>4. \A e \in Docs : held'[e] \cup {mail'[e].carries} \subseteq held[e] \cup {mail[e].carries}
        BY <3>1, <3>2, MailFields
      <3>5. \A e \in Docs : InFlight(e)' \/ held'[e] # {} => InFlight(e) \/ held[e] # {}
        BY <3>1, <3>2 DEF InFlight
      <3>6. \A e \in Docs : \A other : ReadBack(e, other)' = ReadBack(e, other)
        BY <1>2 DEF ReadBack
      <3>7. RowsInv'
        BY <1>2, <3>4, <3>5, <3>6 DEF RenderInv, RowsInv
      <3> QED
        BY <3>3, <3>7
    <2>3. CASE VerifyMail(d)
      <3>1. PICK read : read = mail[d].carries
        OBVIOUS
      <3>2. /\ held' = held /\ InFlight(d)
            /\ \A e \in Docs \ {d} : mail'[e] = mail[e]
            /\ mail'[d] = IF StillAttached(slips[d], read) THEN MailOf("verified", read) ELSE NoMail
        BY <1>5, <2>3, <3>1 DEF VerifyMail, InFlight
      <3>3. MailCarriesSnapshot'
        <4>1. ASSUME mail'[d].phase = "verified"
              PROVE  mail'[d].carries.payload = slips[d].payload /\ mail'[d].carries.sha \in {0, slips[d].sha}
          <5>1. StillAttached(slips[d], read) /\ mail'[d].carries = read
            BY <3>2, <4>1, MailFields
          <5> QED
            BY <5>1 DEF StillAttached
        <4> QED
          BY <1>2, <3>2, <4>1 DEF RenderInv, MailCarriesSnapshot
      <3>4. mail'[d].carries = read \/ mail'[d].carries = NoMail.carries
        BY <3>2, MailFields
      <3>5. \A e \in Docs : \A other : ReadBack(e, other)' = ReadBack(e, other)
        BY <1>2 DEF ReadBack
      <3>6. \A e \in Docs : \A other \in held[e] \cup {mail'[e].carries} : ReadBack(e, other)
        BY <1>6, <3>1, <3>2, <3>4 DEF RenderInv, RowsInv
      <3>7. \A e \in Docs : InFlight(e)' => InFlight(e)
        BY <3>2 DEF InFlight
      <3>8. RowsInv'
        BY <1>2, <3>2, <3>5, <3>6, <3>7 DEF RenderInv, RowsInv
      <3> QED
        BY <3>3, <3>8
    <2>4. CASE CloseMail(d)
      BY <1>2, <1>5, <1>6, <2>4, MailFields DEF CloseMail, RenderInv, RowsInv,
         MailCarriesSnapshot, ReadBack, InFlight
    <2> QED
      BY <2>1, <2>2, <2>3, <2>4
  <1> QED
    BY <1>3, <1>4, <1>8 DEF RenderInv

(* Settling a slip and ageing a claim change no column the invariant ties to *)
(* a file, a job or an e-mail.                                              *)
LEMMA RowStep ==
  ASSUME RenderInv, TypeOK', NEW d \in Docs, NEW row,
         slips[d].status # "absent",
         slips' = [slips EXCEPT ![d] = row],
         row.status # "absent",
         row.payload = slips[d].payload, row.render = slips[d].render,
         row.claim = slips[d].claim, row.pdf = slips[d].pdf, row.sha = slips[d].sha,
         UNCHANGED <<held, mail, disk, jobs, replaced, lastId, edits, pc>>
  PROVE  RenderInv'
  <1>1. DOMAIN slips = Docs
    BY DEF RenderInv, TypeOK
  <1>2. (ReadyMatchesSnapshot /\ RecordedFileExists /\ MailCarriesSnapshot)'
    BY <1>1 DEF RenderInv, ReadyMatchesSnapshot, RecordedFileExists, MailCarriesSnapshot, Recorded
  <1>3. RowsInv'
    BY <1>1 DEF RenderInv, RowsInv, ReadBack, InFlight
  <1>4. JobsInv'
    BY <1>1 DEF RenderInv, JobsInv, HasJob, Carries
  <1>5. PathsInv'
    BY <1>1 DEF RenderInv, PathsInv
  <1> QED
    BY <1>2, <1>3, <1>4, <1>5 DEF RenderInv

LEMMA SettleStep ==
  ASSUME RenderInv, TypeOK', NEW d \in Docs, MarkSent(d) \/ Void(d) \/ GoStale(d)
  PROVE  RenderInv'
  <1>1. TypeOK /\ slips[d] \in Slip
    BY DEF RenderInv, TypeOK
  <1>2. UNCHANGED <<held, mail, disk, jobs, replaced, lastId, edits, pc>>
    BY DEF MarkSent, Void, GoStale, workerVars, boundVars
  <1>3. CASE slips' = slips
    BY <1>2, <1>3, Untouched DEF RenderInv, JobsInv
  <1>4. CASE slips[d].status # "absent" /\ \E status \in {"sent", "void"} :
               slips' = [slips EXCEPT ![d] = WithStatus(slips[d], status)]
    <2>1. PICK status \in {"sent", "void"} :
               slips' = [slips EXCEPT ![d] = WithStatus(slips[d], status)]
      BY <1>4
    <2>2. WithStatus(slips[d], status).status # "absent"
      BY <1>1, StatusFields
    <2> QED
      BY <1>1, <1>2, <1>4, <2>1, <2>2, RowStep, StatusFields
  <1>5. CASE GoStale(d)
    <2>1. /\ Aged(slips[d]).status = slips[d].status /\ Aged(slips[d]).payload = slips[d].payload
          /\ Aged(slips[d]).render = slips[d].render /\ Aged(slips[d]).claim = slips[d].claim
          /\ Aged(slips[d]).pdf = slips[d].pdf /\ Aged(slips[d]).sha = slips[d].sha
      BY <1>1 DEF Aged, Slip
    <2>2. slips[d].status # "absent"
      BY <1>5 DEF GoStale, RenderInv, RowsInv, NoSlip
    <2> QED
      BY <1>2, <1>5, <2>1, <2>2, RowStep DEF GoStale
  <1>6. CASE MarkSent(d)
    <2>1. DOMAIN slips = Docs
      BY <1>1 DEF TypeOK
    <2>2. \/ slips' = [slips EXCEPT ![d] = slips[d]]
          \/ /\ slips[d].status = "draft"
             /\ slips' = [slips EXCEPT ![d] = WithStatus(slips[d], "sent")]
      BY <1>6 DEF MarkSent
    <2>3. [slips EXCEPT ![d] = slips[d]] = slips
      BY <1>1 DEF TypeOK
    <2> QED
      BY <1>3, <1>4, <2>2, <2>3
  <1>7. CASE Void(d)
    BY <1>4, <1>7 DEF Void
  <1> QED
    BY <1>5, <1>6, <1>7

(* A step that ends the job of one slip: its row is left alone or marked     *)
(* failed, and the file of the job may be deleted.                          *)
LEMMA EndJobStep ==
  ASSUME RenderInv, TypeOK', NEW d \in Docs, NEW row, NEW job,
         slips' = [slips EXCEPT ![d] = row],
         row = slips[d] \/ (row = Failed(slips[d]) /\ slips[d].render \in {"pending", "rendering"}),
         jobs' = [jobs EXCEPT ![d] = job],
         job.claim = 0, job.state \in {"none", "unclaimed"},
         disk' = disk \/ (jobs[d].claim # 0 /\ disk' = disk \ {FileOf(jobs[d])}),
         pc \notin {"idle", "gather"},
         UNCHANGED <<held, mail, replaced, lastId, edits, pc>>
  PROVE  RenderInv'
  <1>1. TypeOK
    BY DEF RenderInv
  <1>2. DOMAIN slips = Docs /\ DOMAIN jobs = Docs /\ lastId \in Nat /\ edits \in Nat
    BY <1>1 DEF TypeOK
  <1>3. /\ row.status = slips[d].status /\ row.payload = slips[d].payload
        /\ row.pdf = slips[d].pdf /\ row.sha = slips[d].sha
        /\ row = slips[d] \/ (row.render = "failed" /\ row.claim = 0
                              /\ slips[d].render \in {"pending", "rendering"})
    <2>1. slips[d] \in Slip
      BY <1>1, BuiltTypes
    <2> QED
      BY <2>1 DEF Failed, Slip
  <1>4. /\ slips'[d] = row /\ jobs'[d] = job
        /\ \A e \in Docs : e # d => slips'[e] = slips[e] /\ jobs'[e] = jobs[e]
    BY <1>2
  <1>5. (ReadyMatchesSnapshot /\ MailCarriesSnapshot)'
    BY <1>3, <1>4 DEF RenderInv, ReadyMatchesSnapshot, MailCarriesSnapshot
  <1>6. RecordedFileExists'
    <2> SUFFICES ASSUME NEW e \in Docs, slips'[e].pdf # 0 PROVE Recorded(e)' \in disk'
      BY DEF RecordedFileExists
    <2>1. Recorded(e)' = Recorded(e) /\ slips[e].pdf # 0
      BY <1>3, <1>4 DEF Recorded
    <2>2. Recorded(e) \in disk
      BY <2>1 DEF RenderInv, RecordedFileExists
    <2>3. jobs[d].claim # 0 => Recorded(e) # FileOf(jobs[d])
      BY <2>1 DEF RenderInv, PathsInv, Recorded, FileOf
    <2> QED
      BY <2>1, <2>2, <2>3
  <1>7. RowsInv'
    <2> SUFFICES ASSUME NEW e \in Docs
                 PROVE  /\ slips'[e].payload <= edits'
                        /\ slips'[e].status = "absent" => slips'[e] = NoSlip
                        /\ slips'[e].status # "absent" => slips'[e].payload > 0
                        /\ slips'[e].render = "ready" => slips'[e].pdf # 0
                        /\ InFlight(e)' \/ held'[e] # {} => slips'[e].status # "absent"
                        /\ \A read \in held'[e] \cup {mail'[e].carries} : ReadBack(e, read)'
      BY DEF RowsInv
    <2>1. CASE e # d
      BY <1>4, <2>1 DEF RenderInv, RowsInv, ReadBack, InFlight
    <2>2. CASE e = d
      BY <1>3, <1>4, <2>2 DEF RenderInv, RowsInv, ReadBack, InFlight, NoSlip
    <2> QED
      BY <2>1, <2>2
  <1>8. JobsInv'
    <2> SUFFICES ASSUME NEW e \in Docs
                 PROVE  /\ jobs'[e].state \notin {"none", "unclaimed"} => jobs'[e].claim # 0
                        /\ jobs'[e].claim # 0 /\ Carries(slips'[e], jobs'[e].claim)
                              => jobs'[e].payload = slips'[e].payload
                        /\ jobs'[e].state = "stored" => FileOf(jobs'[e]) \in disk'
      BY DEF JobsInv
    <2>1. CASE e # d
      <3>1. jobs[e].state = "stored" /\ jobs[d].claim # 0 => FileOf(jobs[e]) # FileOf(jobs[d])
        BY <2>1 DEF RenderInv, JobsInv, PathsInv, FileOf
      <3> QED
        BY <1>4, <2>1, <3>1 DEF RenderInv, JobsInv
    <2>2. CASE e = d
      BY <1>4, <2>2
    <2> QED
      BY <2>1, <2>2
  <1>9. PathsInv'
    BY <1>2, <1>3, <1>4 DEF RenderInv, PathsInv
  <1> QED
    BY <1>5, <1>6, <1>7, <1>8, <1>9 DEF RenderInv

(* Without LostReplies a step that reports an error changed nothing.         *)
LEMMA FailureSteps ==
  ASSUME RenderInv, TypeOK', ~LostReplies, NEW d \in Docs,
         \/ PrepareError(d) \/ FailUnloadable(d) \/ FailUnclaimed(d) \/ FailError(d)
         \/ RecordFailed(d) \/ RecordError(d)
  PROVE  RenderInv'
  <1>1. TypeOK
    BY DEF RenderInv
  <1>2. slips = [slips EXCEPT ![d] = slips[d]] /\ DOMAIN slips = Docs
    BY <1>1 DEF TypeOK
  <1>3. pc \notin {"idle", "gather"}
    BY DEF RenderInv, JobsInv, HasJob, PrepareError, FailUnloadable, FailUnclaimed, FailError,
       RecordFailed, RecordError
  <1>4. UNCHANGED <<held, mail, replaced, lastId, edits, pc>>
    BY DEF PrepareError, FailUnloadable, FailUnclaimed, FailError, RecordFailed, RecordError, boundVars
  <1>5. \E job : /\ jobs' = [jobs EXCEPT ![d] = job]
                 /\ job.claim = 0 /\ job.state \in {"none", "unclaimed"}
    BY JobFields DEF PrepareError, FailUnloadable, FailUnclaimed, FailError, RecordFailed, RecordError
  <1>6. disk' = disk \/ (jobs[d].claim # 0 /\ disk' = disk \ {FileOf(jobs[d])})
    BY DEF PrepareError, FailUnloadable, FailUnclaimed, FailError, RecordFailed, RecordError,
       RenderInv, JobsInv
  <1>7. \E row : /\ slips' = [slips EXCEPT ![d] = row]
                 /\ \/ row = slips[d]
                    \/ row = Failed(slips[d]) /\ slips[d].render \in {"pending", "rendering"}
    BY <1>2 DEF PrepareError, FailUnloadable, FailUnclaimed, FailError, RecordFailed, RecordError,
       FailRender, FailWaiting, Carries
  <1>8. PICK job : /\ jobs' = [jobs EXCEPT ![d] = job]
                   /\ job.claim = 0 /\ job.state \in {"none", "unclaimed"}
    BY <1>5
  <1>9. PICK row : /\ slips' = [slips EXCEPT ![d] = row]
                   /\ \/ row = slips[d]
                      \/ row = Failed(slips[d]) /\ slips[d].render \in {"pending", "rendering"}
    BY <1>7
  <1> QED
    BY <1>3, <1>4, <1>6, <1>8, <1>9, EndJobStep

(* A claim draws a fresh number and belongs to the snapshot it was taken for. *)
LEMMA PrepareStep ==
  ASSUME RenderInv, TypeOK', NEW d \in Docs, Prepare(d)
  PROVE  RenderInv'
  <1>1. TypeOK
    BY DEF RenderInv
  <1>2. /\ DOMAIN slips = Docs /\ DOMAIN jobs = Docs /\ lastId \in Nat /\ edits \in Nat
        /\ converter \in BOOLEAN /\ slips[d] \in Slip
    BY <1>1 DEF TypeOK
  <1>3. pc = "prepare" /\ UNCHANGED <<held, mail, disk, replaced, edits, pc>>
    BY DEF Prepare, boundVars
  <1>4. CASE ~NeedsRender(slips[d])
    BY <1>3, <1>4, Untouched DEF Prepare
  <1>5. CASE NeedsRender(slips[d])
    <2> DEFINE row == Claimed(slips[d])
    <2>1. PICK state \in {"loaded", "unloadable"} :
             jobs' = [jobs EXCEPT ![d] = JobOf(state, lastId + 1, slips[d].payload)]
      BY <1>5 DEF Prepare
    <2> DEFINE job == JobOf(state, lastId + 1, slips[d].payload)
    <2>2. slips' = [slips EXCEPT ![d] = row] /\ jobs' = [jobs EXCEPT ![d] = job]
          /\ lastId' = lastId + 1
      BY <1>5, <2>1 DEF Prepare
    <2>3. /\ row.render = "rendering" /\ row.claim = lastId + 1
          /\ row.status = slips[d].status /\ row.payload = slips[d].payload
          /\ row.pdf = slips[d].pdf /\ row.sha = slips[d].sha
          /\ slips[d].render # "ready" /\ slips[d].status = "draft"
          /\ job.state = state /\ job.claim = lastId + 1 /\ job.payload = slips[d].payload
      <3>1. /\ row.render = "rendering" /\ row.claim = lastId + 1
            /\ row.status = slips[d].status /\ row.payload = slips[d].payload
            /\ row.pdf = slips[d].pdf /\ row.sha = slips[d].sha
        BY <1>2 DEF Claimed, Slip
      <3>2. slips[d].render # "ready" /\ slips[d].status = "draft"
        BY <1>5 DEF NeedsRender
      <3>3. job.state = state /\ job.claim = lastId + 1 /\ job.payload = slips[d].payload
        BY DEF JobOf
      <3> QED
        BY <3>1, <3>2, <3>3
    <2> HIDE DEF row, job
    <2>4. /\ slips'[d] = row /\ jobs'[d] = job
          /\ \A e \in Docs : e # d => slips'[e] = slips[e] /\ jobs'[e] = jobs[e]
      BY <1>2, <2>2
    <2>5. (ReadyMatchesSnapshot /\ RecordedFileExists /\ MailCarriesSnapshot)'
      <3>1. ReadyMatchesSnapshot'
        BY <2>3, <2>4 DEF RenderInv, ReadyMatchesSnapshot
      <3>2. RecordedFileExists'
        BY <1>3, <2>3, <2>4 DEF RenderInv, RecordedFileExists, Recorded
      <3>3. \A e \in Docs : slips'[e].payload = slips[e].payload /\ slips'[e].sha = slips[e].sha
        BY <2>3, <2>4
      <3>4. MailCarriesSnapshot'
        BY <1>3, <3>3 DEF RenderInv, MailCarriesSnapshot
      <3> QED
        BY <3>1, <3>2, <3>4
    <2>6. RowsInv'
      BY <1>3, <2>3, <2>4 DEF RenderInv, RowsInv, ReadBack, InFlight, NoSlip
    <2>7. \A e \in Docs : jobs[e].claim \in Nat /\ slips[e].pdf \in Nat
      BY <1>1, FieldTypes
    <2>8. JobsInv'
      BY <1>2, <1>3, <2>3, <2>4, <2>7 DEF RenderInv, JobsInv, Carries
    <2>9. PathsInv'
      <3>1. \A e \in Docs : /\ slips'[e].pdf = slips[e].pdf
                            /\ slips[e].pdf <= lastId /\ jobs[e].claim <= lastId
        BY <2>3, <2>4 DEF RenderInv, PathsInv
      <3>2. \A p \in replaced : p # 0 /\ p <= lastId /\ p \in Nat
        BY <1>1 DEF RenderInv, PathsInv, TypeOK
      <3>3. \A e \in Docs : /\ slips'[e].pdf <= lastId' /\ slips'[e].pdf \notin replaced'
                            /\ jobs'[e].claim <= lastId'
                            /\ jobs'[e].claim # 0 => jobs'[e].claim \notin replaced'
        <4> SUFFICES ASSUME NEW e \in Docs
                     PROVE  /\ slips'[e].pdf <= lastId' /\ slips'[e].pdf \notin replaced'
                            /\ jobs'[e].claim <= lastId'
                            /\ jobs'[e].claim # 0 => jobs'[e].claim \notin replaced'
          OBVIOUS
        <4>1. CASE e = d
          BY <1>2, <1>3, <2>2, <2>3, <2>4, <2>7, <3>1, <3>2, <4>1 DEF RenderInv, PathsInv
        <4>2. CASE e # d
          BY <1>2, <1>3, <2>2, <2>4, <2>7, <3>1, <4>2 DEF RenderInv, PathsInv
        <4> QED
          BY <4>1, <4>2
      <3>4. \A p \in replaced' : p # 0 /\ p <= lastId'
        BY <1>2, <1>3, <2>2, <3>2
      <3>5. \A e, f \in Docs :
              /\ jobs'[e].claim # 0 => jobs'[e].claim # slips'[f].pdf
              /\ e # f /\ jobs'[e].claim # 0 => jobs'[e].claim # jobs'[f].claim
              /\ e # f /\ slips'[e].pdf # 0 => slips'[e].pdf # slips'[f].pdf
        BY <1>2, <2>3, <2>4, <2>7, <3>1 DEF RenderInv, PathsInv
      <3> QED
        BY <3>3, <3>4, <3>5 DEF PathsInv
    <2> QED
      BY <2>5, <2>6, <2>8, <2>9 DEF RenderInv
  <1> QED
    BY <1>4, <1>5

(* Converting and storing only move jobs on; a stored job has its file. *)
LEMMA JobStep ==
  ASSUME RenderInv, TypeOK',
         UNCHANGED <<slips, held, mail, replaced, lastId, edits>>,
         disk \subseteq disk',
         pc \notin {"idle", "gather"},
         pc' \in {"idle", "gather"} => \A d \in Docs : jobs'[d].state = "none",
         \A d \in Docs : /\ jobs'[d].claim = jobs[d].claim /\ jobs'[d].payload = jobs[d].payload
                         /\ FileOf(jobs'[d]) = FileOf(jobs[d])
                         /\ jobs'[d].state \notin {"none", "unclaimed"}
                              => jobs[d].state \notin {"none", "unclaimed"}
                         /\ jobs'[d].state = "stored" => FileOf(jobs[d]) \in disk'
  PROVE  RenderInv'
  <1>1. (ReadyMatchesSnapshot /\ RecordedFileExists /\ MailCarriesSnapshot)'
    BY DEF RenderInv, ReadyMatchesSnapshot, RecordedFileExists, MailCarriesSnapshot, Recorded
  <1>2. RowsInv'
    BY DEF RenderInv, RowsInv, ReadBack, InFlight
  <1>3. JobsInv'
    BY DEF RenderInv, JobsInv, HasJob, Carries
  <1>4. PathsInv'
    BY DEF RenderInv, PathsInv
  <1> QED
    BY <1>1, <1>2, <1>3, <1>4 DEF RenderInv

LEMMA ConvertStoreSteps ==
  ASSUME RenderInv, TypeOK', Convert \/ \E d \in Docs : Store(d)
  PROVE  RenderInv'
  <1>1. TypeOK /\ \A d \in Docs : jobs[d] \in Job
    BY DEF RenderInv, TypeOK
  <1>2. CASE Convert
    <2>1. PICK good \in SUBSET {d \in Docs : HasJob(d)} :
             jobs' = [d \in Docs |->
                        IF ~HasJob(d) THEN jobs[d]
                        ELSE WithState(jobs[d], IF d \in good THEN "converted" ELSE "failed")]
      BY <1>2 DEF Convert
    <2>2. \A d \in Docs :
             /\ jobs'[d].claim = jobs[d].claim /\ jobs'[d].payload = jobs[d].payload
             /\ FileOf(jobs'[d]) = FileOf(jobs[d])
             /\ HasJob(d) => jobs'[d].state \in {"converted", "failed"}
             /\ ~HasJob(d) => jobs'[d] = jobs[d]
      BY <1>1, <2>1, JobFields
    <2>3. \A d \in Docs : HasJob(d) => jobs[d].state \notin {"none", "unclaimed"}
      BY <1>2 DEF Convert, Recordable, HasJob
    <2>4. \A d \in Docs : ~HasJob(d) => jobs[d].state = "none"
      BY DEF HasJob
    <2>5. UNCHANGED <<slips, held, mail, replaced, lastId, edits, disk>> /\ pc = "prepare"
      BY <1>2 DEF Convert, rowVars, boundVars
    <2>6. pc' \in {"idle", "gather"} => \A d \in Docs : ~HasJob(d)
      BY <1>2 DEF Convert
    <2> QED
      BY <2>2, <2>3, <2>4, <2>5, <2>6, JobStep
  <1>3. ASSUME NEW d \in Docs, Store(d) PROVE RenderInv'
    <2>1. /\ UNCHANGED <<slips, held, mail, replaced, lastId, edits, pc>> /\ disk \subseteq disk'
          /\ pc = "store" /\ jobs[d].state = "converted"
      BY <1>3 DEF Store, rowVars, boundVars
    <2>2. PICK state \in {"stored", "failed"} :
             /\ jobs' = [jobs EXCEPT ![d] = WithState(jobs[d], state)]
             /\ state = "stored" => disk' = disk \cup {FileOf(jobs[d])}
      BY <1>3 DEF Store
    <2>3. /\ jobs'[d] = WithState(jobs[d], state) /\ \A e \in Docs : e # d => jobs'[e] = jobs[e]
          /\ jobs'[d].claim = jobs[d].claim /\ jobs'[d].payload = jobs[d].payload
          /\ FileOf(jobs'[d]) = FileOf(jobs[d]) /\ jobs'[d].state = state
      BY <1>1, <2>2, JobFields DEF TypeOK
    <2>4. \A e \in Docs : jobs[e].state = "stored" => FileOf(jobs[e]) \in disk
      BY DEF RenderInv, JobsInv
    <2> QED
      BY <2>1, <2>2, <2>3, <2>4, JobStep
  <1> QED
    BY <1>2, <1>3

(* A finished render: the row points at a file no other row or job has, and  *)
(* only the file it pointed at before may go.                               *)
LEMMA RecordReadyStep ==
  ASSUME RenderInv, TypeOK', NEW d \in Docs, RecordReady(d)
  PROVE  RenderInv'
  <1>1. TypeOK
    BY DEF RenderInv
  <1>2. /\ DOMAIN slips = Docs /\ DOMAIN jobs = Docs /\ slips[d] \in Slip /\ jobs[d] \in Job
        /\ edits \in Nat /\ lastId \in Nat /\ converter \in BOOLEAN
    BY <1>1 DEF TypeOK
  <1>3. pc = "record" /\ jobs[d].state = "stored" /\ UNCHANGED <<held, mail, lastId, edits, pc>>
    BY DEF RecordReady, boundVars
  <1>4. jobs' = [jobs EXCEPT ![d] = NoJob] /\ NoJob.claim = 0 /\ NoJob.state = "none"
    BY JobFields DEF RecordReady
  <1>5. jobs[d].claim # 0 /\ FileOf(jobs[d]) \in disk
    BY <1>3 DEF RenderInv, JobsInv
  <1>6. CASE ~HoldsClaim(d)
    <2>1. slips' = [slips EXCEPT ![d] = slips[d]]
      BY <1>1, <1>6 DEF RecordReady, TypeOK
    <2>2. disk' = disk \ {FileOf(jobs[d])} /\ replaced' = replaced
      BY <1>6 DEF RecordReady
    <2> QED
      BY <1>3, <1>4, <1>5, <2>1, <2>2, EndJobStep
  <1>7. CASE HoldsClaim(d)
    <2> DEFINE row == Ready(slips[d], jobs[d])
    <2>1. /\ slips' = [slips EXCEPT ![d] = row] /\ disk' = disk
          /\ replaced' = replaced \cup Superseded(slips[d], jobs[d])
      BY <1>7 DEF RecordReady
    <2>2. /\ row.render = "ready" /\ row.claim = 0 /\ row.pdf = jobs[d].claim
          /\ row.sha = jobs[d].payload /\ row.status = slips[d].status
          /\ row.payload = slips[d].payload
      BY <1>2, RowFields
    <2>3. /\ slips[d].status = "draft" /\ slips[d].render = "rendering"
          /\ slips[d].payload = jobs[d].payload
      BY <1>5, <1>7 DEF HoldsClaim, Carries, RenderInv, JobsInv
    <2> HIDE DEF row
    <2>4. /\ slips'[d] = row /\ jobs'[d] = NoJob
          /\ \A e \in Docs : e # d => slips'[e] = slips[e] /\ jobs'[e] = jobs[e]
      BY <1>2, <1>4, <2>1
    <2>5. ReadyMatchesSnapshot'
      BY <2>2, <2>3, <2>4 DEF RenderInv, ReadyMatchesSnapshot
    <2>6. RecordedFileExists'
      BY <1>5, <2>1, <2>2, <2>4 DEF RenderInv, RecordedFileExists, Recorded, FileOf
    <2>7. RowsInv'
      BY <1>3, <1>5, <2>2, <2>3, <2>4 DEF RenderInv, RowsInv, ReadBack, InFlight, NoSlip
    <2>8. MailCarriesSnapshot'
      <3>1. mail[d].phase = "verified" => mail[d].carries.sha = 0
        BY <2>3 DEF RenderInv, MailCarriesSnapshot, RowsInv, ReadBack
      <3> QED
        BY <1>3, <2>2, <2>4, <3>1 DEF RenderInv, MailCarriesSnapshot
    <2>9. JobsInv'
      BY <1>3, <1>4, <2>1, <2>4 DEF RenderInv, JobsInv
    <2>10. PathsInv'
      <3>1. \A p \in replaced' : p \in replaced \/ (p = slips[d].pdf /\ p # 0 /\ p # jobs[d].claim)
        BY <2>1 DEF Superseded
      <3>2. \A e \in Docs : /\ slips'[e].pdf <= lastId /\ jobs'[e].claim <= lastId
                            /\ slips'[e].pdf \notin replaced
                            /\ jobs'[e].claim # 0 => jobs'[e].claim \notin replaced
        BY <1>2, <1>4, <1>5, <2>2, <2>4 DEF RenderInv, PathsInv
      <3>3. \A e \in Docs : /\ slips'[e].pdf # slips[d].pdf \/ slips[d].pdf = 0
                            /\ jobs'[e].claim # 0 => jobs'[e].claim # slips[d].pdf
        BY <1>4, <1>5, <2>2, <2>4 DEF RenderInv, PathsInv
      <3>4. \A p \in replaced' : p # 0 /\ p <= lastId
        BY <3>1 DEF RenderInv, PathsInv
      <3>5. \A e, f \in Docs :
              /\ jobs'[e].claim # 0 => jobs'[e].claim # slips'[f].pdf
              /\ e # f /\ jobs'[e].claim # 0 => jobs'[e].claim # jobs'[f].claim
              /\ e # f /\ slips'[e].pdf # 0 => slips'[e].pdf # slips'[f].pdf
        BY <1>4, <1>5, <2>2, <2>4 DEF RenderInv, PathsInv
      <3> QED
        BY <1>3, <3>1, <3>2, <3>3, <3>4, <3>5 DEF PathsInv
    <2> QED
      BY <2>5, <2>6, <2>7, <2>8, <2>9, <2>10 DEF RenderInv
  <1> QED
    BY <1>6, <1>7

(* Steps that forget every job: a batch that ends or dies, a restart. *)
LEMMA ForgetJobsStep ==
  ASSUME RenderInv, TypeOK', RecordUnavailable \/ DeleteReplaced \/ Panic \/ Crash
  PROVE  RenderInv'
  <1>1. TypeOK
    BY DEF RenderInv
  <1>2. UNCHANGED <<slips, lastId, edits>>
    BY DEF RecordUnavailable, DeleteReplaced, Panic, Crash, rowVars, boundVars
  <1>3. \A d \in Docs : jobs'[d].state = "none" /\ jobs'[d].claim \in {0, jobs[d].claim}
    BY JobFields DEF RecordUnavailable, DeleteReplaced, Panic, Crash, HasJob
  <1>4. replaced' \subseteq replaced
    BY DEF RecordUnavailable, DeleteReplaced, Panic, Crash
  <1>5. RecordedFileExists'
    <2> SUFFICES ASSUME NEW d \in Docs, slips'[d].pdf # 0 PROVE Recorded(d)' \in disk'
      BY DEF RecordedFileExists
    <2>1. Recorded(d)' = Recorded(d) /\ Recorded(d) \in disk /\ slips[d].pdf # 0
      BY <1>2 DEF Recorded, RenderInv, RecordedFileExists
    <2>2. CASE RecordUnavailable
      <3>1. \A e \in Docs : jobs[e].state = "stored" => FileOf(jobs[e]) # Recorded(d)
        BY <2>1 DEF RenderInv, JobsInv, PathsInv, FileOf, Recorded
      <3> QED
        BY <2>1, <2>2, <3>1 DEF RecordUnavailable
    <2>3. CASE DeleteReplaced
      BY <2>1, <2>3 DEF DeleteReplaced, RenderInv, PathsInv, Recorded
    <2>4. CASE Panic \/ Crash
      BY <2>1, <2>4 DEF Panic, Crash
    <2> QED
      BY <2>2, <2>3, <2>4
  <1>6. ReadyMatchesSnapshot'
    BY <1>2 DEF RenderInv, ReadyMatchesSnapshot
  <1>7. /\ \A d \in Docs : /\ held'[d] \subseteq held[d]
                           /\ mail'[d].carries = mail[d].carries
                           /\ mail'[d].phase = "verified" => mail[d].phase = "verified"
                           /\ InFlight(d)' => InFlight(d)
    <2>1. CASE Crash
      BY <2>1, MailFields DEF Crash, InFlight
    <2>2. CASE UNCHANGED <<held, mail>>
      BY <2>2 DEF InFlight
    <2> QED
      BY <2>1, <2>2 DEF RecordUnavailable, DeleteReplaced, Panic, rowVars
  <1>8. MailCarriesSnapshot' /\ RowsInv'
    BY <1>2, <1>7 DEF RenderInv, MailCarriesSnapshot, RowsInv, ReadBack
  <1>9. JobsInv'
    <2>1. \A d \in Docs : jobs[d].claim # 0 /\ Carries(slips[d], jobs[d].claim)
                              => jobs[d].payload = slips[d].payload
      BY DEF RenderInv, JobsInv
    <2>2. \A d \in Docs : jobs'[d].claim = 0 \/ jobs'[d] = jobs[d]
      BY JobFields DEF RecordUnavailable, DeleteReplaced, Panic, Crash
    <2> QED
      BY <1>2, <1>3, <2>1, <2>2 DEF JobsInv, HasJob
  <1>10. PathsInv'
    <2>1. lastId \in Nat /\ \A d \in Docs : jobs'[d].claim <= lastId
      <3>1. lastId \in Nat
        BY <1>1 DEF TypeOK
      <3>2. \A d \in Docs : jobs[d].claim <= lastId
        BY DEF RenderInv, PathsInv
      <3>3. \A d \in Docs : jobs'[d].claim = 0 \/ jobs'[d].claim = jobs[d].claim
        BY <1>3
      <3> QED
        BY <3>1, <3>2, <3>3
    <2>2. \A p \in replaced' : p # 0 /\ p <= lastId
      BY <1>4 DEF RenderInv, PathsInv
    <2>3. \A d \in Docs :
            /\ slips'[d].pdf <= lastId /\ slips'[d].pdf \notin replaced'
            /\ jobs'[d].claim # 0 => jobs'[d].claim \notin replaced'
      BY <1>2, <1>3, <1>4 DEF RenderInv, PathsInv
    <2>4. \A d, e \in Docs :
            /\ jobs'[d].claim # 0 => jobs'[d].claim # slips'[e].pdf
            /\ d # e /\ jobs'[d].claim # 0 => jobs'[d].claim # jobs'[e].claim
            /\ d # e /\ slips'[d].pdf # 0 => slips'[d].pdf # slips'[e].pdf
      BY <1>2, <1>3 DEF RenderInv, PathsInv
    <2> QED
      BY <1>2, <2>1, <2>2, <2>3, <2>4 DEF PathsInv
  <1> QED
    BY <1>5, <1>6, <1>8, <1>9, <1>10 DEF RenderInv

LEMMA RenderNext ==
  ASSUME ~LostReplies, RenderInv, [Next]_vars
  PROVE  RenderInv'
  <1>1. TypeOK'
    BY TypeNext DEF RenderInv
  <1>2. CASE Requests
    <2>1. PICK d \in Docs : \/ StoreSnapshot(d) \/ ReadAttachment(d) \/ QueueMail(d)
                            \/ VerifyMail(d) \/ CloseMail(d) \/ MarkSent(d) \/ Void(d)
      BY <1>2 DEF Requests
    <2> QED
      BY <1>1, <2>1, StoreSnapshotStep, SenderStep, SettleStep
  <1>3. CASE \/ Receive \/ Drain \/ PrepareUnavailable \/ OpenRecord \/ Sweep
             \/ UNCHANGED vars \/ \E d \in Docs : Enqueue(d)
    <2>1. UNCHANGED <<slips, held, mail, disk, jobs, replaced, lastId, edits>>
      BY <1>3 DEF Receive, Drain, PrepareUnavailable, OpenRecord, Sweep, Enqueue, vars,
         rowVars, queueVars, workerVars, boundVars
    <2>2. pc' \in {"idle", "gather"} => \A d \in Docs : ~HasJob(d)
      BY <1>3 DEF Receive, Drain, PrepareUnavailable, OpenRecord, Sweep, Enqueue, vars,
         workerVars, RenderInv, JobsInv
    <2> QED
      BY <1>1, <2>1, <2>2, Untouched
  <1>4. CASE RecordUnavailable \/ DeleteReplaced \/ Panic \/ Crash
    BY <1>1, <1>4, ForgetJobsStep
  <1>5. CASE Convert
    BY <1>1, <1>5, ConvertStoreSteps
  <1>6. CASE \E d \in Docs : \/ Prepare(d) \/ PrepareError(d) \/ FailUnloadable(d)
                             \/ FailUnclaimed(d) \/ FailError(d) \/ Store(d)
                             \/ RecordFailed(d) \/ RecordReady(d) \/ RecordError(d)
    <2>1. PICK d \in Docs : \/ Prepare(d) \/ PrepareError(d) \/ FailUnloadable(d)
                            \/ FailUnclaimed(d) \/ FailError(d) \/ Store(d)
                            \/ RecordFailed(d) \/ RecordReady(d) \/ RecordError(d)
      BY <1>6
    <2> QED
      BY <1>1, <2>1, PrepareStep, FailureSteps, ConvertStoreSteps, RecordReadyStep
  <1>7. CASE \E d \in Docs : GoStale(d)
    BY <1>1, <1>7, SettleStep
  <1>8. CASE Worker
    BY <1>3, <1>4, <1>5, <1>6, <1>8 DEF Worker
  <1>9. CASE \E d \in Docs : Enqueue(d) \/ GoStale(d)
    BY <1>3, <1>7, <1>9
  <1> QED
    BY <1>2, <1>3, <1>4, <1>8, <1>9 DEF Next

(* Unless a statement applies although its caller sees an error, a 'ready'   *)
(* row serves a PDF of its snapshot, the recorded file is in the store, and  *)
(* an e-mail about to leave carries what the row holds: for every number of  *)
(* slips, queue capacity, and bound on edits, faults and senders.           *)
THEOREM RenderSafe ==
  ASSUME ~LostReplies
  PROVE  Spec => []RenderInv
  <1>1. Init => RenderInv
    BY RenderInit
  <1>2. RenderInv /\ [Next]_vars => RenderInv'
    BY RenderNext
  <1> QED
    BY <1>1, <1>2, PTL DEF Spec

(* A slip that is offered as ready has the PDF of its present snapshot (the  *)
(* claim of CompleteRender, through edits, resets and restarts).             *)
THEOREM ReadyIsCurrent ==
  ASSUME ~LostReplies
  PROVE  Spec => []ReadyMatchesSnapshot
  <1>1. RenderInv => ReadyMatchesSnapshot
    BY DEF RenderInv
  <1> QED
    BY <1>1, RenderSafe, PTL

(* The file a row points at is in the store (Superseded files are deleted    *)
(* after the row was rewritten, never before).                               *)
THEOREM RecordedFilesStay ==
  ASSUME ~LostReplies
  PROVE  Spec => []RecordedFileExists
  <1>1. RenderInv => RecordedFileExists
    BY DEF RenderInv
  <1> QED
    BY <1>1, RenderSafe, PTL

(* An e-mail about to leave carries what the row holds (the second read of   *)
(* verifyQueued and the guard of the edits).                                 *)
THEOREM MailIsOfTheRow ==
  ASSUME ~LostReplies
  PROVE  Spec => []MailCarriesSnapshot
  <1>1. RenderInv => MailCarriesSnapshot
    BY DEF RenderInv
  <1> QED
    BY <1>1, RenderSafe, PTL

-----------------------------------------------------------------------------
(* From the inductive invariant: a sent slip is final, and DocumentRender    *)
(* implements PayslipDocument.                                              *)

(* The four ways a step changes a row, in terms of what is seen outside.     *)
Rewrites(d, row) ==
    /\ Editable(d)
    /\ row.status = "draft" /\ row.payload = edits + 1 /\ row.render \in {"pending", "none"}

Publishes(d, row) ==
    /\ slips[d].status = "draft" /\ slips[d].render = "rendering"
    /\ row.status = "draft" /\ row.payload = slips[d].payload /\ row.render = "ready"

SameContent(d, row) ==
    row.payload = slips[d].payload /\ row.pdf = slips[d].pdf /\ row.sha = slips[d].sha

Settles(d, row) ==
    /\ \/ slips[d].status = "draft" /\ row.status = "sent"
       \/ slips[d].status = "sent" /\ row.status = "void"
    /\ SameContent(d, row) /\ row.render = slips[d].render

WorksOn(d, row) ==
    /\ row.status = slips[d].status /\ SameContent(d, row)
    /\ slips[d].render = "ready" <=> row.render = "ready"

RowMoves(d, row) ==
    /\ slips' = [slips EXCEPT ![d] = row]
    /\ Rewrites(d, row) \/ Publishes(d, row) \/ Settles(d, row) \/ WorksOn(d, row)

LEMMA RequestRowStep ==
  ASSUME RenderInv, NEW d \in Docs, StoreSnapshot(d) \/ MarkSent(d) \/ Void(d) \/ GoStale(d)
  PROVE  UNCHANGED slips \/ \E row : RowMoves(d, row)
  <1>1. TypeOK
    BY DEF RenderInv
  <1>2. /\ DOMAIN slips = Docs /\ slips[d] \in Slip /\ jobs[d] \in Job
        /\ lastId \in Nat /\ edits \in Nat /\ converter \in BOOLEAN
    BY <1>1 DEF TypeOK
  <1>3. CASE StoreSnapshot(d)
    <2>1. slips' = [slips EXCEPT ![d] = Rewritten(slips[d])] /\ Editable(d)
      BY <1>2, <1>3 DEF StoreSnapshot
    <2>2. Rewrites(d, Rewritten(slips[d]))
      BY <1>2, <2>1, RowFields DEF Rewrites
    <2> QED
      BY <2>1, <2>2 DEF RowMoves
  <1>4. CASE MarkSent(d)
    <2>1. \/ UNCHANGED slips
          \/ slips[d].status = "draft" /\ slips' = [slips EXCEPT ![d] = WithStatus(slips[d], "sent")]
      BY <1>1, <1>2, <1>4 DEF MarkSent, TypeOK
    <2>2. slips[d].status = "draft" => Settles(d, WithStatus(slips[d], "sent"))
      BY <1>2, StatusFields DEF Settles, SameContent
    <2> QED
      BY <2>1, <2>2 DEF RowMoves
  <1>5. CASE Void(d)
    <2>1. slips[d].status = "sent" /\ slips' = [slips EXCEPT ![d] = WithStatus(slips[d], "void")]
      BY <1>2, <1>5 DEF Void
    <2>2. Settles(d, WithStatus(slips[d], "void"))
      BY <1>2, <2>1, StatusFields DEF Settles, SameContent
    <2> QED
      BY <2>1, <2>2 DEF RowMoves
  <1>6. CASE GoStale(d)
    <2>1. slips' = [slips EXCEPT ![d] = Aged(slips[d])]
      BY <1>2, <1>6 DEF GoStale
    <2>2. WorksOn(d, Aged(slips[d]))
      BY <1>2, RowFields DEF WorksOn, SameContent
    <2> QED
      BY <2>1, <2>2 DEF RowMoves
  <1> QED
    BY <1>3, <1>4, <1>5, <1>6

LEMMA WorkerRowStep ==
  ASSUME ~LostReplies, RenderInv, NEW d \in Docs,
         \/ Prepare(d) \/ PrepareError(d) \/ FailUnloadable(d) \/ FailUnclaimed(d) \/ FailError(d)
         \/ RecordFailed(d) \/ RecordReady(d) \/ RecordError(d)
  PROVE  UNCHANGED slips \/ \E row : RowMoves(d, row)
  <1>1. TypeOK
    BY DEF RenderInv
  <1>2. /\ DOMAIN slips = Docs /\ slips[d] \in Slip /\ jobs[d] \in Job
        /\ lastId \in Nat /\ edits \in Nat /\ converter \in BOOLEAN
    BY <1>1 DEF TypeOK
  <1>3. CASE Prepare(d)
    <2>1. \/ UNCHANGED slips
          \/ NeedsRender(slips[d]) /\ slips' = [slips EXCEPT ![d] = Claimed(slips[d])]
      BY <1>2, <1>3 DEF Prepare
    <2>2. NeedsRender(slips[d]) => slips[d].render # "ready"
      BY DEF NeedsRender
    <2>3. slips[d].render # "ready" => WorksOn(d, Claimed(slips[d]))
      BY <1>2, RowFields DEF WorksOn, SameContent
    <2> QED
      BY <2>1, <2>2, <2>3 DEF RowMoves
  <1>4. CASE \/ FailUnloadable(d) \/ FailUnclaimed(d) \/ RecordFailed(d)
             \/ PrepareError(d) \/ FailError(d)
    <2>1. \/ UNCHANGED slips
          \/ /\ slips[d].render \in {"pending", "rendering"}
             /\ slips' = [slips EXCEPT ![d] = Failed(slips[d])]
      BY <1>1, <1>2, <1>4 DEF FailUnloadable, FailUnclaimed, RecordFailed, PrepareError, FailError,
         FailRender, FailWaiting, Carries, TypeOK
    <2>2. slips[d].render # "ready" => WorksOn(d, Failed(slips[d]))
      BY <1>2, RowFields DEF WorksOn, SameContent
    <2> QED
      BY <2>1, <2>2 DEF RowMoves
  <1>5. CASE RecordReady(d) \/ RecordError(d)
    <2>1. \/ UNCHANGED slips
          \/ /\ HoldsClaim(d) /\ jobs[d].state = "stored"
             /\ slips' = [slips EXCEPT ![d] = Ready(slips[d], jobs[d])]
      BY <1>1, <1>2, <1>5 DEF RecordReady, RecordError, TypeOK
    <2>2. HoldsClaim(d) => Publishes(d, Ready(slips[d], jobs[d]))
      BY <1>2, RowFields DEF HoldsClaim, Carries, Publishes
    <2> QED
      BY <2>1, <2>2 DEF RowMoves
  <1> QED
    BY <1>3, <1>4, <1>5

(* Every step leaves the rows alone or changes one of them in one of the     *)
(* four ways.                                                               *)
LEMMA AnyRowStep ==
  ASSUME ~LostReplies, RenderInv, [Next]_vars
  PROVE  UNCHANGED slips \/ \E d \in Docs : \E row : RowMoves(d, row)
  <1>1. CASE Requests
    <2>1. PICK d \in Docs : \/ StoreSnapshot(d) \/ ReadAttachment(d) \/ QueueMail(d)
                            \/ VerifyMail(d) \/ CloseMail(d) \/ MarkSent(d) \/ Void(d)
      BY <1>1 DEF Requests
    <2>2. ReadAttachment(d) \/ QueueMail(d) \/ VerifyMail(d) \/ CloseMail(d) => UNCHANGED slips
      BY DEF ReadAttachment, QueueMail, VerifyMail, CloseMail
    <2> QED
      BY <2>1, <2>2, RequestRowStep
  <1>2. CASE Worker
    <2>1. CASE \/ Receive \/ Drain \/ PrepareUnavailable \/ Convert
               \/ OpenRecord \/ RecordUnavailable \/ DeleteReplaced \/ Panic
      BY <2>1 DEF Receive, Drain, PrepareUnavailable, Convert, OpenRecord, RecordUnavailable,
         DeleteReplaced, Panic, rowVars
    <2>2. ASSUME NEW d \in Docs, Store(d) PROVE UNCHANGED slips
      BY <2>2 DEF Store, rowVars
    <2> QED
      BY <1>2, <2>1, <2>2, WorkerRowStep DEF Worker
  <1>3. CASE Sweep \/ Crash \/ UNCHANGED vars
    BY <1>3 DEF Sweep, Crash, vars, rowVars
  <1>4. CASE \E d \in Docs : Enqueue(d) \/ GoStale(d)
    <2>1. ASSUME NEW d \in Docs, Enqueue(d) PROVE UNCHANGED slips
      BY <2>1 DEF Enqueue, rowVars
    <2> QED
      BY <1>4, <2>1, RequestRowStep
  <1> QED
    BY <1>1, <1>2, <1>3, <1>4 DEF Next

(* A file a row points at survives every step, the one that replaces it      *)
(* included: it is only deleted after the row has moved on.                 *)
LEMMA FilesKept ==
  ASSUME RenderInv, [Next]_vars, NEW e \in Docs, Recorded(e) \in disk
  PROVE  Recorded(e) \in disk'
  <1>1. \A d \in Docs : jobs[d].state = "stored" => FileOf(jobs[d]) # Recorded(e)
    BY DEF RenderInv, JobsInv, PathsInv, FileOf, Recorded
  <1>2. CASE RecordUnavailable
    BY <1>1, <1>2 DEF RecordUnavailable
  <1>3. CASE DeleteReplaced
    BY <1>3 DEF DeleteReplaced, RenderInv, PathsInv, Recorded
  <1>4. ASSUME NEW d \in Docs, RecordReady(d) \/ RecordError(d) PROVE Recorded(e) \in disk'
    BY <1>1, <1>4 DEF RecordReady, RecordError
  <1>5. CASE Requests \/ Sweep \/ Crash \/ UNCHANGED vars \/ \E d \in Docs : Enqueue(d) \/ GoStale(d)
    BY <1>5 DEF Requests, StoreSnapshot, ReadAttachment, QueueMail, VerifyMail, CloseMail,
       MarkSent, Void, Sweep, Crash, vars, Enqueue, GoStale
  <1>6. CASE Receive \/ Drain \/ PrepareUnavailable \/ Convert \/ OpenRecord \/ Panic
    BY <1>6 DEF Receive, Drain, PrepareUnavailable, Convert, OpenRecord, Panic
  <1>7. ASSUME NEW d \in Docs,
               \/ Prepare(d) \/ PrepareError(d) \/ FailUnloadable(d) \/ FailUnclaimed(d)
               \/ FailError(d) \/ Store(d) \/ RecordFailed(d)
        PROVE  Recorded(e) \in disk'
    BY <1>7 DEF Prepare, PrepareError, FailUnloadable, FailUnclaimed, FailError, Store, RecordFailed
  <1> QED
    BY <1>2, <1>3, <1>4, <1>5, <1>6, <1>7 DEF Next, Worker

LEMMA SettledRows ==
  ASSUME ~LostReplies, RenderInv, [Next]_vars,
         NEW e \in Docs, slips[e].status \in {"sent", "void"}
  PROVE  SettledRowKept(e)
  <1>1. DOMAIN slips = Docs
    BY DEF RenderInv, TypeOK
  <1>2. CASE UNCHANGED slips
    BY <1>2 DEF SettledRowKept
  <1>3. ASSUME NEW d \in Docs, NEW row, RowMoves(d, row) PROVE SettledRowKept(e)
    <2>1. CASE e # d
      BY <1>1, <1>3, <2>1 DEF RowMoves, SettledRowKept
    <2>2. CASE e = d
      <3>1. slips'[e] = row /\ (Settles(d, row) \/ WorksOn(d, row))
        BY <1>1, <1>3, <2>2 DEF RowMoves, Rewrites, Editable, Publishes
      <3> QED
        BY <2>2, <3>1 DEF Settles, WorksOn, SameContent, SettledRowKept
    <2> QED
      BY <2>1, <2>2
  <1> QED
    BY <1>2, <1>3, AnyRowStep

(* Nothing that runs late (a render, an edit, a second sender, a restart)    *)
(* changes the content, the recorded PDF or the stored file of a sent slip.  *)
THEOREM SettledForGood ==
  ASSUME ~LostReplies
  PROVE  Spec => SettledSlipIsFinal
  <1>1. RenderInv /\ [Next]_vars =>
          [\A d \in Docs : slips[d].status \in {"sent", "void"} =>
              /\ SettledRowKept(d)
              /\ Recorded(d) \in disk => Recorded(d) \in disk']_vars
    BY SettledRows, FilesKept
  <1>2. Spec => []RenderInv
    BY RenderSafe
  <1> QED
    BY <1>1, <1>2, PTL DEF Spec, SettledSlipIsFinal

(* Under the invariant a served PDF is a PDF of the row's content. *)
LEMMA ServedIsContent ==
  ASSUME RenderInv, NEW d \in Docs
  PROVE  ServedSnapshot(d) = IF slips[d].render = "ready" THEN slips[d].payload ELSE 0
  BY DEF RenderInv, ReadyMatchesSnapshot, RecordedFileExists, RowsInv, ServedSnapshot

LEMMA DocumentInit == Init => Document!Init
  <1> SUFFICES ASSUME Init PROVE Document!Init
    OBVIOUS
  <1>1. \A d \in Docs : ServedSnapshot(d) = 0
    BY DEF Init, NoSlip, ServedSnapshot
  <1> QED
    BY <1>1 DEF Init, NoSlip, Document!Init

LEMMA DocumentStep ==
  ASSUME RenderInv, RenderInv', NEW d \in Docs, NEW row, RowMoves(d, row)
  PROVE  Document!Next \/ UNCHANGED Document!doc
  <1> DEFINE S(s) == [e \in Docs |-> s[e].status]
             C(s) == [e \in Docs |-> s[e].payload]
             V(s) == [e \in Docs |-> IF s[e].render = "ready" THEN s[e].payload ELSE 0]
  <1>1. DOMAIN slips = Docs /\ slips' = [slips EXCEPT ![d] = row] /\ edits \in Nat
        /\ slips[d].payload \in Nat
    BY FieldTypes DEF RowMoves, RenderInv, TypeOK
  <1>2. [e \in Docs |-> ServedSnapshot(e)] = V(slips)
    BY ServedIsContent
  <1>3. [e \in Docs |-> ServedSnapshot(e)]' = V(slips')
    <2>1. \A e \in Docs : ServedSnapshot(e)' = IF slips'[e].render = "ready"
                                                THEN slips'[e].payload ELSE 0
      BY DEF RenderInv, ReadyMatchesSnapshot, RecordedFileExists, RowsInv, ServedSnapshot
    <2> QED
      BY <2>1
  <1>4. /\ S(slips') = [S(slips) EXCEPT ![d] = row.status]
        /\ C(slips') = [C(slips) EXCEPT ![d] = row.payload]
        /\ V(slips') = [V(slips) EXCEPT ![d] = IF row.render = "ready" THEN row.payload ELSE 0]
    BY <1>1
  <1>5. S(slips)[d] = slips[d].status /\ C(slips)[d] = slips[d].payload
        /\ V(slips)[d] = IF slips[d].render = "ready" THEN slips[d].payload ELSE 0
    OBVIOUS
  <1>6. CASE Rewrites(d, row)
    <2>1. row.payload \in Nat /\ row.payload > slips[d].payload
      BY <1>1, <1>6 DEF Rewrites, RenderInv, RowsInv
    <2>2. row.render # "ready" /\ row.status = "draft" /\ slips[d].status \in {"absent", "draft"}
      BY <1>6 DEF Rewrites, Editable
    <2>3. Document!Rewrite(d)
      BY <1>2, <1>3, <1>4, <1>5, <2>1, <2>2 DEF Document!Rewrite
    <2> QED
      BY <2>3 DEF Document!Next
  <1>7. CASE Publishes(d, row)
    <2>1. S(slips') = S(slips) /\ C(slips') = C(slips)
      BY <1>1, <1>7 DEF Publishes
    <2>2. V(slips') = [V(slips) EXCEPT ![d] = C(slips)[d]]
      BY <1>4, <1>5, <1>7 DEF Publishes
    <2>3. S(slips)[d] = "draft" /\ V(slips)[d] = 0
      BY <1>5, <1>7 DEF Publishes
    <2>4. Document!Publish(d)
      BY <1>2, <1>3, <2>1, <2>2, <2>3 DEF Document!Publish
    <2> QED
      BY <2>4 DEF Document!Next
  <1>8. CASE Settles(d, row)
    <2>1. C(slips') = C(slips) /\ V(slips') = V(slips)
      BY <1>1, <1>8 DEF Settles, SameContent
    <2>2. Document!Settle(d)
      BY <1>2, <1>3, <1>4, <1>5, <1>8, <2>1 DEF Settles, Document!Settle
    <2> QED
      BY <2>2 DEF Document!Next
  <1>9. CASE WorksOn(d, row)
    <2>1. S(slips') = S(slips) /\ C(slips') = C(slips) /\ V(slips') = V(slips)
      BY <1>1, <1>9 DEF WorksOn, SameContent
    <2> QED
      BY <1>2, <1>3, <2>1 DEF Document!doc
  <1> QED
    BY <1>6, <1>7, <1>8, <1>9 DEF RowMoves

(* The worker, its claims, files and restarts implement one document per     *)
(* slip whose PDF is always a PDF of its content.                           *)
THEOREM Refinement ==
  ASSUME ~LostReplies
  PROVE  Spec => ImplementsDocument
  <1>1. Init => Document!Init
    BY DocumentInit
  <1>2. RenderInv /\ RenderInv' /\ [Next]_vars => [Document!Next]_(Document!doc)
    <2> SUFFICES ASSUME RenderInv, RenderInv', [Next]_vars
                 PROVE  Document!Next \/ UNCHANGED Document!doc
      OBVIOUS
    <2>1. CASE UNCHANGED slips
      <3>1. \A d \in Docs : ServedSnapshot(d)' = ServedSnapshot(d)
        BY <2>1 DEF RenderInv, ReadyMatchesSnapshot, RecordedFileExists, RowsInv, ServedSnapshot
      <3> QED
        BY <2>1, <3>1 DEF Document!doc
    <2> QED
      BY <2>1, AnyRowStep, DocumentStep
  <1>3. Spec => []RenderInv
    BY RenderSafe
  <1> QED
    BY <1>1, <1>2, <1>3, PTL DEF Spec, ImplementsDocument, Document!Spec

-----------------------------------------------------------------------------
(* The queue's dedupe keys, the files nobody points at, and what a recorded  *)
(* failure is about.                                                        *)

LEMMA KeysInit == Init => KeysAreWaiting
  BY DEF Init, KeysAreWaiting

LEMMA KeysKept ==
  ASSUME KeysAreWaiting, UNCHANGED <<queue, queued>>, pc = "gather" => UNCHANGED <<pc, batch>>
  PROVE  KeysAreWaiting'
  BY DEF KeysAreWaiting

LEMMA KeysNext == TypeOK /\ KeysAreWaiting /\ [Next]_vars => KeysAreWaiting'
  <1> SUFFICES ASSUME TypeOK, KeysAreWaiting, [Next]_vars PROVE KeysAreWaiting'
    OBVIOUS
  <1>1. ASSUME NEW d \in Docs, Enqueue(d) PROVE KeysAreWaiting'
    <2>1. queue \in Seq(Docs) /\ UNCHANGED <<pc, batch>>
      BY <1>1 DEF TypeOK, Enqueue, workerVars
    <2>2. CASE HasRoom(d)
      <3>1. queue' = Append(queue, d) /\ queued' = queued \cup {d}
        BY <1>1, <2>2 DEF Enqueue
      <3>2. /\ Len(queue') = Len(queue) + 1 /\ queue'[Len(queue) + 1] = d
            /\ \A i \in 1..Len(queue) : queue'[i] = queue[i]
        BY <2>1, <3>1
      <3>3. Len(queue) \in Nat
        BY <2>1
      <3>4. Len(queue) + 1 \in 1..Len(queue')
        BY <3>2, <3>3
      <3>5. \A e \in queued : \/ \E i \in 1..Len(queue') : queue'[i] = e
                              \/ pc = "gather" /\ e \in batch
        BY <3>2, <3>3 DEF KeysAreWaiting
      <3> QED
        BY <2>1, <3>1, <3>2, <3>4, <3>5 DEF KeysAreWaiting
    <2>3. CASE ~HasRoom(d)
      BY <1>1, <2>1, <2>3, KeysKept DEF Enqueue
    <2> QED
      BY <2>2, <2>3
  <1>2. CASE Receive
    <2>1. /\ queue \in Seq(Docs) /\ queue # <<>> /\ pc = "idle"
          /\ batch' = {Head(queue)} /\ queue' = Tail(queue) /\ pc' = "gather"
          /\ UNCHANGED queued
      BY <1>2 DEF TypeOK, Receive
    <2>2. ASSUME NEW e \in queued
          PROVE  e = Head(queue) \/ \E i \in 1..Len(queue') : queue'[i] = e
      <3>1. PICK i \in 1..Len(queue) : queue[i] = e
        BY <2>1 DEF KeysAreWaiting
      <3>2. CASE i = 1
        BY <2>1, <3>1, <3>2
      <3>3. CASE i # 1
        <4>1. i - 1 \in 1..Len(queue') /\ queue'[i - 1] = queue[i]
          BY <2>1, <3>3
        <4> QED
          BY <3>1, <4>1
      <3> QED
        BY <3>2, <3>3
    <2> QED
      BY <2>1, <2>2 DEF KeysAreWaiting
  <1>3. CASE Drain
    <2>1. /\ batch' = batch \cup {queue[i] : i \in 1..Len(queue)} /\ queued' = queued \ batch'
      BY <1>3 DEF Drain, KeysLeft
    <2>2. queued' = {}
      BY <2>1 DEF KeysAreWaiting
    <2> QED
      BY <2>2 DEF KeysAreWaiting
  <1>4. CASE Crash
    BY <1>4 DEF Crash, KeysAreWaiting
  <1>5. CASE \/ PrepareUnavailable \/ Convert \/ OpenRecord \/ RecordUnavailable
             \/ DeleteReplaced \/ Panic
    <2>1. UNCHANGED <<queue, queued>> /\ pc # "gather"
      BY <1>5 DEF PrepareUnavailable, Convert, OpenRecord, RecordUnavailable, DeleteReplaced,
         Panic, queueVars
    <2> QED
      BY <2>1, KeysKept
  <1>6. ASSUME NEW d \in Docs,
               \/ Prepare(d) \/ PrepareError(d) \/ FailUnloadable(d) \/ FailUnclaimed(d)
               \/ FailError(d) \/ Store(d) \/ RecordFailed(d) \/ RecordReady(d) \/ RecordError(d)
        PROVE  KeysAreWaiting'
    <2>1. UNCHANGED <<queue, queued>> /\ (pc = "gather" => UNCHANGED <<pc, batch>>)
      BY <1>6 DEF Prepare, PrepareError, FailUnloadable, FailUnclaimed, FailError, Store,
         RecordFailed, RecordReady, RecordError, queueVars
    <2> QED
      BY <2>1, KeysKept
  <1>7. CASE Requests \/ Sweep \/ UNCHANGED vars \/ \E d \in Docs : GoStale(d)
    <2>1. UNCHANGED <<queue, queued, pc, batch>>
      BY <1>7 DEF Requests, StoreSnapshot, ReadAttachment, QueueMail, VerifyMail, CloseMail,
         MarkSent, Void, Sweep, vars, GoStale, queueVars, workerVars
    <2> QED
      BY <2>1, KeysKept
  <1> QED
    BY <1>1, <1>2, <1>3, <1>4, <1>5, <1>6, <1>7 DEF Next, Worker

(* No dedupe key leaks: an id Enqueue refuses as already waiting is in the   *)
(* channel or in the batch being gathered, also after a dropped job, a       *)
(* panic, a restart or a statement whose reply was lost.                    *)
THEOREM NoKeyLeaks == Spec => []KeysAreWaiting
  BY TypeCorrect, KeysInit, KeysNext, PTL DEF Spec

(* Files have names, and a stored file waits for recordOutcome.             *)
OrphanInv ==
    /\ NoOrphanFiles
    /\ \A f \in disk : f.path # 0
    /\ \A d \in Docs : jobs[d].state = "stored" => pc \in {"store", "record"}

LEMMA OrphanInit == Init => OrphanInv
  BY JobFields DEF Init, OrphanInv, NoOrphanFiles

(* Only RecordReady changes what a row records.                             *)
LEMMA RecordedKept ==
  ASSUME ~LostReplies, RenderInv, [Next]_vars, NEW e \in Docs
  PROVE  \/ Recorded(e)' = Recorded(e)
         \/ RecordReady(e) /\ HoldsClaim(e)
  <1>1. TypeOK /\ DOMAIN slips = Docs /\ edits \in Nat /\ lastId \in Nat /\ converter \in BOOLEAN
    BY DEF RenderInv, TypeOK
  <1>2. UNCHANGED slips => Recorded(e)' = Recorded(e)
    BY DEF Recorded
  <1> DEFINE Same(row) == row.pdf = slips[e].pdf /\ row.sha = slips[e].sha
  <1>3. /\ Same(Rewritten(slips[e])) /\ Same(Claimed(slips[e])) /\ Same(Failed(slips[e]))
        /\ Same(Aged(slips[e])) /\ Same(WithStatus(slips[e], "sent"))
        /\ Same(WithStatus(slips[e], "void"))
    BY <1>1, BuiltTypes, RowFields, StatusFields
  <1>4. Same(slips'[e]) => Recorded(e)' = Recorded(e)
    BY DEF Recorded
  <1> HIDE DEF Same
  <1>6. ASSUME NEW d \in Docs, StoreSnapshot(d) \/ MarkSent(d) \/ Void(d) \/ GoStale(d)
        PROVE  Recorded(e)' = Recorded(e)
    <2>1. \/ UNCHANGED slips
          \/ slips' = [slips EXCEPT ![d] = Rewritten(slips[d])]
          \/ slips' = [slips EXCEPT ![d] = Aged(slips[d])]
          \/ \E status \in {"sent", "void"} :
               slips' = [slips EXCEPT ![d] = WithStatus(slips[d], status)]
      BY <1>1, <1>6 DEF StoreSnapshot, MarkSent, Void, GoStale, TypeOK
    <2>2. CASE d = e
      BY <1>1, <1>2, <1>3, <1>4, <2>1, <2>2
    <2>3. CASE d # e
      BY <1>1, <2>1, <2>3 DEF Recorded
    <2> QED
      BY <2>2, <2>3
  <1>7. ASSUME NEW d \in Docs,
               \/ Prepare(d) \/ PrepareError(d) \/ FailUnloadable(d) \/ FailUnclaimed(d)
               \/ FailError(d) \/ RecordFailed(d)
        PROVE  Recorded(e)' = Recorded(e)
    <2>1. \/ UNCHANGED slips
          \/ slips' = [slips EXCEPT ![d] = Claimed(slips[d])]
          \/ slips' = [slips EXCEPT ![d] = Failed(slips[d])]
      BY <1>1, <1>7 DEF Prepare, PrepareError, FailUnloadable, FailUnclaimed, FailError,
         RecordFailed, FailRender, FailWaiting, TypeOK
    <2>2. CASE d = e
      BY <1>1, <1>2, <1>3, <1>4, <2>1, <2>2
    <2>3. CASE d # e
      BY <1>1, <2>1, <2>3 DEF Recorded
    <2> QED
      BY <2>2, <2>3
  <1>8. ASSUME NEW d \in Docs, RecordReady(d) \/ RecordError(d)
        PROVE  Recorded(e)' = Recorded(e) \/ (RecordReady(e) /\ HoldsClaim(e))
    <2>1. CASE UNCHANGED slips
      BY <1>2, <2>1
    <2>2. CASE RecordReady(d) /\ HoldsClaim(d)
      <3>1. slips' = [slips EXCEPT ![d] = Ready(slips[d], jobs[d])]
        BY <1>1, <2>2 DEF RecordReady
      <3> QED
        BY <1>1, <2>2, <3>1 DEF Recorded
    <2> QED
      BY <1>8, <2>1, <2>2 DEF RecordReady, RecordError
  <1>9. CASE Requests
    <2>1. ASSUME NEW d \in Docs, ReadAttachment(d) \/ QueueMail(d) \/ VerifyMail(d) \/ CloseMail(d)
          PROVE  UNCHANGED slips
      BY <2>1 DEF ReadAttachment, QueueMail, VerifyMail, CloseMail
    <2> QED
      BY <1>2, <1>6, <1>9, <2>1 DEF Requests
  <1>10. CASE Worker
    <2>1. CASE \/ Receive \/ Drain \/ PrepareUnavailable \/ Convert
               \/ OpenRecord \/ RecordUnavailable \/ DeleteReplaced \/ Panic
      BY <1>2, <2>1 DEF Receive, Drain, PrepareUnavailable, Convert, OpenRecord,
         RecordUnavailable, DeleteReplaced, Panic, rowVars
    <2>2. ASSUME NEW d \in Docs, Store(d) PROVE UNCHANGED slips
      BY <2>2 DEF Store, rowVars
    <2> QED
      BY <1>2, <1>7, <1>8, <1>10, <2>1, <2>2 DEF Worker
  <1>11. CASE Sweep \/ Crash \/ UNCHANGED vars \/ \E d \in Docs : Enqueue(d)
    BY <1>2, <1>11 DEF Sweep, Crash, vars, rowVars, Enqueue
  <1> QED
    BY <1>6, <1>9, <1>10, <1>11 DEF Next


(* A file, a row or a job that a step leaves alone keeps the file named.     *)
LEMMA OrphanKept ==
  ASSUME RenderInv, OrphanInv, faults' = faults, UNCHANGED <<disk, replaced>>,
         \A d \in Docs : Recorded(d)' = Recorded(d),
         \A d \in Docs : jobs[d].state = "stored" <=> jobs'[d].state = "stored",
         \A d \in Docs : jobs[d].state = "stored" => FileOf(jobs[d]) = FileOf(jobs'[d]),
         pc \in {"store", "record"} => pc' \in {"store", "record"}
  PROVE  OrphanInv'
  BY DEF OrphanInv, NoOrphanFiles

(* After a fault nothing is claimed of the files but their names.           *)
LEMMA OrphanFault ==
  ASSUME RenderInv, faults' = faults + 1, disk' \subseteq disk,
         \A f \in disk : f.path # 0,
         \A d \in Docs : jobs'[d].state = "stored" => pc' \in {"store", "record"}
  PROVE  OrphanInv'
  BY DEF OrphanInv, NoOrphanFiles, RenderInv, TypeOK


(* RecordReady of a superseded render deletes just the file it wrote, that   *)
(* of a current one leaves its old file to be deleted.                      *)
LEMMA OrphanReady ==
  ASSUME RenderInv, OrphanInv, NEW d \in Docs, RecordReady(d),
         \A e \in Docs : e # d => Recorded(e)' = Recorded(e),
         ~HoldsClaim(d) => Recorded(d)' = Recorded(d)
  PROVE  OrphanInv'
  <1>1. /\ jobs[d].state = "stored" /\ jobs' = [jobs EXCEPT ![d] = NoJob]
        /\ pc = "record" /\ pc' = pc /\ faults' = faults
    BY DEF RecordReady, boundVars
  <1>2. DOMAIN jobs = Docs /\ DOMAIN slips = Docs /\ slips[d] \in Slip /\ jobs[d] \in Job
    BY DEF RenderInv, TypeOK
  <1>3. /\ jobs'[d].state = "none"
        /\ \A e \in Docs : e # d => jobs'[e] = jobs[e]
    BY <1>1, <1>2, JobFields
  <1>4. disk' \subseteq disk
    BY DEF RecordReady
  <1>5. (\A f \in disk' : f.path # 0)
        /\ \A e \in Docs : jobs'[e].state = "stored" => pc' \in {"store", "record"}
    BY <1>1, <1>4 DEF OrphanInv
  <1>6. ASSUME faults' = 0, NEW f \in disk'
        PROVE  \/ \E e \in Docs : f = Recorded(e)'
               \/ \E e \in Docs : jobs'[e].state = "stored" /\ f = FileOf(jobs'[e])
               \/ f.path \in replaced'
    <2>1. f \in disk /\ f.path # 0
      BY <1>4 DEF OrphanInv
    <2>2. \/ \E e \in Docs : f = Recorded(e)
          \/ \E e \in Docs : jobs[e].state = "stored" /\ f = FileOf(jobs[e])
          \/ f.path \in replaced
      BY <1>1, <1>6, <2>1 DEF OrphanInv, NoOrphanFiles
    <2>3. replaced \subseteq replaced'
      BY DEF RecordReady
    <2>4. ASSUME NEW e \in Docs, e # d, f = Recorded(e) \/ (jobs[e].state = "stored" /\ f = FileOf(jobs[e]))
          PROVE  f = Recorded(e)' \/ (jobs'[e].state = "stored" /\ f = FileOf(jobs'[e]))
      BY <1>3, <2>4
    <2>5. CASE HoldsClaim(d)
      <3>1. slips' = [slips EXCEPT ![d] = Ready(slips[d], jobs[d])]
            /\ replaced' = replaced \cup Superseded(slips[d], jobs[d])
        BY <1>2, <2>5 DEF RecordReady
      <3>2. Recorded(d)' = FileOf(jobs[d])
        <4>1. slips'[d].pdf = jobs[d].claim /\ slips'[d].sha = jobs[d].payload
          BY <1>2, <3>1 DEF Ready, Slip
        <4> QED
          BY <4>1 DEF Recorded, FileOf
      <3>3. f = Recorded(d) => f.path \in replaced'
        <4>1. jobs[d].claim # slips[d].pdf
          BY <1>1 DEF RenderInv, JobsInv, PathsInv
        <4>2. f = Recorded(d) => f.path = slips[d].pdf
          BY DEF Recorded
        <4> QED
          BY <2>1, <3>1, <4>1, <4>2 DEF Superseded
      <3> QED
        BY <2>2, <2>3, <2>4, <3>2, <3>3
    <2>6. CASE ~HoldsClaim(d)
      <3>1. f # FileOf(jobs[d])
        BY <2>6 DEF RecordReady
      <3> QED
        BY <2>2, <2>3, <2>4, <2>6, <3>1
    <2> QED
      BY <2>5, <2>6
  <1> QED
    BY <1>5, <1>6 DEF OrphanInv, NoOrphanFiles

LEMMA OrphanNext ==
  ASSUME ~LostReplies, RenderInv, OrphanInv, [Next]_vars
  PROVE  OrphanInv'
  <1>1. /\ DOMAIN jobs = Docs /\ \A d \in Docs : jobs[d] \in Job
        /\ \A f \in disk : f.path # 0
    BY DEF RenderInv, TypeOK, OrphanInv
  <1>2. \A e \in Docs : Recorded(e)' = Recorded(e) \/ (RecordReady(e) /\ HoldsClaim(e))
    BY RecordedKept
  <1>3. ASSUME NEW d \in Docs, RecordReady(d) PROVE OrphanInv'
    <2>1. \A e \in Docs : e # d => Recorded(e)' = Recorded(e)
      <3>1. DOMAIN slips = Docs
        BY DEF RenderInv, TypeOK
      <3> QED
        BY <1>3, <3>1 DEF RecordReady, Recorded
    <2>2. ~HoldsClaim(d) => Recorded(d)' = Recorded(d)
      BY <1>2
    <2> QED
      BY <1>3, <2>1, <2>2, OrphanReady
  <1>4. CASE ~\E d \in Docs : RecordReady(d)
    <2>1. \A e \in Docs : Recorded(e)' = Recorded(e)
      BY <1>2, <1>4
    <2>2. CASE Requests \/ Sweep \/ Receive \/ Drain \/ UNCHANGED vars
               \/ \E d \in Docs : Enqueue(d) \/ GoStale(d)
      <3>1. /\ UNCHANGED <<disk, replaced, jobs>> /\ faults' = faults
            /\ pc \in {"store", "record"} => pc' = pc
        BY <2>2 DEF Requests, StoreSnapshot, ReadAttachment, QueueMail, VerifyMail, CloseMail,
           MarkSent, Void, Sweep, Receive, Drain, vars, Enqueue, GoStale, workerVars, boundVars
      <3> QED
        BY <2>1, <3>1, OrphanKept
    <2>3. CASE Convert \/ OpenRecord
      <3>1. /\ UNCHANGED <<disk, replaced>> /\ faults' = faults
            /\ pc \in {"store", "record"} => pc' \in {"store", "record"}
        BY <2>3 DEF Convert, OpenRecord, boundVars
      <3>2. CASE OpenRecord
        BY <2>1, <3>1, <3>2, OrphanKept DEF OpenRecord
      <3>3. CASE Convert
        <4>1. \A d \in Docs : jobs[d].state # "stored"
          BY <3>3 DEF Convert, OrphanInv
        <4>2. \A d \in Docs : jobs'[d].state # "stored"
          BY <1>1, <3>3, <4>1, JobFields DEF Convert
        <4> QED
          BY <2>1, <3>1, <4>1, <4>2, OrphanKept
      <3> QED
        BY <2>3, <3>2, <3>3
    <2>4. ASSUME NEW d \in Docs, Prepare(d) \/ FailUnloadable(d) \/ FailUnclaimed(d) \/ RecordFailed(d)
          PROVE  OrphanInv'
      <3>1. /\ UNCHANGED <<disk, replaced, pc>> /\ faults' = faults
            /\ jobs[d].state # "stored" /\ jobs'[d].state # "stored"
            /\ \A e \in Docs : e # d => jobs'[e] = jobs[e]
        BY <1>1, <2>4, JobFields DEF Prepare, FailUnloadable, FailUnclaimed, RecordFailed, OrphanInv,
           boundVars
      <3> QED
        BY <2>1, <3>1, OrphanKept
    <2>5. ASSUME NEW d \in Docs, Store(d) PROVE OrphanInv'
      <3>1. /\ UNCHANGED <<replaced, pc>> /\ faults' = faults /\ pc = "store"
            /\ jobs[d].state = "converted"
            /\ \A e \in Docs : e # d => jobs'[e] = jobs[e]
        BY <1>1, <2>5 DEF Store, boundVars
      <3>2. CASE disk' = disk
        <4>1. jobs'[d].state = "failed" \/ (jobs'[d].state = "stored" /\ FileOf(jobs'[d]) \in disk)
          BY <1>1, <2>5, <3>2, JobFields DEF Store
        <4> QED
          BY <2>1, <3>1, <3>2, <4>1 DEF OrphanInv, NoOrphanFiles
      <3>3. CASE disk' = disk \cup {FileOf(jobs[d])} /\ jobs' = [jobs EXCEPT ![d] = WithState(@, "stored")]
        <4>1. jobs'[d].state = "stored" /\ FileOf(jobs'[d]) = FileOf(jobs[d])
          BY <1>1, <3>3, JobFields
        <4>2. FileOf(jobs[d]).path # 0
          BY <3>1 DEF RenderInv, JobsInv, FileOf
        <4> QED
          BY <1>1, <2>1, <3>1, <3>3, <4>1, <4>2 DEF OrphanInv, NoOrphanFiles
      <3> QED
        BY <2>5, <3>2, <3>3 DEF Store
    <2>6. CASE DeleteReplaced
      <3>1. /\ disk' = {f \in disk : f.path \notin replaced} /\ UNCHANGED jobs /\ faults' = faults
            /\ \A d \in Docs : jobs[d].state = "none"
        BY <2>6 DEF DeleteReplaced, HasJob, boundVars
      <3> QED
        BY <2>1, <3>1 DEF OrphanInv, NoOrphanFiles
    <2>7. CASE PrepareUnavailable \/ RecordUnavailable \/ Panic \/ Crash
      <3>1. /\ faults' = faults + 1 /\ disk' \subseteq disk
            /\ \A d \in Docs : jobs'[d].state # "stored"
        BY <2>7, JobFields DEF PrepareUnavailable, RecordUnavailable, Panic, Crash, HasJob
      <3> QED
        BY <1>1, <3>1, OrphanFault
    <2>8. ASSUME NEW d \in Docs, PrepareError(d) \/ FailError(d) \/ RecordError(d) PROVE OrphanInv'
      <3>1. /\ faults' = faults + 1 /\ disk' \subseteq disk /\ UNCHANGED pc
            /\ jobs'[d].state # "stored" /\ \A e \in Docs : e # d => jobs'[e] = jobs[e]
        BY <1>1, <2>8, JobFields DEF PrepareError, FailError, RecordError
      <3> QED
        BY <1>1, <3>1, OrphanFault DEF OrphanInv
    <2> QED
      BY <1>4, <2>2, <2>3, <2>4, <2>5, <2>6, <2>7, <2>8 DEF Next, Worker
  <1> QED
    BY <1>3, <1>4

(* As long as no crash, panic or database error happened, every file of the  *)
(* store is recorded by a row, about to be recorded, or about to be deleted: *)
(* superseded renders and replaced PDFs leave nothing behind.               *)
THEOREM FilesAreAccountedFor ==
  ASSUME ~LostReplies
  PROVE  Spec => []NoOrphanFiles
  <1>1. RenderInv /\ OrphanInv /\ [Next]_vars => OrphanInv'
    BY OrphanNext
  <1>2. OrphanInv => NoOrphanFiles
    BY DEF OrphanInv
  <1> QED
    BY <1>1, <1>2, OrphanInit, RenderSafe, PTL DEF Spec

LEMMA FailureStep ==
  ASSUME ~LostReplies, RenderInv, [Next]_vars, NEW e \in Docs,
         slips[e].render # "failed", slips'[e].render = "failed", jobs[e].state # "unclaimed"
  PROVE  jobs[e].payload = slips[e].payload
  <1>1. TypeOK /\ DOMAIN slips = Docs /\ edits \in Nat /\ lastId \in Nat /\ converter \in BOOLEAN
        /\ \A d \in Docs : slips[d] \in Slip /\ jobs[d] \in Job
    BY DEF RenderInv, TypeOK
  <1>2. ASSUME NEW d \in Docs, FailRender(d, jobs[d].claim), jobs[d].claim # 0
        PROVE  jobs[e].payload = slips[e].payload
    <2>1. d = e /\ Carries(slips[d], jobs[d].claim)
      BY <1>1, <1>2 DEF FailRender
    <2> QED
      BY <1>2, <2>1 DEF RenderInv, JobsInv
  <1>3. ASSUME NEW d \in Docs, FailUnloadable(d) \/ RecordFailed(d)
        PROVE  jobs[e].payload = slips[e].payload
    <2>1. FailRender(d, jobs[d].claim) /\ jobs[d].claim # 0
      BY <1>3 DEF FailUnloadable, RecordFailed, RenderInv, JobsInv
    <2> QED
      BY <1>2, <2>1
  <1>4. ~UNCHANGED slips
    OBVIOUS
  <1>5. ASSUME NEW d \in Docs, StoreSnapshot(d) \/ MarkSent(d) \/ Void(d) \/ GoStale(d)
        PROVE  FALSE
    <2>1. \/ UNCHANGED slips
          \/ slips' = [slips EXCEPT ![d] = Rewritten(slips[d])]
          \/ slips' = [slips EXCEPT ![d] = Aged(slips[d])]
          \/ \E status \in {"sent", "void"} :
               slips' = [slips EXCEPT ![d] = WithStatus(slips[d], status)]
      BY <1>1, <1>5 DEF StoreSnapshot, MarkSent, Void, GoStale, TypeOK
    <2>2. /\ Rewritten(slips[d]).render # "failed" /\ Aged(slips[d]).render = slips[d].render
          /\ \A status : WithStatus(slips[d], status).render = slips[d].render
      BY <1>1, RowFields, StatusFields
    <2> QED
      BY <1>1, <2>1, <2>2
  <1>6. ASSUME NEW d \in Docs,
               \/ Prepare(d) \/ PrepareError(d) \/ FailError(d) \/ RecordReady(d) \/ RecordError(d)
        PROVE  FALSE
    <2>1. \/ UNCHANGED slips
          \/ slips' = [slips EXCEPT ![d] = Claimed(slips[d])]
          \/ slips' = [slips EXCEPT ![d] = Ready(slips[d], jobs[d])]
      BY <1>1, <1>6 DEF Prepare, PrepareError, FailError, RecordReady, RecordError, TypeOK
    <2>2. Claimed(slips[d]).render # "failed" /\ Ready(slips[d], jobs[d]).render # "failed"
      BY <1>1, RowFields
    <2> QED
      BY <1>1, <2>1, <2>2
  <1>7. ASSUME NEW d \in Docs, FailUnclaimed(d) PROVE FALSE
    BY <1>1, <1>7 DEF FailUnclaimed, FailWaiting
  <1>8. CASE Requests
    <2>1. ASSUME NEW d \in Docs, ReadAttachment(d) \/ QueueMail(d) \/ VerifyMail(d) \/ CloseMail(d)
          PROVE  FALSE
      BY <1>4, <2>1 DEF ReadAttachment, QueueMail, VerifyMail, CloseMail
    <2> QED
      BY <1>5, <1>8, <2>1 DEF Requests
  <1>9. CASE Worker
    <2>1. CASE \/ Receive \/ Drain \/ PrepareUnavailable \/ Convert
               \/ OpenRecord \/ RecordUnavailable \/ DeleteReplaced \/ Panic
      BY <1>4, <2>1 DEF Receive, Drain, PrepareUnavailable, Convert, OpenRecord,
         RecordUnavailable, DeleteReplaced, Panic, rowVars
    <2>2. ASSUME NEW d \in Docs, Store(d) PROVE FALSE
      BY <1>4, <2>2 DEF Store, rowVars
    <2> QED
      BY <1>3, <1>6, <1>7, <1>9, <2>1, <2>2 DEF Worker
  <1>10. CASE Sweep \/ Crash \/ UNCHANGED vars \/ \E d \in Docs : Enqueue(d)
    BY <1>4, <1>10 DEF Sweep, Crash, vars, rowVars, Enqueue
  <1> QED
    BY <1>5, <1>8, <1>9, <1>10 DEF Next

(* A failure the worker records under its claim is about the snapshot the    *)
(* row holds: a slow render never fails the generation that replaced it.    *)
THEOREM FailuresAreCurrent ==
  ASSUME ~LostReplies
  PROVE  Spec => FailureIsCurrent
  <1>1. RenderInv /\ [Next]_vars =>
          [\A d \in Docs :
              /\ slips[d].render # "failed" /\ slips'[d].render = "failed"
              /\ jobs[d].state # "unclaimed"
              => jobs[d].payload = slips[d].payload]_vars
    BY FailureStep
  <1> QED
    BY <1>1, RenderSafe, PTL DEF Spec, FailureIsCurrent

=============================================================================
