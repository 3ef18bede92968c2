----------------------------- MODULE PayslipSend -----------------------------
(***************************************************************************)
(* E-mailing payslips of one employee: the send requests and background    *)
(* batches (service/hris/payslips.go, document_mailer.go), the delivery     *)
(* log (repository/notifications/email_deliveries.go, service/auth/        *)
(* document_mail.go), and the requests that generate, edit and void slips   *)
(* meanwhile (repository/hris/payslips.go).                                *)
(*                                                                         *)
(* No transaction spans a send: every action below is one statement, one   *)
(* SMTP exchange, or the reads between two statements; the guarded UPDATE  *)
(* of a draft is two, as READ COMMITTED makes it.  A slip is a period      *)
(* and a revision; a snapshot is the number of the write that stored it.   *)
(* Rendering, attachments and claims are DocumentRender's business.        *)
(***************************************************************************)
EXTENDS Integers, FiniteSets

CONSTANTS
    Periods,       \* months, ordered
    MaxRevision,   \* bound: revisions of a period's slip
    Items,         \* bonuses and reimbursements
    Senders,       \* attempts to send one slip, each with its delivery row
    Editors,       \* requests that store or void slips, reused one after another
    MaxWrites,     \* bound: snapshots stored in a behaviour
    MaxFaults      \* bound: restarts, lost clients and errors in a behaviour

ASSUME PeriodsAssumption == Periods \subseteq Nat
ASSUME BoundsAssumption == MaxRevision \in Nat /\ MaxWrites \in Nat /\ MaxFaults \in Nat

VARIABLES
    slips,         \* the payslips table
    deliveries,    \* the email_deliveries table, one row per sender
    senders,       \* what each sender is doing
    editors,       \* what each editing request is doing
    mailed,        \* what the SMTP server accepted
    writes, faults \* counters of the bounds

vars == <<slips, deliveries, senders, editors, mailed, writes, faults>>

-----------------------------------------------------------------------------

Slips == Periods \X (0..MaxRevision)

(* The slip a reissue replaces, and the slip that would replace one. *)
Replaced(d) == <<d[1], d[2] - 1>>
Reissue(d) == <<d[1], d[2] + 1>>

Row == [status : {"absent", "draft", "sent", "void"}, content : Nat, items : SUBSET Items]
RowOf(status, content, items) == [status |-> status, content |-> content, items |-> items]
NoRow == RowOf("absent", 0, {})

Delivery == [status : {"none", "queued", "sending", "sent", "failed"},
             slip : Slips, stale : BOOLEAN]

(* "queued" .. "delivered" are the stages between two statements of a send; *)
(* "mismatch" is a delivered slip whose row no longer is what was mailed.   *)
(* History: "raced" says that an UPDATE of the slip was still running when   *)
(* verifyQueued looked.                                                    *)
Sender == [step : {"idle", "ready", "queued", "verified", "cancelling", "sending",
                   "accepted", "rejected", "delivered", "mismatch", "done"},
           slip : Slips, read : Row, raced : BOOLEAN]

Editor == [step : {"idle", "storing", "updating", "voiding"},
           slip : Slips, creates : BOOLEAN, items : SUBSET Items]

Init ==
    /\ slips = [d \in Slips |-> NoRow]
    /\ \E d \in Slips :
         /\ deliveries = [s \in Senders |-> [status |-> "none", slip |-> d, stale |-> FALSE]]
         /\ senders = [s \in Senders |-> [step |-> "idle", slip |-> d, read |-> NoRow,
                                          raced |-> FALSE]]
         /\ editors = [e \in Editors |->
                         [step |-> "idle", slip |-> d, creates |-> FALSE, items |-> {}]]
    /\ mailed = {}
    /\ writes = 0 /\ faults = 0

Active(row) == row.status \in {"draft", "sent"}

(* A queued or sending delivery row of the slip. *)
HoldsGuard(s) == deliveries[s].status \in {"queued", "sending"}

InFlight(d) == \E s \in Senders : deliveries[s].slip = d /\ HoldsGuard(s)

(* OverlappingSlip: another slip with a common item is sent, or is a draft  *)
(* being e-mailed.                                                         *)
Overlaps(d) ==
    \E o \in Slips \ {d} :
        /\ slips[o].items \cap slips[d].items # {}
        /\ \/ slips[o].status = "sent"
           \/ slips[o].status = "draft" /\ InFlight(o)

(* ConsumedItemIDs: what a slip of this period must not take.              *)
Consumed(period) ==
    UNION {slips[o].items : o \in {x \in Slips :
              \/ slips[x].status = "sent"
              \/ slips[x].status = "draft" /\ x[1] < period}}

-----------------------------------------------------------------------------
(* Storing and voiding *)

PinnedItems_Any(d) == {slips[d].items} \cup SUBSET (Items \ Consumed(d[1]))

(* What assembleFor may select for the slip: a reissue keeps the voided     *)
(* slip's items; otherwise any items not consumed (which of them the records *)
(* and the carry-over windows allow is left open).                          *)
PinnedItems(d) ==
    IF d[2] = 0 THEN SUBSET (Items \ Consumed(d[1])) ELSE {slips[Replaced(d)].items}

EditorWith(step, d, creates, items) ==
    [step |-> step, slip |-> d, creates |-> creates, items |-> items]

(* generateOne up to storeSnapshot: the period's draft, or its first slip.  *)
Generate(e, d) ==
    /\ editors[e].step = "idle"
    /\ \/ slips[d].status = "draft" /\ ~InFlight(d)
       \/ d[2] = 0 /\ slips[d].status = "absent"
    /\ \E items \in PinnedItems(d) :
         editors' = [editors EXCEPT ![e] =
                       EditorWith("storing", d, slips[d].status = "absent", items)]
    /\ UNCHANGED <<slips, deliveries, senders, mailed, writes, faults>>

(* Update up to UpdateDraftSnapshot: the note and manual lines change, the  *)
(* items are the ones just read.                                           *)
Update(e, d) ==
    /\ editors[e].step = "idle"
    /\ slips[d].status = "draft" /\ ~InFlight(d)
    /\ editors' = [editors EXCEPT ![e] = EditorWith("storing", d, FALSE, slips[d].items)]
    /\ UNCHANGED <<slips, deliveries, senders, mailed, writes, faults>>

Idle(editor) == [editor EXCEPT !.step = "idle"]

Stored(d, items) ==
    /\ slips' = [slips EXCEPT ![d] = RowOf("draft", writes + 1, items)]
    /\ writes' = writes + 1

(* Create: one active slip per period (uq_payslips_active), one row per     *)
(* document number.                                                        *)
Create(e) ==
    /\ editors[e].step = "storing" /\ editors[e].creates
    /\ writes < MaxWrites
    /\ IF \/ slips[editors[e].slip].status # "absent"
          \/ \E o \in Slips : o[1] = editors[e].slip[1] /\ Active(slips[o])
       THEN UNCHANGED <<slips, writes>>
       ELSE Stored(editors[e].slip, editors[e].items)
    /\ editors' = [editors EXCEPT ![e] = Idle(@)]
    /\ UNCHANGED <<deliveries, senders, mailed, faults>>

NotSending_Always(d) == TRUE

(* payslipNotSending. *)
NotSending(d) == ~InFlight(d)

(* UpdateDraftSnapshot under READ COMMITTED: the subquery on the delivery   *)
(* rows sees what was committed when the statement began ...               *)
BeginUpdate(e) ==
    LET d == editors[e].slip IN
    /\ editors[e].step = "storing" /\ ~editors[e].creates
    /\ writes < MaxWrites
    /\ editors' = [editors EXCEPT ![e] = IF slips[d].status = "draft" /\ NotSending(d)
                                        THEN [@ EXCEPT !.step = "updating"] ELSE Idle(@)]
    /\ UNCHANGED <<slips, deliveries, senders, mailed, writes, faults>>

(* ... while the row itself is checked again when it was updated meanwhile. *)
StillDraft(d) == slips[d].status = "draft"

CommitUpdate(e) ==
    /\ editors[e].step = "updating"
    /\ writes < MaxWrites
    /\ IF StillDraft(editors[e].slip) THEN Stored(editors[e].slip, editors[e].items)
                                      ELSE UNCHANGED <<slips, writes>>
    /\ editors' = [editors EXCEPT ![e] = Idle(@)]
    /\ UNCHANGED <<deliveries, senders, mailed, faults>>

(* VoidReissue up to its transaction. *)
CheckVoid(e, d) ==
    /\ editors[e].step = "idle"
    /\ slips[d].status = "sent" /\ ~InFlight(d)
    /\ d[2] < MaxRevision
    /\ editors' = [editors EXCEPT ![e] = EditorWith("voiding", d, TRUE, slips[d].items)]
    /\ UNCHANGED <<slips, deliveries, senders, mailed, writes, faults>>

(* Its transaction: the sent slip becomes void and the next revision is a   *)
(* draft with the same items.                                              *)
VoidReissue(e) ==
    LET d == editors[e].slip IN
    /\ editors[e].step = "voiding"
    /\ writes < MaxWrites
    /\ IF slips[d].status = "sent"
       THEN /\ slips' = [slips EXCEPT ![d].status = "void",
                                      ![Reissue(d)] =
                                          RowOf("draft", writes + 1, editors[e].items)]
            /\ writes' = writes + 1
       ELSE UNCHANGED <<slips, writes>>
    /\ editors' = [editors EXCEPT ![e] = Idle(@)]
    /\ UNCHANGED <<deliveries, senders, mailed, faults>>

-----------------------------------------------------------------------------
(* Sending *)

AtStep(s, step) == senders[s].step = step

MovesTo(s, step) == senders' = [senders EXCEPT ![s].step = step]

Logged(s, status) == deliveries' = [deliveries EXCEPT ![s].status = status, ![s].stale = FALSE]

(* Send or selectForSend: reads a slip that may be sent and builds the mail *)
(* from it.                                                                *)
Load(s, d) ==
    /\ AtStep(s, "idle")
    /\ Active(slips[d])
    /\ slips[d].status = "draft" => ~Overlaps(d)
    /\ senders' = [senders EXCEPT ![s] = [step |-> "ready", slip |-> d, read |-> slips[d],
                                          raced |-> FALSE]]
    /\ UNCHANGED <<slips, deliveries, editors, mailed, writes, faults>>

GuardFree_Always(d) == TRUE

(* The in-flight unique index of email_deliveries. *)
GuardFree(d) == ~InFlight(d)

(* Enqueue: the queued delivery row, which takes the double-send guard and  *)
(* freezes the draft.                                                      *)
Enqueue(s) ==
    LET d == senders[s].slip IN
    /\ AtStep(s, "ready")
    /\ IF GuardFree(d)
       THEN /\ deliveries' = [deliveries EXCEPT ![s] = [status |-> "queued", slip |-> d, stale |-> FALSE]]
            /\ MovesTo(s, "queued")
       ELSE /\ MovesTo(s, "done")
            /\ UNCHANGED deliveries
    /\ UNCHANGED <<slips, editors, mailed, writes, faults>>

Verified_ReadOnly(d, read) == slips[d].status = read.status /\ slips[d].content = read.content

(* verifyQueued: still what the attachment was built from, and sendable.    *)
Verified(d, read) ==
    /\ slips[d].status = read.status /\ slips[d].content = read.content
    /\ slips[d].status = "draft" => ~Overlaps(d)

(* An UPDATE of the slip has begun and not committed. *)
Updating(d) == \E e \in Editors : editors[e].step = "updating" /\ editors[e].slip = d

(* It may also refuse because an item's record changed. *)
Verify(s) ==
    LET d == senders[s].slip IN
    /\ AtStep(s, "queued")
    /\ \/ /\ Verified(d, senders[s].read)
          /\ senders' = [senders EXCEPT ![s].step = "verified", ![s].raced = Updating(d)]
       \/ MovesTo(s, "cancelling")
    /\ UNCHANGED <<slips, deliveries, editors, mailed, writes, faults>>

(* CancelQueued. *)
Cancel(s) ==
    /\ AtStep(s, "cancelling")
    /\ Logged(s, "failed")
    /\ MovesTo(s, "done")
    /\ UNCHANGED <<slips, editors, mailed, writes, faults>>

(* MarkSending continues only a row that is still queued. *)
MaySend(s) == deliveries[s].status = "queued"

(* Deliver up to the SMTP exchange (startQueued); a row that went stale, or *)
(* a mail account that is not ready, ends in CancelQueued.                  *)
Start(s) ==
    /\ AtStep(s, "verified")
    /\ \/ MaySend(s) /\ Logged(s, "sending") /\ MovesTo(s, "sending")
       \/ MovesTo(s, "cancelling") /\ UNCHANGED deliveries
    /\ UNCHANGED <<slips, editors, mailed, writes, faults>>

Mail(s) == [by |-> s, slip |-> senders[s].slip, content |-> senders[s].read.content]

(* The SMTP exchange, external: accepted or refused. *)
Transmit(s) ==
    /\ AtStep(s, "sending")
    /\ \/ MovesTo(s, "accepted") /\ mailed' = mailed \cup {Mail(s)}
       \/ MovesTo(s, "rejected") /\ UNCHANGED mailed
    /\ UNCHANGED <<slips, deliveries, editors, writes, faults>>

(* It times out after the server accepted the message. *)
LateAccept(s) ==
    /\ AtStep(s, "sending")
    /\ faults < MaxFaults
    /\ faults' = faults + 1
    /\ MovesTo(s, "rejected")
    /\ mailed' = mailed \cup {Mail(s)}
    /\ UNCHANGED <<slips, deliveries, editors, writes>>

(* The outcome of the delivery row: MarkSent or MarkFailed, whatever status *)
(* the row has by now.                                                     *)
LogOutcome(s) ==
    /\ \/ AtStep(s, "accepted") /\ Logged(s, "sent") /\ MovesTo(s, "delivered")
       \/ AtStep(s, "rejected") /\ Logged(s, "failed") /\ MovesTo(s, "done")
    /\ UNCHANGED <<slips, editors, mailed, writes, faults>>

(* The statement failed: logged, and the send goes on. *)
LogError(s) ==
    /\ faults < MaxFaults
    /\ faults' = faults + 1
    /\ \/ AtStep(s, "accepted") /\ MovesTo(s, "delivered")
       \/ AtStep(s, "rejected") /\ MovesTo(s, "done")
    /\ UNCHANGED <<slips, deliveries, editors, mailed, writes>>

Marks_AnyContent(row, read) == row.status = "draft"

(* MarkSent's condition: still the draft that was mailed. *)
Marks(row, read) == row.status = "draft" /\ row.content = read.content

(* markSent: the draft that was mailed becomes sent, a sent slip stays sent; *)
(* anything else is a mismatch.                                            *)
MarkSlip(s) ==
    LET d == senders[s].slip IN
    /\ AtStep(s, "delivered")
    /\ IF Marks(slips[d], senders[s].read)
       THEN slips' = [slips EXCEPT ![d].status = "sent"] /\ MovesTo(s, "done")
       ELSE /\ MovesTo(s, IF slips[d].status = "sent" THEN "done" ELSE "mismatch")
            /\ UNCHANGED slips
    /\ UNCHANGED <<deliveries, editors, mailed, writes, faults>>

(* A statement of the sender fails, or its client is gone: the request      *)
(* context is cancelled, CancelQueued and markSent included.  Only Deliver  *)
(* runs on WithoutCancel.                                                  *)
Abandon(s) ==
    /\ senders[s].step \in {"ready", "queued", "verified", "cancelling", "delivered"}
    /\ faults < MaxFaults
    /\ faults' = faults + 1
    /\ MovesTo(s, "done")
    /\ UNCHANGED <<slips, deliveries, editors, mailed, writes>>

Exchanging_Never(s) == FALSE

(* A live sender between MarkSending and the outcome: at most 20 s of SMTP  *)
(* (documentMailSendTimeout), against a stale window of 10 minutes.         *)
Exchanging(s) == senders[s].step \in {"sending", "accepted", "rejected"}

(* The clock: an in-flight row has not moved for the stale window.          *)
GoStale(s) ==
    /\ HoldsGuard(s) /\ ~deliveries[s].stale /\ ~Exchanging(s)
    /\ deliveries' = [deliveries EXCEPT ![s].stale = TRUE]
    /\ UNCHANGED <<slips, senders, editors, mailed, writes, faults>>

Releasable_Queued(s) == deliveries[s].stale /\ deliveries[s].status = "queued"

Releasable(s) == deliveries[s].stale /\ HoldsGuard(s)

(* FailStaleInFlight before an in-flight check or an Enqueue of one slip,   *)
(* FailStaleDocuments on the tenant's ticker.                              *)
ReleaseStale ==
    /\ \E s \in Senders : Releasable(s)
    /\ \E d \in SUBSET {deliveries[s].slip : s \in {x \in Senders : Releasable(x)}} :
         /\ d # {}
         /\ deliveries' = [s \in Senders |->
                             IF Releasable(s) /\ deliveries[s].slip \in d
                             THEN [deliveries[s] EXCEPT !.status = "failed", !.stale = FALSE]
                             ELSE deliveries[s]]
    /\ UNCHANGED <<slips, senders, editors, mailed, writes, faults>>

(* The process restarts: requests and batches are gone, rows and statements *)
(* already at the database remain.                                         *)
Crash ==
    /\ faults < MaxFaults
    /\ faults' = faults + 1
    /\ senders' = [s \in Senders |-> IF senders[s].step \in {"idle", "mismatch"} THEN senders[s]
                                     ELSE [senders[s] EXCEPT !.step = "done"]]
    /\ editors' = [e \in Editors |-> IF editors[e].step = "updating" THEN editors[e]
                                     ELSE Idle(editors[e])]
    /\ UNCHANGED <<slips, deliveries, mailed, writes>>

-----------------------------------------------------------------------------

Edit(e) == \/ \E d \in Slips : Generate(e, d) \/ Update(e, d) \/ CheckVoid(e, d)
           \/ Create(e) \/ BeginUpdate(e) \/ CommitUpdate(e) \/ VoidReissue(e)

Proceed(s) == \/ Enqueue(s) \/ Verify(s) \/ Cancel(s) \/ Start(s) \/ Transmit(s)
              \/ LogOutcome(s) \/ MarkSlip(s)

Next ==
    \/ \E e \in Editors : Edit(e)
    \/ \E s \in Senders : \/ \E d \in Slips : Load(s, d)
                          \/ Proceed(s) \/ LateAccept(s) \/ LogError(s) \/ Abandon(s) \/ GoStale(s)
    \/ ReleaseStale \/ Crash

Spec == Init /\ [][Next]_vars

(* A sender that started goes on, the clock passes the stale window, and    *)
(* the tenant's ticker sweeps.  Nothing is assumed of edits or faults.      *)
Fairness ==
    /\ \A s \in Senders : WF_vars(Proceed(s)) /\ WF_vars(GoStale(s))
    /\ WF_vars(ReleaseStale)

FairSpec == Spec /\ Fairness

-----------------------------------------------------------------------------
(* Properties *)

OneActive == \A c, d \in Slips :
    c[1] = d[1] /\ Active(slips[c]) /\ Active(slips[d]) => c = d

OneInFlight == \A s, t \in Senders :
    HoldsGuard(s) /\ HoldsGuard(t) /\ deliveries[s].slip = deliveries[t].slip => s = t

(* Types, and what the unique indexes promise: one active slip per period,  *)
(* one delivery in flight per slip.                                        *)
TypeOK ==
    /\ slips \in [Slips -> Row]
    /\ deliveries \in [Senders -> Delivery]
    /\ senders \in [Senders -> Sender]
    /\ editors \in [Editors -> Editor]
    /\ mailed \subseteq [by : Senders, slip : Slips, content : Nat]
    /\ writes \in Nat /\ faults \in Nat
    /\ OneActive /\ OneInFlight

(* Verified, and its row still holds the guard. *)
Committed(s) ==
    senders[s].step \in {"verified", "sending", "accepted"} /\ HoldsGuard(s)

(* Committed, and verifyQueued found no older UPDATE of its slip running.   *)
Alone(s) == Committed(s) /\ ~senders[s].raced

(* From verifyQueued to the SMTP answer the row stays what is being sent:   *)
(* the guard is taken before the slip is checked and checked before a slip  *)
(* is edited, whatever goes stale or restarts in between.  The one way past *)
(* the guard is an UPDATE older than it that commits after verifyQueued.    *)
MailIsCurrent ==
    \A s \in Senders :
        Committed(s) => \/ slips[senders[s].slip].content = senders[s].read.content
                        \/ senders[s].raced

(* No two drafts with a common item are past their checks at once: each     *)
(* sender raises its own guard before it looks for the other's.  Only an    *)
(* UPDATE older than a guard can still bring the item in.                   *)
VerifiedDraftsDisjoint ==
    \A s, t \in Senders :
        /\ Alone(s) /\ Alone(t) /\ senders[s].slip # senders[t].slip
        /\ slips[senders[s].slip].status = "draft" /\ slips[senders[t].slip].status = "draft"
        => slips[senders[s].slip].items \cap slips[senders[t].slip].items = {}

(* Whoever holds a sent or voided slip got it by mail in exactly the form   *)
(* the row has kept.                                                       *)
SentSlipWasMailed ==
    \A d \in Slips : slips[d].status \in {"sent", "void"} =>
        \E m \in mailed : m.slip = d /\ m.content = slips[d].content

(* The delivery log tells what happened: a 'sent' row was accepted, and,    *)
(* short of a fault, a 'failed' row never left.                             *)
LogIsTrue ==
    \A s \in Senders :
        /\ deliveries[s].status = "sent" => \E m \in mailed : m.by = s
        /\ deliveries[s].status = "failed" /\ faults = 0 => \A m \in mailed : m.by # s

(* A reissue, however often it is regenerated or edited, pays exactly the   *)
(* items of the slip it replaces.                                          *)
ReissueKeepsItems ==
    \A d \in Slips : d[2] > 0 /\ slips[d].status # "absent" =>
        slips[d].items = slips[Replaced(d)].items

(* Senders and their rows: what a stage between two statements can rely on. *)
SendersInv ==
    \A s \in Senders :
        /\ senders[s].step \in {"idle", "ready"} => deliveries[s].status = "none"
        /\ senders[s].step \notin {"idle", "ready", "done"} => deliveries[s].status # "none"
        /\ deliveries[s].status # "none" => deliveries[s].slip = senders[s].slip
        /\ senders[s].step # "idle" => slips[senders[s].slip].status # "absent"
        /\ senders[s].step \in {"accepted", "delivered"} => Mail(s) \in mailed

(* Editing requests: what they took from the rows still holds when they get *)
(* to their statement.                                                     *)
EditorsInv ==
    \A e \in Editors : LET d == editors[e].slip IN
        /\ editors[e].step = "storing" /\ editors[e].creates => d[2] = 0
        /\ \/ editors[e].step = "storing" /\ ~editors[e].creates
           \/ editors[e].step = "updating"
           => /\ slips[d].status # "absent"
              /\ d[2] > 0 => editors[e].items = slips[Replaced(d)].items
        /\ editors[e].step = "voiding" =>
              /\ d[2] < MaxRevision
              /\ slips[d].status \in {"sent", "void"} /\ editors[e].items = slips[d].items

(* A revision exists only after the one before it was voided. *)
ChainInv ==
    \A d \in Slips : d[2] > 0 /\ slips[d].status # "absent" => slips[Replaced(d)].status = "void"

(* What holds of the rows however statements interleave. *)
HistoryInv ==
    TypeOK /\ SendersInv /\ EditorsInv /\ ChainInv /\ SentSlipWasMailed /\ ReissueKeepsItems

(* What the guard gives: no UPDATE that could begin is running on a slip    *)
(* whose sender was alone when it verified.                                 *)
GuardInv ==
    /\ HistoryInv
    /\ \A s \in Senders : Alone(s) => ~Updating(senders[s].slip)
    /\ MailIsCurrent /\ VerifiedDraftsDisjoint

(* A delivery row never blocks its slip forever. *)
GuardIsReleased == \A s \in Senders : HoldsGuard(s) ~> ~HoldsGuard(s)

(* "a snapshot is never replaced while an e-mail of it is queued or sending  *)
(* (checked in the same statement as the update, so a send that took the    *)
(* guard cannot race an edit)" (repository/hris/payslips.go:31-33): not even *)
(* once the send is past verifyQueued, which would notice an earlier edit.  *)
FrozenWhileSending ==
    [][\A s \in Senders : Committed(s) =>
          slips'[senders[s].slip].content = slips[senders[s].slip].content]_vars

(* "an item listed on a sent (non-void) slip is never put on another one"   *)
(* (migrations/20260930130000_payslips.up.sql:8-9).                        *)
ItemOnOneSentSlip ==
    \A c, d \in Slips : c # d /\ slips[c].status = "sent" /\ slips[d].status = "sent"
        => slips[c].items \cap slips[d].items = {}

(* "A successful send marks a draft sent" (service/hris/payslips.go:1613).  *)
DeliveredSlipIsMarked ==
    \A s \in Senders : deliveries[s].status = "sent"
        ~> slips[deliveries[s].slip].status \in {"sent", "void"}
=============================================================================
