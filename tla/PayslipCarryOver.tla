--------------------------- MODULE PayslipCarryOver ---------------------------
(***************************************************************************)
(* Which bonuses and reimbursements go on which monthly slip of an         *)
(* employee (rule D9: service/hris/payslip_assembly.go, assembleFor in      *)
(* payslips.go, LatestSentBefore and ConsumedItemIDs of the repository).    *)
(*                                                                         *)
(* A slip takes what was paid or approved since the last sent slip was     *)
(* generated, by two clocks: generated_at is read by the server before the  *)
(* records, paid_at and approved_at by the database when the UPDATE starts, *)
(* which others see when it commits.  Sending is one step here: PayslipSend *)
(* is about what happens inside it.                                        *)
(***************************************************************************)
EXTENDS Integers, FiniteSets

CONSTANTS
    LastMonth,       \* bound: months 1 .. LastMonth get slips, month 0 is history
    MonthLength,     \* ticks of a month
    MaxTime,         \* bound: ticks of a behaviour
    Grace,           \* payslipCarryOverGrace, in ticks
    MaxRevision,     \* bound: revisions of a month's slip
    Reimbursements,
    Bonuses,
    BonusMonth,      \* period of each bonus
    Requests,        \* requests that build or edit slips, reused one after another
    Mishaps          \* the circumstances let into the behaviours, see Mishap

Mishap == {"early",     \* a slip is built before or at the start of its month
           "unsent",    \* ... while an earlier one is not sent and nothing before it is
           "late",      \* ... for the first time after that of a later month
           "approval",  \* ... while, or in the tick in which, an older bonus is approved
           "edit",      \* a slip is edited and rebuilt at the same time
           "rebuild"}   \* a draft is rebuilt by two requests at the same time

ASSUME TimeAssumption ==
    LastMonth \in Nat \ {0} /\ MonthLength \in Nat \ {0} /\ MaxTime \in Nat /\ Grace \in Nat \ {0}
ASSUME ItemsAssumption ==
    Bonuses \cap Reimbursements = {} /\ BonusMonth \in [Bonuses -> 0..LastMonth]
ASSUME BoundsAssumption == MaxRevision \in Nat /\ Mishaps \subseteq Mishap

VARIABLES
    now,       \* the clock
    records,   \* the bonuses and reimbursements tables
    slips,     \* the payslips table
    requests   \* what each request is doing

vars == <<now, records, slips, requests>>

-----------------------------------------------------------------------------

Months == 1..LastMonth
Slips == Months \X (0..MaxRevision)
Items == Bonuses \cup Reimbursements

(* payslipPeriodBounds. *)
Start(m) == m * MonthLength

Replaced(d) == <<d[1], d[2] - 1>>
Reissue(d) == <<d[1], d[2] + 1>>

(* "stamped": the UPDATE that sets paid_at or approved_at has not committed. *)
Record == [status : {"open", "stamped", "settled"}, at : Nat]

Slip == [status : {"absent", "draft", "sent", "void"}, gen : Nat, items : SUBSET Items]
SlipOf(status, gen, items) == [status |-> status, gen |-> gen, items |-> items]
NoSlip == SlipOf("absent", 0, {})

Anchor == [month : 0..LastMonth, gen : Nat]
(* Months start at 1: month 0 means there is none. *)
NoAnchor == [month |-> 0, gen |-> 0]

Request == [step : {"idle", "records", "anchor", "consumed", "storing", "editing"},
            slip : Slips, creates : BOOLEAN,
            clock : Nat, seen : SUBSET Items, anchor : Anchor]
RequestOf(step, d, clock, items) ==
    [step |-> step, slip |-> d, creates |-> slips[d].status = "absent",
     clock |-> clock, seen |-> items, anchor |-> NoAnchor]

(* Everything a request read is forgotten with it. *)
NoRequest == [step |-> "idle", slip |-> <<1, 0>>, creates |-> FALSE,
              clock |-> 0, seen |-> {}, anchor |-> NoAnchor]

Init ==
    /\ now = 0
    /\ records = [i \in Items |-> [status |-> "open", at |-> 0]]
    /\ slips = [d \in Slips |-> NoSlip]
    /\ requests = [r \in Requests |-> NoRequest]

Active(row) == row.status \in {"draft", "sent"}

Settled == {i \in Items : records[i].status = "settled"}

Busy(r) == requests[r].step # "idle"

-----------------------------------------------------------------------------
(* The clock and the records *)

(* A statement commits well within the grace (QueryContext ends it). *)
Tick ==
    /\ now < MaxTime
    /\ \A i \in Items : records[i].status = "stamped" => now + 1 < records[i].at + Grace
    /\ now' = now + 1
    /\ UNCHANGED <<records, slips, requests>>

(* A slip of a month after m, built or being built, is dated now. *)
DatedNow(m) ==
    \/ \E d \in Slips : m < d[1] /\ slips[d].status # "absent" /\ slips[d].gen = now
    \/ \E r \in Requests : Busy(r) /\ m < requests[r].slip[1] /\ requests[r].clock = now

(* MarkPaid, UpdateBonusApprovalStatus: NOW() is the start of the statement, *)
Stamp(i) ==
    /\ records[i].status = "open"
    /\ "approval" \in Mishaps \/ (i \in Bonuses => ~DatedNow(BonusMonth[i]))
    /\ records' = [records EXCEPT ![i] = [status |-> "stamped", at |-> now]]
    /\ UNCHANGED <<now, slips, requests>>

(* and its commit shows the row to everybody else.                          *)
Commit(i) ==
    /\ records[i].status = "stamped"
    /\ records' = [records EXCEPT ![i].status = "settled"]
    /\ UNCHANGED <<now, slips, requests>>

-----------------------------------------------------------------------------
(* The selection *)

Floor_NoGrace(month, anchor) == IF anchor = NoAnchor THEN Start(month) ELSE anchor.gen

Floor_Unclipped(month, anchor) ==
    IF anchor = NoAnchor THEN Start(month) ELSE anchor.gen - Grace

(* The grace reaches back for what was stamped but not yet visible, never   *)
(* below the first day of the anchor's month.                              *)
Floor(month, anchor) ==
    IF anchor = NoAnchor THEN Start(month)
    ELSE IF anchor.gen - Grace < Start(anchor.month) THEN Start(anchor.month)
    ELSE anchor.gen - Grace

(* selectCarryOverReimbursements. *)
TakesReimbursement(i, month, clock, anchor) ==
    Floor(month, anchor) <= records[i].at /\ records[i].at <= clock

(* selectCarryOverBonuses. *)
TakesBonus(b, month, anchor) ==
    \/ BonusMonth[b] = month
    \/ /\ BonusMonth[b] < month /\ anchor # NoAnchor
       /\ \/ BonusMonth[b] > anchor.month
          \/ records[b].at > anchor.gen
          \/ BonusMonth[b] = anchor.month /\ records[b].at > anchor.gen - Grace

Takes(i, month, clock, anchor) ==
    \/ i \in Reimbursements /\ TakesReimbursement(i, month, clock, anchor)
    \/ i \in Bonuses /\ TakesBonus(i, month, anchor)

SentBefore(month) == {d \in Slips : slips[d].status = "sent" /\ d[1] < month}

(* LatestSentBefore: the one slip it may return. *)
LatestSentBefore(month) ==
    {[month |-> d[1], gen |-> slips[d].gen] :
        d \in {l \in SentBefore(month) : \A o \in SentBefore(month) : o[1] <= l[1]}}
    \cup {a \in {NoAnchor} : SentBefore(month) = {}}

(* ConsumedItemIDs. *)
Consumed(month) ==
    UNION {slips[d].items : d \in {o \in Slips :
              \/ slips[o].status = "sent"
              \/ slips[o].status = "draft" /\ o[1] < month}}

-----------------------------------------------------------------------------
(* Building and editing slips *)

MovesTo(r, request) == requests' = [requests EXCEPT ![r] = request]

(* Month m has a slip, or one is being built. *)
Underway(m) ==
    \/ \E d \in Slips : d[1] = m /\ Active(slips[d])
    \/ \E r \in Requests : Busy(r) /\ requests[r].slip[1] = m

Rebuilding(q, d) ==
    /\ requests[q].step \notin {"idle", "editing"} /\ ~requests[q].creates
    /\ requests[q].slip = d

GeneratedAt_Now(d) == now

(* The clock a rebuilt slip gets: the server's, or the replaced slip's.     *)
GeneratedAt(d) == IF d[2] = 0 THEN now ELSE slips[Replaced(d)].gen

(* generateOne up to the first read of assembleFor: the month's draft, or   *)
(* its first slip.  The clock is read before any data; a reissue keeps the  *)
(* items and the clock of the slip it replaces.                            *)
Generate(r, d) ==
    /\ ~Busy(r)
    /\ \/ slips[d].status = "draft"
       \/ d[2] = 0 /\ \A o \in Slips : o[1] = d[1] => slips[o].status = "absent"
    /\ "early" \in Mishaps \/ now + 1 >= Start(d[1]) + Grace
    /\ "late" \in Mishaps \/ slips[d].status = "draft" \/ \A m \in Months : d[1] < m => ~Underway(m)
    /\ "approval" \in Mishaps \/ \A b \in Bonuses :
          records[b].status = "stamped" => d[1] <= BonusMonth[b]
    /\ "edit" \in Mishaps \/ \A q \in Requests : requests[q].step = "editing" => requests[q].slip # d
    /\ "rebuild" \in Mishaps \/ ~\E q \in Requests : Rebuilding(q, d)
    /\ MovesTo(r, IF d[2] = 0
                  THEN RequestOf("records", d, GeneratedAt(d), {})
                  ELSE RequestOf("storing", d, GeneratedAt(d), slips[Replaced(d)].items))
    /\ UNCHANGED <<now, records, slips>>

(* Update up to its statement: the items are the ones just read. *)
Update(r, d) ==
    /\ ~Busy(r)
    /\ slips[d].status = "draft"
    /\ "edit" \in Mishaps \/ \A q \in Requests : Busy(q) => requests[q].slip # d
    /\ MovesTo(r, RequestOf("editing", d, 0, slips[d].items))
    /\ UNCHANGED <<now, records, slips>>

(* BonusRecords and ListReimbursementsForPayslip. *)
ReadRecords(r) ==
    /\ requests[r].step = "records"
    /\ MovesTo(r, [requests[r] EXCEPT !.step = "anchor", !.seen = Settled])
    /\ UNCHANGED <<now, records, slips>>

ReadAnchor(r) ==
    LET month == requests[r].slip[1] IN
    /\ requests[r].step = "anchor"
    /\ "unsent" \in Mishaps \/ SentBefore(month) # {} \/ \A m \in Months : m < month => ~Underway(m)
    /\ \E anchor \in LatestSentBefore(month) :
          MovesTo(r, [requests[r] EXCEPT !.step = "consumed", !.anchor = anchor])
    /\ UNCHANGED <<now, records, slips>>

(* assemblePayslip. *)
ReadConsumed(r) ==
    LET month == requests[r].slip[1]
        selected == {i \in requests[r].seen \ Consumed(month) :
                        Takes(i, month, requests[r].clock, requests[r].anchor)}
    IN
    /\ requests[r].step = "consumed"
    /\ MovesTo(r, [requests[r] EXCEPT !.step = "storing", !.seen = selected, !.anchor = NoAnchor])
    /\ UNCHANGED <<now, records, slips>>

NumberFree_Unchecked(d) == TRUE

NumberFree(d) == slips[d].status = "absent"

(* Create: one active slip per month (uq_payslips_active), one row per      *)
(* document number.                                                        *)
Create(r) ==
    LET d == requests[r].slip IN
    /\ requests[r].step = "storing" /\ requests[r].creates
    /\ slips' = IF NumberFree(d)
                THEN [slips EXCEPT ![d] = SlipOf("draft", requests[r].clock, requests[r].seen)]
                ELSE slips
    /\ MovesTo(r, NoRequest)
    /\ UNCHANGED <<now, records>>

(* UpdateDraftSnapshot: a rebuild stores its clock with its items, *)
Rebuild(r) ==
    LET d == requests[r].slip IN
    /\ requests[r].step = "storing" /\ ~requests[r].creates
    /\ slips' = IF slips[d].status = "draft"
                THEN [slips EXCEPT ![d] = SlipOf("draft", requests[r].clock, requests[r].seen)]
                ELSE slips
    /\ MovesTo(r, NoRequest)
    /\ UNCHANGED <<now, records>>

(* an edit the items it read, and it leaves generated_at alone.             *)
StoreEdit(r) ==
    LET d == requests[r].slip IN
    /\ requests[r].step = "editing"
    /\ slips' = IF slips[d].status = "draft"
                THEN [slips EXCEPT ![d].items = requests[r].seen]
                ELSE slips
    /\ MovesTo(r, NoRequest)
    /\ UNCHANGED <<now, records>>

(* A successful Send of a draft whose items are on no other sent slip. *)
Send(d) ==
    /\ slips[d].status = "draft"
    /\ \A o \in Slips : slips[o].status = "sent" => slips[o].items \cap slips[d].items = {}
    /\ slips' = [slips EXCEPT ![d].status = "sent"]
    /\ UNCHANGED <<now, records, requests>>

(* The sent slip becomes void; the draft that replaces it has its items and *)
(* its generated_at.                                                       *)
VoidReissue(d) ==
    /\ slips[d].status = "sent" /\ d[2] < MaxRevision
    /\ slips' = [slips EXCEPT
          ![d].status = "void",
          ![Reissue(d)] = SlipOf("draft", slips[d].gen, slips[d].items)]
    /\ UNCHANGED <<now, records, requests>>

-----------------------------------------------------------------------------

Build(r) == \/ ReadRecords(r) \/ ReadAnchor(r) \/ ReadConsumed(r)
            \/ Create(r) \/ Rebuild(r) \/ StoreEdit(r)

Next ==
    \/ Tick
    \/ \E i \in Items : Stamp(i) \/ Commit(i)
    \/ \E r \in Requests : Build(r) \/ \E d \in Slips : Generate(r, d) \/ Update(r, d)
    \/ \E d \in Slips : Send(d) \/ VoidReissue(d)

Spec == Init /\ [][Next]_vars

-----------------------------------------------------------------------------
(* Properties *)

OneActive == \A c, d \in Slips :
    c[1] = d[1] /\ Active(slips[c]) /\ Active(slips[d]) => c = d

(* Whatever came before a revision was voided. *)
Chain == \A c, d \in Slips :
    c[1] = d[1] /\ c[2] < d[2] /\ slips[d].status # "absent" => slips[c].status = "void"

(* Types, and the rows' history: one active slip per month, revisions in    *)
(* order.                                                                  *)
TypeOK ==
    /\ now \in Nat
    /\ records \in [Items -> Record]
    /\ slips \in [Slips -> Slip]
    /\ requests \in [Requests -> Request]
    /\ OneActive /\ Chain

(* The months that ever had a slip with the employee. *)
Begun == {d[1] : d \in {o \in Slips : slips[o].status \in {"sent", "void"}}}

(* "so items paid after a slip was generated roll to the next slip instead  *)
(* of falling between windows" (service/hris/payslip_assembly.go:231-232):  *)
(* once nothing waits to be sent, what was paid since the first month with  *)
(* a slip, or approved for such a month, is on a sent slip, or the next     *)
(* month's slip would take it.                                             *)
Due(i) ==
    /\ records[i].status = "settled"
    /\ \E m \in Begun : IF i \in Bonuses THEN m <= BonusMonth[i] ELSE Start(m) <= records[i].at

NothingLost ==
    (\A d \in Slips : slips[d].status # "draft") =>
    \A i \in Items : Due(i) =>
        \/ \E d \in Slips : slips[d].status = "sent" /\ i \in slips[d].items
        \/ \E next \in LatestSentBefore(LastMonth + 1) : Takes(i, LastMonth + 1, now, next)

(* "nothing from before the first slip is swept in" (docs/hris-documents.md) *)
(* however anchors are voided and reissued: a reimbursement on a slip was   *)
(* paid in the first month with a slip or later, and at the latest when the *)
(* slip was generated.                                                     *)
NothingSweptIn ==
    \A d \in Slips : \A i \in slips[d].items \cap Reimbursements :
        /\ \E o \in Slips : slips[o].status # "absent" /\ o[1] <= d[1] /\ Start(o[1]) <= records[i].at
        /\ records[i].at <= slips[d].gen

(* A reissue, however often it is rebuilt or edited, keeps the items and    *)
(* the window of the slip it replaces.                                     *)
ReissueKeepsWindow ==
    \A d \in Slips : d[2] > 0 /\ slips[d].status # "absent" =>
        slips[d].items = slips[Replaced(d)].items /\ slips[d].gen = slips[Replaced(d)].gen

(* What a request between two statements can rely on. *)
Prepared(q) ==
    /\ q.creates \/ q.step \in {"records", "anchor", "consumed"} => q.slip[2] = 0
    /\ q.step # "idle" /\ ~q.creates => slips[q.slip].status # "absent"
    /\ q.slip[2] > 0 /\ q.step \in {"storing", "editing"} =>
          q.seen = slips[Replaced(q.slip)].items
    /\ q.slip[2] > 0 /\ q.step = "storing" => q.clock = slips[Replaced(q.slip)].gen

RequestsInv == \A r \in Requests : Prepared(requests[r])

WindowInv == TypeOK /\ RequestsInv /\ ReissueKeepsWindow
=============================================================================
