------------------------- MODULE PayslipSend_proofs --------------------------
(* Type correctness of PayslipSend and its inductive invariants: what the    *)
(* rows keep however statements interleave, what the double-send guard gives *)
(* although an UPDATE reads it in an older snapshot, and the delivery log.  *)
EXTENDS PayslipSend, TLAPS

LEMMA SlipOrder ==
  ASSUME NEW d \in Slips
  PROVE  /\ d[1] \in Periods /\ d[2] \in Nat /\ d[2] <= MaxRevision /\ d = <<d[1], d[2]>>
         /\ d[2] > 0 => Replaced(d) \in Slips /\ Reissue(Replaced(d)) = d
         /\ d[2] < MaxRevision => /\ Reissue(d) \in Slips /\ Replaced(Reissue(d)) = d
                                  /\ Reissue(d) # d /\ Reissue(d)[1] = d[1] /\ Reissue(d)[2] > 0
         /\ \A c \in Slips : c[2] > 0 /\ Replaced(c) = d => c = Reissue(d)
         /\ \A c \in Slips : c[2] > 0 => Replaced(c) # c
  <1>1. d[1] \in Periods /\ d[2] \in 0..MaxRevision /\ d = <<d[1], d[2]>>
    BY DEF Slips
  <1>2. MaxRevision \in Nat
    BY BoundsAssumption
  <1>3. d[2] > 0 => Replaced(d) \in Slips /\ Reissue(Replaced(d)) = d
    BY <1>1, <1>2 DEF Slips, Replaced, Reissue
  <1>4. d[2] < MaxRevision => /\ Reissue(d) \in Slips /\ Replaced(Reissue(d)) = d
                              /\ Reissue(d) # d /\ Reissue(d)[1] = d[1] /\ Reissue(d)[2] > 0
    BY <1>1, <1>2 DEF Slips, Replaced, Reissue
  <1>5. ASSUME NEW c \in Slips, c[2] > 0
        PROVE  (Replaced(c) = d => c = Reissue(d)) /\ Replaced(c) # c
    <2>1. c[2] \in 0..MaxRevision /\ c = <<c[1], c[2]>>
      BY DEF Slips
    <2> QED
      BY <1>1, <1>2, <2>1 DEF Replaced, Reissue
  <1> QED
    BY <1>1, <1>2, <1>3, <1>4, <1>5

(* What the steps build is well typed. *)
LEMMA BuiltTypes ==
  /\ NoRow \in Row
  /\ \A n \in Nat, items \in SUBSET Items : RowOf("draft", n, items) \in Row
  /\ \A row \in Row, status \in {"sent", "void"} : [row EXCEPT !.status = status] \in Row
  /\ \A x \in Delivery, status \in {"queued", "sending", "sent", "failed"} :
        [x EXCEPT !.status = status, !.stale = FALSE] \in Delivery
  /\ \A x \in Delivery : [x EXCEPT !.stale = TRUE] \in Delivery
  /\ \A x \in Sender, step \in {"queued", "verified", "cancelling", "sending", "accepted",
                                "rejected", "delivered", "mismatch", "done"} :
        [x EXCEPT !.step = step] \in Sender
  /\ \A x \in Editor, step \in {"idle", "updating"} : [x EXCEPT !.step = step] \in Editor
  /\ \A d \in Slips, creates \in BOOLEAN, items \in SUBSET Items, step \in {"storing", "voiding"} :
        EditorWith(step, d, creates, items) \in Editor
  BY DEF NoRow, RowOf, Row, Delivery, Sender, Editor, EditorWith

LEMMA ReadTypes ==
  ASSUME slips \in [Slips -> Row], senders \in [Senders -> Sender], editors \in [Editors -> Editor],
         deliveries \in [Senders -> Delivery]
  PROVE  /\ \A d \in Slips : slips[d] \in Row /\ slips[d].items \in SUBSET Items
         /\ \A s \in Senders : /\ senders[s] \in Sender /\ senders[s].slip \in Slips
                               /\ senders[s].read \in Row /\ senders[s].read.content \in Nat
                               /\ deliveries[s] \in Delivery
         /\ \A e \in Editors : /\ editors[e] \in Editor /\ editors[e].slip \in Slips
                               /\ editors[e].items \in SUBSET Items
         /\ \A d \in Slips : PinnedItems(d) \subseteq SUBSET Items
  <1>1. \A d \in Slips : slips[d] \in Row /\ slips[d].items \in SUBSET Items
    BY DEF Row
  <1>2. \A s \in Senders : /\ senders[s] \in Sender /\ senders[s].slip \in Slips
                           /\ senders[s].read \in Row /\ senders[s].read.content \in Nat
                           /\ deliveries[s] \in Delivery
    BY DEF Sender, Row
  <1>3. \A e \in Editors : /\ editors[e] \in Editor /\ editors[e].slip \in Slips
                           /\ editors[e].items \in SUBSET Items
    BY DEF Editor
  <1>4. ASSUME NEW d \in Slips PROVE PinnedItems(d) \subseteq SUBSET Items
    <2>1. CASE d[2] = 0
      BY <2>1 DEF PinnedItems
    <2>2. CASE d[2] # 0
      <3>1. Replaced(d) \in Slips
        BY <2>2, SlipOrder
      <3> QED
        BY <1>1, <2>2, <3>1 DEF PinnedItems
    <2> QED
      BY <2>1, <2>2
  <1> QED
    BY <1>1, <1>2, <1>3, <1>4

Typed ==
    /\ slips \in [Slips -> Row]
    /\ deliveries \in [Senders -> Delivery]
    /\ senders \in [Senders -> Sender]
    /\ editors \in [Editors -> Editor]
    /\ mailed \subseteq [by : Senders, slip : Slips, content : Nat]
    /\ writes \in Nat /\ faults \in Nat

(* What one sender's move, one delivery row's update and one stored draft    *)
(* leave behind, point by point.                                           *)
LEMMA MoveEffect ==
  ASSUME Typed, NEW s \in Senders,
         NEW step \in {"queued", "verified", "cancelling", "sending", "accepted",
                       "rejected", "delivered", "mismatch", "done"},
         MovesTo(s, step)
  PROVE  /\ senders' \in [Senders -> Sender]
         /\ senders'[s].step = step
         /\ \A t \in Senders : /\ senders'[t].slip = senders[t].slip
                               /\ senders'[t].read = senders[t].read
                               /\ senders'[t].raced = senders[t].raced
                               /\ t # s => senders'[t] = senders[t]
  <1>1. senders \in [Senders -> Sender]
    BY DEF Typed
  <1>2. [senders[s] EXCEPT !.step = step] \in Sender
    BY <1>1 DEF Sender
  <1>3. senders' = [senders EXCEPT ![s] = [senders[s] EXCEPT !.step = step]]
    BY <1>1 DEF MovesTo
  <1>4. senders[s] \in Sender
    BY <1>1
  <1> QED
    BY <1>1, <1>2, <1>3, <1>4 DEF Sender

LEMMA VerifyEffect ==
  ASSUME Typed, NEW s \in Senders, Verify(s)
  PROVE  /\ senders' \in [Senders -> Sender]
         /\ senders'[s].step \in {"verified", "cancelling"}
         /\ senders'[s].step = "verified" => /\ Verified(senders[s].slip, senders[s].read)
                                            /\ senders'[s].raced = Updating(senders[s].slip)
         /\ \A t \in Senders : /\ senders'[t].slip = senders[t].slip
                               /\ senders'[t].read = senders[t].read
                               /\ t # s => senders'[t] = senders[t]
  <1>1. CASE MovesTo(s, "cancelling")
    BY <1>1, MoveEffect
  <1>2. CASE /\ Verified(senders[s].slip, senders[s].read)
             /\ senders' = [senders EXCEPT ![s].step = "verified",
                                          ![s].raced = Updating(senders[s].slip)]
    <2> DEFINE running == Updating(senders[s].slip)
    <2>1. running \in BOOLEAN
      BY DEF Updating
    <2>2. senders \in [Senders -> Sender] /\ senders[s] \in Sender
      BY DEF Typed
    <2>3. senders' = [senders EXCEPT ![s] = [[senders[s] EXCEPT !.step = "verified"]
                                                            EXCEPT !.raced = running]]
      BY <1>2, <2>2
    <2> HIDE DEF running
    <2>4. [[senders[s] EXCEPT !.step = "verified"] EXCEPT !.raced = running] \in Sender
      BY <2>1, <2>2 DEF Sender
    <2>5. /\ senders' \in [Senders -> Sender]
          /\ senders'[s].step = "verified" /\ senders'[s].raced = running
          /\ senders'[s].slip = senders[s].slip /\ senders'[s].read = senders[s].read
          /\ \A t \in Senders : t # s => senders'[t] = senders[t]
      BY <2>2, <2>3, <2>4 DEF Sender
    <2> QED
      BY <1>2, <2>5 DEF running
  <1> QED
    BY <1>1, <1>2 DEF Verify

LEMMA LogEffect ==
  ASSUME Typed, NEW s \in Senders,
         NEW status \in {"queued", "sending", "sent", "failed"},
         Logged(s, status)
  PROVE  /\ deliveries' \in [Senders -> Delivery]
         /\ deliveries'[s].status = status
         /\ \A t \in Senders : /\ deliveries'[t].slip = deliveries[t].slip
                               /\ t # s => deliveries'[t] = deliveries[t]
  <1>1. deliveries \in [Senders -> Delivery]
    BY DEF Typed
  <1>2. [deliveries[s] EXCEPT !.status = status, !.stale = FALSE] \in Delivery
    BY <1>1 DEF Delivery
  <1>3. deliveries' = [deliveries EXCEPT ![s] = [deliveries[s] EXCEPT !.status = status, !.stale = FALSE]]
    BY <1>1 DEF Logged
  <1>4. deliveries[s] \in Delivery
    BY <1>1
  <1> QED
    BY <1>1, <1>2, <1>3, <1>4 DEF Delivery

LEMMA StoreEffect ==
  ASSUME Typed, NEW d \in Slips, NEW items \in SUBSET Items, Stored(d, items)
  PROVE  /\ slips' \in [Slips -> Row] /\ writes' \in Nat
         /\ slips'[d].status = "draft" /\ slips'[d].items = items
         /\ \A c \in Slips : c # d => slips'[c] = slips[c]
  <1>1. slips \in [Slips -> Row] /\ writes \in Nat
    BY DEF Typed
  <1>2. RowOf("draft", writes + 1, items) \in Row
    BY <1>1 DEF Row, RowOf
  <1> QED
    BY <1>1, <1>2 DEF Stored, RowOf

(* An editing request ends, or begins with what it read. *)
LEMMA EndEffect ==
  ASSUME Typed, NEW e \in Editors, editors' = [editors EXCEPT ![e] = Idle(@)]
  PROVE  /\ editors' \in [Editors -> Editor]
         /\ editors'[e].step = "idle"
         /\ \A f \in Editors : f # e => editors'[f] = editors[f]
  <1>1. editors \in [Editors -> Editor] /\ editors[e] \in Editor
    BY DEF Typed
  <1>2. Idle(editors[e]) \in Editor /\ Idle(editors[e]).step = "idle"
    BY <1>1 DEF Editor, Idle
  <1>3. editors' = [editors EXCEPT ![e] = Idle(editors[e])]
    BY <1>1
  <1> QED
    BY <1>1, <1>2, <1>3

LEMMA BeginEffect ==
  ASSUME Typed, NEW e \in Editors, NEW step \in {"storing", "voiding"}, NEW d \in Slips,
         NEW creates \in BOOLEAN, NEW items \in SUBSET Items,
         editors' = [editors EXCEPT ![e] = EditorWith(step, d, creates, items)]
  PROVE  /\ editors' \in [Editors -> Editor]
         /\ editors'[e].step = step /\ editors'[e].slip = d
         /\ editors'[e].creates = creates /\ editors'[e].items = items
         /\ \A f \in Editors : f # e => editors'[f] = editors[f]
  <1>1. editors \in [Editors -> Editor]
    BY DEF Typed
  <1>2. EditorWith(step, d, creates, items) \in Editor
    BY DEF Editor, EditorWith
  <1> QED
    BY <1>1, <1>2 DEF EditorWith

LEMMA EditTypes ==
  ASSUME Typed, NEW e \in Editors, Edit(e)
  PROVE  Typed'
  <1>0. /\ slips \in [Slips -> Row] /\ senders \in [Senders -> Sender]
        /\ editors \in [Editors -> Editor] /\ deliveries \in [Senders -> Delivery]
    BY DEF Typed
  <1>1. ASSUME NEW d \in Slips, Generate(e, d) PROVE Typed'
    <2>1. PICK items \in PinnedItems(d) :
            editors' = [editors EXCEPT ![e] =
                          EditorWith("storing", d, slips[d].status = "absent", items)]
      BY <1>1 DEF Generate
    <2>2. items \in SUBSET Items /\ (slips[d].status = "absent") \in BOOLEAN
      BY <1>0, ReadTypes
    <2>3. editors' \in [Editors -> Editor]
      BY <2>1, <2>2, BeginEffect
    <2> QED
      BY <1>1, <2>3 DEF Generate, Typed
  <1>2. ASSUME NEW d \in Slips, Update(e, d) \/ CheckVoid(e, d) PROVE Typed'
    <2>1. slips[d].items \in SUBSET Items
      BY <1>0, ReadTypes
    <2>2. editors' \in [Editors -> Editor]
      BY <1>2, <2>1, BeginEffect DEF Update, CheckVoid
    <2> QED
      BY <1>2, <2>2 DEF Update, CheckVoid, Typed
  <1>3. CASE Create(e) \/ CommitUpdate(e)
    <2>1. editors' \in [Editors -> Editor]
      BY <1>3, EndEffect DEF Create, CommitUpdate
    <2>2. editors[e].slip \in Slips /\ editors[e].items \in SUBSET Items
      BY <1>0, ReadTypes
    <2>3. Stored(editors[e].slip, editors[e].items) \/ UNCHANGED <<slips, writes>>
      BY <1>3 DEF Create, CommitUpdate
    <2>4. slips' \in [Slips -> Row] /\ writes' \in Nat
      BY <2>2, <2>3, StoreEffect DEF Typed
    <2> QED
      BY <1>3, <2>1, <2>4 DEF Create, CommitUpdate, Typed
  <1>4. CASE BeginUpdate(e)
    <2>1. editors[e] \in Editor
      BY <1>0
    <2>2. [editors[e] EXCEPT !.step = "updating"] \in Editor /\ Idle(editors[e]) \in Editor
      BY <2>1 DEF Editor, Idle
    <2>3. editors' \in [Editors -> Editor]
      BY <1>0, <1>4, <2>2 DEF BeginUpdate
    <2> QED
      BY <1>4, <2>3 DEF BeginUpdate, Typed
  <1>5. CASE VoidReissue(e)
    <2>1. editors' \in [Editors -> Editor]
      BY <1>5, EndEffect DEF VoidReissue
    <2>2. slips' \in [Slips -> Row] /\ writes' \in Nat
      <3>1. editors[e].slip \in Slips /\ editors[e].items \in SUBSET Items /\ writes \in Nat
        BY <1>0, ReadTypes DEF Typed
      <3>2. RowOf("draft", writes + 1, editors[e].items) \in Row
        BY <3>1 DEF Row, RowOf
      <3>3. [slips[editors[e].slip] EXCEPT !.status = "void"] \in Row
        BY <1>0, <3>1 DEF Row
      <3> QED
        BY <1>0, <1>5, <3>1, <3>2, <3>3 DEF VoidReissue
    <2> QED
      BY <1>5, <2>1, <2>2 DEF VoidReissue, Typed
  <1> QED
    BY <1>1, <1>2, <1>3, <1>4, <1>5 DEF Edit

LEMMA SendTypes ==
  ASSUME Typed, NEW s \in Senders,
         \/ \E d \in Slips : Load(s, d)
         \/ Proceed(s) \/ LateAccept(s) \/ LogError(s) \/ Abandon(s) \/ GoStale(s)
  PROVE  Typed'
  <1>0. /\ slips \in [Slips -> Row] /\ senders \in [Senders -> Sender]
        /\ editors \in [Editors -> Editor] /\ deliveries \in [Senders -> Delivery]
    BY DEF Typed
  <1>1. ASSUME NEW d \in Slips, Load(s, d) PROVE Typed'
    <2>1. [step |-> "ready", slip |-> d, read |-> slips[d], raced |-> FALSE] \in Sender
      BY <1>0 DEF Sender
    <2>2. senders' \in [Senders -> Sender]
      BY <1>0, <1>1, <2>1 DEF Load
    <2> QED
      BY <1>1, <2>2 DEF Load, Typed
  <1>2. CASE Enqueue(s)
    <2>1. senders' \in [Senders -> Sender]
      BY <1>2, MoveEffect DEF Enqueue
    <2>2. [status |-> "queued", slip |-> senders[s].slip, stale |-> FALSE] \in Delivery
      BY <1>0 DEF Sender, Delivery
    <2>3. deliveries' \in [Senders -> Delivery]
      BY <1>0, <1>2, <2>2 DEF Enqueue
    <2> QED
      BY <1>2, <2>1, <2>3 DEF Enqueue, Typed
  <1>3. CASE Verify(s) \/ Cancel(s) \/ Start(s)
    <2>1. senders' \in [Senders -> Sender]
      BY <1>3, MoveEffect, VerifyEffect DEF Cancel, Start
    <2>2. deliveries' \in [Senders -> Delivery]
      BY <1>0, <1>3, LogEffect DEF Verify, Cancel, Start
    <2> QED
      BY <1>3, <2>1, <2>2 DEF Verify, Cancel, Start, Typed
  <1>4. CASE Transmit(s) \/ LateAccept(s)
    <2>1. senders' \in [Senders -> Sender]
      BY <1>4, MoveEffect DEF Transmit, LateAccept
    <2>2. Mail(s) \in [by : Senders, slip : Slips, content : Nat]
      BY <1>0, ReadTypes DEF Mail
    <2>3. faults' \in Nat
      BY <1>4 DEF Transmit, LateAccept, Typed
    <2> QED
      BY <1>4, <2>1, <2>2, <2>3 DEF Transmit, LateAccept, Typed
  <1>5. CASE LogOutcome(s) \/ LogError(s) \/ Abandon(s)
    <2>1. senders' \in [Senders -> Sender]
      BY <1>5, MoveEffect DEF LogOutcome, LogError, Abandon
    <2>2. deliveries' \in [Senders -> Delivery]
      BY <1>0, <1>5, LogEffect DEF LogOutcome, LogError, Abandon
    <2>3. faults' \in Nat
      BY <1>5 DEF LogOutcome, LogError, Abandon, Typed
    <2> QED
      BY <1>5, <2>1, <2>2, <2>3 DEF LogOutcome, LogError, Abandon, Typed
  <1>6. CASE GoStale(s)
    <2>1. [deliveries[s] EXCEPT !.stale = TRUE] \in Delivery
      BY <1>0 DEF Delivery
    <2>2. deliveries' \in [Senders -> Delivery]
      BY <1>0, <1>6, <2>1 DEF GoStale
    <2> QED
      BY <1>6, <2>2 DEF GoStale, Typed
  <1>7. CASE MarkSlip(s)
    <2>1. senders' \in [Senders -> Sender]
      BY <1>7, MoveEffect DEF MarkSlip
    <2>2. senders[s].slip \in Slips
      BY <1>0, ReadTypes
    <2>3. [slips[senders[s].slip] EXCEPT !.status = "sent"] \in Row
      BY <1>0, <2>2 DEF Row
    <2>4. slips' \in [Slips -> Row]
      BY <1>0, <1>7, <2>3 DEF MarkSlip
    <2> QED
      BY <1>7, <2>1, <2>4 DEF MarkSlip, Typed
  <1> QED
    BY <1>1, <1>2, <1>3, <1>4, <1>5, <1>6, <1>7 DEF Proceed

(* The ticker and a restart touch rows and requests, never what they are of. *)
LEMMA ReleaseEffect ==
  ASSUME Typed, ReleaseStale
  PROVE  /\ deliveries' \in [Senders -> Delivery]
         /\ \A s \in Senders :
              \/ deliveries'[s] = deliveries[s]
              \/ /\ HoldsGuard(s) /\ deliveries'[s].status = "failed"
                 /\ deliveries'[s].slip = deliveries[s].slip
  <1>1. deliveries \in [Senders -> Delivery]
    BY DEF Typed
  <1>2. PICK d : deliveries' = [s \in Senders |->
                             IF Releasable(s) /\ deliveries[s].slip \in d
                             THEN [deliveries[s] EXCEPT !.status = "failed", !.stale = FALSE]
                             ELSE deliveries[s]]
    BY DEF ReleaseStale
  <1>3. ASSUME NEW s \in Senders
        PROVE  /\ [deliveries[s] EXCEPT !.status = "failed", !.stale = FALSE] \in Delivery
               /\ \/ deliveries'[s] = deliveries[s]
                  \/ /\ HoldsGuard(s) /\ deliveries'[s].status = "failed"
                     /\ deliveries'[s].slip = deliveries[s].slip
    BY <1>1, <1>2 DEF Delivery, Releasable
  <1> QED
    BY <1>1, <1>2, <1>3

LEMMA CrashEffect ==
  ASSUME Typed, Crash
  PROVE  /\ senders' \in [Senders -> Sender] /\ editors' \in [Editors -> Editor]
         /\ \A s \in Senders :
              \/ senders'[s] = senders[s] /\ senders[s].step \in {"idle", "mismatch"}
              \/ /\ senders'[s].step = "done" /\ senders[s].step # "idle"
                 /\ senders'[s].slip = senders[s].slip
         /\ \A e \in Editors : editors'[e] = editors[e] \/ editors'[e].step = "idle"
  <1>1. senders \in [Senders -> Sender] /\ editors \in [Editors -> Editor]
    BY DEF Typed
  <1>2. ASSUME NEW s \in Senders
        PROVE  /\ [senders[s] EXCEPT !.step = "done"] \in Sender
               /\ \/ senders'[s] = senders[s] /\ senders[s].step \in {"idle", "mismatch"}
                  \/ /\ senders'[s].step = "done" /\ senders[s].step # "idle"
                     /\ senders'[s].slip = senders[s].slip
    BY <1>1 DEF Sender, Crash
  <1>3. ASSUME NEW e \in Editors
        PROVE  /\ Idle(editors[e]) \in Editor
               /\ editors'[e] = editors[e] \/ editors'[e].step = "idle"
    BY <1>1 DEF Editor, Idle, Crash
  <1> QED
    BY <1>1, <1>2, <1>3 DEF Crash

LEMMA TypedNext ==
  ASSUME Typed, [Next]_vars
  PROVE  Typed'
  <1>1. CASE ReleaseStale
    BY <1>1, ReleaseEffect DEF ReleaseStale, Typed
  <1>2. CASE Crash
    BY <1>2, CrashEffect DEF Crash, Typed
  <1>3. CASE UNCHANGED vars
    BY <1>3 DEF vars, Typed
  <1>4. ASSUME NEW e \in Editors, Edit(e) PROVE Typed'
    BY <1>4, EditTypes
  <1>5. ASSUME NEW s \in Senders,
               \/ \E d \in Slips : Load(s, d)
               \/ Proceed(s) \/ LateAccept(s) \/ LogError(s) \/ Abandon(s) \/ GoStale(s)
        PROVE  Typed'
    BY <1>5, SendTypes
  <1> QED
    BY <1>1, <1>2, <1>3, <1>4, <1>5 DEF Next

-----------------------------------------------------------------------------
(* The two inductive invariants of PayslipSend: what the rows keep however   *)
(* statements interleave (HistoryInv), and what the double-send guard gives  *)
(* when an update and its guard are one step (GuardInv).                    *)

(* A slip that exists goes on existing, and what was sent keeps its items.   *)
RowsKept ==
    \A d \in Slips :
        /\ slips[d].status # "absent" => slips'[d].status # "absent"
        /\ slips[d].status \in {"sent", "void"} =>
              slips'[d].status \in {"sent", "void"} /\ slips'[d].items = slips[d].items

(* What HistoryInv says of the rows alone. *)
RowsInv == OneActive /\ ChainInv /\ SentSlipWasMailed /\ ReissueKeepsItems

LEMMA RowsUntouched ==
  ASSUME RowsInv, UNCHANGED slips, mailed \subseteq mailed'
  PROVE  RowsInv' /\ RowsKept
  BY DEF RowsInv, OneActive, ChainInv, SentSlipWasMailed, ReissueKeepsItems, RowsKept, Active

(* Storing a draft keeps them: only the period's draft or its first slip is  *)
(* ever stored, so no sent or voided row is written.                        *)
LEMMA StoreKeepsRows ==
  ASSUME Typed, RowsInv, UNCHANGED mailed,
         NEW d \in Slips, NEW items \in SUBSET Items, Stored(d, items),
         \/ slips[d].status = "draft"
         \/ /\ slips[d].status = "absent" /\ d[2] = 0
            /\ \A o \in Slips : o[1] = d[1] => ~Active(slips[o]),
         d[2] > 0 => items = slips[Replaced(d)].items
  PROVE  RowsInv' /\ RowsKept
  <1>1. /\ slips'[d].status = "draft" /\ slips'[d].items = items
        /\ \A c \in Slips : c # d => slips'[c] = slips[c]
    BY StoreEffect
  <1>2. d[2] \in Nat /\ ~(slips[d].status \in {"sent", "void"})
    BY SlipOrder
  <1>3. RowsKept
    BY <1>1, <1>2 DEF RowsKept
  <1>4. OneActive'
    BY <1>1 DEF OneActive, Active, RowsInv
  <1>5. SentSlipWasMailed'
    BY <1>1 DEF SentSlipWasMailed, RowsInv
  <1>6. ASSUME NEW c \in Slips, c[2] > 0, slips'[c].status # "absent"
        PROVE  slips'[Replaced(c)].status = "void" /\ slips'[c].items = slips'[Replaced(c)].items
    <2>1. Replaced(c) \in Slips /\ Replaced(c) # c
      BY <1>6, SlipOrder
    <2>2. slips[c].status # "absent"
      BY <1>1, <1>2, <1>6
    <2>3. slips[Replaced(c)].status = "void" /\ slips[c].items = slips[Replaced(c)].items
      BY <1>6, <2>2 DEF ChainInv, ReissueKeepsItems, RowsInv
    <2>4. Replaced(c) # d
      BY <1>2, <2>3
    <2>5. slips'[Replaced(c)] = slips[Replaced(c)]
      BY <1>1, <2>1, <2>4
    <2>6. CASE c = d
      BY <1>1, <1>6, <2>3, <2>5, <2>6
    <2>7. CASE c # d
      BY <1>1, <2>3, <2>5, <2>7
    <2> QED
      BY <2>6, <2>7
  <1> QED
    BY <1>3, <1>4, <1>5, <1>6 DEF RowsInv, ChainInv, ReissueKeepsItems

(* Reissuing: the sent slip becomes void, and the revision after it, which   *)
(* cannot exist yet, the period's only active slip.                         *)
LEMMA ReissueEffect ==
  ASSUME Typed, RowsInv, NEW e \in Editors, VoidReissue(e), editors[e].slip[2] < MaxRevision,
         slips[editors[e].slip].status = "sent",
         editors[e].items = slips[editors[e].slip].items
  PROVE  LET d == editors[e].slip IN
         /\ slips[Reissue(d)].status = "absent"
         /\ slips'[d] = [slips[d] EXCEPT !.status = "void"] /\ slips'[d].status = "void"
         /\ slips'[d].items = slips[d].items /\ slips'[d].content = slips[d].content
         /\ slips'[Reissue(d)].status = "draft" /\ slips'[Reissue(d)].items = slips[d].items
         /\ \A c \in Slips : c # d /\ c # Reissue(d) => slips'[c] = slips[c]
  <1> DEFINE d == editors[e].slip
  <1>1. slips \in [Slips -> Row] /\ d \in Slips
    BY ReadTypes DEF Typed
  <1>2. Reissue(d) \in Slips /\ Reissue(d) # d /\ Replaced(Reissue(d)) = d /\ Reissue(d)[2] > 0
    BY <1>1, SlipOrder
  <1>3. slips[Reissue(d)].status = "absent"
    BY <1>1, <1>2 DEF ChainInv, RowsInv
  <1>4. slips' = [slips EXCEPT ![d] = [slips[d] EXCEPT !.status = "void"],
                               ![Reissue(d)] = RowOf("draft", writes + 1, editors[e].items)]
    BY <1>1, <1>2 DEF VoidReissue
  <1> HIDE DEF d
  <1>5. /\ slips'[d] = [slips[d] EXCEPT !.status = "void"]
        /\ slips'[Reissue(d)] = RowOf("draft", writes + 1, editors[e].items)
        /\ \A c \in Slips : c # d /\ c # Reissue(d) => slips'[c] = slips[c]
    BY <1>1, <1>2, <1>4
  <1>6. slips'[d].status = "void" /\ slips'[d].items = slips[d].items
        /\ slips'[d].content = slips[d].content
    BY <1>1, <1>5 DEF Row
  <1>7. editors[e].items = slips[d].items
    BY DEF d
  <1>8. slips'[Reissue(d)].status = "draft" /\ slips'[Reissue(d)].items = slips[d].items
    BY <1>5, <1>7 DEF RowOf
  <1> QED
    BY <1>3, <1>5, <1>6, <1>8 DEF d

LEMMA ReissueKeepsRows ==
  ASSUME Typed, RowsInv, NEW e \in Editors, VoidReissue(e), editors[e].slip[2] < MaxRevision,
         slips[editors[e].slip].status = "sent",
         editors[e].items = slips[editors[e].slip].items
  PROVE  RowsInv' /\ RowsKept
  <1> DEFINE d == editors[e].slip
             r == Reissue(d)
  <1>1. d \in Slips
    BY ReadTypes DEF Typed
  <1>2. r \in Slips /\ r # d /\ Replaced(r) = d /\ r[2] > 0 /\ r[1] = d[1]
    BY <1>1, SlipOrder
  <1>3. /\ slips[r].status = "absent" /\ slips[d].status = "sent"
        /\ slips'[d].status = "void" /\ slips'[d].items = slips[d].items
        /\ slips'[d].content = slips[d].content
        /\ slips'[r].status = "draft" /\ slips'[r].items = slips[d].items
        /\ \A c \in Slips : c # d /\ c # r => slips'[c] = slips[c]
    BY ReissueEffect
  <1>4. UNCHANGED mailed
    BY DEF VoidReissue
  <1>5. \A c \in Slips : c[2] > 0 => Replaced(c) \in Slips /\ Replaced(c) # c
    BY SlipOrder
  <1>6. \A c \in Slips : c[2] > 0 /\ Replaced(c) = d => c = r
    BY <1>1, SlipOrder
  <1> HIDE DEF d, r
  <1>7. RowsKept
    BY <1>3 DEF RowsKept
  <1>8. OneActive'
    BY <1>1, <1>2, <1>3 DEF OneActive, Active, RowsInv
  <1>9. SentSlipWasMailed'
    BY <1>1, <1>3, <1>4 DEF SentSlipWasMailed, RowsInv
  <1>10. ASSUME NEW c \in Slips, c[2] > 0, slips'[c].status # "absent"
         PROVE  slips'[Replaced(c)].status = "void" /\ slips'[c].items = slips'[Replaced(c)].items
    <2>1. CASE c = r
      BY <1>2, <1>3, <2>1
    <2>2. CASE c # r
      <3>1. slips[c].status # "absent" /\ slips'[c].items = slips[c].items
        BY <1>3, <1>10, <2>2
      <3>2. slips[Replaced(c)].status = "void" /\ slips[c].items = slips[Replaced(c)].items
        BY <1>10, <3>1 DEF ChainInv, ReissueKeepsItems, RowsInv
      <3>3. Replaced(c) # d /\ Replaced(c) # r
        BY <1>3, <3>2
      <3> QED
        BY <1>3, <1>5, <1>10, <3>1, <3>2, <3>3
    <2> QED
      BY <2>1, <2>2
  <1> QED
    BY <1>7, <1>8, <1>9, <1>10 DEF RowsInv, ChainInv, ReissueKeepsItems

(* Marking keeps them: only the draft that was just mailed becomes sent. *)
LEMMA MarkEffect ==
  ASSUME Typed, NEW s \in Senders, MarkSlip(s)
  PROVE  \/ UNCHANGED slips
         \/ LET d == senders[s].slip IN
            /\ slips[d].status = "draft" /\ slips[d].content = senders[s].read.content
            /\ slips'[d].status = "sent" /\ slips'[d].items = slips[d].items
            /\ slips'[d].content = slips[d].content
            /\ \A c \in Slips : c # d => slips'[c] = slips[c]
  <1> DEFINE d == senders[s].slip
  <1>1. slips \in [Slips -> Row] /\ d \in Slips
    BY ReadTypes DEF Typed
  <1>2. CASE Marks(slips[d], senders[s].read)
    <2>1. slips' = [slips EXCEPT ![d] = [slips[d] EXCEPT !.status = "sent"]]
      BY <1>2 DEF MarkSlip
    <2>2. slips[d] \in Row
      BY <1>1
    <2> HIDE DEF d
    <2>3. /\ slips'[d].status = "sent" /\ slips'[d].items = slips[d].items
          /\ slips'[d].content = slips[d].content
      BY <1>1, <2>1, <2>2 DEF Row
    <2>4. \A c \in Slips : c # d => slips'[c] = slips[c]
      BY <1>1, <2>1
    <2> QED
      BY <1>2, <2>3, <2>4 DEF Marks, d
  <1>3. CASE ~Marks(slips[d], senders[s].read)
    BY <1>3 DEF MarkSlip
  <1> QED
    BY <1>2, <1>3

LEMMA MarkKeepsRows ==
  ASSUME Typed, RowsInv, SendersInv, NEW s \in Senders, MarkSlip(s)
  PROVE  RowsInv' /\ RowsKept
  <1>1. UNCHANGED mailed
    BY DEF MarkSlip
  <1>2. CASE UNCHANGED slips
    BY <1>1, <1>2, RowsUntouched
  <1>3. CASE ~UNCHANGED slips
    <2> DEFINE d == senders[s].slip
    <2>1. /\ slips[d].status = "draft" /\ slips[d].content = senders[s].read.content
          /\ slips'[d].status = "sent" /\ slips'[d].items = slips[d].items
          /\ slips'[d].content = slips[d].content
          /\ \A c \in Slips : c # d => slips'[c] = slips[c]
      BY <1>3, MarkEffect
    <2>2. d \in Slips
      BY ReadTypes DEF Typed
    <2>3. \E m \in mailed : m.slip = d /\ m.content = slips[d].content
      BY <2>1 DEF MarkSlip, AtStep, SendersInv, Mail
    <2>4. \A c \in Slips : c[2] > 0 => Replaced(c) \in Slips
      BY SlipOrder
    <2> HIDE DEF d
    <2>5. RowsKept
      BY <2>1 DEF RowsKept
    <2>6. OneActive'
      BY <2>1, <2>2 DEF OneActive, Active, RowsInv
    <2>7. SentSlipWasMailed'
      BY <1>1, <2>1, <2>2, <2>3 DEF SentSlipWasMailed, RowsInv
    <2>8. ASSUME NEW c \in Slips, c[2] > 0, slips'[c].status # "absent"
          PROVE  slips'[Replaced(c)].status = "void" /\ slips'[c].items = slips'[Replaced(c)].items
      <3>1. slips[c].status # "absent" /\ slips'[c].items = slips[c].items
        BY <2>1, <2>8
      <3>2. slips[Replaced(c)].status = "void" /\ slips[c].items = slips[Replaced(c)].items
        BY <2>8, <3>1 DEF ChainInv, ReissueKeepsItems, RowsInv
      <3> QED
        BY <2>1, <2>4, <2>8, <3>1, <3>2
    <2> QED
      BY <2>5, <2>6, <2>7, <2>8 DEF RowsInv, ChainInv, ReissueKeepsItems
  <1> QED
    BY <1>2, <1>3

(* What an editing request took from the rows outlives any step of another:  *)
(* the slip a draft replaces is voided, and voided rows keep their items.   *)
LEMMA OtherEditors ==
  ASSUME Typed, ChainInv, EditorsInv, RowsKept,
         NEW f \in Editors, editors'[f] = editors[f] \/ editors'[f].step = "idle"
  PROVE  LET d == editors'[f].slip IN
         /\ editors'[f].step = "storing" /\ editors'[f].creates => d[2] = 0
         /\ \/ editors'[f].step = "storing" /\ ~editors'[f].creates
            \/ editors'[f].step = "updating"
            => /\ slips'[d].status # "absent"
               /\ d[2] > 0 => editors'[f].items = slips'[Replaced(d)].items
         /\ editors'[f].step = "voiding" =>
               /\ d[2] < MaxRevision
               /\ slips'[d].status \in {"sent", "void"} /\ editors'[f].items = slips'[d].items
  <1>1. CASE editors'[f].step = "idle"
    BY <1>1
  <1>2. CASE editors'[f] = editors[f]
    <2> DEFINE d == editors[f].slip
    <2>1. d \in Slips
      BY ReadTypes DEF Typed
    <2>2. d[2] > 0 => Replaced(d) \in Slips
      BY <2>1, SlipOrder
    <2>3. slips[d].status # "absent" /\ d[2] > 0 => slips[Replaced(d)].status = "void"
      BY <2>1 DEF ChainInv
    <2>4. slips[d].status # "absent" => slips'[d].status # "absent"
      BY <2>1 DEF RowsKept
    <2>5. slips[d].status # "absent" /\ d[2] > 0 =>
            slips'[Replaced(d)].items = slips[Replaced(d)].items
      BY <2>2, <2>3 DEF RowsKept
    <2>6. slips[d].status \in {"sent", "void"} =>
            slips'[d].status \in {"sent", "void"} /\ slips'[d].items = slips[d].items
      BY <2>1 DEF RowsKept
    <2> QED
      BY <1>2, <2>4, <2>5, <2>6 DEF EditorsInv
  <1> QED
    BY <1>1, <1>2

(* A step of an editing request: the rows, the requests, and nothing else. *)
LEMMA EditRows ==
  ASSUME Typed, RowsInv, EditorsInv, NEW e \in Editors, Edit(e)
  PROVE  RowsInv' /\ RowsKept /\ EditorsInv'
  <1>0. /\ editors[e].slip \in Slips /\ editors[e].items \in SUBSET Items /\ editors[e] \in Editor
        /\ \A d \in Slips : slips[d].items \in SUBSET Items
        /\ \A d \in Slips : d[2] \in Nat /\ (d[2] > 0 => Replaced(d) \in Slips)
    BY ReadTypes, SlipOrder DEF Typed
  <1>1. ASSUME RowsInv', RowsKept,
               editors'[e].step = "idle" \/ editors'[e] = editors[e],
               \A f \in Editors : f # e => editors'[f] = editors[f]
        PROVE  EditorsInv'
    BY <1>1, OtherEditors DEF EditorsInv, RowsInv
  <1>2. ASSUME RowsInv', RowsKept, \A f \in Editors : f # e => editors'[f] = editors[f],
               \/ /\ editors'[e].step = "storing"
                  /\ editors'[e].creates => editors'[e].slip[2] = 0
                  /\ ~editors'[e].creates => slips'[editors'[e].slip].status # "absent"
                  /\ editors'[e].slip[2] > 0 =>
                        editors'[e].items = slips'[Replaced(editors'[e].slip)].items
               \/ /\ editors'[e].step = "voiding" /\ editors'[e].slip[2] < MaxRevision
                  /\ slips'[editors'[e].slip].status = "sent"
                  /\ editors'[e].items = slips'[editors'[e].slip].items
        PROVE  EditorsInv'
    BY <1>2, OtherEditors DEF EditorsInv, RowsInv
  <1>3. ASSUME NEW d \in Slips, Generate(e, d) PROVE RowsInv' /\ RowsKept /\ EditorsInv'
    <2>1. RowsInv' /\ RowsKept /\ UNCHANGED slips
      BY <1>3, RowsUntouched DEF Generate
    <2>2. PICK items \in PinnedItems(d) :
            editors' = [editors EXCEPT ![e] =
                          EditorWith("storing", d, slips[d].status = "absent", items)]
      BY <1>3 DEF Generate
    <2>4. /\ editors'[e].step = "storing" /\ editors'[e].slip = d
          /\ editors'[e].creates = (slips[d].status = "absent") /\ editors'[e].items = items
          /\ \A f \in Editors : f # e => editors'[f] = editors[f]
      BY <2>2 DEF Typed, EditorWith
    <2>5. slips[d].status = "absent" => d[2] = 0
      BY <1>3 DEF Generate
    <2>6. d[2] > 0 => items = slips[Replaced(d)].items
      BY <1>0, <2>2 DEF PinnedItems
    <2>7. ~editors'[e].creates => slips[d].status # "absent"
      BY <2>4
    <2>8. editors'[e].creates => slips[d].status = "absent"
      BY <2>4
    <2>9. /\ editors'[e].creates => editors'[e].slip[2] = 0
          /\ ~editors'[e].creates => slips'[editors'[e].slip].status # "absent"
          /\ editors'[e].slip[2] > 0 => editors'[e].items = slips'[Replaced(editors'[e].slip)].items
      BY <2>1, <2>4, <2>5, <2>6, <2>7, <2>8
    <2>10. EditorsInv'
      BY <1>2, <2>1, <2>4, <2>9
    <2> QED
      BY <2>1, <2>10
  <1>4. ASSUME NEW d \in Slips, Update(e, d) PROVE RowsInv' /\ RowsKept /\ EditorsInv'
    <2>1. RowsInv' /\ RowsKept /\ UNCHANGED slips
      BY <1>4, RowsUntouched DEF Update
    <2>2. /\ editors'[e].step = "storing" /\ editors'[e].slip = d
          /\ editors'[e].creates = FALSE /\ editors'[e].items = slips[d].items
          /\ \A f \in Editors : f # e => editors'[f] = editors[f]
      BY <1>4 DEF Update, Typed, EditorWith
    <2>3. slips[d].status = "draft"
      BY <1>4 DEF Update
    <2>4. d[2] > 0 => slips[d].items = slips[Replaced(d)].items
      BY <2>3 DEF ReissueKeepsItems, RowsInv
    <2>5. EditorsInv'
      BY <1>2, <2>1, <2>2, <2>3, <2>4
    <2> QED
      BY <2>1, <2>5
  <1>5. ASSUME NEW d \in Slips, CheckVoid(e, d) PROVE RowsInv' /\ RowsKept /\ EditorsInv'
    <2>1. RowsInv' /\ RowsKept /\ UNCHANGED slips
      BY <1>5, RowsUntouched DEF CheckVoid
    <2>2. /\ editors'[e].step = "voiding" /\ editors'[e].slip = d
          /\ editors'[e].items = slips[d].items
          /\ \A f \in Editors : f # e => editors'[f] = editors[f]
      BY <1>5 DEF CheckVoid, Typed, EditorWith
    <2>3. slips[d].status = "sent" /\ d[2] < MaxRevision
      BY <1>5 DEF CheckVoid
    <2>4. EditorsInv'
      BY <1>2, <2>1, <2>2, <2>3
    <2> QED
      BY <2>1, <2>4
  <1>6. CASE Create(e)
    <2>1. editors'[e].step = "idle" /\ \A f \in Editors : f # e => editors'[f] = editors[f]
      BY <1>6, EndEffect DEF Create
    <2>2. UNCHANGED mailed /\ editors[e].slip[2] = 0
      BY <1>6 DEF Create, EditorsInv
    <2>3. RowsInv' /\ RowsKept
      <3>1. CASE UNCHANGED slips
        BY <2>2, <3>1, RowsUntouched
      <3>2. CASE /\ slips[editors[e].slip].status = "absent"
                 /\ \A o \in Slips : o[1] = editors[e].slip[1] => ~Active(slips[o])
                 /\ Stored(editors[e].slip, editors[e].items)
        BY <1>0, <2>2, <3>2, StoreKeepsRows
      <3> QED
        BY <1>6, <3>1, <3>2 DEF Create
    <2> QED
      BY <1>1, <2>1, <2>3
  <1>7. CASE CommitUpdate(e)
    <2>1. editors'[e].step = "idle" /\ \A f \in Editors : f # e => editors'[f] = editors[f]
      BY <1>7, EndEffect DEF CommitUpdate
    <2>2. UNCHANGED mailed
      BY <1>7 DEF CommitUpdate
    <2>3. editors[e].slip[2] > 0 => editors[e].items = slips[Replaced(editors[e].slip)].items
      BY <1>7 DEF CommitUpdate, EditorsInv
    <2>4. RowsInv' /\ RowsKept
      <3>1. CASE UNCHANGED slips
        BY <2>2, <3>1, RowsUntouched
      <3>2. CASE slips[editors[e].slip].status = "draft" /\ Stored(editors[e].slip, editors[e].items)
        BY <1>0, <2>2, <2>3, <3>2, StoreKeepsRows
      <3> QED
        BY <1>7, <3>1, <3>2 DEF CommitUpdate, StillDraft
    <2> QED
      BY <1>1, <2>1, <2>4
  <1>8. CASE BeginUpdate(e)
    <2>1. RowsInv' /\ RowsKept /\ UNCHANGED slips
      BY <1>8, RowsUntouched DEF BeginUpdate
    <2>2. editors \in [Editors -> Editor]
      BY DEF Typed
    <2>3. \A f \in Editors : f # e => editors'[f] = editors[f]
      BY <1>8, <2>2 DEF BeginUpdate
    <2>4. CASE editors'[e] = Idle(editors[e])
      <3>1. editors'[e].step = "idle"
        BY <1>0, <2>4 DEF Idle, Editor
      <3> QED
        BY <1>1, <2>1, <2>3, <3>1
    <2>5. CASE editors'[e] = [editors[e] EXCEPT !.step = "updating"]
      <3>1. /\ editors'[e].step = "updating" /\ editors'[e].slip = editors[e].slip
            /\ editors'[e].items = editors[e].items
        BY <1>0, <2>5 DEF Editor
      <3>2. LET d == editors[e].slip IN
            slips[d].status # "absent" /\ (d[2] > 0 => editors[e].items = slips[Replaced(d)].items)
        BY <1>8 DEF BeginUpdate, EditorsInv
      <3> QED
        BY <2>1, <2>3, <3>1, <3>2, OtherEditors DEF EditorsInv, RowsInv
    <2> QED
      BY <1>8, <2>1, <2>2, <2>4, <2>5 DEF BeginUpdate
  <1>9. CASE VoidReissue(e)
    <2>1. editors'[e].step = "idle" /\ \A f \in Editors : f # e => editors'[f] = editors[f]
      BY <1>9, EndEffect DEF VoidReissue
    <2>2. editors[e].slip[2] < MaxRevision /\ editors[e].items = slips[editors[e].slip].items
      BY <1>9 DEF VoidReissue, EditorsInv
    <2>3. RowsInv' /\ RowsKept
      <3>1. CASE slips[editors[e].slip].status = "sent"
        BY <1>9, <2>2, <3>1, ReissueKeepsRows
      <3>2. CASE slips[editors[e].slip].status # "sent"
        BY <1>9, <3>2, RowsUntouched DEF VoidReissue
      <3> QED
        BY <3>1, <3>2
    <2> QED
      BY <1>1, <2>1, <2>3
  <1> QED
    BY <1>3, <1>4, <1>5, <1>6, <1>7, <1>8, <1>9 DEF Edit

(* A sender nobody moved keeps what it can rely on. *)
LEMMA OtherSenders ==
  ASSUME Typed, SendersInv, RowsKept, mailed \subseteq mailed',
         NEW t \in Senders, senders'[t] = senders[t],
         \/ deliveries'[t] = deliveries[t]
         \/ /\ deliveries[t].status # "none" /\ deliveries'[t].status # "none"
            /\ deliveries'[t].slip = deliveries[t].slip
  PROVE  /\ senders'[t].step \in {"idle", "ready"} => deliveries'[t].status = "none"
         /\ senders'[t].step \notin {"idle", "ready", "done"} => deliveries'[t].status # "none"
         /\ deliveries'[t].status # "none" => deliveries'[t].slip = senders'[t].slip
         /\ senders'[t].step # "idle" => slips'[senders'[t].slip].status # "absent"
         /\ senders'[t].step \in {"accepted", "delivered"} => Mail(t)' \in mailed'
  <1>1. senders[t].slip \in Slips
    BY ReadTypes DEF Typed
  <1>2. Mail(t)' = Mail(t)
    BY DEF Mail
  <1> QED
    BY <1>1, <1>2 DEF SendersInv, RowsKept

(* A sender's step, from what it changes of the sender and of its row. *)
LEMMA MovedSender ==
  ASSUME Typed, SendersInv, RowsKept, mailed \subseteq mailed', NEW s \in Senders,
         \A t \in Senders : t # s => senders'[t] = senders[t] /\ deliveries'[t] = deliveries[t],
         senders[s].step # "idle", senders'[s].step \notin {"idle", "ready"},
         senders'[s].slip = senders[s].slip,
         deliveries'[s].status = "none" \/ deliveries'[s].slip = senders[s].slip,
         deliveries'[s].status = "none" => senders'[s].step = "done",
         senders'[s].step \in {"accepted", "delivered"} => Mail(s)' \in mailed'
  PROVE  SendersInv'
  <1>1. senders[s].slip \in Slips
    BY ReadTypes DEF Typed
  <1>2. slips'[senders'[s].slip].status # "absent"
    BY <1>1 DEF SendersInv, RowsKept
  <1>3. ASSUME NEW t \in Senders
        PROVE  /\ senders'[t].step \in {"idle", "ready"} => deliveries'[t].status = "none"
               /\ senders'[t].step \notin {"idle", "ready", "done"} => deliveries'[t].status # "none"
               /\ deliveries'[t].status # "none" => deliveries'[t].slip = senders'[t].slip
               /\ senders'[t].step # "idle" => slips'[senders'[t].slip].status # "absent"
               /\ senders'[t].step \in {"accepted", "delivered"} => Mail(t)' \in mailed'
    BY <1>2, OtherSenders
  <1> QED
    BY <1>3 DEF SendersInv

(* A step of a sender. *)
LEMMA SendRows ==
  ASSUME Typed, RowsInv, EditorsInv, SendersInv, NEW s \in Senders,
         \/ \E d \in Slips : Load(s, d)
         \/ Proceed(s) \/ LateAccept(s) \/ LogError(s) \/ Abandon(s) \/ GoStale(s)
  PROVE  RowsInv' /\ RowsKept /\ EditorsInv' /\ SendersInv'
  <1>0. /\ senders \in [Senders -> Sender] /\ deliveries \in [Senders -> Delivery]
        /\ slips \in [Slips -> Row]
    BY DEF Typed
  <1>1. ASSUME RowsKept, UNCHANGED editors PROVE EditorsInv'
    BY <1>1, OtherEditors DEF EditorsInv, RowsInv
  <1>2. ASSUME NEW d \in Slips, Load(s, d) PROVE RowsInv' /\ RowsKept /\ EditorsInv' /\ SendersInv'
    <2>1. RowsInv' /\ RowsKept /\ UNCHANGED <<slips, mailed, editors, deliveries>>
      BY <1>2, RowsUntouched DEF Load
    <2>2. senders'[s] = [step |-> "ready", slip |-> d, read |-> slips[d], raced |-> FALSE]
          /\ \A t \in Senders : t # s => senders'[t] = senders[t]
      BY <1>0, <1>2 DEF Load
    <2>3. senders[s].step = "idle" /\ slips[d].status # "absent"
      BY <1>2 DEF Load, AtStep, Active
    <2>4. SendersInv'
      BY <2>1, <2>2, <2>3, OtherSenders DEF SendersInv
    <2> QED
      BY <1>1, <2>1, <2>4
  <1>3. CASE Enqueue(s)
    <2>1. RowsInv' /\ RowsKept /\ UNCHANGED <<slips, mailed, editors>>
      BY <1>3, RowsUntouched DEF Enqueue
    <2>2. \/ MovesTo(s, "queued") /\ deliveries' = [deliveries EXCEPT ![s] =
                      [status |-> "queued", slip |-> senders[s].slip, stale |-> FALSE]]
          \/ MovesTo(s, "done") /\ UNCHANGED deliveries
      BY <1>3 DEF Enqueue
    <2>3. /\ senders'[s].step \in {"queued", "done"} /\ senders'[s].slip = senders[s].slip
          /\ \A t \in Senders : t # s => senders'[t] = senders[t]
      BY <2>2, MoveEffect
    <2>4. /\ \A t \in Senders : t # s => deliveries'[t] = deliveries[t]
          /\ deliveries'[s].status = "none" \/ deliveries'[s].slip = senders[s].slip
          /\ deliveries'[s].status = "none" => MovesTo(s, "done")
      BY <1>0, <1>3, <2>2 DEF SendersInv, Enqueue, AtStep
    <2>5. senders[s].step = "ready"
      BY <1>3 DEF Enqueue, AtStep
    <2>6. SendersInv'
      BY <2>1, <2>3, <2>4, <2>5, MoveEffect, MovedSender
    <2> QED
      BY <1>1, <2>1, <2>6
  <1>4. CASE Verify(s) \/ Cancel(s) \/ Start(s) \/ LogOutcome(s) \/ LogError(s) \/ Abandon(s)
    <2>1. RowsInv' /\ RowsKept /\ UNCHANGED <<slips, mailed, editors>>
      BY <1>4, RowsUntouched DEF Verify, Cancel, Start, LogOutcome, LogError, Abandon
    <2>2. senders[s].step # "idle"
      BY <1>4 DEF Verify, Cancel, Start, LogOutcome, LogError, Abandon, AtStep
    <2>3. PICK step \in {"verified", "cancelling", "sending", "delivered", "done"} :
            /\ MovesTo(s, step) \/ (Verify(s) /\ senders'[s].step = step)
            /\ step = "delivered" => senders[s].step = "accepted"
      <3>1. CASE Verify(s)
        <4>1. senders'[s].step \in {"verified", "cancelling"}
          BY <3>1, VerifyEffect
        <4>2. PICK step : step = senders'[s].step
          OBVIOUS
        <4> QED
          BY <3>1, <4>1, <4>2
      <3>2. CASE Cancel(s) \/ Start(s) \/ LogOutcome(s) \/ LogError(s) \/ Abandon(s)
        <4>1. \/ MovesTo(s, "done") \/ MovesTo(s, "cancelling") \/ MovesTo(s, "sending")
              \/ MovesTo(s, "delivered") /\ senders[s].step = "accepted"
          BY <3>2 DEF Cancel, Start, LogOutcome, LogError, Abandon, AtStep
        <4>2. PICK step : step \in {"done", "cancelling", "sending", "delivered"} /\ MovesTo(s, step)
                          /\ (step = "delivered" => senders[s].step = "accepted")
          <5>1. CASE MovesTo(s, "done")
            BY <5>1
          <5>2. CASE MovesTo(s, "cancelling")
            BY <5>2
          <5>3. CASE MovesTo(s, "sending")
            BY <5>3
          <5>4. CASE MovesTo(s, "delivered") /\ senders[s].step = "accepted"
            BY <5>4
          <5> QED
            BY <4>1, <5>1, <5>2, <5>3, <5>4
        <4> QED
          BY <4>2
      <3> QED
        BY <1>4, <3>1, <3>2
    <2>4. /\ senders'[s].step = step /\ senders'[s].slip = senders[s].slip
          /\ senders'[s].read = senders[s].read
          /\ \A t \in Senders : t # s => senders'[t] = senders[t]
      BY <2>3, MoveEffect, VerifyEffect
    <2>5. UNCHANGED deliveries \/ Logged(s, "failed") \/ Logged(s, "sending") \/ Logged(s, "sent")
      BY <1>4 DEF Verify, Cancel, Start, LogOutcome, LogError, Abandon
    <2>6. /\ \A t \in Senders : t # s => deliveries'[t] = deliveries[t]
          /\ deliveries'[s].slip = deliveries[s].slip
      BY <2>5, LogEffect
    <2>7. /\ deliveries'[s].status = "none" \/ deliveries'[s].slip = senders[s].slip
          /\ deliveries'[s].status = "none" => step = "done"
      <3>1. CASE UNCHANGED deliveries
        <4>1. senders[s].step = "ready" => step = "done"
          BY <1>4, <2>3, MoveEffect DEF Verify, Cancel, Start, LogOutcome, LogError, Abandon, AtStep
        <4>2. senders[s].step = "done" => step = "done"
          BY <1>4 DEF Verify, Cancel, Start, LogOutcome, LogError, Abandon, AtStep
        <4> QED
          BY <2>2, <3>1, <4>1, <4>2 DEF SendersInv
      <3>2. CASE ~UNCHANGED deliveries
        <4>1. deliveries[s].status # "none"
          BY <1>4, <3>2 DEF Verify, Cancel, Start, LogOutcome, LogError, Abandon, AtStep, SendersInv
        <4>2. deliveries'[s].status # "none"
          BY <2>5, <3>2, LogEffect
        <4> QED
          BY <2>6, <4>1, <4>2 DEF SendersInv
      <3> QED
        BY <3>1, <3>2
    <2>8. Mail(s)' = Mail(s)
      BY <2>4 DEF Mail
    <2>9. SendersInv'
      BY <2>1, <2>2, <2>3, <2>4, <2>6, <2>7, <2>8, MovedSender DEF SendersInv
    <2> QED
      BY <1>1, <2>1, <2>9
  <1>5. CASE Transmit(s) \/ LateAccept(s)
    <2>1. RowsInv' /\ RowsKept /\ UNCHANGED <<slips, editors, deliveries>> /\ mailed \subseteq mailed'
      BY <1>5, RowsUntouched DEF Transmit, LateAccept
    <2>2. PICK step \in {"accepted", "rejected"} :
            MovesTo(s, step) /\ (step = "accepted" => Mail(s) \in mailed')
      BY <1>5 DEF Transmit, LateAccept
    <2>3. /\ senders'[s].step = step /\ senders'[s].slip = senders[s].slip
          /\ senders'[s].read = senders[s].read
          /\ \A t \in Senders : t # s => senders'[t] = senders[t]
      BY <2>2, MoveEffect
    <2>4. Mail(s)' = Mail(s)
      BY <2>3 DEF Mail
    <2>5. senders[s].step = "sending"
      BY <1>5 DEF Transmit, LateAccept, AtStep
    <2>6. deliveries'[s].status # "none" /\ deliveries'[s].slip = senders[s].slip
      BY <2>1, <2>5 DEF SendersInv
    <2>7. SendersInv'
      BY <2>1, <2>2, <2>3, <2>4, <2>5, <2>6, MovedSender
    <2> QED
      BY <1>1, <2>1, <2>7
  <1>6. CASE GoStale(s)
    <2>1. RowsInv' /\ RowsKept /\ UNCHANGED <<slips, mailed, editors, senders>>
      BY <1>6, RowsUntouched DEF GoStale
    <2>2. deliveries' = [deliveries EXCEPT ![s] = [deliveries[s] EXCEPT !.stale = TRUE]]
      BY <1>6 DEF GoStale
    <2>3. /\ \A t \in Senders : t # s => deliveries'[t] = deliveries[t]
          /\ deliveries'[s].slip = deliveries[s].slip
          /\ deliveries'[s].status = deliveries[s].status
      BY <1>0, <2>2 DEF Delivery
    <2>4. deliveries[s].status # "none"
      BY <1>6 DEF GoStale, HoldsGuard
    <2>5. SendersInv'
      BY <2>1, <2>3, <2>4, OtherSenders DEF SendersInv
    <2> QED
      BY <1>1, <2>1, <2>5
  <1>7. CASE MarkSlip(s)
    <2>1. RowsInv' /\ RowsKept
      BY <1>7, MarkKeepsRows
    <2>2. UNCHANGED <<deliveries, editors, mailed>> /\ senders[s].step = "delivered"
      BY <1>7 DEF MarkSlip, AtStep
    <2>3. MovesTo(s, "done") \/ MovesTo(s, "mismatch")
      BY <1>7 DEF MarkSlip
    <2>4. /\ senders'[s].step \in {"done", "mismatch"} /\ senders'[s].slip = senders[s].slip
          /\ \A t \in Senders : t # s => senders'[t] = senders[t]
      BY <2>3, MoveEffect
    <2>5. deliveries'[s].status # "none" /\ deliveries'[s].slip = senders[s].slip
      BY <2>2 DEF SendersInv
    <2>6. SendersInv'
      BY <2>1, <2>2, <2>4, <2>5, MovedSender
    <2> QED
      BY <1>1, <2>1, <2>2, <2>6
  <1> QED
    BY <1>2, <1>3, <1>4, <1>5, <1>6, <1>7 DEF Proceed

(* The guard is raised on a free slip only, and never moves to another.      *)
LEMMA GuardKept ==
  ASSUME OneInFlight,
         \A s \in Senders : HoldsGuard(s)' =>
            HoldsGuard(s) /\ deliveries'[s].slip = deliveries[s].slip
  PROVE  OneInFlight'
  BY DEF OneInFlight

LEMMA SendGuard ==
  ASSUME Typed, OneInFlight, NEW s \in Senders,
         \/ \E d \in Slips : Load(s, d)
         \/ Proceed(s) \/ LateAccept(s) \/ LogError(s) \/ Abandon(s) \/ GoStale(s)
  PROVE  OneInFlight'
  <1>0. deliveries \in [Senders -> Delivery]
    BY DEF Typed
  <1>1. CASE UNCHANGED deliveries
    BY <1>1, GuardKept DEF HoldsGuard
  <1>2. CASE Logged(s, "failed") \/ Logged(s, "sent")
    <2>1. deliveries'[s].status \in {"failed", "sent"}
          /\ \A t \in Senders : t # s => deliveries'[t] = deliveries[t]
      BY <1>2, LogEffect
    <2> QED
      BY <2>1, GuardKept DEF HoldsGuard
  <1>3. CASE Logged(s, "sending") /\ MaySend(s)
    <2>1. /\ deliveries'[s].slip = deliveries[s].slip /\ HoldsGuard(s)
          /\ \A t \in Senders : t # s => deliveries'[t] = deliveries[t]
      BY <1>3, LogEffect DEF MaySend, HoldsGuard
    <2> QED
      BY <2>1, GuardKept DEF HoldsGuard
  <1>4. CASE GoStale(s)
    <2>1. deliveries' = [deliveries EXCEPT ![s] = [deliveries[s] EXCEPT !.stale = TRUE]]
      BY <1>4 DEF GoStale
    <2>2. /\ deliveries'[s].slip = deliveries[s].slip /\ HoldsGuard(s)
          /\ \A t \in Senders : t # s => deliveries'[t] = deliveries[t]
      BY <1>0, <1>4, <2>1 DEF Delivery, GoStale
    <2> QED
      BY <2>2, GuardKept DEF HoldsGuard
  <1>5. CASE Enqueue(s) /\ ~UNCHANGED deliveries
    <2>1. /\ GuardFree(senders[s].slip) /\ deliveries'[s].slip = senders[s].slip
          /\ \A t \in Senders : t # s => deliveries'[t] = deliveries[t]
      BY <1>0, <1>5 DEF Enqueue
    <2> QED
      BY <2>1 DEF OneInFlight, GuardFree, InFlight, HoldsGuard
  <1>6. CASE Proceed(s)
    BY <1>1, <1>2, <1>3, <1>5, <1>6
       DEF Proceed, Enqueue, Verify, Cancel, Start, Transmit, LogOutcome, MarkSlip
  <1> QED
    BY <1>1, <1>4, <1>6 DEF Load, LateAccept, LogError, Abandon

LEMMA HistoryInit == Init => HistoryInv
  <1> SUFFICES ASSUME Init PROVE HistoryInv
    OBVIOUS
  <1>1. PICK d \in Slips :
         /\ deliveries = [s \in Senders |-> [status |-> "none", slip |-> d, stale |-> FALSE]]
         /\ senders = [s \in Senders |-> [step |-> "idle", slip |-> d, read |-> NoRow, raced |-> FALSE]]
         /\ editors = [e \in Editors |-> [step |-> "idle", slip |-> d, creates |-> FALSE, items |-> {}]]
    BY DEF Init
  <1>2. NoRow \in Row /\ NoRow.status = "absent"
    BY DEF NoRow, RowOf, Row
  <1>3. /\ slips \in [Slips -> Row] /\ \A c \in Slips : slips[c].status = "absent"
        /\ mailed = {} /\ writes = 0 /\ faults = 0
    BY <1>2 DEF Init
  <1>4. deliveries \in [Senders -> Delivery] /\ \A s \in Senders : deliveries[s].status = "none"
    BY <1>1 DEF Delivery
  <1>5. senders \in [Senders -> Sender] /\ \A s \in Senders : senders[s].step = "idle"
    BY <1>1, <1>2 DEF Sender
  <1>6. editors \in [Editors -> Editor] /\ \A e \in Editors : editors[e].step = "idle"
    BY <1>1 DEF Editor
  <1>7. TypeOK
    BY <1>3, <1>4, <1>5, <1>6 DEF TypeOK, OneActive, OneInFlight, Active, HoldsGuard
  <1>8. SendersInv /\ EditorsInv /\ ChainInv /\ SentSlipWasMailed /\ ReissueKeepsItems
    BY <1>3, <1>4, <1>5, <1>6 DEF SendersInv, EditorsInv, ChainInv, SentSlipWasMailed, ReissueKeepsItems
  <1> QED
    BY <1>7, <1>8 DEF HistoryInv

LEMMA HistoryParts ==
  HistoryInv <=> Typed /\ OneInFlight /\ RowsInv /\ SendersInv /\ EditorsInv
  BY DEF HistoryInv, TypeOK, Typed, RowsInv

LEMMA HistoryNext ==
  ASSUME HistoryInv, [Next]_vars
  PROVE  HistoryInv'
  <1>0. Typed /\ OneInFlight /\ RowsInv /\ SendersInv /\ EditorsInv
    BY HistoryParts
  <1>1. Typed'
    BY <1>0, TypedNext
  <1>2. ASSUME NEW e \in Editors, Edit(e)
        PROVE  (OneInFlight /\ RowsInv /\ SendersInv /\ EditorsInv)'
    <2>1. RowsInv' /\ RowsKept /\ EditorsInv'
      BY <1>0, <1>2, EditRows
    <2>2. UNCHANGED <<deliveries, senders, mailed>>
      BY <1>2 DEF Edit, Generate, Update, CheckVoid, Create, BeginUpdate,
                  CommitUpdate, VoidReissue
    <2>3. OneInFlight'
      BY <1>0, <2>2, GuardKept DEF HoldsGuard
    <2>4. SendersInv'
      BY <1>0, <2>1, <2>2, OtherSenders DEF SendersInv
    <2> QED
      BY <2>1, <2>3, <2>4
  <1>3. ASSUME NEW s \in Senders,
               \/ \E d \in Slips : Load(s, d)
               \/ Proceed(s) \/ LateAccept(s) \/ LogError(s) \/ Abandon(s) \/ GoStale(s)
        PROVE  (OneInFlight /\ RowsInv /\ SendersInv /\ EditorsInv)'
    BY <1>0, <1>3, SendRows, SendGuard
  <1>4. ASSUME ReleaseStale
        PROVE  (OneInFlight /\ RowsInv /\ SendersInv /\ EditorsInv)'
    <2>1. RowsInv' /\ RowsKept /\ UNCHANGED <<slips, senders, editors, mailed>>
      BY <1>0, <1>4, RowsUntouched DEF ReleaseStale
    <2>2. \A s \in Senders :
              \/ deliveries'[s] = deliveries[s]
              \/ /\ HoldsGuard(s) /\ deliveries'[s].status = "failed"
                 /\ deliveries'[s].slip = deliveries[s].slip
      BY <1>0, <1>4, ReleaseEffect
    <2>3. OneInFlight'
      BY <1>0, <2>2, GuardKept DEF HoldsGuard
    <2>4. SendersInv'
      BY <1>0, <2>1, <2>2, OtherSenders DEF SendersInv, HoldsGuard
    <2>5. EditorsInv'
      BY <1>0, <2>1, OtherEditors DEF EditorsInv, RowsInv
    <2> QED
      BY <2>1, <2>3, <2>4, <2>5
  <1>5. ASSUME Crash
        PROVE  (OneInFlight /\ RowsInv /\ SendersInv /\ EditorsInv)'
    <2>1. RowsInv' /\ RowsKept /\ UNCHANGED <<slips, deliveries, mailed>>
      BY <1>0, <1>5, RowsUntouched DEF Crash
    <2>2. /\ \A s \in Senders :
              \/ senders'[s] = senders[s] /\ senders[s].step \in {"idle", "mismatch"}
              \/ /\ senders'[s].step = "done" /\ senders[s].step # "idle"
                 /\ senders'[s].slip = senders[s].slip
          /\ \A e \in Editors : editors'[e] = editors[e] \/ editors'[e].step = "idle"
      BY <1>0, <1>5, CrashEffect
    <2>3. OneInFlight'
      BY <1>0, <2>1, GuardKept DEF HoldsGuard
    <2>4. SendersInv'
      BY <1>0, <2>1, <2>2, OtherSenders DEF SendersInv
    <2>5. EditorsInv'
      BY <1>0, <2>1, <2>2, OtherEditors DEF EditorsInv, RowsInv
    <2> QED
      BY <2>1, <2>3, <2>4, <2>5
  <1>6. ASSUME UNCHANGED vars
        PROVE  (OneInFlight /\ RowsInv /\ SendersInv /\ EditorsInv)'
    <2>1. RowsInv' /\ RowsKept
      BY <1>0, <1>6, RowsUntouched DEF vars
    <2>2. OneInFlight' /\ SendersInv' /\ EditorsInv'
      BY <1>0, <1>6 DEF vars, OneInFlight, HoldsGuard, SendersInv, EditorsInv, Mail
    <2> QED
      BY <2>1, <2>2
  <1> QED
    <2>1. (OneInFlight /\ RowsInv /\ SendersInv /\ EditorsInv)'
      BY <1>2, <1>3, <1>4, <1>5, <1>6 DEF Next
    <2> QED
      BY <1>1, <2>1 DEF HistoryInv, TypeOK, Typed, RowsInv

(* Whatever statements interleave, go stale, fail or are lost with the       *)
(* process: one active slip per period and one delivery in flight per slip,  *)
(* a sent or voided slip was mailed as stored, and a reissue pays what it    *)
(* replaces, also with READ COMMITTED updates.                              *)
THEOREM HistoryCorrect == Spec => []HistoryInv
  <1>1. HistoryInv /\ [Next]_vars => HistoryInv'
    BY HistoryNext
  <1> QED
    BY <1>1, HistoryInit, PTL DEF Spec

(* Types and the two unique indexes, as the run checks them. *)
THEOREM SendTypeCorrect == Spec => []TypeOK
  <1>1. HistoryInv => TypeOK
    BY DEF HistoryInv
  <1> QED
    BY <1>1, HistoryCorrect, PTL

(* Whoever holds a sent or voided slip got exactly the stored form by mail.  *)
THEOREM SentWasMailed == Spec => []SentSlipWasMailed
  <1>1. HistoryInv => SentSlipWasMailed
    BY DEF HistoryInv
  <1> QED
    BY <1>1, HistoryCorrect, PTL

(* A reissue pays exactly the items of the slip it replaces. *)
THEOREM ReissueFaithful == Spec => []ReissueKeepsItems
  <1>1. HistoryInv => ReissueKeepsItems
    BY DEF HistoryInv
  <1> QED
    BY <1>1, HistoryCorrect, PTL

-----------------------------------------------------------------------------
(* What the double-send guard gives although the UPDATE of a draft reads it  *)
(* in the snapshot its statement began with: nothing replaces a slip while   *)
(* it is mailed, and no two drafts with a common item are mailed at once,    *)
(* unless an UPDATE older than the guard commits after verifyQueued.  The    *)
(* argument: an UPDATE that begins while the guard is held finds it, so the  *)
(* statements running when a sender verifies are the only ones that can     *)
(* still reach its slip, and each sender raises its guard before it looks    *)
(* for the others'.                                                        *)

Quiet == \A s \in Senders : Alone(s) => ~Updating(senders[s].slip)

Guard == Quiet /\ MailIsCurrent /\ VerifiedDraftsDisjoint

(* A committed sender's slip exists and is in flight. *)
LEMMA CommittedInFlight ==
  ASSUME Typed, SendersInv, NEW s \in Senders, Committed(s)
  PROVE  /\ senders[s].slip \in Slips /\ InFlight(senders[s].slip)
         /\ slips[senders[s].slip].status # "absent"
  <1>1. deliveries[s].slip = senders[s].slip /\ HoldsGuard(s)
    BY DEF Committed, HoldsGuard, SendersInv
  <1>2. senders[s].step # "idle"
    BY DEF Committed
  <1> QED
    BY <1>1, <1>2, ReadTypes DEF InFlight, SendersInv, Typed

(* The row of a slip stays as it is, or a draft of it is settled. *)
RowStays(d) ==
    /\ slips'[d].content = slips[d].content
    /\ slips'[d].status = "draft" => slips[d].status = "draft" /\ slips'[d].items = slips[d].items
    /\ Updating(d)' => Updating(d)

(* A step that commits nobody, and leaves the row of whoever was alone,      *)
(* keeps the three.                                                        *)
LEMMA NobodyCommits ==
  ASSUME Guard,
         \A s \in Senders : Committed(s)' =>
            /\ Committed(s)
            /\ senders'[s].slip = senders[s].slip /\ senders'[s].read = senders[s].read
            /\ senders'[s].raced = senders[s].raced
            /\ senders[s].raced \/ RowStays(senders[s].slip)
  PROVE  Guard'
  <1>1. MailIsCurrent'
    BY DEF Guard, MailIsCurrent, RowStays
  <1>2. ASSUME NEW s \in Senders, Alone(s)'
        PROVE  Alone(s) /\ senders'[s].slip = senders[s].slip /\ RowStays(senders[s].slip)
    BY <1>2 DEF Alone
  <1>3. VerifiedDraftsDisjoint'
    BY <1>2 DEF Guard, VerifiedDraftsDisjoint, RowStays
  <1>4. ASSUME NEW s \in Senders, Alone(s)' PROVE ~Updating(senders[s].slip)'
    BY <1>2, <1>4 DEF Guard, Quiet, RowStays
  <1>5. Quiet'
    BY <1>4 DEF Quiet
  <1> QED
    BY <1>1, <1>3, <1>5 DEF Guard

(* Only BeginUpdate starts an UPDATE, and only on a slip it finds free. *)
LEMMA UpdatesBegin ==
  ASSUME Typed, NEW e \in Editors, Edit(e), NEW d \in Slips, InFlight(d), Updating(d)'
  PROVE  Updating(d)
  <1>1. editors \in [Editors -> Editor] /\ editors[e] \in Editor
    BY DEF Typed
  <1>2. PICK f \in Editors : editors'[f].step = "updating" /\ editors'[f].slip = d
    BY DEF Updating
  <1>3. CASE f # e
    <2>1. editors'[f] = editors[f]
      BY <1>1, <1>3 DEF Edit, Generate, Update, CheckVoid, Create, BeginUpdate, CommitUpdate, VoidReissue
    <2> QED
      BY <1>2, <2>1 DEF Updating
  <1>4. CASE f = e
    <2>1. CASE editors' = [editors EXCEPT ![e] = Idle(@)]
      BY <1>2, <1>4, <2>1, EndEffect
    <2>2. ASSUME NEW c \in Slips, Generate(e, c) \/ Update(e, c) \/ CheckVoid(e, c) PROVE FALSE
      BY <1>1, <1>2, <1>4, <2>2 DEF Generate, Update, CheckVoid, EditorWith
    <2>3. CASE BeginUpdate(e)
      <3>1. \/ editors'[e] = Idle(editors[e])
            \/ editors'[e] = [editors[e] EXCEPT !.step = "updating"] /\ ~InFlight(editors[e].slip)
        BY <1>1, <2>3 DEF BeginUpdate, NotSending
      <3>2. Idle(editors[e]).step = "idle"
        BY <1>1 DEF Idle, Editor
      <3>3. [editors[e] EXCEPT !.step = "updating"].slip = editors[e].slip
        BY <1>1 DEF Editor
      <3> QED
        BY <1>2, <1>4, <3>1, <3>2, <3>3
    <2> QED
      BY <2>1, <2>2, <2>3 DEF Edit, Create, CommitUpdate, VoidReissue
  <1> QED
    BY <1>3, <1>4

(* Editing: an UPDATE stores what it was about to when the guard was free,   *)
(* a first slip and the next revision are slips nobody can be sending yet,   *)
(* voiding keeps what was stored.                                          *)
LEMMA EditKeepsGuard ==
  ASSUME HistoryInv, Guard, NEW e \in Editors, Edit(e)
  PROVE  Guard'
  <1>0. Typed /\ RowsInv /\ SendersInv /\ EditorsInv
    BY HistoryParts
  <1>1. UNCHANGED <<senders, deliveries>>
    BY DEF Edit, Generate, Update, CheckVoid, Create, BeginUpdate, CommitUpdate, VoidReissue
  <1>2. ASSUME NEW s \in Senders, Committed(s)'
        PROVE  /\ Committed(s) /\ senders'[s].slip = senders[s].slip
               /\ senders'[s].read = senders[s].read /\ senders'[s].raced = senders[s].raced
    BY <1>1, <1>2 DEF Committed, HoldsGuard
  <1>3. \A s \in Senders : Committed(s) =>
           /\ senders[s].slip \in Slips /\ InFlight(senders[s].slip)
           /\ slips[senders[s].slip].status # "absent"
    BY <1>0, CommittedInFlight
  <1>4. editors[e].slip \in Slips /\ editors[e].items \in SUBSET Items
    BY <1>0, ReadTypes DEF Typed
  <1>5. ASSUME \A s \in Senders : Committed(s) =>
                  \/ senders[s].raced
                  \/ LET d == senders[s].slip IN
                     /\ slips'[d].content = slips[d].content
                     /\ slips'[d].status = "draft" =>
                           slips[d].status = "draft" /\ slips'[d].items = slips[d].items
        PROVE  Guard'
    <2>1. \A s \in Senders : Committed(s) => (Updating(senders[s].slip)' => Updating(senders'[s].slip))
      <3>1. ASSUME NEW s \in Senders, Committed(s), NEW d \in Slips, d = senders[s].slip, Updating(d)'
            PROVE  Updating(d)
        BY <1>0, <1>3, <3>1, UpdatesBegin
      <3> QED
        BY <1>1, <1>3, <3>1 DEF Updating
    <2>2. \A s \in Senders : Committed(s) => (senders[s].raced \/ RowStays(senders[s].slip))
      BY <1>1, <1>5, <2>1 DEF RowStays
    <2> QED
      BY <1>2, <2>2, NobodyCommits
  <1>6. CASE UNCHANGED slips
    BY <1>5, <1>6
  <1>7. CASE Create(e) /\ ~UNCHANGED slips
    <2>1. Stored(editors[e].slip, editors[e].items) /\ slips[editors[e].slip].status = "absent"
      BY <1>7 DEF Create
    <2>2. \A c \in Slips : c # editors[e].slip => slips'[c] = slips[c]
      BY <1>0, <1>4, <2>1, StoreEffect
    <2>3. \A s \in Senders : Committed(s) => slips'[senders[s].slip] = slips[senders[s].slip]
      BY <1>3, <2>1, <2>2
    <2> QED
      BY <1>5, <2>3
  <1>8. CASE CommitUpdate(e) /\ ~UNCHANGED slips
    <2>1. Stored(editors[e].slip, editors[e].items) /\ Updating(editors[e].slip)
      BY <1>8 DEF CommitUpdate, Updating
    <2>2. \A c \in Slips : c # editors[e].slip => slips'[c] = slips[c]
      BY <1>0, <1>4, <2>1, StoreEffect
    <2>3. \A s \in Senders : Committed(s) =>
            senders[s].raced \/ slips'[senders[s].slip] = slips[senders[s].slip]
      BY <1>3, <2>1, <2>2 DEF Guard, Quiet, Alone
    <2> QED
      BY <1>5, <2>3
  <1>9. CASE VoidReissue(e) /\ ~UNCHANGED slips
    <2> DEFINE d == editors[e].slip
    <2>1. d[2] < MaxRevision /\ slips[d].status = "sent" /\ editors[e].items = slips[d].items
      BY <1>0, <1>9 DEF VoidReissue, EditorsInv
    <2>2. /\ slips[Reissue(d)].status = "absent"
          /\ slips'[d].status = "void" /\ slips'[d].content = slips[d].content
          /\ \A c \in Slips : c # d /\ c # Reissue(d) => slips'[c] = slips[c]
      BY <1>0, <1>9, <2>1, ReissueEffect
    <2> HIDE DEF d
    <2>3. \A s \in Senders : Committed(s) =>
            /\ slips'[senders[s].slip].content = slips[senders[s].slip].content
            /\ slips'[senders[s].slip].status = "draft" =>
                  slips'[senders[s].slip] = slips[senders[s].slip]
      BY <1>3, <2>2
    <2> QED
      BY <1>5, <2>3
  <1> QED
    BY <1>6, <1>7, <1>8, <1>9 DEF Edit, Generate, Update, CheckVoid, BeginUpdate

(* Verifying commits the sender, and only against what the rows say now: the *)
(* content it read, and no common item with a draft already in flight; and   *)
(* it marks the sender when an UPDATE of the slip is still running.         *)
LEMMA VerifyKeepsGuard ==
  ASSUME HistoryInv, Guard, NEW s \in Senders, Verify(s)
  PROVE  Guard'
  <1>0. Typed /\ SendersInv
    BY HistoryParts
  <1>1. UNCHANGED <<slips, deliveries, editors>>
    BY DEF Verify
  <1>2. /\ senders'[s].step \in {"verified", "cancelling"}
        /\ senders'[s].step = "verified" => /\ Verified(senders[s].slip, senders[s].read)
                                           /\ senders'[s].raced = Updating(senders[s].slip)
        /\ \A t \in Senders : /\ senders'[t].slip = senders[t].slip
                              /\ senders'[t].read = senders[t].read
                              /\ t # s => senders'[t] = senders[t]
    BY <1>0, VerifyEffect
  <1>3. ASSUME NEW t \in Senders, t # s
        PROVE  (Committed(t)' <=> Committed(t)) /\ senders'[t] = senders[t]
    BY <1>1, <1>2, <1>3 DEF Committed, HoldsGuard
  <1>4. \A d : Updating(d)' <=> Updating(d)
    BY <1>1 DEF Updating
  <1>5. CASE senders'[s].step = "cancelling"
    <2>1. ~Committed(s)'
      BY <1>5 DEF Committed
    <2> QED
      BY <1>1, <1>2, <1>3, <1>4, <2>1, NobodyCommits DEF RowStays
  <1>6. CASE senders'[s].step = "verified"
    <2> DEFINE d == senders[s].slip
    <2>0. Verified(d, senders[s].read) /\ senders'[s].raced = Updating(d)
      BY <1>2, <1>6
    <2>1. slips[d].content = senders[s].read.content
      BY <2>0 DEF Verified
    <2>2. MailIsCurrent'
      BY <1>1, <1>2, <1>3, <2>1 DEF MailIsCurrent, Guard
    <2>3. \A t \in Senders : Committed(t) => senders[t].slip \in Slips /\ InFlight(senders[t].slip)
      BY <1>0, CommittedInFlight
    <2>4. ASSUME NEW t \in Senders, Committed(t), senders[t].slip # d,
                 slips[d].status = "draft", slips[senders[t].slip].status = "draft"
          PROVE  slips[d].items \cap slips[senders[t].slip].items = {}
      <3>1. ~Overlaps(d)
        BY <2>0, <2>4 DEF Verified
      <3>2. slips[senders[t].slip].items \cap slips[d].items = {}
        BY <2>3, <2>4, <3>1 DEF Overlaps
      <3> QED
        BY <3>2
    <2>5. \A t \in Senders : t # s => (Alone(t)' <=> Alone(t))
      BY <1>3 DEF Alone
    <2>6. VerifiedDraftsDisjoint'
      <3> SUFFICES ASSUME NEW x \in Senders, NEW y \in Senders,
                          Alone(x)', Alone(y)', senders[x].slip # senders[y].slip,
                          slips[senders[x].slip].status = "draft",
                          slips[senders[y].slip].status = "draft"
                   PROVE  slips[senders[x].slip].items \cap slips[senders[y].slip].items = {}
        BY <1>1, <1>2 DEF VerifiedDraftsDisjoint
      <3>1. CASE x # s /\ y # s
        BY <2>5, <3>1 DEF VerifiedDraftsDisjoint, Guard
      <3>2. CASE x = s
        BY <2>4, <2>5, <3>2 DEF Alone
      <3>3. CASE y = s
        BY <2>4, <2>5, <3>3 DEF Alone
      <3> QED
        BY <3>1, <3>2, <3>3
    <2>7. ASSUME NEW t \in Senders, Alone(t)' PROVE ~Updating(senders[t].slip)
      <3>1. CASE t = s
        BY <2>0, <2>7, <3>1 DEF Alone
      <3>2. CASE t # s
        BY <2>5, <2>7, <3>2 DEF Guard, Quiet
      <3> QED
        BY <3>1, <3>2
    <2>8. Quiet'
      BY <1>1, <1>2, <2>7 DEF Quiet, Updating
    <2> QED
      BY <2>2, <2>6, <2>8 DEF Guard
  <1> QED
    BY <1>2, <1>5, <1>6

(* Every other step of a sender goes on from a committed sender or leaves it. *)
LEMMA SendKeepsGuard ==
  ASSUME HistoryInv, Guard, NEW s \in Senders,
         \/ \E d \in Slips : Load(s, d)
         \/ Proceed(s) \/ LateAccept(s) \/ LogError(s) \/ Abandon(s) \/ GoStale(s)
  PROVE  Guard'
  <1>0. Typed /\ SendersInv /\ senders \in [Senders -> Sender] /\ deliveries \in [Senders -> Delivery]
    BY HistoryParts DEF Typed
  <1>1. ASSUME UNCHANGED <<slips, editors>>,
               \A t \in Senders : t # s => senders'[t] = senders[t] /\ deliveries'[t] = deliveries[t],
               Committed(s)' => /\ Committed(s) /\ senders'[s].slip = senders[s].slip
                                /\ senders'[s].read = senders[s].read
                                /\ senders'[s].raced = senders[s].raced
        PROVE  Guard'
    <2>1. \A t \in Senders : t # s => (Committed(t)' <=> Committed(t))
      BY <1>1 DEF Committed, HoldsGuard
    <2>2. \A d : RowStays(d)
      BY <1>1 DEF RowStays, Updating
    <2> QED
      BY <1>1, <2>1, <2>2, NobodyCommits
  <1>2. ASSUME NEW d \in Slips, Load(s, d) PROVE Guard'
    <2>1. senders'[s].step = "ready" /\ \A t \in Senders : t # s => senders'[t] = senders[t]
      BY <1>0, <1>2 DEF Load
    <2>2. ~Committed(s)'
      BY <2>1 DEF Committed
    <2> QED
      BY <1>1, <1>2, <2>1, <2>2 DEF Load
  <1>3. ASSUME NEW step \in {"queued", "cancelling", "rejected", "delivered", "done"},
               MovesTo(s, step), UNCHANGED <<slips, editors>>,
               \A t \in Senders : t # s => deliveries'[t] = deliveries[t]
        PROVE  Guard'
    <2>1. senders'[s].step = step /\ \A t \in Senders : t # s => senders'[t] = senders[t]
      BY <1>0, <1>3, MoveEffect
    <2>2. ~Committed(s)'
      BY <2>1 DEF Committed
    <2> QED
      BY <1>1, <1>3, <2>1, <2>2
  <1>4. CASE Enqueue(s)
    <2>1. UNCHANGED <<slips, editors>> /\ \A t \in Senders : t # s => deliveries'[t] = deliveries[t]
      BY <1>0, <1>4 DEF Enqueue
    <2> QED
      BY <1>3, <1>4, <2>1 DEF Enqueue
  <1>5. CASE Cancel(s) \/ LogOutcome(s) \/ LogError(s) \/ Abandon(s)
    <2>1. Logged(s, "failed") \/ Logged(s, "sent") \/ UNCHANGED deliveries
      BY <1>5 DEF Cancel, LogOutcome, LogError, Abandon
    <2>2. UNCHANGED <<slips, editors>> /\ \A t \in Senders : t # s => deliveries'[t] = deliveries[t]
      BY <1>0, <1>5, <2>1, LogEffect DEF Cancel, LogOutcome, LogError, Abandon
    <2> QED
      BY <1>3, <1>5, <2>2 DEF Cancel, LogOutcome, LogError, Abandon
  <1>6. CASE Start(s)
    <2>1. CASE MovesTo(s, "cancelling") /\ UNCHANGED deliveries
      BY <1>3, <1>6, <2>1 DEF Start
    <2>2. CASE MaySend(s) /\ Logged(s, "sending") /\ MovesTo(s, "sending")
      <3>1. /\ senders'[s].slip = senders[s].slip /\ senders'[s].read = senders[s].read
            /\ senders'[s].raced = senders[s].raced
            /\ \A t \in Senders : t # s => senders'[t] = senders[t]
        BY <1>0, <2>2, MoveEffect
      <3>2. \A t \in Senders : t # s => deliveries'[t] = deliveries[t]
        BY <1>0, <2>2, LogEffect
      <3>3. Committed(s)
        BY <1>6, <2>2 DEF Start, AtStep, MaySend, Committed, HoldsGuard
      <3> QED
        BY <1>1, <1>6, <3>1, <3>2, <3>3 DEF Start
    <2> QED
      BY <1>6, <2>1, <2>2 DEF Start
  <1>7. CASE Transmit(s) \/ LateAccept(s)
    <2>1. UNCHANGED <<slips, deliveries, editors>>
      BY <1>7 DEF Transmit, LateAccept
    <2>2. CASE MovesTo(s, "rejected")
      BY <1>3, <2>1, <2>2
    <2>3. CASE MovesTo(s, "accepted")
      <3>1. /\ senders'[s].slip = senders[s].slip /\ senders'[s].read = senders[s].read
            /\ senders'[s].raced = senders[s].raced
            /\ \A t \in Senders : t # s => senders'[t] = senders[t]
        BY <1>0, <2>3, MoveEffect
      <3>2. Committed(s)' => Committed(s)
        BY <1>7, <2>1 DEF Transmit, LateAccept, AtStep, Committed, HoldsGuard
      <3> QED
        BY <1>1, <2>1, <3>1, <3>2
    <2> QED
      BY <1>7, <2>2, <2>3 DEF Transmit, LateAccept
  <1>8. CASE GoStale(s)
    <2>1. deliveries' = [deliveries EXCEPT ![s] = [deliveries[s] EXCEPT !.stale = TRUE]]
          /\ UNCHANGED <<slips, senders, editors>>
      BY <1>8 DEF GoStale
    <2>2. /\ \A t \in Senders : t # s => deliveries'[t] = deliveries[t]
          /\ deliveries'[s].status = deliveries[s].status
      BY <1>0, <2>1 DEF Delivery
    <2>3. Committed(s)' => Committed(s)
      BY <2>1, <2>2 DEF Committed, HoldsGuard
    <2> QED
      BY <1>1, <2>1, <2>2, <2>3
  <1>9. CASE MarkSlip(s)
    <2>1. UNCHANGED <<deliveries, editors>> /\ (MovesTo(s, "done") \/ MovesTo(s, "mismatch"))
      BY <1>9 DEF MarkSlip
    <2>2. /\ senders'[s].step \in {"done", "mismatch"}
          /\ \A t \in Senders : t # s => senders'[t] = senders[t]
      BY <1>0, <2>1, MoveEffect
    <2>3. \A t \in Senders : Committed(t)' => Committed(t) /\ t # s /\ senders'[t] = senders[t]
      BY <2>1, <2>2 DEF Committed, HoldsGuard
    <2>4. \A d \in Slips : /\ slips'[d].content = slips[d].content
                           /\ slips'[d].status = "draft" => slips'[d] = slips[d]
      BY <1>0, <1>9, MarkEffect
    <2>5. \A t \in Senders : senders[t].slip \in Slips
      BY <1>0, ReadTypes DEF Typed
    <2>6. \A d \in Slips : RowStays(d)
      BY <2>1, <2>4 DEF RowStays, Updating
    <2> QED
      BY <2>3, <2>5, <2>6, NobodyCommits
  <1> QED
    BY <1>2, <1>4, <1>5, <1>6, <1>7, <1>8, <1>9, VerifyKeepsGuard DEF Proceed

LEMMA GuardNext ==
  ASSUME GuardInv, [Next]_vars
  PROVE  GuardInv'
  <1>0. HistoryInv /\ Guard /\ Typed
    BY HistoryParts DEF GuardInv, Guard, Quiet
  <1>1. HistoryInv'
    BY <1>0, HistoryNext
  <1>2. ASSUME NEW e \in Editors, Edit(e) PROVE Guard'
    BY <1>0, <1>2, EditKeepsGuard
  <1>3. ASSUME NEW s \in Senders,
               \/ \E d \in Slips : Load(s, d)
               \/ Proceed(s) \/ LateAccept(s) \/ LogError(s) \/ Abandon(s) \/ GoStale(s)
        PROVE  Guard'
    BY <1>0, <1>3, SendKeepsGuard
  <1>4. ASSUME ReleaseStale PROVE Guard'
    <2>1. UNCHANGED <<slips, senders, editors>>
      BY <1>4 DEF ReleaseStale
    <2>2. \A s \in Senders : Committed(s)' => Committed(s)
      BY <1>0, <1>4, <2>1, ReleaseEffect DEF Committed, HoldsGuard
    <2>3. \A d : RowStays(d)
      BY <2>1 DEF RowStays, Updating
    <2> QED
      BY <1>0, <2>1, <2>2, <2>3, NobodyCommits
  <1>5. ASSUME Crash PROVE Guard'
    <2>1. \A s \in Senders : ~Committed(s)'
      BY <1>0, <1>5, CrashEffect DEF Committed
    <2> QED
      BY <1>0, <2>1, NobodyCommits
  <1>6. ASSUME UNCHANGED vars PROVE Guard'
    <2>1. \A s \in Senders : Committed(s)' => Committed(s)
      BY <1>6 DEF vars, Committed, HoldsGuard
    <2>2. \A d : RowStays(d)
      BY <1>6 DEF vars, RowStays, Updating
    <2>3. UNCHANGED senders
      BY <1>6 DEF vars
    <2> QED
      BY <1>0, <2>1, <2>2, <2>3, NobodyCommits
  <1>7. Guard'
    BY <1>2, <1>3, <1>4, <1>5, <1>6 DEF Next
  <1> QED
    BY <1>1, <1>7 DEF GuardInv, Guard, Quiet

LEMMA GuardInit == Init => GuardInv
  <1> SUFFICES ASSUME Init PROVE GuardInv
    OBVIOUS
  <1>1. \A s \in Senders : senders[s].step = "idle"
    BY DEF Init
  <1> QED
    BY <1>1, HistoryInit DEF GuardInv, MailIsCurrent, VerifiedDraftsDisjoint, Alone, Committed

(* For any number of periods, slips, senders and edits, and with UPDATEs     *)
(* that see the guard as it was when they began: HistoryInv, and no UPDATE   *)
(* reaches the slip of a sender that verified it with none running.         *)
THEOREM GuardCorrect == Spec => []GuardInv
  <1>1. GuardInv /\ [Next]_vars => GuardInv'
    BY GuardNext
  <1> QED
    BY <1>1, GuardInit, PTL DEF Spec

(* Nobody replaces what a committed sender is sending, unless an UPDATE that *)
(* was running when it verified.                                           *)
THEOREM MailStaysCurrent == Spec => []MailIsCurrent
  <1>1. GuardInv => MailIsCurrent
    BY DEF GuardInv
  <1> QED
    BY <1>1, GuardCorrect, PTL

(* No two committed drafts share an item, both having verified with no older *)
(* UPDATE running.                                                         *)
THEOREM DraftsStayDisjoint == Spec => []VerifiedDraftsDisjoint
  <1>1. GuardInv => VerifiedDraftsDisjoint
    BY DEF GuardInv
  <1> QED
    BY <1>1, GuardCorrect, PTL

-----------------------------------------------------------------------------
(* The delivery log.  A row is in flight as long as its message is on its   *)
(* way, and no message is on its way before; with no fault the outcome of   *)
(* every message is still to be logged, or is.                             *)
Mailed(s) == \E m \in mailed : m.by = s

Log(s) ==
    /\ deliveries[s].status = "sent" \/ AtStep(s, "accepted") => Mailed(s)
    /\ Exchanging(s) => deliveries[s].status = "sending" /\ ~deliveries[s].stale
    /\ senders[s].step \in {"idle", "ready", "queued", "verified", "cancelling", "sending"} => ~Mailed(s)
    /\ faults = 0 /\ Mailed(s) => AtStep(s, "accepted") \/ deliveries[s].status = "sent"

LogInv == Typed /\ \A s \in Senders : Log(s)

(* Whoever does not move. *)
LEMMA LogStays ==
  ASSUME LogInv, Typed', NEW t \in Senders, senders'[t] = senders[t],
         deliveries'[t].status = deliveries[t].status, deliveries'[t].stale = deliveries[t].stale \/ ~Exchanging(t),
         Mailed(t)' <=> Mailed(t), faults' = 0 => faults = 0
  PROVE  Log(t)'
  BY DEF LogInv, Log, Exchanging, AtStep

LEMMA NobodyMails ==
  ASSUME mailed' = mailed
  PROVE  \A s \in Senders : Mailed(s)' <=> Mailed(s)
  BY DEF Mailed

LEMMA OneMails ==
  ASSUME NEW s \in Senders, mailed' = mailed \cup {Mail(s)}
  PROVE  Mailed(s)' /\ \A t \in Senders : t # s => (Mailed(t)' <=> Mailed(t))
  <1>1. Mail(s).by = s
    BY DEF Mail
  <1> QED
    BY <1>1 DEF Mailed

LEMMA SenderKeepsLog ==
  ASSUME LogInv, Typed', NEW s \in Senders,
         \/ \E d \in Slips : Load(s, d)
         \/ Proceed(s) \/ LateAccept(s) \/ LogError(s) \/ Abandon(s) \/ GoStale(s)
  PROVE  LogInv'
  <1>0. Typed /\ Log(s) /\ faults \in Nat /\ senders[s] \in Sender /\ deliveries[s] \in Delivery
    BY DEF LogInv, Typed
  <1> SUFFICES \A t \in Senders : Log(t)'
    BY DEF LogInv
  <1>1. ASSUME senders' = senders \/ \A t \in Senders : t # s => senders'[t] = senders[t],
               deliveries' = deliveries \/ \A t \in Senders : t # s => deliveries'[t] = deliveries[t],
               \A t \in Senders : t # s => (Mailed(t)' <=> Mailed(t)), faults' \in {faults, faults + 1},
               Log(s)'
        PROVE  \A t \in Senders : Log(t)'
    <2>1. faults' = 0 => faults = 0
      BY <1>0, <1>1
    <2> QED
      BY <1>1, <2>1, LogStays
  <1>2. ASSUME NEW d \in Slips, Load(s, d) PROVE \A t \in Senders : Log(t)'
    <2>1. /\ senders'[s].step = "ready" /\ \A t \in Senders : t # s => senders'[t] = senders[t]
          /\ UNCHANGED <<deliveries, mailed, faults>> /\ AtStep(s, "idle")
      BY <1>0, <1>2 DEF Load, Typed
    <2>2. Log(s)'
      BY <1>0, <2>1, NobodyMails DEF Log, AtStep, Exchanging
    <2> QED
      BY <1>1, <2>1, <2>2, NobodyMails
  <1>3. CASE Enqueue(s)
    <2>1. /\ AtStep(s, "ready") /\ UNCHANGED <<mailed, faults>>
          /\ \/ /\ MovesTo(s, "queued")
                /\ deliveries' = [deliveries EXCEPT ![s] =
                                    [status |-> "queued", slip |-> senders[s].slip, stale |-> FALSE]]
             \/ MovesTo(s, "done") /\ deliveries' = deliveries
      BY <1>3 DEF Enqueue
    <2>2. /\ senders'[s].step \in {"queued", "done"} /\ \A t \in Senders : t # s => senders'[t] = senders[t]
          /\ deliveries'[s].status \in {deliveries[s].status, "queued"}
          /\ \A t \in Senders : t # s => deliveries'[t] = deliveries[t]
      BY <1>0, <2>1, MoveEffect DEF Typed
    <2>3. Log(s)'
      BY <1>0, <2>1, <2>2, NobodyMails DEF Log, AtStep, Exchanging
    <2> QED
      BY <1>1, <2>1, <2>2, <2>3, NobodyMails
  <1>4. CASE Verify(s)
    <2>1. AtStep(s, "queued") /\ UNCHANGED <<deliveries, mailed, faults>>
      BY <1>4 DEF Verify
    <2>2. /\ senders'[s].step \in {"verified", "cancelling"}
          /\ \A t \in Senders : t # s => senders'[t] = senders[t]
      BY <1>0, <1>4, VerifyEffect
    <2>3. Log(s)'
      BY <1>0, <2>1, <2>2, NobodyMails DEF Log, AtStep, Exchanging
    <2> QED
      BY <1>1, <2>1, <2>2, <2>3, NobodyMails
  <1>5. CASE Cancel(s)
    <2>1. AtStep(s, "cancelling") /\ UNCHANGED <<mailed, faults>> /\ MovesTo(s, "done") /\ Logged(s, "failed")
      BY <1>5 DEF Cancel
    <2>2. /\ senders'[s].step = "done" /\ \A t \in Senders : t # s => senders'[t] = senders[t]
          /\ deliveries'[s].status = "failed" /\ \A t \in Senders : t # s => deliveries'[t] = deliveries[t]
      BY <1>0, <2>1, MoveEffect, LogEffect
    <2>3. Log(s)'
      BY <1>0, <2>1, <2>2, NobodyMails DEF Log, AtStep, Exchanging
    <2> QED
      BY <1>1, <2>1, <2>2, <2>3, NobodyMails
  <1>6. CASE Start(s)
    <2>1. /\ AtStep(s, "verified") /\ UNCHANGED <<mailed, faults>>
          /\ \/ MovesTo(s, "sending") /\ Logged(s, "sending")
             \/ MovesTo(s, "cancelling") /\ deliveries' = deliveries
      BY <1>6 DEF Start
    <2>2. /\ \A t \in Senders : t # s => senders'[t] = senders[t] /\ deliveries'[t] = deliveries[t]
          /\ \/ /\ senders'[s].step = "sending" /\ deliveries'[s].status = "sending"
                /\ deliveries'[s].stale = FALSE
             \/ senders'[s].step = "cancelling" /\ deliveries'[s] = deliveries[s]
      <3>1. Logged(s, "sending") => deliveries'[s].stale = FALSE
        BY <1>0 DEF Logged, Typed, Delivery
      <3> QED
        BY <1>0, <2>1, <3>1, MoveEffect, LogEffect
    <2>3. Log(s)'
      BY <1>0, <2>1, <2>2, NobodyMails DEF Log, AtStep, Exchanging
    <2> QED
      BY <1>1, <2>1, <2>2, <2>3, NobodyMails
  <1>7. CASE Transmit(s) \/ LateAccept(s)
    <2>1. /\ AtStep(s, "sending") /\ deliveries' = deliveries
          /\ \/ MovesTo(s, "accepted") /\ mailed' = mailed \cup {Mail(s)} /\ faults' = faults
             \/ MovesTo(s, "rejected") /\ mailed' = mailed /\ faults' = faults
             \/ MovesTo(s, "rejected") /\ mailed' = mailed \cup {Mail(s)} /\ faults' = faults + 1
      BY <1>7 DEF Transmit, LateAccept
    <2>2. /\ \A t \in Senders : t # s => senders'[t] = senders[t] /\ (Mailed(t)' <=> Mailed(t))
          /\ \/ senders'[s].step = "accepted" /\ Mailed(s)' /\ faults' = faults
             \/ senders'[s].step = "rejected" /\ (Mailed(s)' <=> Mailed(s)) /\ faults' = faults
             \/ senders'[s].step = "rejected" /\ faults' = faults + 1
      BY <1>0, <2>1, MoveEffect, NobodyMails, OneMails
    <2>3. Log(s)'
      BY <1>0, <2>1, <2>2 DEF Log, AtStep, Exchanging
    <2> QED
      BY <1>1, <2>1, <2>2, <2>3
  <1>8. CASE LogOutcome(s)
    <2>1. /\ UNCHANGED <<mailed, faults>>
          /\ \/ AtStep(s, "accepted") /\ Logged(s, "sent") /\ MovesTo(s, "delivered")
             \/ AtStep(s, "rejected") /\ Logged(s, "failed") /\ MovesTo(s, "done")
      BY <1>8 DEF LogOutcome
    <2>2. /\ \A t \in Senders : t # s => senders'[t] = senders[t] /\ deliveries'[t] = deliveries[t]
          /\ \/ senders'[s].step = "delivered" /\ deliveries'[s].status = "sent" /\ AtStep(s, "accepted")
             \/ senders'[s].step = "done" /\ deliveries'[s].status = "failed" /\ AtStep(s, "rejected")
      BY <1>0, <2>1, MoveEffect, LogEffect
    <2>3. Log(s)'
      BY <1>0, <2>1, <2>2, NobodyMails DEF Log, AtStep, Exchanging
    <2> QED
      BY <1>1, <2>1, <2>2, <2>3, NobodyMails
  <1>9. CASE MarkSlip(s) \/ LogError(s) \/ Abandon(s)
    <2>1. /\ UNCHANGED <<deliveries, mailed>>
          /\ \/ faults' = faults /\ AtStep(s, "delivered") /\ (MovesTo(s, "done") \/ MovesTo(s, "mismatch"))
             \/ /\ faults' = faults + 1 /\ (MovesTo(s, "done") \/ MovesTo(s, "delivered"))
      BY <1>9 DEF MarkSlip, LogError, Abandon
    <2>2. /\ \A t \in Senders : t # s => senders'[t] = senders[t]
          /\ senders'[s].step \in {"done", "mismatch", "delivered"}
      BY <1>0, <2>1, MoveEffect
    <2>3. Log(s)'
      BY <1>0, <2>1, <2>2, NobodyMails DEF Log, AtStep, Exchanging
    <2> QED
      BY <1>1, <2>1, <2>2, <2>3, NobodyMails
  <1>10. CASE GoStale(s)
    <2>1. /\ ~Exchanging(s) /\ UNCHANGED <<senders, mailed, faults>>
          /\ \A t \in Senders : t # s => deliveries'[t] = deliveries[t]
          /\ deliveries'[s].status = deliveries[s].status
      BY <1>0, <1>10 DEF GoStale, Typed, Delivery
    <2> QED
      BY <2>1, NobodyMails, LogStays
  <1> QED
    BY <1>2, <1>3, <1>4, <1>5, <1>6, <1>7, <1>8, <1>9, <1>10 DEF Proceed

LEMMA LogNext ==
  ASSUME LogInv, [Next]_vars
  PROVE  LogInv'
  <1>0. Typed /\ Typed' /\ faults \in Nat
    BY TypedNext DEF LogInv, Typed
  <1>1. ASSUME NEW e \in Editors, Edit(e) PROVE LogInv'
    <2>1. UNCHANGED <<deliveries, senders, mailed, faults>>
      BY <1>1 DEF Edit, Generate, Update, CheckVoid, Create, BeginUpdate, CommitUpdate, VoidReissue
    <2> QED
      BY <1>0, <2>1, NobodyMails, LogStays DEF LogInv
  <1>2. CASE ReleaseStale
    <2>1. UNCHANGED <<senders, mailed, faults>>
      BY <1>2 DEF ReleaseStale
    <2>2. ASSUME NEW s \in Senders
          PROVE  deliveries'[s] = deliveries[s] \/ (deliveries[s].stale /\ HoldsGuard(s) /\ deliveries'[s].status = "failed")
      <3>1. PICK d : deliveries' = [t \in Senders |->
                             IF Releasable(t) /\ deliveries[t].slip \in d
                             THEN [deliveries[t] EXCEPT !.status = "failed", !.stale = FALSE]
                             ELSE deliveries[t]]
        BY <1>2 DEF ReleaseStale
      <3>2. [deliveries[s] EXCEPT !.status = "failed", !.stale = FALSE].status = "failed"
        BY <1>0 DEF Typed, Delivery
      <3> QED
        BY <3>1, <3>2 DEF Releasable
    <2>3. ASSUME NEW s \in Senders PROVE Log(s)'
      <3>1. CASE deliveries'[s] = deliveries[s]
        BY <1>0, <2>1, <3>1, NobodyMails, LogStays
      <3>2. CASE deliveries[s].stale /\ HoldsGuard(s) /\ deliveries'[s].status = "failed"
        BY <2>1, <3>2, NobodyMails DEF LogInv, Log, HoldsGuard, Exchanging, AtStep
      <3> QED
        BY <2>2, <3>1, <3>2
    <2> QED
      BY <1>0, <2>3 DEF LogInv
  <1>3. CASE Crash
    <2>1. UNCHANGED <<deliveries, mailed>> /\ faults' # 0
      BY <1>0, <1>3 DEF Crash
    <2>2. ASSUME NEW s \in Senders PROVE Log(s)'
      <3>1. CASE senders'[s] = senders[s]
        BY <1>0, <2>1, <3>1, NobodyMails, LogStays
      <3>2. CASE senders'[s].step = "done"
        BY <2>1, <3>2, NobodyMails DEF LogInv, Log, Exchanging, AtStep
      <3> QED
        BY <1>0, <1>3, <3>1, <3>2, CrashEffect
    <2> QED
      BY <1>0, <2>2 DEF LogInv
  <1>4. CASE UNCHANGED vars
    BY <1>0, <1>4, NobodyMails, LogStays DEF vars, LogInv
  <1>5. ASSUME NEW s \in Senders,
               \/ \E d \in Slips : Load(s, d)
               \/ Proceed(s) \/ LateAccept(s) \/ LogError(s) \/ Abandon(s) \/ GoStale(s)
        PROVE  LogInv'
    BY <1>0, <1>5, SenderKeepsLog
  <1> QED
    BY <1>1, <1>2, <1>3, <1>4, <1>5 DEF Next

(* Whatever times out, is abandoned or restarts, a 'sent' row was accepted;  *)
(* and without a fault no message left that the log calls failed, the       *)
(* ticker that releases stale rows included.                               *)
THEOREM LogStaysTrue == Spec => []LogIsTrue
  <1>1. Init => LogInv
    <2> SUFFICES ASSUME Init PROVE LogInv
      OBVIOUS
    <2>1. Typed
      BY HistoryInit, HistoryParts
    <2>2. \A s \in Senders : deliveries[s].status = "none" /\ senders[s].step = "idle" /\ ~Mailed(s)
      BY DEF Init, Mailed
    <2> QED
      BY <2>1, <2>2 DEF LogInv, Log, Exchanging, AtStep
  <1>2. LogInv /\ [Next]_vars => LogInv'
    BY LogNext
  <1>3. LogInv => LogIsTrue
    <2> SUFFICES ASSUME LogInv, NEW s \in Senders
                 PROVE  /\ deliveries[s].status = "sent" => Mailed(s)
                        /\ deliveries[s].status = "failed" /\ faults = 0 => ~Mailed(s)
      BY DEF LogIsTrue, Mailed
    <2>1. Log(s)
      BY DEF LogInv
    <2> QED
      BY <2>1 DEF Log, AtStep, Exchanging
  <1> QED
    BY <1>1, <1>2, <1>3, PTL DEF Spec
=============================================================================
