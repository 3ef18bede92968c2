----------------------------- MODULE Reimbursements -----------------------------
(***************************************************************************)
(* Reimbursement claims, their receipts and the finance records they become  *)
(* (service/hris/reimbursements.go and finance.go, handler/hris/             *)
(* reimbursements.go and their repositories).                                *)
(*                                                                         *)
(* An edit, a deletion and an upload check a row in one statement and change *)
(* it in another, which does not look at the status.  A payment is one        *)
(* transaction: it locks the rows it marks, books each and commits; other     *)
(* statements on those rows wait for it.  Two bulk payments that lock the      *)
(* same rows in another order end in a deadlock, which Postgres rolls back:    *)
(* here they wait, and RollBackPayment is always possible.  Whoever may act   *)
(* has the permission for it, titles and dates decide nothing, notifications  *)
(* follow the commit and are left out.                                       *)
(***************************************************************************)
EXTENDS Integers, FiniteSets, Sequences

CONSTANTS
    Claims,
    Entries,      \* finance records somebody enters by hand
    Amounts,
    Receipts,     \* attachment files, each uploaded once
    Clerks,       \* requests, reused one after another
    MaxReceipts   \* maxReimbursementAttachments

ASSUME AmountsAssumption == Amounts \subseteq Nat \ {0}
ASSUME ReceiptsAssumption == MaxReceipts \in Nat

VARIABLES
    claims,   \* the reimbursements table
    entries,  \* finance_records entered by hand
    books,    \* the other finance_records: the amounts booked for each claim
    files,    \* attachments on disk
    clerks,   \* what each request has read and still has to do
    granted,  \* history: the amount that was approved, or 0
    stale,    \* history: claims reviewed while somebody had read them to change them
    crossed   \* history: claims with two changes of their receipts at once, or one that
              \* committed and reported an error

claimVars == <<claims, entries, books, files, clerks, granted, stale, crossed>>

-----------------------------------------------------------------------------

(* status "deleted" is a row that is gone. *)
Claim == [status : {"none", "submitted", "approved", "rejected", "paid", "deleted"},
          amount : Amounts \cup {0}, receipts : SUBSET Receipts]
NoClaim == [status |-> "none", amount |-> 0, receipts |-> {}]

(* shown is the amount the record had when it was submitted for review.         *)
Entry == [status : {"none", "draft", "pending_review", "approved", "rejected", "deleted"},
          amount : Amounts \cup {0}, shown : Amounts \cup {0}]
NoEntry == [status |-> "none", amount |-> 0, shown |-> 0]

(* "read": the row was checked; "after": it was changed and files are to be removed. *)
(* Of an edit, old and new are the receipts it read and keeps, of an upload new are   *)
(* the files it saved; a payment has marked of and booked done.                     *)
Clerk == [op : {"none", "edit", "delete", "attach", "pay"}, step : {"idle", "saved", "read", "after"},
          of : SUBSET Claims, done : SUBSET Claims, amount : Amounts \cup {0},
          old : SUBSET Receipts, new : SUBSET Receipts]
NoClerk == [op |-> "none", step |-> "idle", of |-> {}, done |-> {}, amount |-> 0,
            old |-> {}, new |-> {}]

ClaimInit ==
    /\ claims = [c \in Claims |-> NoClaim]
    /\ entries = [e \in Entries |-> NoEntry]
    /\ books = [c \in Claims |-> <<>>]
    /\ files = [r \in Receipts |-> "new"]
    /\ clerks = [w \in Clerks |-> NoClerk]
    /\ granted = [c \in Claims |-> 0]
    /\ stale = {}
    /\ crossed = {}

Exists(c) == claims[c].status \notin {"none", "deleted"}

FreeOfPayments(c) == \A w \in Clerks : clerks[w].op = "pay" => c \notin clerks[w].of

Removed(S) == [r \in Receipts |-> IF r \in S THEN "removed" ELSE files[r]]

(* Requests that are about to change the receipts of c, other than w. *)
Rivals(w, c) == {v \in Clerks \ {w} : clerks[v].step \in {"saved", "read"} /\ c \in clerks[v].of}

Crossing(w, c) == IF Rivals(w, c) = {} THEN {} ELSE {c}

Finish(w) == clerks' = [clerks EXCEPT ![w] = NoClerk]

-----------------------------------------------------------------------------
(* Claims, edits and deletions *)

CreateClaim(c, a) ==
    /\ claims[c].status = "none"
    /\ claims' = [claims EXCEPT ![c] = [status |-> "submitted", amount |-> a, receipts |-> {}]]
    /\ UNCHANGED <<entries, books, files, clerks, granted, stale, crossed>>

(* Update and Delete check the status and what is to be kept, *)
ReadForChange(w, op, c, a, kept) ==
    /\ clerks[w] = NoClerk
    /\ claims[c].status = "submitted"
    /\ kept \subseteq claims[c].receipts /\ Cardinality(kept) <= MaxReceipts
    /\ clerks' = [clerks EXCEPT ![w] = [NoClerk EXCEPT !.op = op, !.step = "read", !.of = {c},
                                         !.amount = a, !.old = claims[c].receipts, !.new = kept]]
    /\ crossed' = crossed \cup Crossing(w, c)
    /\ UNCHANGED <<claims, entries, books, files, granted, stale>>

ReadClaimForEdit(w, c, a, kept) == ReadForChange(w, "edit", c, a, kept)
ReadClaimForDelete(w, c) == ReadForChange(w, "delete", c, 0, {})

(* The row an edit or a deletion leaves. *)
Changed(w, row) ==
    IF clerks[w].op = "edit" THEN [row EXCEPT !.amount = clerks[w].amount, !.receipts = clerks[w].new]
    ELSE [row EXCEPT !.status = "deleted", !.receipts = {}]

(* and change the row, in whatever status it is by now, or find it gone, or fail. *)
(* The read of the employee's name after an edit may fail, too: no file is removed then. *)
StoreChange(w) ==
    /\ clerks[w].op \in {"edit", "delete"} /\ clerks[w].step = "read"
    /\ \E c \in clerks[w].of :
         \/ Finish(w) /\ UNCHANGED claims
         \/ /\ Exists(c) /\ FreeOfPayments(c)
            /\ claims' = [claims EXCEPT ![c] = Changed(w, @)]
            /\ \/ clerks' = [clerks EXCEPT ![w].step = "after"]
               \/ clerks[w].op = "edit" /\ Finish(w)
    /\ UNCHANGED <<entries, books, files, granted, stale, crossed>>

RemoveFiles_All(w) ==
    /\ clerks[w].step = "after"
    /\ files' = Removed(clerks[w].old \cup clerks[w].new)
    /\ Finish(w)
    /\ UNCHANGED <<claims, entries, books, granted, stale, crossed>>

(* removeSavedAttachments of what the row no longer lists. *)
RemoveFiles(w) ==
    /\ clerks[w].step = "after"
    /\ files' = Removed(clerks[w].old \ clerks[w].new)
    /\ Finish(w)
    /\ UNCHANGED <<claims, entries, books, granted, stale, crossed>>

-----------------------------------------------------------------------------
(* Uploads *)

SaveFiles(w, c, new) ==
    /\ clerks[w] = NoClerk /\ Exists(c)
    /\ new # {} /\ \A r \in new : files[r] = "new"
    /\ files' = [r \in Receipts |-> IF r \in new THEN "saved" ELSE files[r]]
    /\ clerks' = [clerks EXCEPT ![w] = [NoClerk EXCEPT !.op = "attach", !.step = "saved",
                                                       !.of = {c}, !.new = new]]
    /\ crossed' = crossed \cup Crossing(w, c)
    /\ UNCHANGED <<claims, entries, books, granted, stale>>

DiscardFiles(w) == files' = Removed(clerks[w].new) /\ Finish(w)

(* Whoever sees all claims may add to one of any status.  Uploads that are        *)
(* checked at once can exceed the limit together.                               *)
CheckUpload(w) ==
    /\ clerks[w].op = "attach" /\ clerks[w].step = "saved"
    /\ \E c \in clerks[w].of :
         IF Exists(c) /\ Cardinality(claims[c].receipts) + Cardinality(clerks[w].new) <= MaxReceipts
           THEN clerks' = [clerks EXCEPT ![w].step = "read"] /\ UNCHANGED files
           ELSE DiscardFiles(w)
    /\ UNCHANGED <<claims, entries, books, granted, stale, crossed>>

(* The UPDATE, or an error of it or of the read after it: the files are removed, *)
(* of a row that lists them when the UPDATE was committed.                      *)
AddAttachments(w) ==
    /\ clerks[w].op = "attach" /\ clerks[w].step = "read"
    /\ \E c \in clerks[w].of :
         \/ /\ Exists(c) /\ FreeOfPayments(c)
            /\ claims' = [claims EXCEPT ![c].receipts = @ \cup clerks[w].new]
            /\ \/ Finish(w) /\ UNCHANGED <<files, crossed>>
               \/ DiscardFiles(w) /\ crossed' = crossed \cup {c}
         \/ DiscardFiles(w) /\ UNCHANGED <<claims, crossed>>
    /\ UNCHANGED <<entries, books, granted, stale>>

-----------------------------------------------------------------------------
(* Review and payment *)

Reviewable(c) == claims[c].status = "submitted"

(* Somebody has read it to change or delete it. *)
BeingChanged(c) ==
    \E w \in Clerks : /\ clerks[w].op \in {"edit", "delete"} /\ clerks[w].step = "read"
                      /\ c \in clerks[w].of

(* ApplyManagerReview and BulkApplyManagerReview: those that are still submitted. *)
ReviewClaims(S, decision) ==
    LET reviewed == {c \in S : Reviewable(c)} IN
    /\ reviewed # {}
    /\ claims' = [c \in Claims |->
           IF c \in reviewed THEN [claims[c] EXCEPT !.status = decision] ELSE claims[c]]
    /\ granted' = [c \in Claims |->
           IF c \in reviewed /\ decision = "approved" THEN claims[c].amount ELSE granted[c]]
    /\ stale' = stale \cup {c \in reviewed : BeingChanged(c)}
    /\ UNCHANGED <<entries, books, files, clerks, crossed>>

Payable_Ever(c) == claims[c].status \in {"approved", "paid"}

Payable(c) == claims[c].status = "approved"

(* MarkPaid and BulkMarkPaid: those that are still approved. *)
MarkPaid(w, S) ==
    LET payable == {c \in S : Payable(c)} IN
    /\ clerks[w] = NoClerk
    /\ payable # {} /\ \A c \in payable : FreeOfPayments(c)
    /\ clerks' = [clerks EXCEPT ![w] = [NoClerk EXCEPT !.op = "pay", !.of = payable]]
    /\ UNCHANGED <<claims, entries, books, files, granted, stale, crossed>>

(* RecordOutcome of one of them, in the transaction. *)
RecordOutcome(w, c) ==
    /\ clerks[w].op = "pay" /\ c \in clerks[w].of \ clerks[w].done
    /\ clerks' = [clerks EXCEPT ![w].done = @ \cup {c}]
    /\ UNCHANGED <<claims, entries, books, files, granted, stale, crossed>>

CommitPayment(w) ==
    LET paid == clerks[w].of IN
    /\ clerks[w].op = "pay" /\ clerks[w].done = paid
    /\ claims' = [c \in Claims |->
           IF c \in paid THEN [claims[c] EXCEPT !.status = "paid"] ELSE claims[c]]
    /\ books' = [c \in Claims |->
           IF c \in paid THEN Append(books[c], claims[c].amount) ELSE books[c]]
    /\ Finish(w)
    /\ UNCHANGED <<entries, files, granted, stale, crossed>>

RollBackPayment(w) ==
    /\ clerks[w].op = "pay"
    /\ Finish(w)
    /\ UNCHANGED <<claims, entries, books, files, granted, stale, crossed>>

(* The server stops: open transactions roll back, files stay as they are. *)
StopClerks ==
    /\ \E w \in Clerks : clerks[w] # NoClerk
    /\ clerks' = [w \in Clerks |-> NoClerk]
    /\ UNCHANGED <<claims, entries, books, files, granted, stale, crossed>>

-----------------------------------------------------------------------------
(* Records entered by hand: the guards are in the statements *)

SetEntry(e, row) ==
    /\ entries' = [entries EXCEPT ![e] = row]
    /\ UNCHANGED <<claims, books, files, clerks, granted, stale, crossed>>

CreateRecord(e, a) ==
    /\ entries[e].status = "none"
    /\ SetEntry(e, [status |-> "draft", amount |-> a, shown |-> 0])

UpdateRecord(e, a) ==
    /\ entries[e].status \in {"draft", "rejected"} /\ entries[e].amount # a
    /\ SetEntry(e, [entries[e] EXCEPT !.amount = a])

DeleteRecord(e) ==
    /\ entries[e].status \in {"draft", "rejected"}
    /\ SetEntry(e, [entries[e] EXCEPT !.status = "deleted"])

SubmitRecord(e) ==
    /\ entries[e].status = "draft"
    /\ SetEntry(e, [entries[e] EXCEPT !.status = "pending_review", !.shown = entries[e].amount])

ReviewRecord(e, decision) ==
    /\ entries[e].status = "pending_review"
    /\ SetEntry(e, [entries[e] EXCEPT !.status = decision])

-----------------------------------------------------------------------------

Decisions == {"approved", "rejected"}

ClaimNext ==
    \/ \E c \in Claims, a \in Amounts : CreateClaim(c, a)
    \/ \E S \in SUBSET Claims, decision \in Decisions : ReviewClaims(S, decision)
    \/ \E w \in Clerks :
         \/ StoreChange(w) \/ RemoveFiles(w) \/ CheckUpload(w) \/ AddAttachments(w)
         \/ CommitPayment(w) \/ RollBackPayment(w)
         \/ \E S \in SUBSET Claims : MarkPaid(w, S)
         \/ \E c \in Claims :
              \/ ReadClaimForDelete(w, c) \/ RecordOutcome(w, c)
              \/ \E S \in SUBSET Receipts :
                   SaveFiles(w, c, S) \/ \E a \in Amounts : ReadClaimForEdit(w, c, a, S)
    \/ StopClerks
    \/ \E e \in Entries :
         \/ DeleteRecord(e) \/ SubmitRecord(e)
         \/ \E a \in Amounts : CreateRecord(e, a) \/ UpdateRecord(e, a)
         \/ \E decision \in Decisions : ReviewRecord(e, decision)

ClaimSpec == ClaimInit /\ [][ClaimNext]_claimVars

-----------------------------------------------------------------------------
(* Properties *)

(* Types of the claims, the records and the requests.                            *)
ClaimTypeOK ==
    /\ claims \in [Claims -> Claim] /\ entries \in [Entries -> Entry]
    /\ books \in [Claims -> Seq(Amounts)]
    /\ files \in [Receipts -> {"new", "saved", "removed"}]
    /\ clerks \in [Clerks -> Clerk]
    /\ granted \in [Claims -> Amounts \cup {0}] /\ stale \subseteq Claims /\ crossed \subseteq Claims

(* The books have one entry for a paid claim, of the amount that was approved,    *)
(* and none for any other, however payments, bulk payments, failures and retries  *)
(* meet ("Use a transaction so MarkPaid + finance record are atomic"); the amount *)
(* and the row stay with it unless the claim was reviewed between the read and the  *)
(* write of an edit or a deletion.  A record entered by hand is approved as it    *)
(* was submitted.                                                               *)
BooksAgree ==
    /\ \A c \in Claims :
         /\ Len(books[c]) <= 1
         /\ c \notin stale =>
              /\ claims[c].status = "paid" <=> books[c] # <<>>
              /\ claims[c].status = "paid" =>
                   books[c] = <<granted[c]>> /\ claims[c].amount = granted[c]
    /\ \A e \in Entries :
         entries[e].status = "approved" => entries[e].amount = entries[e].shown

(* A receipt a claim lists is on disk, unless two requests changed the claim's     *)
(* receipts at once or an upload reported an error after its commit.             *)
ReceiptsAreKept ==
    \A c \in Claims \ crossed : \A r \in claims[c].receipts : files[r] = "saved"
=============================================================================
