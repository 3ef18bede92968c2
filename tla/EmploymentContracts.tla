-------------------------- MODULE EmploymentContracts --------------------------
(***************************************************************************)
(* Employment contracts with their PKWT and NDA documents                   *)
(* (service/hris/contracts.go, repository/hris/contracts.go and              *)
(* document_sequences.go): draft, numbering, generation, render, e-mail,     *)
(* revision, signing, ending, cancelling and renewal.                        *)
(*                                                                         *)
(* A statement that changes a row locks it until its transaction commits,   *)
(* and others read the old row until then: "pending" holds what is not yet   *)
(* committed.  E-mail deliveries are rows of another table and wait for no  *)
(* lock.  The render is one step: DocumentRender is about what happens in    *)
(* it (the same worker serves contracts), and PayslipSend about the mailer.  *)
(* The server has a PDF converter and every field Generate needs is given.   *)
(***************************************************************************)
EXTENDS Integers, FiniteSets

CONSTANTS
    Contracts,
    Months,          \* months of a document date
    ContractEditors,  \* requests that edit, reused one after another
    ContractSenders,  \* requests that send
    MaxRevisions,     \* bound: revisions of a contract
    MaxGenerations    \* bound: snapshots taken in all

ASSUME ContractMonthsAssumption == Months \subseteq Nat \ {0} /\ IsFiniteSet(Months)
ASSUME ContractNamesAssumption == "nothing" \notin Contracts
ASSUME ContractBoundsAssumption == MaxRevisions \in Nat /\ MaxGenerations \in Nat

VARIABLES
    contracts,   \* the employment_contracts table
    pending,      \* rows changed by a transaction that has not committed
    counters,    \* the document_sequences table: the last number of each month
    generations, \* snapshots taken so far: each encrypts to another ciphertext
    editing,     \* what each edit has read
    mailing,     \* what each send is doing
    guards,      \* contracts with a delivery queued or sending
    mails,       \* history: what the mail server accepted
    missed       \* history: a mail was accepted and its contract not marked sent

contractVars ==
    <<contracts, pending, counters, generations, editing, mailing, guards, mails, missed>>

-----------------------------------------------------------------------------

MaybeMonth == Months \cup {0}

Status == {"absent", "draft", "generated", "sent", "signed", "ended", "cancelled"}

(* period is the month of document_date, number and numbered the parts of     *)
(* doc_number; snapshot identifies payload_encrypted, and stale says that the   *)
(* terms are no longer those in it; pdf is the snapshot the recorded PDFs are of. *)
Contract ==
    [status : Status, revision : 0..MaxRevisions, recordOnly : BOOLEAN,
     period : MaybeMonth, number : Nat, numbered : MaybeMonth,
     snapshot : 0..MaxGenerations, stale : BOOLEAN,
     render : {"none", "pending", "ready", "failed"}, pdf : 0..MaxGenerations,
     renews : Contracts \cup {"nothing"}]

Absent == [status |-> "absent", revision |-> 0, recordOnly |-> FALSE, period |-> 0,
           number |-> 0, numbered |-> 0, snapshot |-> 0, stale |-> FALSE,
           render |-> "none", pdf |-> 0, renews |-> "nothing"]

(* counts is the month whose counter the transaction has incremented. *)
PendingWrite == [row : Contract, counts : MaybeMonth]
NothingPending == [row |-> Absent, counts |-> 0]

ContractEdit == [of : Contracts \cup {"nothing"}, status : Status, revision : 0..MaxRevisions,
         numbered : BOOLEAN, period : MaybeMonth]
NoEdit == [of |-> "nothing", status |-> "absent", revision |-> 0, numbered |-> FALSE, period |-> 0]

Sending == [step : {"idle", "read", "queued", "verified", "delivered"},
            of : Contracts \cup {"nothing"}, revision : 0..MaxRevisions,
            snapshot : 0..MaxGenerations]
NoSending == [step |-> "idle", of |-> "nothing", revision |-> 0, snapshot |-> 0]

ContractInit ==
    /\ contracts = [c \in Contracts |-> Absent]
    /\ pending = [c \in Contracts |-> NothingPending]
    /\ counters = [m \in Months |-> 0]
    /\ generations = 0
    /\ editing = [e \in ContractEditors |-> NoEdit]
    /\ mailing = [s \in ContractSenders |-> NoSending]
    /\ guards = {}
    /\ mails = {}
    /\ missed = FALSE

Unlocked(c) == pending[c] = NothingPending

(* contractNotSending, as the statement sees it. *)
NotMailing(c) == c \notin guards

-----------------------------------------------------------------------------
(* Transactions *)

(* The statement of a transaction has changed the row of c. *)
Stage(c, row, counts) ==
    pending' = [pending EXCEPT ![c] = [row |-> row, counts |-> counts]]

CommitWrite(c) ==
    /\ ~Unlocked(c)
    /\ contracts' = [contracts EXCEPT ![c] = pending[c].row]
    /\ counters' = [m \in Months |->
            IF pending[c].counts = m THEN pending[c].row.number ELSE counters[m]]
    /\ pending' = [pending EXCEPT ![c] = NothingPending]
    /\ UNCHANGED <<generations, editing, mailing, guards, mails, missed>>

(* A failed statement, a timeout or a stop of the server. *)
RollBack(c) ==
    /\ ~Unlocked(c)
    /\ pending' = [pending EXCEPT ![c] = NothingPending]
    /\ UNCHANGED <<contracts, counters, generations, editing, mailing, guards, mails, missed>>

-----------------------------------------------------------------------------
(* Drafts and edits *)

CreateContract(c) ==
    /\ contracts[c].status = "absent"
    /\ \E record \in BOOLEAN, m \in MaybeMonth :
         contracts' = [contracts EXCEPT
             ![c] = [Absent EXCEPT !.status = "draft", !.recordOnly = record, !.period = m]]
    /\ UNCHANGED <<pending, counters, generations, editing, mailing, guards, mails, missed>>

(* contractEditTarget: a sent contract is revised. *)
Revised(row) == IF row.status = "sent" THEN row.revision + 1 ELSE row.revision

Editable(row) ==
    row.status \in {"draft", "generated", "sent"} /\ Revised(row) <= MaxRevisions

(* Update reads the row and checks what it may change, *)
ReadForEdit(e, c) ==
    /\ editing[e] = NoEdit
    /\ Editable(contracts[c]) /\ NotMailing(c)
    /\ editing' = [editing EXCEPT
           ![e] = [of |-> c, status |-> contracts[c].status, revision |-> contracts[c].revision,
                   numbered |-> contracts[c].number # 0, period |-> contracts[c].period]]
    /\ UNCHANGED <<contracts, pending, counters, generations, mailing, guards, mails, missed>>

(* and UpdateTerms stores it if status and revision are still the same.      *)
ExpectedState(e, row) == row.status = editing[e].status /\ row.revision = editing[e].revision

(* The date is locked and the type stays once a number carries its month. *)
Amended(e, row, stale, m, record) ==
    [row EXCEPT !.status = "draft", !.revision = Revised(row), !.stale = stale,
                !.period = IF editing[e].numbered THEN editing[e].period ELSE m,
                !.recordOnly = ~editing[e].numbered /\ record,
                !.render = IF row.status \in {"generated", "sent"} \/ @ = "pending"
                             THEN "none" ELSE @]

(* chk_employment_contracts_numbers *)
NumbersOnlyDocuments(row) == row.number # 0 => ~row.recordOnly

UpdateTerms(e) ==
    LET c == editing[e].of IN
    /\ c # "nothing"
    /\ Unlocked(c)
    /\ editing' = [editing EXCEPT ![e] = NoEdit]
    /\ \/ /\ ExpectedState(e, contracts[c]) /\ NotMailing(c)
          /\ \E stale, record \in BOOLEAN, m \in MaybeMonth :
               /\ NumbersOnlyDocuments(Amended(e, contracts[c], stale, m, record))
               /\ Stage(c, Amended(e, contracts[c], stale, m, record), 0)
       \/ /\ ~(ExpectedState(e, contracts[c]) /\ NotMailing(c))
          /\ UNCHANGED pending
    /\ UNCHANGED <<contracts, counters, generations, mailing, guards, mails, missed>>

-----------------------------------------------------------------------------
(* Generation and render *)

Generatable(row) == ~row.recordOnly /\ row.status \in {"draft", "generated"}

CounterFree_Always(m) == TRUE

(* Next: the upsert locks the counter until the transaction ends. *)
CounterFree(m) == \A c \in Contracts : pending[c].counts # m

NextNumber(m) == counters[m] + 1

(* RecordSnapshot: numbers are written only when there are none yet. *)
Generated(row, m) ==
    [row EXCEPT !.status = "generated",
                !.number = IF @ = 0 THEN NextNumber(m) ELSE @,
                !.numbered = IF row.number = 0 THEN m ELSE @,
                !.period = m, !.stale = FALSE,
                !.snapshot = generations + 1, !.render = "pending"]

GenerateContract(c) ==
    /\ generations < MaxGenerations
    /\ Unlocked(c) /\ Generatable(contracts[c]) /\ NotMailing(c)
    /\ \E m \in IF contracts[c].period = 0 THEN Months ELSE {contracts[c].period} :
         /\ contracts[c].number = 0 => CounterFree(m)
         /\ Stage(c, Generated(contracts[c], m), IF contracts[c].number = 0 THEN m ELSE 0)
    /\ generations' = generations + 1
    /\ UNCHANGED <<contracts, counters, editing, mailing, guards, mails, missed>>

RenderContract(c) ==
    /\ Unlocked(c)
    /\ contracts[c].status = "generated" /\ contracts[c].render = "pending"
    /\ contracts' = [contracts EXCEPT ![c].render = "ready", ![c].pdf = contracts[c].snapshot]
    /\ UNCHANGED <<pending, counters, generations, editing, mailing, guards, mails, missed>>

RenderFails(c) ==
    /\ Unlocked(c)
    /\ contracts[c].render = "pending"
    /\ contracts' = [contracts EXCEPT ![c].render = "failed"]
    /\ UNCHANGED <<pending, counters, generations, editing, mailing, guards, mails, missed>>

-----------------------------------------------------------------------------
(* Signed, ended, cancelled, renewed *)

StatusSources_CancelSigned(row, target) ==
    CASE target = "signed"    -> IF row.recordOnly THEN {"draft"} ELSE {"generated", "sent"}
      [] target = "ended"     -> IF row.recordOnly THEN {"draft", "signed"} ELSE {"signed"}
      [] target = "cancelled" -> {"draft", "generated", "sent", "signed"}

(* contractStatusSources *)
StatusSources(row, target) ==
    CASE target = "signed"    -> IF row.recordOnly THEN {"draft"} ELSE {"generated", "sent"}
      [] target = "ended"     -> IF row.recordOnly THEN {"draft", "signed"} ELSE {"signed"}
      [] target = "cancelled" -> IF row.recordOnly THEN {"draft"}
                                 ELSE {"draft", "generated", "sent"}

DocumentsIssued_Always(row) == TRUE

DocumentsIssued(row) == row.recordOnly \/ row.render = "ready"

StatusAllowed(row, target) ==
    /\ row.status \in StatusSources(row, target)
    /\ target = "signed" /\ row.status = "generated" => DocumentsIssued(row)

SetStatus(c, target) ==
    /\ Unlocked(c) /\ NotMailing(c)
    /\ StatusAllowed(contracts[c], target)
    /\ Stage(c, [contracts[c] EXCEPT !.status = target], 0)
    /\ UNCHANGED <<contracts, counters, generations, editing, mailing, guards, mails, missed>>

RenewalsOf(c) ==
    {d \in Contracts : contracts[d].renews = c /\ contracts[d].status # "cancelled"}

(* The predecessor is locked from the check to the insertion. *)
Renew(c, d) ==
    /\ Unlocked(c)
    /\ contracts[c].status \in {"signed", "ended"}
    /\ RenewalsOf(c) = {}
    /\ contracts[d].status = "absent"
    /\ contracts' = [contracts EXCEPT
           ![d] = [Absent EXCEPT !.status = "draft", !.renews = c]]
    /\ UNCHANGED <<pending, counters, generations, editing, mailing, guards, mails, missed>>

-----------------------------------------------------------------------------
(* Send *)

Sendable(row) ==
    /\ ~row.recordOnly /\ row.number # 0 /\ row.snapshot # 0
    /\ row.status \in {"generated", "sent", "signed", "ended"}

(* The attachments are the recorded PDFs. *)
ReadForSend(s, c) ==
    /\ mailing[s].step = "idle"
    /\ Sendable(contracts[c]) /\ contracts[c].render = "ready"
    /\ mailing' = [mailing EXCEPT
           ![s] = [step |-> "read", of |-> c, revision |-> contracts[c].revision,
                   snapshot |-> contracts[c].snapshot]]
    /\ UNCHANGED <<contracts, pending, counters, generations, editing, guards, mails, missed>>

Queue(s) ==
    /\ mailing[s].step = "read"
    /\ \/ /\ mailing[s].of \notin guards
          /\ guards' = guards \cup {mailing[s].of}
          /\ mailing' = [mailing EXCEPT ![s].step = "queued"]
       \/ /\ mailing[s].of \in guards
          /\ mailing' = [mailing EXCEPT ![s] = NoSending]
          /\ UNCHANGED guards
    /\ UNCHANGED <<contracts, pending, counters, generations, editing, mails, missed>>

IsSnapshotOf_SameRevision(s, row) == row.revision = mailing[s].revision

IsSnapshotOf(s, row) ==
    row.revision = mailing[s].revision /\ row.snapshot = mailing[s].snapshot

VerifyQueued(s) ==
    LET row == contracts[mailing[s].of] IN
    /\ mailing[s].step = "queued"
    /\ \/ /\ Sendable(row) /\ IsSnapshotOf(s, row)
          /\ mailing' = [mailing EXCEPT ![s].step = "verified"]
          /\ UNCHANGED guards
       \/ /\ ~(Sendable(row) /\ IsSnapshotOf(s, row))
          /\ mailing' = [mailing EXCEPT ![s] = NoSending]
          /\ guards' = guards \ {mailing[s].of}
    /\ UNCHANGED <<contracts, pending, counters, generations, editing, mails, missed>>

MailOf(s) == [of |-> mailing[s].of, revision |-> mailing[s].revision,
              snapshot |-> mailing[s].snapshot]

(* The mail server accepts, and the delivery is recorded as sent: from then  *)
(* on nothing keeps the contract from being edited.                          *)
Deliver(s) ==
    /\ mailing[s].step = "verified"
    /\ mails' = mails \cup {MailOf(s)}
    /\ guards' = guards \ {mailing[s].of}
    /\ mailing' = [mailing EXCEPT ![s].step = "delivered"]
    /\ UNCHANGED <<contracts, pending, counters, generations, editing, missed>>

(* It refuses, or accepts after the client gave up. *)
DeliverFails(s) ==
    /\ mailing[s].step = "verified"
    /\ \/ UNCHANGED <<mails, missed>>
       \/ mails' = mails \cup {MailOf(s)} /\ missed' = TRUE
    /\ guards' = guards \ {mailing[s].of}
    /\ mailing' = [mailing EXCEPT ![s] = NoSending]
    /\ UNCHANGED <<contracts, pending, counters, generations, editing>>

Marked(s, row) ==
    /\ row.status \in {"generated", "sent", "signed", "ended"}
    /\ IsSnapshotOf(s, row)

MarkSent(s) ==
    LET c == mailing[s].of IN
    /\ mailing[s].step = "delivered"
    /\ Unlocked(c)
    /\ \/ /\ Marked(s, contracts[c])
          /\ contracts' = [contracts EXCEPT
                 ![c].status = IF @ \in {"signed", "ended"} THEN @ ELSE "sent"]
          /\ UNCHANGED missed
       \/ /\ ~Marked(s, contracts[c])
          /\ missed' = TRUE
          /\ UNCHANGED contracts
    /\ mailing' = [mailing EXCEPT ![s] = NoSending]
    /\ UNCHANGED <<pending, counters, generations, editing, guards, mails>>

(* The client goes away or the server stops: a queued delivery stays queued. *)
AbandonSend(s) ==
    /\ mailing[s].step \in {"queued", "verified", "delivered"}
    /\ missed' = (missed \/ mailing[s].step = "delivered")
    /\ mailing' = [mailing EXCEPT ![s] = NoSending]
    /\ UNCHANGED <<contracts, pending, counters, generations, editing, guards, mails>>

(* ReleaseStale of the mailer. *)
ReleaseGuard(c) ==
    /\ c \in guards
    /\ \A s \in ContractSenders :
         mailing[s].of = c => mailing[s].step \notin {"queued", "verified"}
    /\ guards' = guards \ {c}
    /\ UNCHANGED <<contracts, pending, counters, generations, editing, mailing, mails, missed>>

-----------------------------------------------------------------------------

ContractNext ==
    \/ \E c \in Contracts :
         \/ CommitWrite(c) \/ RollBack(c) \/ CreateContract(c) \/ GenerateContract(c)
         \/ RenderContract(c) \/ RenderFails(c) \/ ReleaseGuard(c)
         \/ \E target \in {"signed", "ended", "cancelled"} : SetStatus(c, target)
         \/ \E d \in Contracts : Renew(c, d)
         \/ \E e \in ContractEditors : ReadForEdit(e, c)
         \/ \E s \in ContractSenders : ReadForSend(s, c)
    \/ \E e \in ContractEditors : UpdateTerms(e)
    \/ \E s \in ContractSenders :
         \/ Queue(s) \/ VerifyQueued(s) \/ Deliver(s) \/ DeliverFails(s)
         \/ MarkSent(s) \/ AbandonSend(s)

ContractSpec == ContractInit /\ [][ContractNext]_contractVars

-----------------------------------------------------------------------------
(* Properties *)

(* Types of the contract rows, the open transactions and the requests.      *)
ContractTypeOK ==
    /\ contracts \in [Contracts -> Contract] /\ pending \in [Contracts -> PendingWrite]
    /\ counters \in [Months -> Nat] /\ generations \in 0..MaxGenerations
    /\ editing \in [ContractEditors -> ContractEdit] /\ mailing \in [ContractSenders -> Sending]
    /\ guards \subseteq Contracts /\ missed \in BOOLEAN
    /\ mails \subseteq
         [of : Contracts, revision : 0..MaxRevisions, snapshot : 0..MaxGenerations]

(* The numbers of a month are 1, 2, ... without a gap, each on one contract, *)
(* whatever was rolled back, revised or cancelled (the counter and the row   *)
(* are written in one transaction).                                          *)
NumbersAreGapless ==
    \A m \in Months :
        LET holders == {c \in Contracts : contracts[c].numbered = m} IN
        /\ {contracts[c].number : c \in holders} = 1..counters[m]
        /\ Cardinality(holders) = counters[m]

(* Two mails with the same number and "Revisi" carry the same documents, as   *)
(* long as every accepted mail got its contract marked sent.                  *)
RevisionTellsDocuments ==
    ~missed /\ (\A s \in ContractSenders : mailing[s].step # "delivered") =>
        \A x, y \in mails : x.of = y.of /\ x.revision = y.revision => x.snapshot = y.snapshot

(* What is signed, or ended after it was, has its documents, and they say     *)
(* what the row says (edits, regenerations and renders race the signature).   *)
SignedAsIssued ==
    \A c \in Contracts :
        LET row == contracts[c] IN
        row.status \in {"signed", "ended"} /\ ~row.recordOnly =>
            /\ row.render = "ready" /\ row.pdf = row.snapshot
            /\ ~row.stale

(* A contract is renewed by at most one that is not cancelled, whose         *)
(* predecessor stays signed or ended: the chain never forks.                 *)
ChainNeverForks ==
    /\ \A c \in Contracts : Cardinality(RenewalsOf(c)) <= 1
    /\ \A d \in Contracts : contracts[d].renews # "nothing" =>
         contracts[contracts[d].renews].status \in {"signed", "ended"}
=============================================================================
