--------------------------- MODULE Agreements_proofs ---------------------------
(***************************************************************************)
(* What EmploymentContracts promises, for any number of contracts, months,   *)
(* editors, senders, revisions and generations: numbers without gaps,        *)
(* signatures on current documents, a chain of renewals that never forks,    *)
(* and one document per revision.                                            *)
(*                                                                         *)
(* The argument is one inductive invariant, ContractInv.  It relates a row    *)
(* to the row a transaction will put in its place (Successor), and to what    *)
(* each send has read of it.                                                 *)
(*                                                                         *)
(* LettersInOrder, for any letters, clerks and senders and any bounds.  Each   *)
(* file is one row's, one request's or the worker's, but for a scan whose       *)
(* recording looked like a failure; what somebody holds of a row still means    *)
(* what it did.                                                              *)
(***************************************************************************)
EXTENDS EmploymentContracts, LegalLetters, TLAPS, FiniteSetTheorems, FunctionTheorems

-------------------------------------------------------------------------------
(* Employment contracts *)

IssuedStates == {"generated", "sent", "signed", "ended"}

(* Statuses of a row whose revision has been mailed, or that is over. *)
Closing == {"sent", "signed", "ended", "cancelled"}

(* What holds of every row, committed or not, once "counted" snapshots are taken. *)
RowOK(row, counted) ==
    /\ row \in Contract
    /\ row.status = "absent" => row = Absent
    /\ row.number = 0 <=> row.numbered = 0
    /\ row.snapshot # 0 => row.number # 0
    /\ row.number # 0 => ~row.recordOnly
    /\ row.snapshot <= counted
    /\ row.render = "ready" => row.pdf = row.snapshot
    /\ row.status \in IssuedStates /\ ~row.recordOnly => ~row.stale
    /\ row.status \in {"sent", "signed", "ended"} /\ ~row.recordOnly => row.render = "ready"

(* How a row may change. *)
Successor(row, next) ==
    /\ row.status # "absent" /\ next.status # "absent"
    /\ next.renews = row.renews
    /\ row.status = "cancelled" => next.status = "cancelled"
    /\ row.status \in {"signed", "ended"} => next.status \in {"signed", "ended"}
    /\ next.revision >= row.revision
    /\ row.status \in Closing =>
         \/ next.revision > row.revision
         \/ next.snapshot = row.snapshot /\ next.status \in Closing

(* A transaction that takes a number is alone in its month, and takes the next. *)
Numbered(row, write) ==
    IF write.counts = 0
      THEN write.row.number = row.number /\ write.row.numbered = row.numbered
      ELSE /\ row.number = 0
           /\ write.row.numbered = write.counts
           /\ write.row.number = counters[write.counts] + 1

PendingOK(c) ==
    /\ RowOK(pending[c].row, generations)
    /\ Successor(contracts[c], pending[c].row)
    /\ Numbered(contracts[c], pending[c])
    /\ pending[c].row.snapshot = contracts[c].snapshot /\ pending[c].row.status \in IssuedStates =>
         pending[c].row.render = contracts[c].render

RowsInv ==
    /\ \A c \in Contracts : RowOK(contracts[c], generations)
    /\ \A c \in Contracts : ~Unlocked(c) => PendingOK(c)
    /\ \A c, d \in Contracts :
         pending[c].counts # 0 /\ pending[c].counts = pending[d].counts => c = d

EditsInv ==
    \A e \in ContractEditors : editing[e].of # "nothing" =>
        /\ editing[e].status \in {"draft", "generated", "sent"}
        /\ (IF editing[e].status = "sent" THEN editing[e].revision + 1 ELSE editing[e].revision)
             <= MaxRevisions

(* The documents of the snapshot a send has read are rendered, unless the row *)
(* was edited since.                                                         *)
RenderedAs(snapshot, row) ==
    row.status \in IssuedStates /\ row.snapshot = snapshot => row.render = "ready"

SendsInv ==
    \A s \in ContractSenders : mailing[s].step # "idle" =>
        /\ mailing[s].of \in Contracts
        /\ mailing[s].snapshot # 0 /\ mailing[s].snapshot <= generations
        /\ RenderedAs(mailing[s].snapshot, contracts[mailing[s].of])
        /\ RenderedAs(mailing[s].snapshot, pending[mailing[s].of].row)

NumbersInv ==
    \A m \in Months :
        /\ \A c \in Contracts : contracts[c].numbered = m => contracts[c].number \in 1..counters[m]
        /\ \A n \in 1..counters[m] : \E c \in Contracts :
             contracts[c].numbered = m /\ contracts[c].number = n
        /\ \A c, d \in Contracts :
             contracts[c].numbered = m /\ contracts[d].numbered = m
             /\ contracts[c].number = contracts[d].number => c = d

ChainInv ==
    /\ \A c \in Contracts : \A d, e \in RenewalsOf(c) : d = e
    /\ \A d \in Contracts : contracts[d].renews # "nothing" =>
         contracts[contracts[d].renews].status \in {"signed", "ended"}

(* Mails whose contract is still to be marked sent. *)
Unmarked == {MailOf(s) : s \in {t \in ContractSenders : mailing[t].step = "delivered"}}

MarkedFor(mail, row) ==
    \/ row.revision > mail.revision
    \/ row.revision = mail.revision /\ row.snapshot = mail.snapshot /\ row.status \in Closing

MailsInv ==
    ~missed =>
        /\ \A mail \in mails \ Unmarked : MarkedFor(mail, contracts[mail.of])
        /\ \A x, y \in mails \ Unmarked :
             x.of = y.of /\ x.revision = y.revision => x.snapshot = y.snapshot

ContractInv ==
    /\ ContractTypeOK
    /\ RowsInv /\ EditsInv /\ SendsInv /\ NumbersInv /\ ChainInv /\ MailsInv

-----------------------------------------------------------------------------
(* Rows *)

LEMMA Bounds ==
  /\ MaxRevisions \in Nat /\ MaxGenerations \in Nat
  /\ \A m \in Months : m \in Nat /\ m # 0
  BY ContractBoundsAssumption, ContractMonthsAssumption

LEMMA AbsentRow ==
  /\ Absent \in Contract
  /\ Absent.status = "absent" /\ Absent.recordOnly = FALSE /\ Absent.number = 0
  /\ Absent.numbered = 0 /\ Absent.snapshot = 0 /\ Absent.stale = FALSE
  /\ Absent.render = "none" /\ Absent.renews = "nothing"
  BY Bounds DEF Absent, Contract, Status, MaybeMonth

LEMMA AbsentOK ==
  ASSUME NEW counted \in Nat
  PROVE  RowOK(Absent, counted)
  BY AbsentRow DEF RowOK, IssuedStates

(* The rows creation and renewal insert. *)
Fresh(row) ==
    /\ row \in Contract
    /\ row.status = "draft" /\ row.number = 0 /\ row.numbered = 0 /\ row.snapshot = 0
    /\ row.stale = FALSE /\ row.render = "none"

LEMMA FreshOK ==
  ASSUME NEW counted \in Nat, NEW row, Fresh(row)
  PROVE  RowOK(row, counted)
  BY DEF RowOK, Fresh, IssuedStates

LEMMA CreatedRow ==
  ASSUME NEW record \in BOOLEAN, NEW m \in MaybeMonth
  PROVE  LET row == [Absent EXCEPT !.status = "draft", !.recordOnly = record, !.period = m]
         IN  Fresh(row) /\ row.renews = "nothing"
  BY AbsentRow DEF Fresh, Contract, Status

LEMMA RenewingRow ==
  ASSUME NEW c \in Contracts
  PROVE  LET row == [Absent EXCEPT !.status = "draft", !.renews = c]
         IN  Fresh(row) /\ row.renews = c
  BY AbsentRow DEF Fresh, Contract, Status

(* What an edit stages. *)
LEMMA AmendedOK ==
  ASSUME ContractTypeOK, EditsInv, NEW e \in ContractEditors,
         NEW row, RowOK(row, generations), ExpectedState(e, row), editing[e].of # "nothing",
         NEW stale \in BOOLEAN, NEW record \in BOOLEAN, NEW m \in MaybeMonth,
         NumbersOnlyDocuments(Amended(e, row, stale, m, record))
  PROVE  /\ RowOK(Amended(e, row, stale, m, record), generations)
         /\ Successor(row, Amended(e, row, stale, m, record))
         /\ Amended(e, row, stale, m, record).status = "draft"
         /\ Amended(e, row, stale, m, record).number = row.number
         /\ Amended(e, row, stale, m, record).numbered = row.numbered
  <1> DEFINE next == Amended(e, row, stale, m, record)
  <1>1. /\ row \in Contract
        /\ editing[e] \in ContractEdit
        /\ row.status \in {"draft", "generated", "sent"}
        /\ row.status = "sent" => row.revision + 1 <= MaxRevisions
    BY DEF ContractTypeOK, RowOK, EditsInv, ExpectedState
  <1>2. /\ Revised(row) \in 0..MaxRevisions
        /\ Revised(row) >= row.revision
        /\ row.status = "sent" => Revised(row) > row.revision
    BY <1>1, Bounds DEF Revised, Contract
  <1>3. /\ (IF editing[e].numbered THEN editing[e].period ELSE m) \in MaybeMonth
        /\ (~editing[e].numbered /\ record) \in BOOLEAN
    BY <1>1 DEF ContractEdit
  <1>4. /\ next \in Contract
        /\ next.status = "draft" /\ next.revision = Revised(row)
        /\ next.number = row.number /\ next.numbered = row.numbered
        /\ next.snapshot = row.snapshot /\ next.pdf = row.pdf /\ next.renews = row.renews
        /\ next.render \in {"none", row.render}
    <2>1. PICK revision, period, recordOnly, render, y :
             /\ revision = Revised(row) /\ period = (IF editing[e].numbered THEN editing[e].period ELSE m)
             /\ recordOnly = (~editing[e].numbered /\ record)
             /\ render = (IF row.status \in {"generated", "sent"} \/ row.render = "pending" THEN "none" ELSE row.render)
             /\ y = next
      OBVIOUS
    <2>2. /\ revision \in 0..MaxRevisions /\ period \in MaybeMonth /\ recordOnly \in BOOLEAN
          /\ render \in {"none", row.render} /\ row \in Contract
      BY <1>1, <1>2, <1>3, <2>1
    <2>3. y = [row EXCEPT !.status = "draft", !.revision = revision, !.stale = stale, !.period = period,
                          !.recordOnly = recordOnly, !.render = render]
      BY <2>1, Zenon DEF Amended
    <2>4. render \in {"none", "pending", "ready", "failed"}
      BY ONLY <2>2 DEF Contract
    <2>5. /\ y \in Contract /\ y.status = "draft" /\ y.revision = revision /\ y.render = render
          /\ y.number = row.number /\ y.numbered = row.numbered
          /\ y.snapshot = row.snapshot /\ y.pdf = row.pdf /\ y.renews = row.renews
      BY ONLY <2>2, <2>3, <2>4, stale \in BOOLEAN DEF Contract, Status
    <2> QED
      BY <2>1, <2>2, <2>5
  <1>5. next.number # 0 => ~next.recordOnly
    BY DEF NumbersOnlyDocuments
  <1> HIDE DEF next
  <1>6. RowOK(next, generations)
    BY <1>4, <1>5 DEF RowOK, IssuedStates
  <1>7. Successor(row, next)
    BY <1>1, <1>2, <1>4 DEF Successor, Closing
  <1> QED
    BY <1>4, <1>6, <1>7 DEF next

(* What a generation stages: snapshot and, the first time, number. *)
LEMMA GeneratedOK ==
  ASSUME ContractTypeOK, generations < MaxGenerations, NEW m \in Months,
         NEW row, RowOK(row, generations), Generatable(row)
  PROVE  /\ RowOK(Generated(row, m), generations + 1)
         /\ Successor(row, Generated(row, m))
         /\ Generated(row, m).snapshot = generations + 1
         /\ row.number = 0 => /\ Generated(row, m).numbered = m
                              /\ Generated(row, m).number = counters[m] + 1
         /\ row.number # 0 => /\ Generated(row, m).numbered = row.numbered
                              /\ Generated(row, m).number = row.number
  <1> DEFINE next == Generated(row, m)
  <1>1. /\ row \in Contract /\ ~row.recordOnly /\ row.status \in {"draft", "generated"}
        /\ generations \in Nat /\ generations + 1 \in 0..MaxGenerations
        /\ counters[m] \in Nat
        /\ m \in Nat /\ m # 0 /\ m \in MaybeMonth
    BY Bounds DEF RowOK, Generatable, ContractTypeOK, MaybeMonth
  <1>2. /\ row.number \in Nat /\ row.numbered \in MaybeMonth
        /\ row.number = 0 <=> row.numbered = 0
    BY <1>1 DEF RowOK, Contract
  <1> DEFINE number == IF row.number = 0 THEN counters[m] + 1 ELSE row.number
             numbered == IF row.number = 0 THEN m ELSE row.numbered
  <1>a. number \in Nat /\ numbered \in MaybeMonth
    BY <1>1, <1>2
  <1>b. next = [row EXCEPT !.status = "generated", !.number = number, !.numbered = numbered,
                           !.period = m, !.stale = FALSE,
                           !.snapshot = generations + 1, !.render = "pending"]
    BY <1>1 DEF Generated, NextNumber, Contract
  <1> HIDE DEF number, numbered
  <1>3. /\ next \in Contract
        /\ next.status = "generated" /\ next.recordOnly = row.recordOnly
        /\ next.number = number /\ next.numbered = numbered
        /\ next.snapshot = generations + 1 /\ next.stale = FALSE
        /\ next.render = "pending" /\ next.renews = row.renews
        /\ next.revision = row.revision
    <2>1. PICK y, snapshot : y = next /\ snapshot = generations + 1
      OBVIOUS
    <2>2. row \in Contract /\ m \in MaybeMonth /\ snapshot \in 0..MaxGenerations
      BY <1>1, <2>1
    <2>3. y = [row EXCEPT !.status = "generated", !.number = number, !.numbered = numbered,
                          !.period = m, !.stale = FALSE, !.snapshot = snapshot, !.render = "pending"]
      BY <1>b, <2>1
    <2>4. /\ y \in Contract
          /\ y.status = "generated" /\ y.recordOnly = row.recordOnly
          /\ y.number = number /\ y.numbered = numbered
          /\ y.snapshot = snapshot /\ y.stale = FALSE
          /\ y.render = "pending" /\ y.renews = row.renews
          /\ y.revision = row.revision
      BY ONLY <1>a, <2>2, <2>3 DEF Contract, Status
    <2> QED
      BY <2>1, <2>4
  <1> HIDE DEF next
  <1>4. RowOK(next, generations + 1)
    BY <1>1, <1>2, <1>3 DEF RowOK, number, numbered
  <1>5. Successor(row, next)
    BY <1>1, <1>3, Bounds DEF Successor, Contract, Closing
  <1> QED
    BY <1>2, <1>3, <1>4, <1>5 DEF next, number, numbered

(* What a signature, an end or a cancellation stages. *)
LEMMA StatusSetOK ==
  ASSUME NEW counted \in Nat, NEW row, RowOK(row, counted),
         NEW target \in {"signed", "ended", "cancelled"}, StatusAllowed(row, target)
  PROVE  LET next == [row EXCEPT !.status = target] IN
         /\ RowOK(next, counted) /\ Successor(row, next)
         /\ next.number = row.number /\ next.numbered = row.numbered
         /\ next.snapshot = row.snapshot /\ next.render = row.render
         /\ next.snapshot # 0 => row.status \in IssuedStates \/ next.status = "cancelled"
  <1> DEFINE next == [row EXCEPT !.status = target]
  <1>1. /\ row \in Contract
        /\ next \in Contract /\ next.status = target /\ next.revision = row.revision
        /\ next.recordOnly = row.recordOnly /\ next.renews = row.renews
        /\ next.number = row.number /\ next.numbered = row.numbered
        /\ next.snapshot = row.snapshot /\ next.render = row.render
        /\ next.pdf = row.pdf /\ next.stale = row.stale
    BY DEF RowOK, Contract, Status
  <1> HIDE DEF next
  <1>2. row.status \in StatusSources(row, target)
    BY DEF StatusAllowed
  <1>3. /\ target # "cancelled" /\ ~row.recordOnly => row.status \in IssuedStates
        /\ target # "cancelled" /\ ~row.recordOnly => row.render = "ready"
    BY <1>2 DEF StatusSources, StatusAllowed, DocumentsIssued, IssuedStates, RowOK
  <1>4. /\ row.status # "absent" /\ row.status # "cancelled"
        /\ row.status \in {"signed", "ended"} => target \in {"signed", "ended"}
    BY <1>2 DEF StatusSources
  <1>5. RowOK(next, counted)
    BY <1>1, <1>3 DEF RowOK, IssuedStates
  <1>6. Successor(row, next)
    BY <1>1, <1>4, Bounds DEF Successor, Closing, Contract
  <1> QED
    BY <1>1, <1>3, <1>5, <1>6 DEF next, RowOK

LEMMA RowOKLater ==
  ASSUME NEW counted \in Nat, NEW later \in Nat, counted <= later,
         NEW row, RowOK(row, counted)
  PROVE  RowOK(row, later)
  BY Bounds DEF RowOK, Contract

(* A row that changes keeps what the mails of it say. *)
LEMMA MarkedKept ==
  ASSUME NEW mail, mail.revision \in Nat, NEW row \in Contract, NEW next \in Contract,
         MarkedFor(mail, row), Successor(row, next)
  PROVE  MarkedFor(mail, next)
  BY Bounds DEF MarkedFor, Successor, Contract

-----------------------------------------------------------------------------
(* What the kinds of steps keep *)

LEMMA InvTypes ==
  ASSUME ContractInv
  PROVE  /\ generations \in Nat
         /\ \A c \in Contracts : contracts[c] \in Contract /\ RowOK(contracts[c], generations)
         /\ \A c \in Contracts : pending[c] \in PendingWrite
         /\ \A s \in ContractSenders : mailing[s] \in Sending
         /\ \A mail \in mails : mail.of \in Contracts /\ mail.revision \in Nat
  BY Bounds DEF ContractInv, ContractTypeOK, RowsInv

(* Steps of a request that touches no row. *)
LEMMA RowsUnchanged ==
  ASSUME ContractInv, UNCHANGED <<contracts, pending, counters, generations>>
  PROVE  RowsInv' /\ NumbersInv' /\ ChainInv'
  BY DEF ContractInv, RowsInv, PendingOK, Numbered, Unlocked, NumbersInv, ChainInv, RenewalsOf

(* No mail that was marked loses its mark when rows are succeeded. *)
LEMMA MailsKept ==
  ASSUME ContractInv,
         \A c \in Contracts :
           /\ contracts'[c] \in Contract
           /\ \/ contracts'[c] = contracts[c]
              \/ contracts[c] = Absent
              \/ Successor(contracts[c], contracts'[c]),
         mails' \ Unmarked' \subseteq mails \ Unmarked,
         missed => missed'
  PROVE  MailsInv'
  <1> SUFFICES ASSUME ~missed'
               PROVE  /\ \A mail \in mails' \ Unmarked' : MarkedFor(mail, contracts'[mail.of])
                      /\ \A x, y \in mails' \ Unmarked' :
                           x.of = y.of /\ x.revision = y.revision => x.snapshot = y.snapshot
    BY DEF MailsInv, MarkedFor
  <1>1. MailsInv /\ ~missed
    BY DEF ContractInv
  <1>2. \A x, y \in mails' \ Unmarked' :
           x.of = y.of /\ x.revision = y.revision => x.snapshot = y.snapshot
    BY <1>1 DEF MailsInv
  <1>3. ASSUME NEW mail \in mails' \ Unmarked'
        PROVE  MarkedFor(mail, contracts'[mail.of])
    <2>1. /\ mail \in mails \ Unmarked
          /\ mail.of \in Contracts /\ mail.revision \in Nat
          /\ MarkedFor(mail, contracts[mail.of])
      BY <1>1, InvTypes DEF MailsInv
    <2>2. contracts[mail.of] # Absent
      <3> SUFFICES ASSUME contracts[mail.of] = Absent PROVE FALSE
        OBVIOUS
      <3>1. Absent.revision = 0 /\ Absent.status = "absent"
        BY DEF Absent
      <3> QED
        BY <2>1, <3>1 DEF MarkedFor, Closing
    <2> QED
      BY <2>1, <2>2, MarkedKept, InvTypes
  <1> QED
    BY <1>2, <1>3

(* A statement stages a row, or its transaction is rolled back. *)
LEMMA Staged ==
  ASSUME ContractInv, NEW c \in Contracts, NEW write,
         pending' = [pending EXCEPT ![c] = write],
         UNCHANGED <<contracts, counters, mailing, mails, missed>>,
         generations' \in Nat, generations <= generations',
         write # NothingPending =>
           /\ RowOK(write.row, generations')
           /\ Successor(contracts[c], write.row)
           /\ Numbered(contracts[c], write)
           /\ write.row.snapshot = contracts[c].snapshot /\ write.row.status \in IssuedStates =>
                write.row.render = contracts[c].render
           /\ \A s \in ContractSenders :
                mailing[s].step # "idle" /\ mailing[s].of = c =>
                  RenderedAs(mailing[s].snapshot, write.row)
           /\ write.counts # 0 => CounterFree(write.counts)
  PROVE  RowsInv' /\ SendsInv' /\ NumbersInv' /\ ChainInv' /\ MailsInv'
  <1>1. /\ pending \in [Contracts -> PendingWrite]
        /\ pending'[c] = write
        /\ \A d \in Contracts : d # c => pending'[d] = pending[d]
    BY DEF ContractInv, ContractTypeOK
  <1>2. NothingPending.counts = 0 /\ NothingPending.row.status = "absent"
    BY AbsentRow DEF NothingPending
  <1>3. \A d \in Contracts : RowOK(contracts[d], generations')
    BY InvTypes, RowOKLater
  <1>4. ASSUME NEW d \in Contracts, ~(pending'[d] = NothingPending)
        PROVE  PendingOK(d)'
    <2>1. CASE d = c
      BY <1>1, <1>4, <2>1 DEF PendingOK, Numbered
    <2>2. CASE d # c
      <3>1. PendingOK(d)
        BY <1>1, <1>4, <2>2 DEF ContractInv, RowsInv, Unlocked
      <3>2. RowOK(pending[d].row, generations')
        BY <3>1, InvTypes, RowOKLater DEF PendingOK
      <3> QED
        BY <1>1, <2>2, <3>1, <3>2 DEF PendingOK, Numbered
    <2> QED
      BY <2>1, <2>2
  <1>5. ASSUME NEW d \in Contracts, NEW e \in Contracts,
               pending'[d].counts # 0, pending'[d].counts = pending'[e].counts
        PROVE  d = e
    BY <1>1, <1>2, <1>5 DEF ContractInv, RowsInv, CounterFree
  <1>6. RowsInv'
    BY <1>3, <1>4, <1>5 DEF RowsInv, Unlocked
  <1>7. SendsInv'
    <2> SUFFICES ASSUME NEW s \in ContractSenders, mailing[s].step # "idle"
                 PROVE  /\ mailing[s].of \in Contracts
                        /\ mailing[s].snapshot # 0 /\ mailing[s].snapshot <= generations'
                        /\ RenderedAs(mailing[s].snapshot, contracts[mailing[s].of])
                        /\ RenderedAs(mailing[s].snapshot, pending'[mailing[s].of].row)
      BY DEF SendsInv, RenderedAs
    <2>1. /\ mailing[s].of \in Contracts
          /\ mailing[s].snapshot # 0 /\ mailing[s].snapshot <= generations
          /\ RenderedAs(mailing[s].snapshot, contracts[mailing[s].of])
          /\ RenderedAs(mailing[s].snapshot, pending[mailing[s].of].row)
      BY DEF ContractInv, SendsInv
    <2>2. mailing[s].snapshot <= generations'
      BY <2>1, InvTypes, Bounds DEF Sending
    <2>3. RenderedAs(mailing[s].snapshot, pending'[mailing[s].of].row)
      BY <1>1, <1>2, <2>1 DEF RenderedAs, IssuedStates
    <2> QED
      BY <2>1, <2>2, <2>3
  <1>8. NumbersInv' /\ ChainInv'
    BY DEF ContractInv, NumbersInv, ChainInv, RenewalsOf
  <1>9. MailsInv'
    BY DEF ContractInv, MailsInv, Unmarked, MailOf
  <1> QED
    BY <1>6, <1>7, <1>8, <1>9

(* A row is written: the others, and what is staged for them, stand. *)
LEMMA Replaced ==
  ASSUME ContractInv, NEW c \in Contracts, NEW row, RowOK(row, generations),
         contracts' = [contracts EXCEPT ![c] = row],
         pending' = [pending EXCEPT ![c] = NothingPending],
         \A m \in Months : counters'[m] = counters[m] \/ pending[c].counts = m,
         UNCHANGED <<generations, mailing>>,
         \A s \in ContractSenders :
           mailing[s].step # "idle" /\ mailing[s].of = c => RenderedAs(mailing[s].snapshot, row)
  PROVE  RowsInv' /\ SendsInv'
  <1>1. /\ pending'[c] = NothingPending /\ contracts'[c] = row
        /\ \A d \in Contracts : d # c => pending'[d] = pending[d] /\ contracts'[d] = contracts[d]
    BY DEF ContractInv, ContractTypeOK
  <1>2. NothingPending.counts = 0 /\ NothingPending.row.status = "absent"
    BY AbsentRow DEF NothingPending
  <1>3. \A d \in Contracts : RowOK(contracts'[d], generations')
    BY <1>1, InvTypes
  <1>4. ASSUME NEW d \in Contracts, ~(pending'[d] = NothingPending)
        PROVE  PendingOK(d)'
    <2>1. d # c /\ PendingOK(d)
      BY <1>1, <1>4 DEF ContractInv, RowsInv, Unlocked
    <2>2. pending[d].counts # 0 =>
            pending[d].counts \in Months /\ counters'[pending[d].counts] = counters[pending[d].counts]
      BY <2>1, InvTypes DEF ContractInv, RowsInv, PendingWrite, MaybeMonth
    <2> QED
      BY <1>1, <2>1, <2>2 DEF PendingOK, Numbered
  <1>5. ASSUME NEW d \in Contracts, NEW e \in Contracts,
               pending'[d].counts # 0, pending'[d].counts = pending'[e].counts
        PROVE  d = e
    BY <1>1, <1>2, <1>5 DEF ContractInv, RowsInv
  <1>6. RowsInv'
    BY <1>3, <1>4, <1>5 DEF RowsInv, Unlocked
  <1>7. SendsInv'
    <2> SUFFICES ASSUME NEW s \in ContractSenders, mailing[s].step # "idle"
                 PROVE  /\ mailing[s].of \in Contracts
                        /\ mailing[s].snapshot # 0 /\ mailing[s].snapshot <= generations
                        /\ RenderedAs(mailing[s].snapshot, contracts'[mailing[s].of])
                        /\ RenderedAs(mailing[s].snapshot, pending'[mailing[s].of].row)
      BY DEF SendsInv, RenderedAs
    <2>1. /\ mailing[s].of \in Contracts
          /\ mailing[s].snapshot # 0 /\ mailing[s].snapshot <= generations
          /\ RenderedAs(mailing[s].snapshot, contracts[mailing[s].of])
          /\ RenderedAs(mailing[s].snapshot, pending[mailing[s].of].row)
      BY DEF ContractInv, SendsInv
    <2>2. RenderedAs(mailing[s].snapshot, contracts'[mailing[s].of])
      BY <1>1, <2>1
    <2>3. RenderedAs(mailing[s].snapshot, pending'[mailing[s].of].row)
      BY <1>1, <1>2, <2>1 DEF RenderedAs, IssuedStates
    <2> QED
      BY <2>1, <2>2, <2>3
  <1> QED
    BY <1>6, <1>7

(* The successor of a row keeps its place in the chain. *)
LEMMA ChainKept ==
  ASSUME ContractInv, NEW c \in Contracts, NEW row, row \in Contract,
         contracts' = [contracts EXCEPT ![c] = row],
         Successor(contracts[c], row)
  PROVE  ChainInv'
  <1>1. /\ contracts'[c] = row
        /\ \A d \in Contracts : d # c => contracts'[d] = contracts[d]
    BY DEF ContractInv, ContractTypeOK
  <1>2. /\ row.renews = contracts[c].renews
        /\ contracts[c].status = "cancelled" => row.status = "cancelled"
        /\ contracts[c].status \in {"signed", "ended"} => row.status \in {"signed", "ended"}
    BY DEF Successor
  <1>3. \A d \in Contracts : RenewalsOf(d)' \subseteq RenewalsOf(d)
    BY <1>1, <1>2 DEF RenewalsOf
  <1>4. \A d \in Contracts : contracts'[d].renews = contracts[d].renews
    BY <1>1, <1>2
  <1>5. \A d \in Contracts : contracts[d].renews \in Contracts \cup {"nothing"}
    BY InvTypes DEF Contract
  <1>6. \A d \in Contracts :
           contracts[d].status \in {"signed", "ended"} => contracts'[d].status \in {"signed", "ended"}
    BY <1>1, <1>2
  <1> QED
    BY <1>3, <1>4, <1>5, <1>6 DEF ContractInv, ChainInv

(* A row that keeps its number leaves the numbers as they are. *)
LEMMA NumbersKept ==
  ASSUME ContractInv, NEW c \in Contracts, NEW row,
         contracts' = [contracts EXCEPT ![c] = row],
         row.number = contracts[c].number, row.numbered = contracts[c].numbered,
         UNCHANGED counters
  PROVE  NumbersInv'
  <1>1. \A d \in Contracts : /\ contracts'[d].number = contracts[d].number
                             /\ contracts'[d].numbered = contracts[d].numbered
    BY DEF ContractInv, ContractTypeOK
  <1> QED
    BY <1>1 DEF ContractInv, NumbersInv

(* The next number of a month closes no gap and opens none. *)
LEMMA NumberTaken ==
  ASSUME ContractInv, NEW c \in Contracts, NEW row, NEW m \in Months,
         contracts[c].number = 0, contracts[c].numbered = 0,
         contracts' = [contracts EXCEPT ![c] = row],
         row.numbered = m, row.number = counters[m] + 1,
         \A k \in Months : counters'[k] = IF k = m THEN row.number ELSE counters[k]
  PROVE  NumbersInv'
  <1>1. /\ contracts'[c] = row
        /\ \A d \in Contracts : d # c => contracts'[d] = contracts[d]
        /\ \A k \in Months : counters[k] \in Nat
    BY DEF ContractInv, ContractTypeOK
  <1>2. \A k \in Months : k # 0
    BY Bounds
  <1> SUFFICES ASSUME NEW k \in Months
               PROVE  /\ \A d \in Contracts :
                           contracts'[d].numbered = k => contracts'[d].number \in 1..counters'[k]
                      /\ \A n \in 1..counters'[k] : \E d \in Contracts :
                           contracts'[d].numbered = k /\ contracts'[d].number = n
                      /\ \A d, e \in Contracts :
                           contracts'[d].numbered = k /\ contracts'[e].numbered = k
                           /\ contracts'[d].number = contracts'[e].number => d = e
    BY DEF NumbersInv
  <1>3. /\ \A d \in Contracts : contracts[d].numbered = k => contracts[d].number \in 1..counters[k]
        /\ \A n \in 1..counters[k] : \E d \in Contracts :
             contracts[d].numbered = k /\ contracts[d].number = n
        /\ \A d, e \in Contracts :
             contracts[d].numbered = k /\ contracts[e].numbered = k
             /\ contracts[d].number = contracts[e].number => d = e
    BY DEF ContractInv, NumbersInv
  <1>4. CASE k # m
    <2>1. counters'[k] = counters[k]
      BY <1>4
    <2>2. \A d \in Contracts : contracts'[d].numbered = k <=> contracts[d].numbered = k
      BY <1>1, <1>2, <1>4
    <2>3. \A d \in Contracts : contracts[d].numbered = k => d # c
      BY <1>2
    <2>4. \A d \in Contracts : contracts[d].numbered = k => contracts'[d] = contracts[d]
      BY <1>1, <2>3
    <2> QED
      BY <1>3, <2>1, <2>2, <2>4
  <1>5. CASE k = m
    <2>1. counters'[k] = counters[k] + 1 /\ counters[k] \in Nat
      BY <1>1, <1>5
    <2>2. \A d \in Contracts : contracts[d].numbered = k => contracts'[d] = contracts[d]
      BY <1>1, <1>2
    <2>3. ASSUME NEW d \in Contracts, contracts'[d].numbered = k, d # c
          PROVE  contracts[d].numbered = k /\ contracts'[d].number = contracts[d].number
      BY <1>1, <2>3
    <2>4. \A d \in Contracts :
             contracts'[d].numbered = k => contracts'[d].number \in 1..counters'[k]
      BY <1>1, <1>3, <1>5, <2>1, <2>3
    <2>5. ASSUME NEW n \in 1..counters'[k]
          PROVE  \E d \in Contracts : contracts'[d].numbered = k /\ contracts'[d].number = n
      <3>1. CASE n = counters[k] + 1
        BY <1>1, <1>5, <3>1
      <3>2. CASE n # counters[k] + 1
        <4>1. n \in 1..counters[k]
          BY <2>1, <3>2
        <4> QED
          BY <1>3, <2>2, <4>1
      <3> QED
        BY <3>1, <3>2
    <2>6. ASSUME NEW d \in Contracts, NEW e \in Contracts,
                 contracts'[d].numbered = k, contracts'[e].numbered = k,
                 contracts'[d].number = contracts'[e].number
          PROVE  d = e
      <3>1. \A f \in Contracts : f # c /\ contracts'[f].numbered = k =>
               contracts'[f].number # contracts'[c].number
        BY <1>1, <1>3, <1>5, <2>1, <2>3
      <3>2. d # c /\ e # c => d = e
        BY <1>3, <2>3, <2>6
      <3> QED
        BY <2>6, <3>1, <3>2
    <2> QED
      BY <2>4, <2>5, <2>6
  <1> QED
    BY <1>4, <1>5

-----------------------------------------------------------------------------
(* The steps of a request that touches no row *)

LEMMA ReadForEditStep ==
  ASSUME ContractInv, NEW e \in ContractEditors, NEW c \in Contracts, ReadForEdit(e, c)
  PROVE  ContractInv'
  <1> USE DEF ReadForEdit
  <1> DEFINE row == contracts[c]
             edit == [of |-> c, status |-> row.status, revision |-> row.revision,
                      numbered |-> row.number # 0, period |-> row.period]
  <1>1. /\ editing' = [editing EXCEPT ![e] = edit]
        /\ Editable(row) /\ row \in Contract
    BY InvTypes
  <1>2. edit \in ContractEdit
    BY <1>1 DEF ContractEdit, Contract
  <1>3. ContractTypeOK'
    BY <1>1, <1>2 DEF ContractInv, ContractTypeOK
  <1>4. EditsInv'
    <2>1. edit.status \in {"draft", "generated", "sent"}
      BY <1>1 DEF Editable
    <2>2. (IF edit.status = "sent" THEN edit.revision + 1 ELSE edit.revision) <= MaxRevisions
      BY <1>1 DEF Editable, Revised
    <2> HIDE DEF edit
    <2>3. \A f \in ContractEditors : editing'[f] = IF f = e THEN edit ELSE editing[f]
      BY <1>1 DEF ContractInv, ContractTypeOK
    <2> QED
      BY <2>1, <2>2, <2>3 DEF ContractInv, EditsInv
  <1>5. SendsInv'
    BY DEF ContractInv, SendsInv, RenderedAs
  <1>6. MailsInv'
    BY DEF ContractInv, MailsInv, Unmarked, MailOf, MarkedFor
  <1> QED
    BY <1>3, <1>4, <1>5, <1>6, RowsUnchanged DEF ContractInv

LEMMA ReadForSendStep ==
  ASSUME ContractInv, NEW s \in ContractSenders, NEW c \in Contracts, ReadForSend(s, c)
  PROVE  ContractInv'
  <1> USE DEF ReadForSend
  <1> DEFINE row == contracts[c]
             read == [step |-> "read", of |-> c, revision |-> row.revision,
                      snapshot |-> row.snapshot]
  <1>1. /\ mailing' = [mailing EXCEPT ![s] = read]
        /\ Sendable(row) /\ row.render = "ready"
        /\ row \in Contract /\ RowOK(row, generations)
    BY InvTypes
  <1>2. read \in Sending
    BY <1>1 DEF Sending, Contract
  <1>3. ContractTypeOK'
    BY <1>1, <1>2 DEF ContractInv, ContractTypeOK
  <1>4. \A r \in ContractSenders : mailing'[r] = IF r = s THEN read ELSE mailing[r]
    BY <1>1 DEF ContractInv, ContractTypeOK
  <1>5. /\ read.snapshot # 0 /\ read.snapshot <= generations
        /\ RenderedAs(read.snapshot, row)
    BY <1>1 DEF Sendable, RowOK, RenderedAs
  <1>6. RenderedAs(read.snapshot, pending[c].row)
    <2>1. CASE Unlocked(c)
      BY <2>1, AbsentRow DEF Unlocked, NothingPending, RenderedAs, IssuedStates
    <2>2. CASE ~Unlocked(c)
      <3>1. PendingOK(c)
        BY <2>2 DEF ContractInv, RowsInv
      <3> QED
        BY <1>1, <3>1 DEF PendingOK, RenderedAs
    <2> QED
      BY <2>1, <2>2
  <1>7. read.step = "read" /\ read.of = c
    OBVIOUS
  <1> HIDE DEF read
  <1>8. SendsInv'
    BY <1>4, <1>5, <1>6, <1>7 DEF ContractInv, SendsInv, RenderedAs
  <1>9. Unmarked' = Unmarked
    <2>1. \A r \in ContractSenders :
             mailing'[r].step = "delivered" <=> mailing[r].step = "delivered"
      BY <1>4, <1>7
    <2>2. \A r \in ContractSenders :
             mailing[r].step = "delivered" => mailing'[r] = mailing[r]
      BY <1>4
    <2> QED
      BY <2>1, <2>2 DEF Unmarked, MailOf
  <1>10. MailsInv'
    BY <1>9, MailsKept, InvTypes
  <1>11. EditsInv'
    BY DEF ContractInv, EditsInv
  <1> QED
    BY <1>3, <1>8, <1>10, <1>11, RowsUnchanged DEF ContractInv

(* What a step of a send keeps when its record stays of the same contract. *)
LEMMA SendSteps ==
  ASSUME ContractInv, NEW s \in ContractSenders, NEW next \in Sending,
         mailing' = [mailing EXCEPT ![s] = next],
         next.step # "idle" => /\ mailing[s].step # "idle" /\ next.of = mailing[s].of
                               /\ next.snapshot = mailing[s].snapshot,
         UNCHANGED <<contracts, pending, generations>>
  PROVE  /\ SendsInv'
         /\ mailing' \in [ContractSenders -> Sending]
         /\ \A r \in ContractSenders : mailing'[r] = IF r = s THEN next ELSE mailing[r]
  <1>1. mailing \in [ContractSenders -> Sending]
    BY DEF ContractInv, ContractTypeOK
  <1>2. \A r \in ContractSenders : mailing'[r] = IF r = s THEN next ELSE mailing[r]
    BY <1>1
  <1>3. SendsInv'
    BY <1>2 DEF ContractInv, SendsInv, RenderedAs
  <1> QED
    BY <1>1, <1>2, <1>3

LEMMA NoSendingType == NoSending \in Sending /\ NoSending.step = "idle"
  BY Bounds DEF NoSending, Sending

(* A send that had not delivered leaves the mails of the others waiting. *)
LEMMA UnmarkedGrows ==
  ASSUME ContractInv, NEW s \in ContractSenders, NEW next,
         mailing' = [mailing EXCEPT ![s] = next],
         mailing[s].step # "delivered"
  PROVE  Unmarked \subseteq Unmarked'
  <1>1. \A r \in ContractSenders : mailing[r].step = "delivered" => mailing'[r] = mailing[r]
    BY DEF ContractInv, ContractTypeOK
  <1> QED
    BY <1>1 DEF Unmarked, MailOf

LEMMA QueueStep ==
  ASSUME ContractInv, NEW s \in ContractSenders, Queue(s)
  PROVE  ContractInv'
  <1> USE DEF Queue
  <1>1. /\ mailing[s] \in Sending /\ mailing[s].step = "read"
        /\ mailing[s].of \in Contracts
    BY InvTypes DEF ContractInv, SendsInv
  <1>2. PICK next \in Sending :
          /\ mailing' = [mailing EXCEPT ![s] = next]
          /\ next.step # "idle" => /\ next.of = mailing[s].of
                                   /\ next.snapshot = mailing[s].snapshot
    <2>1. CASE mailing[s].of \notin guards
      <3>1. [mailing[s] EXCEPT !.step = "queued"] \in Sending
        BY <1>1 DEF Sending
      <3> QED
        BY <1>1, <2>1, <3>1 DEF Sending
    <2>2. CASE mailing[s].of \in guards
      BY <2>2, NoSendingType
    <2> QED
      BY <2>1, <2>2
  <1>3. SendsInv' /\ mailing' \in [ContractSenders -> Sending]
    BY <1>1, <1>2, SendSteps
  <1>4. ContractTypeOK'
    BY <1>1, <1>3 DEF ContractInv, ContractTypeOK
  <1>5. MailsInv'
    BY <1>1, <1>2, UnmarkedGrows, MailsKept, InvTypes
  <1>6. EditsInv'
    BY DEF ContractInv, EditsInv
  <1> QED
    BY <1>3, <1>4, <1>5, <1>6, RowsUnchanged DEF ContractInv

LEMMA VerifyQueuedStep ==
  ASSUME ContractInv, NEW s \in ContractSenders, VerifyQueued(s)
  PROVE  ContractInv'
  <1> USE DEF VerifyQueued
  <1>1. mailing[s] \in Sending /\ mailing[s].step = "queued"
    BY InvTypes
  <1>2. PICK next \in Sending :
          /\ mailing' = [mailing EXCEPT ![s] = next]
          /\ next.step # "idle" => /\ next.of = mailing[s].of
                                   /\ next.snapshot = mailing[s].snapshot
    <2>1. CASE mailing' = [mailing EXCEPT ![s].step = "verified"]
      <3>1. [mailing[s] EXCEPT !.step = "verified"] \in Sending
        BY <1>1 DEF Sending
      <3> QED
        BY <1>1, <2>1, <3>1 DEF Sending
    <2>2. CASE mailing' = [mailing EXCEPT ![s] = NoSending]
      BY <2>2, NoSendingType
    <2> QED
      BY <2>1, <2>2
  <1>3. SendsInv' /\ mailing' \in [ContractSenders -> Sending]
    BY <1>1, <1>2, SendSteps
  <1>4. ContractTypeOK'
    BY <1>1, <1>3 DEF ContractInv, ContractTypeOK
  <1>5. MailsInv'
    BY <1>1, <1>2, UnmarkedGrows, MailsKept, InvTypes
  <1>6. EditsInv'
    BY DEF ContractInv, EditsInv
  <1> QED
    BY <1>3, <1>4, <1>5, <1>6, RowsUnchanged DEF ContractInv

LEMMA MailOfType ==
  ASSUME ContractInv, NEW s \in ContractSenders, mailing[s].step # "idle"
  PROVE  MailOf(s) \in [of : Contracts, revision : 0..MaxRevisions, snapshot : 0..MaxGenerations]
  BY InvTypes DEF ContractInv, SendsInv, MailOf, Sending

(* The mail just accepted waits for its mark. *)
LEMMA DeliverStep ==
  ASSUME ContractInv, NEW s \in ContractSenders, Deliver(s)
  PROVE  ContractInv'
  <1> USE DEF Deliver
  <1> DEFINE next == [mailing[s] EXCEPT !.step = "delivered"]
  <1>1. mailing[s] \in Sending /\ mailing[s].step = "verified"
    BY InvTypes
  <1>2. /\ next \in Sending /\ next.step = "delivered" /\ next.of = mailing[s].of
        /\ next.snapshot = mailing[s].snapshot /\ next.revision = mailing[s].revision
    BY <1>1 DEF Sending
  <1>3. mailing' = [mailing EXCEPT ![s] = next]
    OBVIOUS
  <1> HIDE DEF next
  <1>4. /\ SendsInv' /\ mailing' \in [ContractSenders -> Sending]
        /\ mailing'[s] = next
    BY <1>1, <1>2, <1>3, SendSteps
  <1>5. ContractTypeOK'
    BY <1>1, <1>4, MailOfType DEF ContractInv, ContractTypeOK
  <1>6. MailOf(s) \in Unmarked'
    BY <1>2, <1>4 DEF Unmarked, MailOf
  <1>7. Unmarked \subseteq Unmarked'
    BY <1>1, <1>3, UnmarkedGrows
  <1>8. MailsInv'
    BY <1>6, <1>7, MailsKept, InvTypes
  <1>9. EditsInv'
    BY DEF ContractInv, EditsInv
  <1> QED
    BY <1>4, <1>5, <1>8, <1>9, RowsUnchanged DEF ContractInv

LEMMA DeliverFailsStep ==
  ASSUME ContractInv, NEW s \in ContractSenders, DeliverFails(s)
  PROVE  ContractInv'
  <1> USE DEF DeliverFails
  <1>1. /\ mailing[s] \in Sending /\ mailing[s].step = "verified"
        /\ mailing' = [mailing EXCEPT ![s] = NoSending]
    BY InvTypes
  <1>2. SendsInv' /\ mailing' \in [ContractSenders -> Sending]
    BY <1>1, NoSendingType, SendSteps
  <1>3. ContractTypeOK'
    BY <1>1, <1>2, MailOfType DEF ContractInv, ContractTypeOK
  <1>4. MailsInv'
    <2>1. CASE UNCHANGED <<mails, missed>>
      BY <1>1, <2>1, UnmarkedGrows, MailsKept, InvTypes
    <2>2. CASE missed' = TRUE
      BY <2>2 DEF MailsInv
    <2> QED
      BY <2>1, <2>2
  <1>5. EditsInv'
    BY DEF ContractInv, EditsInv
  <1> QED
    BY <1>2, <1>3, <1>4, <1>5, RowsUnchanged DEF ContractInv

LEMMA AbandonSendStep ==
  ASSUME ContractInv, NEW s \in ContractSenders, AbandonSend(s)
  PROVE  ContractInv'
  <1> USE DEF AbandonSend
  <1>1. /\ mailing[s] \in Sending /\ mailing' = [mailing EXCEPT ![s] = NoSending]
        /\ mailing[s].step # "idle"
    BY InvTypes
  <1>2. SendsInv' /\ mailing' \in [ContractSenders -> Sending]
    BY <1>1, NoSendingType, SendSteps
  <1>3. missed' \in BOOLEAN
    OBVIOUS
  <1>4. ContractTypeOK'
    BY <1>2, <1>3 DEF ContractInv, ContractTypeOK
  <1>5. MailsInv'
    <2>1. CASE mailing[s].step # "delivered"
      <3>1. missed => missed'
        OBVIOUS
      <3> QED
        BY <1>1, <2>1, <3>1, UnmarkedGrows, MailsKept, InvTypes
    <2>2. CASE mailing[s].step = "delivered"
      BY <2>2 DEF MailsInv
    <2> QED
      BY <2>1, <2>2
  <1>6. EditsInv'
    BY DEF ContractInv, EditsInv
  <1> QED
    BY <1>2, <1>4, <1>5, <1>6, RowsUnchanged DEF ContractInv

LEMMA ReleaseGuardStep ==
  ASSUME ContractInv, NEW c \in Contracts, ReleaseGuard(c)
  PROVE  ContractInv'
  <1> USE DEF ReleaseGuard
  <1>1. ContractTypeOK' /\ EditsInv'
    BY DEF ContractInv, ContractTypeOK, EditsInv
  <1>2. SendsInv'
    BY DEF ContractInv, SendsInv, RenderedAs
  <1>3. MailsInv'
    BY DEF ContractInv, MailsInv, Unmarked, MailOf, MarkedFor
  <1> QED
    BY <1>1, <1>2, <1>3, RowsUnchanged DEF ContractInv

-----------------------------------------------------------------------------
(* The steps that stage a row *)

LEMMA RollBackStep ==
  ASSUME ContractInv, NEW c \in Contracts, RollBack(c)
  PROVE  ContractInv'
  <1> USE DEF RollBack
  <1>1. NothingPending \in PendingWrite
    BY AbsentRow DEF NothingPending, PendingWrite, MaybeMonth
  <1>2. ContractTypeOK' /\ EditsInv'
    BY <1>1 DEF ContractInv, ContractTypeOK, EditsInv
  <1>3. RowsInv' /\ SendsInv' /\ NumbersInv' /\ ChainInv' /\ MailsInv'
    <2>1. generations' \in Nat /\ generations <= generations'
      BY InvTypes
    <2> QED
      BY <2>1, Staged
  <1> QED
    BY <1>2, <1>3 DEF ContractInv

LEMMA UpdateTermsStep ==
  ASSUME ContractInv, NEW e \in ContractEditors, UpdateTerms(e)
  PROVE  ContractInv'
  <1> USE DEF UpdateTerms
  <1> DEFINE c == editing[e].of
  <1>1. c \in Contracts /\ c # "nothing" /\ editing[e] \in ContractEdit
    BY DEF ContractInv, ContractTypeOK, ContractEdit
  <1>2. NoEdit \in ContractEdit /\ NoEdit.of = "nothing"
    BY Bounds DEF NoEdit, ContractEdit, Status, MaybeMonth
  <1>3. EditsInv' /\ editing' \in [ContractEditors -> ContractEdit]
    <2>1. /\ \A f \in ContractEditors : editing'[f] = IF f = e THEN NoEdit ELSE editing[f]
          /\ editing' \in [ContractEditors -> ContractEdit]
      BY <1>2 DEF ContractInv, ContractTypeOK
    <2> QED
      BY <1>2, <2>1 DEF ContractInv, EditsInv
  <1>4. CASE UNCHANGED pending
    <2>1. ContractTypeOK'
      BY <1>3, <1>4 DEF ContractInv, ContractTypeOK
    <2>2. SendsInv'
      BY <1>4 DEF ContractInv, SendsInv, RenderedAs
    <2>3. MailsInv'
      BY DEF ContractInv, MailsInv, Unmarked, MailOf, MarkedFor
    <2> QED
      BY <1>3, <1>4, <2>1, <2>2, <2>3, RowsUnchanged DEF ContractInv
  <1>5. CASE ~UNCHANGED pending
    <2>1. PICK stale \in BOOLEAN, record \in BOOLEAN, m \in MaybeMonth :
            /\ ExpectedState(e, contracts[c])
            /\ NumbersOnlyDocuments(Amended(e, contracts[c], stale, m, record))
            /\ Stage(c, Amended(e, contracts[c], stale, m, record), 0)
      BY <1>5
    <2> DEFINE row == Amended(e, contracts[c], stale, m, record)
               write == [row |-> row, counts |-> 0]
    <2>2. /\ RowOK(row, generations) /\ Successor(contracts[c], row)
          /\ row.status = "draft" /\ row.number = contracts[c].number
          /\ row.numbered = contracts[c].numbered
      BY <1>1, <2>1, AmendedOK, InvTypes DEF ContractInv
    <2>3. pending' = [pending EXCEPT ![c] = write]
      BY <2>1 DEF Stage
    <2>4. row \in Contract
      BY <2>2 DEF RowOK
    <2> HIDE DEF row
    <2>5. write \in PendingWrite /\ write.row = row /\ write.counts = 0
      BY <2>4 DEF PendingWrite, MaybeMonth
    <2> HIDE DEF write, c
    <2>6. /\ Numbered(contracts[c], write)
          /\ \A s \in ContractSenders : RenderedAs(mailing[s].snapshot, write.row)
          /\ write.row.status \notin IssuedStates
      BY <2>2, <2>5 DEF Numbered, RenderedAs, IssuedStates
    <2>7. /\ generations' \in Nat /\ generations <= generations'
          /\ generations' = generations
      BY InvTypes
    <2>8. RowsInv' /\ SendsInv' /\ NumbersInv' /\ ChainInv' /\ MailsInv'
      BY <1>1, <2>2, <2>3, <2>5, <2>6, <2>7, Staged
    <2>9. ContractTypeOK'
      BY <1>1, <1>3, <2>3, <2>5 DEF ContractInv, ContractTypeOK
    <2> QED
      BY <1>3, <2>8, <2>9 DEF ContractInv
  <1> QED
    BY <1>4, <1>5

LEMMA GenerateContractStep ==
  ASSUME ContractInv, NEW c \in Contracts, GenerateContract(c)
  PROVE  ContractInv'
  <1> USE DEF GenerateContract
  <1>1. PICK m \in Months :
          /\ contracts[c].number = 0 => CounterFree(m)
          /\ Stage(c, Generated(contracts[c], m), IF contracts[c].number = 0 THEN m ELSE 0)
    <2>1. contracts[c].period \in MaybeMonth
      BY InvTypes DEF Contract
    <2> QED
      BY <2>1 DEF MaybeMonth
  <1> DEFINE row == Generated(contracts[c], m)
             counts == IF contracts[c].number = 0 THEN m ELSE 0
             write == [row |-> row, counts |-> counts]
  <1>2. /\ generations < MaxGenerations /\ Generatable(contracts[c])
        /\ RowOK(contracts[c], generations) /\ contracts[c] \in Contract
        /\ ContractTypeOK /\ generations \in Nat /\ m \in Nat /\ m # 0
    BY InvTypes, Bounds DEF ContractInv
  <1>3. /\ RowOK(row, generations + 1)
        /\ Successor(contracts[c], row)
        /\ row.snapshot = generations + 1
        /\ contracts[c].number = 0 => row.numbered = m /\ row.number = counters[m] + 1
        /\ contracts[c].number # 0 => /\ row.numbered = contracts[c].numbered
                                      /\ row.number = contracts[c].number
    BY <1>2, GeneratedOK
  <1>4. pending' = [pending EXCEPT ![c] = write]
    BY <1>1 DEF Stage
  <1>5. row \in Contract
    BY <1>3 DEF RowOK
  <1> HIDE DEF row
  <1>6. write \in PendingWrite /\ write.row = row /\ write.counts = counts
    BY <1>5 DEF PendingWrite, MaybeMonth
  <1> HIDE DEF write
  <1>7. Numbered(contracts[c], write)
    BY <1>2, <1>3, <1>6 DEF Numbered
  <1>8. \A s \in ContractSenders : mailing[s].step # "idle" => RenderedAs(mailing[s].snapshot, row)
    <2> SUFFICES ASSUME NEW s \in ContractSenders, mailing[s].step # "idle"
                 PROVE  mailing[s].snapshot # row.snapshot
      BY DEF RenderedAs
    <2>1. mailing[s].snapshot \in 0..MaxGenerations /\ mailing[s].snapshot <= generations
      BY InvTypes DEF ContractInv, SendsInv, Sending
    <2> QED
      BY <1>2, <1>3, <2>1, Bounds
  <1>9. write.row.snapshot # contracts[c].snapshot
    BY <1>2, <1>3, <1>6, Bounds DEF RowOK, Contract
  <1>10. /\ generations' = generations + 1 /\ generations' \in 0..MaxGenerations
         /\ generations' \in Nat /\ generations <= generations'
    BY <1>2, Bounds
  <1>11. write.counts # 0 => CounterFree(write.counts)
    BY <1>1, <1>6
  <1>12. RowsInv' /\ SendsInv' /\ NumbersInv' /\ ChainInv' /\ MailsInv'
    BY <1>3, <1>4, <1>6, <1>7, <1>8, <1>9, <1>10, <1>11, Staged
  <1>13. ContractTypeOK' /\ EditsInv'
    BY <1>4, <1>6, <1>10 DEF ContractInv, ContractTypeOK, EditsInv
  <1> QED
    BY <1>12, <1>13 DEF ContractInv

LEMMA SetStatusStep ==
  ASSUME ContractInv, NEW c \in Contracts,
         NEW target \in {"signed", "ended", "cancelled"}, SetStatus(c, target)
  PROVE  ContractInv'
  <1> USE DEF SetStatus
  <1> DEFINE row == [contracts[c] EXCEPT !.status = target]
             write == [row |-> row, counts |-> 0]
  <1>1. /\ generations \in Nat /\ RowOK(contracts[c], generations)
        /\ StatusAllowed(contracts[c], target)
    BY InvTypes
  <1>2. /\ RowOK(row, generations) /\ Successor(contracts[c], row)
        /\ row.number = contracts[c].number /\ row.numbered = contracts[c].numbered
        /\ row.snapshot = contracts[c].snapshot /\ row.render = contracts[c].render
        /\ row.snapshot # 0 => contracts[c].status \in IssuedStates \/ row.status = "cancelled"
    <2>1. PICK old, n : old = contracts[c] /\ n = generations
      OBVIOUS
    <2>2. PICK new : new = [old EXCEPT !.status = target]
      OBVIOUS
    <2>3. n \in Nat /\ RowOK(old, n) /\ StatusAllowed(old, target)
      BY <1>1, <2>1
    <2>4. /\ RowOK(new, n) /\ Successor(old, new)
          /\ new.number = old.number /\ new.numbered = old.numbered
          /\ new.snapshot = old.snapshot /\ new.render = old.render
          /\ new.snapshot # 0 => old.status \in IssuedStates \/ new.status = "cancelled"
      <3>1. LET next == [old EXCEPT !.status = target] IN
            /\ RowOK(next, n) /\ Successor(old, next)
            /\ next.number = old.number /\ next.numbered = old.numbered
            /\ next.snapshot = old.snapshot /\ next.render = old.render
            /\ next.snapshot # 0 => old.status \in IssuedStates \/ next.status = "cancelled"
        BY ONLY <2>3, target \in {"signed", "ended", "cancelled"}, StatusSetOK
      <3> QED
        BY ONLY <2>2, <3>1
    <2>5. new = row
      BY <2>1, <2>2
    <2> QED
      BY <2>1, <2>4, <2>5
  <1>3. pending' = [pending EXCEPT ![c] = write]
    BY DEF Stage
  <1>4. row \in Contract
    BY <1>2 DEF RowOK
  <1> HIDE DEF row
  <1>5. write \in PendingWrite /\ write.row = row /\ write.counts = 0
    BY <1>4 DEF PendingWrite, MaybeMonth
  <1> HIDE DEF write
  <1>6. \A s \in ContractSenders :
           mailing[s].step # "idle" /\ mailing[s].of = c => RenderedAs(mailing[s].snapshot, row)
    BY <1>2 DEF ContractInv, SendsInv, RenderedAs, IssuedStates
  <1>7. Numbered(contracts[c], write)
    BY <1>2, <1>5 DEF Numbered
  <1>8. generations' = generations /\ generations <= generations'
    BY <1>1
  <1>9. RowsInv' /\ SendsInv' /\ NumbersInv' /\ ChainInv' /\ MailsInv'
    BY <1>1, <1>2, <1>3, <1>5, <1>6, <1>7, <1>8, Staged
  <1>10. ContractTypeOK' /\ EditsInv'
    BY <1>3, <1>5 DEF ContractInv, ContractTypeOK, EditsInv
  <1> QED
    BY <1>9, <1>10 DEF ContractInv

-----------------------------------------------------------------------------
(* The steps that write a row *)

(* Where nothing is staged, the table of staged rows reads as if cleared. *)
LEMMA AlreadyUnlocked ==
  ASSUME ContractInv, NEW c \in Contracts, Unlocked(c), UNCHANGED pending
  PROVE  pending' = [pending EXCEPT ![c] = NothingPending]
  BY DEF ContractInv, ContractTypeOK, Unlocked

LEMMA CommitWriteStep ==
  ASSUME ContractInv, NEW c \in Contracts, CommitWrite(c)
  PROVE  ContractInv'
  <1> USE DEF CommitWrite
  <1> DEFINE write == pending[c]
  <1>1. /\ PendingOK(c) /\ write \in PendingWrite
        /\ RowOK(contracts[c], generations) /\ contracts[c] \in Contract
    BY InvTypes DEF ContractInv, RowsInv
  <1>2. /\ RowOK(write.row, generations) /\ Successor(contracts[c], write.row)
        /\ Numbered(contracts[c], write)
        /\ write.row \in Contract /\ write.counts \in MaybeMonth
    BY <1>1 DEF PendingOK, PendingWrite
  <1>3. /\ contracts' = [contracts EXCEPT ![c] = write.row]
        /\ pending' = [pending EXCEPT ![c] = NothingPending]
        /\ counters' = [m \in Months |-> IF write.counts = m THEN write.row.number ELSE counters[m]]
    OBVIOUS
  <1>4. RowsInv' /\ SendsInv'
    <2>1. \A m \in Months : counters'[m] = counters[m] \/ pending[c].counts = m
      OBVIOUS
    <2>2. \A s \in ContractSenders :
             mailing[s].step # "idle" /\ mailing[s].of = c =>
               RenderedAs(mailing[s].snapshot, write.row)
      BY DEF ContractInv, SendsInv
    <2> QED
      BY <1>2, <2>1, <2>2, Replaced
  <1>5. ChainInv'
    BY <1>2, <1>3, ChainKept
  <1>6. NumbersInv'
    <2>1. CASE write.counts = 0
      <3>1. counters' = counters
        BY <1>3, <2>1, Bounds DEF ContractInv, ContractTypeOK
      <3> QED
        BY <1>2, <1>3, <2>1, <3>1, NumbersKept DEF Numbered
    <2>2. CASE write.counts # 0
      <3> DEFINE m == write.counts
                 row == write.row
      <3>1. /\ m \in Months
            /\ contracts[c].number = 0 /\ contracts[c].numbered = 0
            /\ row.numbered = m /\ row.number = counters[m] + 1
        BY <1>1, <1>2, <2>2 DEF Numbered, MaybeMonth, RowOK
      <3>2. \A k \in Months : counters'[k] = IF k = m THEN row.number ELSE counters[k]
        BY <1>3
      <3>3. contracts' = [contracts EXCEPT ![c] = row]
        BY <1>3
      <3> HIDE DEF m, row
      <3> QED
        BY <3>1, <3>2, <3>3, NumberTaken
    <2> QED
      BY <2>1, <2>2
  <1>7. ContractTypeOK'
    <2>1. NothingPending \in PendingWrite /\ write.row.number \in Nat
      BY <1>2, AbsentRow DEF NothingPending, PendingWrite, MaybeMonth, Contract
    <2> QED
      BY <1>2, <1>3, <2>1 DEF ContractInv, ContractTypeOK
  <1>8. \A d \in Contracts :
           /\ contracts'[d] \in Contract
           /\ contracts'[d] = contracts[d] \/ Successor(contracts[d], contracts'[d])
    BY <1>2, <1>3 DEF ContractInv, ContractTypeOK
  <1>9. MailsInv'
    <2>1. mails' \ Unmarked' \subseteq mails \ Unmarked
      BY DEF Unmarked, MailOf
    <2> QED
      BY <1>8, <2>1, MailsKept
  <1>10. EditsInv'
    BY DEF ContractInv, EditsInv
  <1> QED
    BY <1>4, <1>5, <1>6, <1>7, <1>9, <1>10 DEF ContractInv

(* The worker and the mark of a send write an unlocked row in place. *)
LEMMA WrittenInPlace ==
  ASSUME ContractInv, NEW c \in Contracts, NEW row, Unlocked(c),
         contracts' = [contracts EXCEPT ![c] = row],
         RowOK(row, generations), Successor(contracts[c], row),
         row.number = contracts[c].number, row.numbered = contracts[c].numbered,
         \A s \in ContractSenders :
           mailing[s].step # "idle" /\ mailing[s].of = c => RenderedAs(mailing[s].snapshot, row),
         UNCHANGED <<pending, counters, generations>>
  PROVE  /\ RowsInv' /\ ChainInv' /\ NumbersInv'
         /\ contracts' \in [Contracts -> Contract]
         /\ UNCHANGED mailing => SendsInv'
         /\ \A d \in Contracts :
              /\ contracts'[d] \in Contract
              /\ contracts'[d] = contracts[d] \/ Successor(contracts[d], contracts'[d])
  <1>1. row \in Contract
    BY DEF RowOK
  <1>2. /\ contracts' \in [Contracts -> Contract]
        /\ contracts'[c] = row
        /\ \A d \in Contracts : d # c => contracts'[d] = contracts[d]
    BY <1>1 DEF ContractInv, ContractTypeOK
  <1>3. ChainInv' /\ NumbersInv'
    BY <1>1, ChainKept, NumbersKept
  <1>4. RowsInv'
    <2>1. \A d \in Contracts : RowOK(contracts'[d], generations')
      BY <1>2, InvTypes
    <2>2. ASSUME NEW d \in Contracts, ~(pending'[d] = NothingPending)
          PROVE  PendingOK(d)'
      <3>1. d # c /\ PendingOK(d)
        BY <2>2 DEF ContractInv, RowsInv, Unlocked
      <3> QED
        BY <1>2, <3>1 DEF PendingOK, Numbered
    <2> QED
      BY <2>1, <2>2 DEF ContractInv, RowsInv, Unlocked
  <1>5. ASSUME UNCHANGED mailing PROVE SendsInv'
    BY <1>2, <1>5 DEF ContractInv, SendsInv, RenderedAs
  <1> QED
    BY <1>1, <1>2, <1>3, <1>4, <1>5

LEMMA RenderStep ==
  ASSUME ContractInv, NEW c \in Contracts, RenderContract(c) \/ RenderFails(c)
  PROVE  ContractInv'
  <1> DEFINE old == contracts[c]
  <1>1. /\ Unlocked(c) /\ old.render = "pending" /\ old \in Contract
        /\ RowOK(old, generations)
        /\ UNCHANGED <<pending, counters, generations, editing, mailing, guards, mails, missed>>
    BY InvTypes DEF RenderContract, RenderFails
  <1>2. old.status # "absent"
    BY <1>1, AbsentRow DEF RowOK
  <1>3. PICK row \in Contract :
          /\ contracts' = [contracts EXCEPT ![c] = row]
          /\ \/ row.render = "ready" /\ row.pdf = row.snapshot /\ old.status = "generated"
             \/ row.render = "failed"
          /\ row.status = old.status /\ row.revision = old.revision
          /\ row.recordOnly = old.recordOnly /\ row.stale = old.stale
          /\ row.number = old.number /\ row.numbered = old.numbered
          /\ row.snapshot = old.snapshot /\ row.renews = old.renews
    <2>1. CASE RenderContract(c)
      <3> DEFINE row == [old EXCEPT !.render = "ready", !.pdf = old.snapshot]
      <3>1. /\ row \in Contract
            /\ row.render = "ready" /\ row.pdf = row.snapshot
            /\ row.status = old.status /\ row.revision = old.revision
            /\ row.recordOnly = old.recordOnly /\ row.stale = old.stale
            /\ row.number = old.number /\ row.numbered = old.numbered
            /\ row.snapshot = old.snapshot /\ row.renews = old.renews
        BY <1>1 DEF Contract
      <3>2. contracts' = [contracts EXCEPT ![c] = row]
        BY <2>1 DEF RenderContract, ContractInv, ContractTypeOK
      <3>3. old.status = "generated"
        BY <2>1 DEF RenderContract
      <3> HIDE DEF row
      <3> QED
        BY <3>1, <3>2, <3>3
    <2>2. CASE RenderFails(c)
      <3> DEFINE row == [old EXCEPT !.render = "failed"]
      <3>1. /\ row \in Contract /\ row.render = "failed"
            /\ row.status = old.status /\ row.revision = old.revision
            /\ row.recordOnly = old.recordOnly /\ row.stale = old.stale
            /\ row.number = old.number /\ row.numbered = old.numbered
            /\ row.snapshot = old.snapshot /\ row.renews = old.renews
        BY <1>1 DEF Contract
      <3>2. contracts' = [contracts EXCEPT ![c] = row]
        BY <2>2 DEF RenderFails, ContractInv, ContractTypeOK
      <3> HIDE DEF row
      <3> QED
        BY <3>1, <3>2
    <2> QED
      BY <2>1, <2>2, <1>1 DEF RenderContract, RenderFails
  <1>4. RowOK(row, generations)
    BY <1>1, <1>2, <1>3 DEF RowOK
  <1>5. Successor(old, row)
    BY <1>2, <1>3, Bounds DEF Successor, Contract
  <1>6. \A s \in ContractSenders :
           mailing[s].step # "idle" /\ mailing[s].of = c => RenderedAs(mailing[s].snapshot, row)
    BY <1>1, <1>3 DEF ContractInv, SendsInv, RenderedAs
  <1> HIDE DEF old
  <1>7. /\ RowsInv' /\ ChainInv' /\ NumbersInv' /\ SendsInv'
        /\ contracts' \in [Contracts -> Contract]
        /\ \A d \in Contracts :
             /\ contracts'[d] \in Contract
             /\ contracts'[d] = contracts[d] \/ Successor(contracts[d], contracts'[d])
    BY <1>1, <1>3, <1>4, <1>5, <1>6, WrittenInPlace DEF old
  <1>8. MailsInv'
    <2>1. mails' \ Unmarked' \subseteq mails \ Unmarked
      BY <1>1 DEF Unmarked, MailOf
    <2> QED
      BY <1>1, <1>7, <2>1, MailsKept
  <1>9. ContractTypeOK' /\ EditsInv'
    BY <1>1, <1>7 DEF ContractInv, ContractTypeOK, EditsInv
  <1> QED
    BY <1>7, <1>8, <1>9 DEF ContractInv

(* The mark: the mail just accepted is of a row that says so. *)
LEMMA MarkSentStep ==
  ASSUME ContractInv, NEW s \in ContractSenders, MarkSent(s)
  PROVE  ContractInv'
  <1> DEFINE c == mailing[s].of
             old == contracts[c]
  <1>1. /\ mailing[s] \in Sending /\ mailing[s].step = "delivered" /\ c \in Contracts
        /\ Unlocked(c) /\ old \in Contract /\ RowOK(old, generations)
        /\ mailing' = [mailing EXCEPT ![s] = NoSending]
        /\ UNCHANGED <<pending, counters, generations, editing, guards, mails>>
    BY InvTypes DEF ContractInv, SendsInv, MarkSent
  <1>2. /\ mailing' \in [ContractSenders -> Sending]
        /\ \A r \in ContractSenders : mailing'[r] = IF r = s THEN NoSending ELSE mailing[r]
    BY <1>1, NoSendingType DEF ContractInv, ContractTypeOK
  <1>3. EditsInv'
    BY <1>1 DEF ContractInv, EditsInv
  <1>4. CASE ~Marked(s, old)
    <2>1. missed' = TRUE /\ UNCHANGED contracts
      BY <1>4 DEF MarkSent
    <2>2. SendsInv'
      BY <1>1, <2>1, NoSendingType, SendSteps
    <2>3. ContractTypeOK'
      BY <1>1, <1>2, <2>1 DEF ContractInv, ContractTypeOK
    <2>4. MailsInv'
      BY <2>1 DEF MailsInv
    <2> QED
      BY <1>1, <1>3, <2>1, <2>2, <2>3, <2>4, RowsUnchanged DEF ContractInv
  <1>5. CASE Marked(s, old)
    <2> DEFINE status == IF old.status \in {"signed", "ended"} THEN old.status ELSE "sent"
               row == [old EXCEPT !.status = status]
    <2>1. /\ old.status \in IssuedStates
          /\ old.revision = mailing[s].revision /\ old.snapshot = mailing[s].snapshot
      BY <1>5 DEF Marked, IsSnapshotOf, IssuedStates
    <2>2. UNCHANGED missed /\ contracts' = [contracts EXCEPT ![c] = row]
      BY <1>1, <1>5 DEF MarkSent, ContractInv, ContractTypeOK
    <2>3. /\ status \in {"sent", "signed", "ended"}
          /\ old.status \in {"signed", "ended"} => status = old.status
      BY <2>1 DEF IssuedStates
    <2> HIDE DEF status
    <2>4. /\ row \in Contract /\ row.status = status
          /\ row.revision = old.revision /\ row.recordOnly = old.recordOnly
          /\ row.stale = old.stale /\ row.number = old.number /\ row.numbered = old.numbered
          /\ row.snapshot = old.snapshot /\ row.renews = old.renews
          /\ row.render = old.render /\ row.pdf = old.pdf
      BY <1>1, <2>3 DEF Contract, Status
    <2> HIDE DEF row
    <2>5. old.render = "ready"
      BY <1>1, <2>1 DEF ContractInv, SendsInv, RenderedAs
    <2>6. RowOK(row, generations)
      BY <1>1, <2>1, <2>3, <2>4, <2>5 DEF RowOK, IssuedStates
    <2>7. Successor(old, row)
      BY <1>1, <2>1, <2>3, <2>4, Bounds DEF Successor, Contract, IssuedStates, Closing
    <2>8. \A r \in ContractSenders :
             mailing[r].step # "idle" /\ mailing[r].of = c => RenderedAs(mailing[r].snapshot, row)
      BY <2>4, <2>5 DEF RenderedAs
    <2> HIDE DEF old, c
    <2>9. /\ RowsInv' /\ ChainInv' /\ NumbersInv'
          /\ contracts' \in [Contracts -> Contract]
          /\ \A d \in Contracts :
               /\ contracts'[d] \in Contract
               /\ contracts'[d] = contracts[d] \/ Successor(contracts[d], contracts'[d])
      BY <1>1, <2>2, <2>4, <2>6, <2>7, <2>8, WrittenInPlace DEF old
    <2>10. /\ contracts'[c] = row
           /\ \A d \in Contracts : d # c => contracts'[d] = contracts[d]
      BY <1>1, <2>2 DEF ContractInv, ContractTypeOK
    <2>11. SendsInv'
      <3>1. \A r \in ContractSenders : mailing'[r].step # "idle" => mailing'[r] = mailing[r]
        BY <1>2, NoSendingType
      <3>2. \A r \in ContractSenders : mailing[r].step # "idle" =>
               RenderedAs(mailing[r].snapshot, contracts'[mailing[r].of])
        BY <2>8, <2>10 DEF ContractInv, SendsInv
      <3> QED
        BY <1>1, <3>1, <3>2 DEF ContractInv, SendsInv, RenderedAs
    <2>12. ContractTypeOK'
      BY <1>1, <1>2, <2>2, <2>9 DEF ContractInv, ContractTypeOK
    <2>13. MailsInv'
      <3> SUFFICES ASSUME ~missed
                   PROVE  /\ \A mail \in mails \ Unmarked' : MarkedFor(mail, contracts'[mail.of])
                          /\ \A x, y \in mails \ Unmarked' :
                               x.of = y.of /\ x.revision = y.revision => x.snapshot = y.snapshot
        BY <1>1, <2>2 DEF MailsInv, MarkedFor
      <3> DEFINE sent == MailOf(s)
      <3>1. sent.of = c /\ sent.revision = old.revision /\ sent.snapshot = old.snapshot
        BY <2>1 DEF MailOf, c
      <3>2. \A mail \in mails \ Unmarked' : mail \in mails \ Unmarked \/ mail = sent
        <4> SUFFICES ASSUME NEW r \in ContractSenders, mailing[r].step = "delivered", r # s
                     PROVE  MailOf(r) \in Unmarked'
          BY DEF Unmarked
        <4>1. mailing'[r] = mailing[r]
          BY <1>2
        <4> QED
          BY <4>1 DEF Unmarked, MailOf
      <3>3. /\ \A mail \in mails \ Unmarked :
                  /\ MarkedFor(mail, contracts[mail.of])
                  /\ mail.of \in Contracts /\ mail.revision \in Nat
            /\ \A x, y \in mails \ Unmarked :
                  x.of = y.of /\ x.revision = y.revision => x.snapshot = y.snapshot
        BY InvTypes DEF ContractInv, MailsInv
      <3> HIDE DEF sent
      <3>4. MarkedFor(sent, row)
        BY <2>3, <2>4, <3>1 DEF MarkedFor, Closing
      <3>5. ASSUME NEW mail \in mails \ Unmarked
            PROVE  MarkedFor(mail, contracts'[mail.of])
        BY <2>9, <3>3, MarkedKept, InvTypes
      <3>6. \A mail \in mails \ Unmarked' : MarkedFor(mail, contracts'[mail.of])
        BY <2>10, <3>1, <3>2, <3>4, <3>5
      <3>7. ASSUME NEW mail \in mails \ Unmarked, mail.of = c, mail.revision = old.revision
            PROVE  mail.snapshot = old.snapshot
        <4>1. MarkedFor(mail, old) /\ mail.revision \in Nat
          BY <3>3, <3>7 DEF old
        <4> QED
          BY <3>7, <4>1 DEF MarkedFor
      <3>8. ASSUME NEW x \in mails \ Unmarked', NEW y \in mails \ Unmarked',
                   x.of = y.of, x.revision = y.revision
            PROVE  x.snapshot = y.snapshot
        BY <3>1, <3>2, <3>3, <3>7, <3>8
      <3> QED
        BY <3>6, <3>8
    <2> QED
      BY <1>3, <2>9, <2>11, <2>12, <2>13 DEF ContractInv
  <1> QED
    BY <1>4, <1>5

(* A new row: nothing was staged, numbered, sent or mailed under its name. *)
LEMMA Inserted ==
  ASSUME ContractInv, NEW d \in Contracts, NEW row, Fresh(row),
         contracts[d].status = "absent",
         contracts' = [contracts EXCEPT ![d] = row],
         UNCHANGED <<pending, counters, generations, editing, mailing, guards, mails, missed>>
  PROVE  /\ ContractTypeOK' /\ RowsInv' /\ EditsInv' /\ SendsInv' /\ NumbersInv' /\ MailsInv'
         /\ contracts[d] = Absent /\ contracts'[d] = row
         /\ \A x \in Contracts : x # d => contracts'[x] = contracts[x]
  <1>1. RowOK(row, generations) /\ row \in Contract /\ contracts[d] = Absent
    BY FreshOK, InvTypes DEF RowOK
  <1>2. Unlocked(d)
    BY DEF ContractInv, RowsInv, PendingOK, Successor
  <1>3. pending' = [pending EXCEPT ![d] = NothingPending]
    BY <1>2, AlreadyUnlocked
  <1>4. \A s \in ContractSenders : RenderedAs(mailing[s].snapshot, row)
    BY DEF RenderedAs, Fresh, IssuedStates
  <1>5. RowsInv' /\ SendsInv'
    BY <1>1, <1>3, <1>4, Replaced
  <1>6. NumbersInv'
    <2>1. row.number = contracts[d].number /\ row.numbered = contracts[d].numbered
      BY <1>1, AbsentRow DEF Fresh
    <2> QED
      BY <2>1, NumbersKept
  <1>7. /\ contracts' \in [Contracts -> Contract]
        /\ contracts'[d] = row
        /\ \A x \in Contracts : x # d => contracts'[x] = contracts[x]
    BY <1>1 DEF ContractInv, ContractTypeOK
  <1>8. MailsInv'
    <2>1. mails' \ Unmarked' \subseteq mails \ Unmarked
      BY DEF Unmarked, MailOf
    <2>2. \A x \in Contracts : /\ contracts'[x] \in Contract
                               /\ contracts'[x] = contracts[x] \/ contracts[x] = Absent
      BY <1>1, <1>7
    <2> QED
      BY <2>1, <2>2, MailsKept
  <1>9. ContractTypeOK' /\ EditsInv'
    BY <1>7 DEF ContractInv, ContractTypeOK, EditsInv
  <1> QED
    BY <1>1, <1>5, <1>6, <1>7, <1>8, <1>9

LEMMA CreateContractStep ==
  ASSUME ContractInv, NEW c \in Contracts, CreateContract(c)
  PROVE  ContractInv'
  <1> USE DEF CreateContract
  <1>1. PICK row : /\ Fresh(row) /\ row.renews = "nothing"
                   /\ contracts' = [contracts EXCEPT ![c] = row]
    BY CreatedRow
  <1>2. /\ ContractTypeOK' /\ RowsInv' /\ EditsInv' /\ SendsInv' /\ NumbersInv' /\ MailsInv'
        /\ contracts[c] = Absent /\ contracts'[c] = row
        /\ \A x \in Contracts : x # c => contracts'[x] = contracts[x]
    BY <1>1, Inserted
  <1>3. ChainInv'
    <2>1. \A x \in Contracts : RenewalsOf(x)' \subseteq RenewalsOf(x)
      BY <1>1, <1>2, ContractNamesAssumption DEF RenewalsOf
    <2>2. ASSUME NEW x \in Contracts, contracts'[x].renews # "nothing"
          PROVE  contracts'[contracts'[x].renews].status \in {"signed", "ended"}
      <3>1. x # c /\ contracts'[x] = contracts[x]
        BY <1>1, <1>2, <2>2
      <3>2. /\ contracts[x].renews \in Contracts
            /\ contracts[contracts[x].renews].status \in {"signed", "ended"}
        BY <2>2, <3>1, InvTypes DEF ContractInv, ChainInv, Contract
      <3>3. contracts[x].renews # c
        BY <3>2
      <3> QED
        BY <1>2, <3>1, <3>2, <3>3
    <2> QED
      BY <2>1, <2>2 DEF ContractInv, ChainInv
  <1> QED
    BY <1>2, <1>3 DEF ContractInv

LEMMA RenewStep ==
  ASSUME ContractInv, NEW c \in Contracts, NEW d \in Contracts, Renew(c, d)
  PROVE  ContractInv'
  <1> USE DEF Renew
  <1>1. PICK row : /\ Fresh(row) /\ row.renews = c
                   /\ contracts' = [contracts EXCEPT ![d] = row]
    BY RenewingRow
  <1>2. /\ ContractTypeOK' /\ RowsInv' /\ EditsInv' /\ SendsInv' /\ NumbersInv' /\ MailsInv'
        /\ contracts[d] = Absent /\ contracts'[d] = row
        /\ \A x \in Contracts : x # d => contracts'[x] = contracts[x]
    BY <1>1, Inserted
  <1>3. c # d /\ contracts'[c] = contracts[c] /\ contracts[c].status \in {"signed", "ended"}
    BY <1>2
  <1>4. ChainInv'
    <2>1. RenewalsOf(c)' \subseteq {d}
      BY <1>2 DEF RenewalsOf
    <2>2. ASSUME NEW x \in Contracts, x # c
          PROVE  RenewalsOf(x)' \subseteq RenewalsOf(x)
      BY <1>1, <1>2, <2>2 DEF RenewalsOf
    <2>3. ASSUME NEW x \in Contracts, contracts'[x].renews # "nothing"
          PROVE  contracts'[contracts'[x].renews].status \in {"signed", "ended"}
      <3>1. CASE x = d
        BY <1>1, <1>2, <1>3, <3>1
      <3>2. CASE x # d
        <4>1. contracts'[x] = contracts[x]
          BY <1>2, <3>2
        <4>2. /\ contracts[x].renews \in Contracts
              /\ contracts[contracts[x].renews].status \in {"signed", "ended"}
          BY <2>3, <4>1, InvTypes DEF ContractInv, ChainInv, Contract
        <4>3. contracts[x].renews # d
          BY <4>2
        <4> QED
          BY <1>2, <4>1, <4>2, <4>3
      <3> QED
        BY <3>1, <3>2
    <2>4. \A x \in Contracts : \A y, z \in RenewalsOf(x)' : y = z
      BY <2>1, <2>2 DEF ContractInv, ChainInv
    <2> QED
      BY <2>3, <2>4 DEF ChainInv, RenewalsOf
  <1> QED
    BY <1>2, <1>4 DEF ContractInv

-----------------------------------------------------------------------------
(* The invariant *)

LEMMA ContractInvInitially == ContractInit => ContractInv
  <1> SUFFICES ASSUME ContractInit PROVE ContractInv
    OBVIOUS
  <1> USE DEF ContractInit
  <1>1. /\ NothingPending \in PendingWrite /\ NoEdit \in ContractEdit
        /\ NoEdit.of = "nothing" /\ NothingPending.counts = 0
    BY AbsentRow, Bounds
       DEF NothingPending, PendingWrite, MaybeMonth, NoEdit, ContractEdit, Status
  <1>2. ContractTypeOK
    <2>1. /\ contracts \in [Contracts -> Contract] /\ pending \in [Contracts -> PendingWrite]
          /\ mailing \in [ContractSenders -> Sending]
          /\ editing \in [ContractEditors -> ContractEdit]
      BY <1>1, AbsentRow, NoSendingType
    <2>2. counters \in [Months -> Nat] /\ generations \in 0..MaxGenerations
      BY Bounds
    <2>3. /\ guards \subseteq Contracts /\ missed \in BOOLEAN
          /\ mails \subseteq
               [of : Contracts, revision : 0..MaxRevisions, snapshot : 0..MaxGenerations]
      OBVIOUS
    <2> QED
      BY <2>1, <2>2, <2>3 DEF ContractTypeOK
  <1>3. RowsInv
    BY <1>1, AbsentOK DEF RowsInv, Unlocked
  <1>4. EditsInv /\ SendsInv
    BY <1>1, NoSendingType DEF EditsInv, SendsInv
  <1>5. NumbersInv
    BY AbsentRow, Bounds DEF NumbersInv
  <1>6. ChainInv
    BY AbsentRow, ContractNamesAssumption DEF ChainInv, RenewalsOf
  <1>7. MailsInv
    BY DEF MailsInv
  <1> QED
    BY <1>2, <1>3, <1>4, <1>5, <1>6, <1>7 DEF ContractInv

LEMMA ContractInvKept ==
  ASSUME ContractInv, [ContractNext]_contractVars
  PROVE  ContractInv'
  <1>1. CASE UNCHANGED contractVars
    <2> USE <1>1 DEF contractVars
    <2>1. ContractTypeOK' /\ EditsInv' /\ SendsInv'
      BY DEF ContractInv, ContractTypeOK, EditsInv, SendsInv, RenderedAs
    <2>2. MailsInv'
      BY DEF ContractInv, MailsInv, Unmarked, MailOf, MarkedFor
    <2> QED
      BY <2>1, <2>2, RowsUnchanged DEF ContractInv
  <1>2. ASSUME NEW c \in Contracts,
               \/ CommitWrite(c) \/ RollBack(c) \/ CreateContract(c) \/ GenerateContract(c)
               \/ RenderContract(c) \/ RenderFails(c) \/ ReleaseGuard(c)
        PROVE  ContractInv'
    BY <1>2, CommitWriteStep, RollBackStep, CreateContractStep, GenerateContractStep,
       RenderStep, ReleaseGuardStep
  <1>3. ASSUME NEW c \in Contracts,
               \/ \E target \in {"signed", "ended", "cancelled"} : SetStatus(c, target)
               \/ \E d \in Contracts : Renew(c, d)
               \/ \E e \in ContractEditors : ReadForEdit(e, c)
               \/ \E s \in ContractSenders : ReadForSend(s, c)
        PROVE  ContractInv'
    BY <1>3, SetStatusStep, RenewStep, ReadForEditStep, ReadForSendStep
  <1>4. ASSUME NEW e \in ContractEditors, UpdateTerms(e)
        PROVE  ContractInv'
    BY <1>4, UpdateTermsStep
  <1>5. ASSUME NEW s \in ContractSenders,
               \/ Queue(s) \/ VerifyQueued(s) \/ Deliver(s) \/ DeliverFails(s)
               \/ MarkSent(s) \/ AbandonSend(s)
        PROVE  ContractInv'
    BY <1>5, QueueStep, VerifyQueuedStep, DeliverStep, DeliverFailsStep, MarkSentStep,
       AbandonSendStep
  <1> QED
    BY <1>1, <1>2, <1>3, <1>4, <1>5 DEF ContractNext

THEOREM ContractInvAlways == ContractSpec => []ContractInv
  BY ContractInvInitially, ContractInvKept, PTL DEF ContractSpec

-----------------------------------------------------------------------------
(* What it means *)

(* Every variable of the contracts has its type. *)
THEOREM ContractTypeCorrect == ContractSpec => []ContractTypeOK
  <1>1. ContractInv => ContractTypeOK
    BY DEF ContractInv
  <1> QED
    BY <1>1, ContractInvAlways, PTL

(* What is signed, or ended after it was, has its documents and they say what *)
(* the row says, however edits, generations, renders and mails race the       *)
(* signature (SetStatus, UpdateTerms, Generate, MarkSent).                    *)
THEOREM SignedStandsAsIssued == ContractSpec => []SignedAsIssued
  <1>1. ContractInv => SignedAsIssued
    BY DEF ContractInv, RowsInv, RowOK, IssuedStates, SignedAsIssued
  <1> QED
    BY <1>1, ContractInvAlways, PTL

(* A revision is one document: two accepted mails of a contract with the same  *)
(* "Revisi" carry the same snapshot, once every mail is marked (MarkSent).     *)
THEOREM OneDocumentPerRevision == ContractSpec => []RevisionTellsDocuments
  <1>1. ContractInv => RevisionTellsDocuments
    <2> SUFFICES ASSUME ContractInv, ~missed,
                        \A s \in ContractSenders : mailing[s].step # "delivered"
                 PROVE  \A x, y \in mails :
                           x.of = y.of /\ x.revision = y.revision => x.snapshot = y.snapshot
      BY DEF RevisionTellsDocuments
    <2>1. Unmarked = {}
      BY DEF Unmarked
    <2> QED
      BY <2>1 DEF ContractInv, MailsInv
  <1> QED
    BY <1>1, ContractInvAlways, PTL

(* The chain of renewals never forks: one renewal that is not cancelled, of a  *)
(* contract that was signed and still is signed or ended (Renew, SetStatus).   *)
THEOREM RenewalChainNeverForks == ContractSpec => []ChainNeverForks
  <1>1. ASSUME ContractInv, NEW c \in Contracts
        PROVE  Cardinality(RenewalsOf(c)) <= 1
    <2>1. \A d, e \in RenewalsOf(c) : d = e
      BY <1>1 DEF ContractInv, ChainInv
    <2>2. CASE RenewalsOf(c) = {}
      BY <2>2, FS_EmptySet
    <2>3. CASE RenewalsOf(c) # {}
      <3>1. PICK d : RenewalsOf(c) = {d}
        BY <2>1, <2>3
      <3> QED
        BY <3>1, FS_Singleton
    <2> QED
      BY <2>2, <2>3
  <1>2. ContractInv => ChainNeverForks
    BY <1>1 DEF ContractInv, ChainInv, ChainNeverForks
  <1> QED
    BY <1>2, ContractInvAlways, PTL

(* The numbers of every month are 1, 2, ... up to its counter, each on one     *)
(* contract, whatever was rolled back or cancelled (Next and RecordSnapshot     *)
(* in one transaction).                                                        *)
THEOREM DocumentNumbersAreGapless == ContractSpec => []NumbersAreGapless
  <1>1. ASSUME ContractInv, NEW m \in Months
        PROVE  LET holders == {c \in Contracts : contracts[c].numbered = m} IN
               /\ {contracts[c].number : c \in holders} = 1..counters[m]
               /\ Cardinality(holders) = counters[m]
    <2> DEFINE holders == {c \in Contracts : contracts[c].numbered = m}
               number == [c \in holders |-> contracts[c].number]
    <2>1. /\ \A c \in holders : contracts[c].number \in 1..counters[m]
          /\ \A n \in 1..counters[m] : \E c \in holders : contracts[c].number = n
          /\ \A c, d \in holders : contracts[c].number = contracts[d].number => c = d
          /\ counters[m] \in Nat
      BY <1>1 DEF ContractInv, NumbersInv, ContractTypeOK
    <2>2. {contracts[c].number : c \in holders} = 1..counters[m]
      BY <2>1
    <2>3. number \in Bijection(holders, 1..counters[m])
      BY <2>1 DEF Bijection, Injection, Surjection, IsInjective
    <2>4. ExistsBijection(holders, 1..counters[m])
      BY <2>3 DEF ExistsBijection
    <2>5. Cardinality(holders) = counters[m]
      BY <2>1, <2>4, Fun_ExistsBijSymmetric, FS_CountingElements
    <2> QED
      BY <2>2, <2>5
  <1>2. ContractInv => NumbersAreGapless
    BY <1>1 DEF NumbersAreGapless
  <1> QED
    BY <1>2, ContractInvAlways, PTL

-------------------------------------------------------------------------------
(* Legal documents *)

(* Requests that are generating a letter, each of which may take a snapshot.   *)
Generators == {k \in LegalClerks : legalClerks[k].op = "generate"}

SnapshotsLeft == IsFiniteSet(Generators) /\ taken + Cardinality(Generators) <= MaxLetterSnapshots

LetterTypes ==
    /\ LettersTypeOK
    /\ story \in [signed : [Letters -> LetterSnapshot], overtaken : SUBSET LetterSnapshot,
                  unscanned : SUBSET LetterFile, unprinted : SUBSET LetterFile]

(* A number is one letter's, and all up to the last are given; a mail tells its letter's. *)
NumberInv ==
    /\ \A l \in Letters : letters[l].number \in 0..sequence
    /\ \A n \in 1..sequence : \E l \in Letters : letters[l].number = n
    /\ \A l, m \in Letters : letters[l].number = letters[m].number /\ letters[l].number # 0 => l = m
    /\ \A m \in posted : m.of \in Letters /\ m.number # 0 /\ letters[m.of].number = m.number

(* What a row says of its files and of its mails.                              *)
LetterInv(l) ==
    LET row == letters[l] IN
    /\ row.status \in {"generated", "sent", "signed"} => row.number # 0 /\ row.snapshot # 0
    /\ row.pdf # 0 => row.pdf \in archive \cup story.unprinted
    /\ row.render = "ready" => row.pdf # 0 /\ row.snapshot # 0 /\ prints[row.pdf] = row.snapshot
    /\ row.scan # 0 => row.scan \in archive \cup story.unscanned
    /\ row.pdf <= drawn /\ row.scan <= drawn /\ row.claim <= drawn
    /\ story.signed[l] # 0 => row.status = "signed" /\ row.snapshot = story.signed[l]
    /\ row.status = "sent" =>
         \/ row.snapshot \in story.overtaken
         \/ \E m \in posted : m.of = l /\ m.snapshot = row.snapshot

(* The files of a row are its own.                                          *)
LetterFiles(l) == {letters[l].pdf, letters[l].scan} \ {0}

OwnFiles ==
    /\ \A l, m \in Letters : l # m => LetterFiles(l) \cap LetterFiles(m) = {}
    /\ \A l \in Letters : letters[l].pdf # 0 => letters[l].pdf # letters[l].scan
                                               /\ letters[l].pdf \notin story.unscanned
    /\ \A f \in story.unscanned \cup story.unprinted : f <= drawn

(* What a clerk deletes, or has stored and not recorded, is no row's, unless recording it *)
(* looked like a failure.                                                    *)
ClerkInv(k) ==
    LET c == legalClerks[k] IN
    /\ c.op \notin {"none", "delete"} => c.of \in Letters
    /\ c.op = "generate" => letters[c.of].status \in {"draft", "generated"}
    /\ c.op = "generate" => \A j \in Generators \ {k} : legalClerks[j].of # c.of
    /\ c.file <= drawn
    /\ c.file # 0 =>
         /\ c.op \in {"scanned", "sign", "delete"}
         /\ \A l \in Letters : c.file # letters[l].pdf
         /\ c.file \notin story.unscanned =>
              /\ \A l \in Letters : c.file # letters[l].scan
              /\ \A j \in LegalClerks \ {k} : legalClerks[j].file # c.file
         /\ c.op \in {"scanned", "sign"} => c.file \in archive /\ c.file \notin story.unscanned

(* A file that is somebody's, but for a PDF whose recording looked like a failure: that is  *)
(* a row's, or a clerk's who deletes it.                                        *)
InUse(f) ==
    \/ f \in story.unscanned
    \/ \E l \in Letters : f = letters[l].scan \/ (f = letters[l].pdf /\ f \notin story.unprinted)
    \/ \E k \in LegalClerks :
         f = legalClerks[k].file /\ (legalClerks[k].op # "delete" \/ f \notin story.unprinted)

(* The worker's file is nobody else's, and a claim means the snapshot it was taken for.  *)
TypesetterInv ==
    typesetter.step # "idle" =>
      /\ typesetter.claim # 0 /\ typesetter.claim <= drawn /\ ~InUse(typesetter.claim)
      /\ typesetter.step # "deleting" => typesetter.claim \notin story.unprinted
      /\ typesetter.step = "stored" => /\ typesetter.claim \in archive
                                       /\ prints[typesetter.claim] = typesetter.snapshot
      /\ typesetter.step \in {"claimed", "stored"} =>
           /\ typesetter.of \in Letters /\ typesetter.snapshot # 0
           /\ LET row == letters[typesetter.of] IN
              row.claim = typesetter.claim /\ row.render = "rendering" => row.snapshot = typesetter.snapshot

SenderInv(s) ==
    posting[s].step # "idle" =>
      /\ posting[s].of \in Letters /\ posting[s].number # 0
      /\ letters[posting[s].of].number = posting[s].number
      /\ posting[s].step = "accepted" =>
           \E m \in posted : m.of = posting[s].of /\ m.snapshot = posting[s].snapshot

LettersInv ==
    /\ LetterTypes /\ SnapshotsLeft /\ NumberInv
    /\ \A l \in Letters : LetterInv(l)
    /\ OwnFiles
    /\ \A k \in LegalClerks : ClerkInv(k)
    /\ TypesetterInv
    /\ \A s \in LetterSenders : SenderInv(s)
-----------------------------------------------------------------------------
(* Records. *)

LEMMA NoLetterIs ==
    /\ NoLetter \in Letter /\ NoLetter.status = "absent" /\ NoLetter.number = 0
    /\ NoLetter.snapshot = 0 /\ NoLetter.render = "none" /\ NoLetter.claim = 0
    /\ NoLetter.pdf = 0 /\ NoLetter.scan = 0
  BY LetterBoundsAssumption DEF NoLetter, Letter, LetterFile, LetterSnapshot

LEMMA NoLegalClerkIs ==
    /\ NoLegalClerk \in LegalClerk /\ NoLegalClerk.op = "none" /\ NoLegalClerk.file = 0
  BY LetterBoundsAssumption DEF NoLegalClerk, LegalClerk, LetterFile

LEMMA NoPostingIs == NoPosting \in Posting /\ NoPosting.step = "idle"
<1>1. PICK no : no = FALSE /\ no \in BOOLEAN
  OBVIOUS
<1> QED BY ONLY <1>1, LetterBoundsAssumption DEF NoPosting, Posting, LetterSnapshot

LEMMA NoRenderIs == NoRender \in Typesetter /\ NoRender.step = "idle"
  BY LetterBoundsAssumption DEF NoRender, Typesetter, LetterFile, LetterSnapshot

(* What a request may keep of its row.                                         *)
SameNumberAndFiles(row, y) == y.number = row.number /\ y.pdf = row.pdf /\ y.scan = row.scan

LEMMA StatusIs ==
  ASSUME NEW row \in Letter,
         NEW status \in {"draft", "generated", "sent", "signed", "cancelled", "deleted"}
  PROVE  /\ [row EXCEPT !.status = status] \in Letter
         /\ [row EXCEPT !.status = status].status = status
         /\ SameNumberAndFiles(row, [row EXCEPT !.status = status])
         /\ [row EXCEPT !.status = status].snapshot = row.snapshot
         /\ [row EXCEPT !.status = status].render = row.render
         /\ [row EXCEPT !.status = status].claim = row.claim
<1>1. PICK y : y = [row EXCEPT !.status = status]
  OBVIOUS
<1>2. /\ y \in Letter /\ y.status = status /\ y.snapshot = row.snapshot /\ y.render = row.render
      /\ y.claim = row.claim /\ y.number = row.number /\ y.pdf = row.pdf /\ y.scan = row.scan
  BY ONLY <1>1, row \in Letter, status \in {"draft", "generated", "sent", "signed", "cancelled", "deleted"} DEF Letter
<1> QED BY ONLY <1>1, <1>2 DEF SameNumberAndFiles

LEMMA IssuedIs ==
  ASSUME LetterTypes, taken < MaxLetterSnapshots, NEW row \in Letter
  PROVE  /\ Issued(row) \in Letter /\ Issued(row).status = "generated"
         /\ Issued(row).number = IF row.number = 0 THEN sequence + 1 ELSE row.number
         /\ Issued(row).snapshot = taken + 1 /\ Issued(row).render = "pending" /\ Issued(row).claim = 0
         /\ Issued(row).pdf = row.pdf /\ Issued(row).scan = row.scan
<1>1. /\ sequence + 1 \in Nat /\ row.number \in Nat /\ taken + 1 \in LetterSnapshot /\ 0 \in LetterFile
  BY LetterBoundsAssumption DEF LetterTypes, LettersTypeOK, LetterSnapshot, LetterFile, Letter
<1>2. PICK n, snapshot, zero, generated, awaited :
        /\ n = (IF row.number = 0 THEN sequence + 1 ELSE row.number) /\ snapshot = taken + 1 /\ zero = 0
        /\ generated = "generated" /\ awaited = "pending"
  OBVIOUS
<1>3. n \in Nat /\ snapshot \in LetterSnapshot /\ zero \in LetterFile
  BY <1>1, <1>2
<1>4. PICK y : y = [row EXCEPT !.status = generated, !.number = n, !.snapshot = snapshot,
                               !.render = awaited, !.claim = zero]
  OBVIOUS
<1>5. y = Issued(row)
  BY <1>2, <1>4 DEF Issued
<1>6. /\ y \in Letter /\ y.status = generated /\ y.number = n /\ y.snapshot = snapshot
      /\ y.render = awaited /\ y.claim = zero /\ y.pdf = row.pdf /\ y.scan = row.scan
  BY ONLY <1>2, <1>3, <1>4, row \in Letter DEF Letter
<1> QED BY ONLY <1>2, <1>5, <1>6

LEMMA RedraftedIs ==
  ASSUME NEW row \in Letter
  PROVE  /\ Redrafted(row) \in Letter /\ Redrafted(row).status = "draft"
         /\ Redrafted(row).number = row.number /\ Redrafted(row).render = "none"
         /\ Redrafted(row).claim = 0 /\ Redrafted(row).pdf = 0 /\ Redrafted(row).scan = row.scan
<1>1. PICK zero, draft, none, y :
        /\ zero = 0 /\ draft = "draft" /\ none = "none"
        /\ y = [row EXCEPT !.status = draft, !.snapshot = zero, !.render = none, !.claim = zero, !.pdf = zero]
  OBVIOUS
<1>2. zero \in LetterFile /\ zero \in LetterSnapshot
  BY <1>1, LetterBoundsAssumption DEF LetterFile, LetterSnapshot
<1>3. /\ y \in Letter /\ y.status = draft /\ y.number = row.number /\ y.render = none
      /\ y.claim = zero /\ y.pdf = zero /\ y.scan = row.scan
  BY ONLY <1>1, <1>2, row \in Letter DEF Letter
<1>4. y = Redrafted(row)
  BY <1>1 DEF Redrafted
<1> QED BY ONLY <1>1, <1>3, <1>4

LEMMA SignedIs ==
  ASSUME NEW row \in Letter, NEW f \in LetterFile
  PROVE  /\ Signed(row, f) \in Letter /\ Signed(row, f).status = "signed"
         /\ Signed(row, f).number = row.number /\ Signed(row, f).snapshot = row.snapshot
         /\ Signed(row, f).render = row.render /\ Signed(row, f).claim = row.claim
         /\ Signed(row, f).pdf = row.pdf
         /\ Signed(row, f).scan = IF f = 0 THEN row.scan ELSE f
<1>1. PICK signed, scan, y :
        /\ signed = "signed" /\ scan = (IF f = 0 THEN row.scan ELSE f)
        /\ y = [row EXCEPT !.status = signed, !.scan = scan]
  OBVIOUS
<1>2. scan \in LetterFile
  BY <1>1 DEF Letter
<1>3. /\ y \in Letter /\ y.status = signed /\ y.number = row.number /\ y.snapshot = row.snapshot
      /\ y.render = row.render /\ y.claim = row.claim /\ y.pdf = row.pdf /\ y.scan = scan
  BY ONLY <1>1, <1>2, row \in Letter DEF Letter
<1>4. y = Signed(row, f)
  BY <1>1 DEF Signed
<1> QED BY ONLY <1>1, <1>3, <1>4

-----------------------------------------------------------------------------
(* What a step leaves as it is. *)

(* One row is written. *)
LetterWritten(l, row) ==
    /\ letters' \in [Letters -> Letter] /\ letters'[l] = row
    /\ \A m \in Letters \ {l} : letters'[m] = letters[m]

(* Of a send nothing changes but same, or it is over. *)
PostingsKept ==
    /\ posting' \in [LetterSenders -> Posting]
    /\ \A s \in LetterSenders :
         \/ posting'[s].step = "idle"
         \/ /\ posting'[s].step = posting[s].step /\ posting'[s].of = posting[s].of
            /\ posting'[s].snapshot = posting[s].snapshot /\ posting'[s].number = posting[s].number

LEMMA LetterIsWritten ==
  ASSUME LetterTypes, NEW l \in Letters, NEW row \in Letter, letters' = [letters EXCEPT ![l] = row]
  PROVE  LetterWritten(l, row)
  BY DEF LetterTypes, LettersTypeOK, LetterWritten

LEMMA NotSame ==
  ASSUME NEW p \in Posting
  PROVE  /\ [p EXCEPT !.same = FALSE] \in Posting /\ [p EXCEPT !.same = FALSE].step = p.step
         /\ [p EXCEPT !.same = FALSE].of = p.of /\ [p EXCEPT !.same = FALSE].snapshot = p.snapshot
         /\ [p EXCEPT !.same = FALSE].number = p.number
<1>1. PICK no, y : no = FALSE /\ no \in BOOLEAN /\ y = [p EXCEPT !.same = no]
  OBVIOUS
<1>2. /\ y \in Posting /\ y.step = p.step /\ y.of = p.of /\ y.snapshot = p.snapshot /\ y.number = p.number
  <2>1. y = [p EXCEPT !.same = no] /\ no \in BOOLEAN
    BY <1>1
  <2> QED BY ONLY <2>1, p \in Posting DEF Posting
<1> QED BY ONLY <1>1, <1>2

LEMMA TouchKeeps == ASSUME LetterTypes, NEW l \in Letters, Touch(l) PROVE PostingsKept
<1>1. ASSUME NEW s \in LetterSenders
      PROVE  /\ posting[s] \in Posting
             /\ posting'[s] = IF posting[s].of = l THEN [posting[s] EXCEPT !.same = FALSE] ELSE posting[s]
  BY <1>1 DEF LetterTypes, LettersTypeOK, Touch
<1>2. ASSUME NEW s \in LetterSenders
      PROVE  /\ posting'[s] \in Posting
             /\ posting'[s].step = posting[s].step /\ posting'[s].of = posting[s].of
             /\ posting'[s].snapshot = posting[s].snapshot /\ posting'[s].number = posting[s].number
  BY <1>1, NotSame
<1>3. posting' = [s \in LetterSenders |-> posting'[s]]
  BY DEF Touch
<1>4. posting' \in [LetterSenders -> Posting]
  BY <1>2, <1>3
<1> QED BY <1>2, <1>4 DEF PostingsKept

LEMMA LetterWrites ==
  ASSUME LetterTypes, NEW l \in Letters, NEW row \in Letter, WriteLetter(l, row)
  PROVE  LetterWritten(l, row) /\ PostingsKept
  BY LetterIsWritten, TouchKeeps DEF WriteLetter

LEMMA PostingsSame == ASSUME LetterTypes, UNCHANGED posting PROVE PostingsKept
  BY DEF LetterTypes, LettersTypeOK, PostingsKept

(* One clerk changes. *)
ClerkSet(k, c) ==
    /\ legalClerks' \in [LegalClerks -> LegalClerk] /\ legalClerks'[k] = c
    /\ \A j \in LegalClerks \ {k} : legalClerks'[j] = legalClerks[j]

LEMMA ClerkIsSet ==
  ASSUME LetterTypes, NEW k \in LegalClerks, NEW c \in LegalClerk,
         legalClerks' = [legalClerks EXCEPT ![k] = c]
  PROVE  ClerkSet(k, c)
  BY DEF LetterTypes, LettersTypeOK, ClerkSet

LEMMA LeavesSets == ASSUME LetterTypes, NEW k \in LegalClerks, Leaves(k) PROVE ClerkSet(k, NoLegalClerk)
  BY ClerkIsSet, NoLegalClerkIs DEF Leaves

(* A clerk that leaves, with or without a file to delete.                           *)
Deleting(f) == [op |-> IF f = 0 THEN "none" ELSE "delete", of |-> "nothing", file |-> f]

LEMMA DeletingIs ==
  ASSUME NEW f \in LetterFile
  PROVE  /\ Deleting(f) \in LegalClerk /\ Deleting(f).file = f /\ Deleting(f).op \in {"none", "delete"}
         /\ f # 0 => Deleting(f).op = "delete"
         /\ Deleting(f) = IF f = 0 THEN NoLegalClerk ELSE [op |-> "delete", of |-> "nothing", file |-> f]
<1>1. PICK op : op = (IF f = 0 THEN "none" ELSE "delete")
  OBVIOUS
<1>2. op \in {"none", "delete"} /\ (f # 0 => op = "delete") /\ (f = 0 => op = "none")
  BY <1>1
<1> QED BY <1>1, <1>2 DEF Deleting, LegalClerk, NoLegalClerk

LEMMA LeavesFileSets ==
  ASSUME LetterTypes, NEW k \in LegalClerks, NEW f \in LetterFile, LeavesFile(k, f)
  PROVE  ClerkSet(k, Deleting(f))
<1>1. legalClerks' = [legalClerks EXCEPT ![k] = Deleting(f)]
  BY DeletingIs DEF LeavesFile
<1> QED BY <1>1, ClerkIsSet, DeletingIs

(* The generators. *)
LEMMA SnapshotsStay ==
  ASSUME SnapshotsLeft, UNCHANGED taken,
         \A k \in LegalClerks : legalClerks'[k].op = "generate" <=> legalClerks[k].op = "generate"
  PROVE  SnapshotsLeft'
<1>1. Generators' = Generators
  BY DEF Generators
<1> QED BY <1>1 DEF SnapshotsLeft

LEMMA GeneratorGone ==
  ASSUME LetterTypes, SnapshotsLeft, NEW k \in LegalClerks, legalClerks[k].op = "generate",
         NEW c \in LegalClerk, c.op # "generate", ClerkSet(k, c),
         taken' \in {taken, taken + 1}
  PROVE  SnapshotsLeft' /\ taken < MaxLetterSnapshots
<1>1. k \in Generators /\ Generators' = Generators \ {k}
  BY DEF Generators, ClerkSet
<1>2. /\ IsFiniteSet(Generators') /\ Cardinality(Generators') = Cardinality(Generators) - 1
      /\ Cardinality(Generators) \in Nat /\ Cardinality(Generators') \in Nat
  BY <1>1, FS_RemoveElement, FS_CardinalityType DEF SnapshotsLeft
<1>3. taken \in Nat /\ MaxLetterSnapshots \in Nat
  BY LetterBoundsAssumption DEF LetterTypes, LettersTypeOK, LetterSnapshot
<1> QED BY <1>2, <1>3 DEF SnapshotsLeft

LEMMA GeneratorComes ==
  ASSUME LetterTypes, SnapshotsLeft, NEW k \in LegalClerks, legalClerks[k].op # "generate",
         NEW c \in LegalClerk, c.op = "generate", ClerkSet(k, c), UNCHANGED taken,
         taken + Cardinality(Generators) < MaxLetterSnapshots
  PROVE  SnapshotsLeft'
<1>1. k \notin Generators /\ Generators' = Generators \cup {k}
  BY DEF Generators, ClerkSet
<1>2. /\ IsFiniteSet(Generators') /\ Cardinality(Generators') = Cardinality(Generators) + 1
      /\ Cardinality(Generators) \in Nat
  BY <1>1, FS_AddElement, FS_CardinalityType DEF SnapshotsLeft
<1>3. taken \in Nat /\ MaxLetterSnapshots \in Nat
  BY LetterBoundsAssumption DEF LetterTypes, LettersTypeOK, LetterSnapshot
<1> QED BY <1>2, <1>3 DEF SnapshotsLeft

(* Numbers. *)
SameNumbers == sequence' = sequence /\ \A m \in Letters : letters'[m].number = letters[m].number

LEMMA NumbersStay == ASSUME NumberInv, SameNumbers, UNCHANGED posted PROVE NumberInv'
  BY DEF NumberInv, SameNumbers

(* Senders. *)
LEMMA SendersStay ==
  ASSUME LettersInv, PostingsKept, posted \subseteq posted',
         \A m \in Letters : letters[m].number # 0 => letters'[m].number = letters[m].number
  PROVE  \A s \in LetterSenders : SenderInv(s)'
<1> TAKE s \in LetterSenders
<1>1. SenderInv(s)
  BY DEF LettersInv
<1> QED BY <1>1 DEF SenderInv, PostingsKept

(* Rows. *)
LetterKept(m) ==
    /\ letters'[m] = letters[m]
    /\ letters[m].pdf # 0 =>
         /\ letters[m].pdf \in archive \cup story.unprinted =>
              letters[m].pdf \in archive' \cup story'.unprinted
         /\ prints'[letters[m].pdf] = prints[letters[m].pdf]
    /\ letters[m].scan # 0 /\ letters[m].scan \in archive \cup story.unscanned =>
         letters[m].scan \in archive' \cup story'.unscanned
    /\ drawn <= drawn' /\ story'.signed[m] = story.signed[m]
    /\ story.overtaken \subseteq story'.overtaken /\ posted \subseteq posted'

LEMMA LetterStays ==
  ASSUME LettersInv, NEW m \in Letters, LetterKept(m), drawn' \in Nat
  PROVE  LetterInv(m)'
<1>1. LetterInv(m) /\ drawn \in Nat /\ letters[m] \in Letter
  BY LetterBoundsAssumption DEF LettersInv, LetterTypes, LettersTypeOK, LetterFile
<1>2. /\ letters[m].pdf \in Nat /\ letters[m].scan \in Nat /\ letters[m].claim \in Nat
  BY <1>1 DEF Letter, LetterFile
<1>3. /\ letters[m].pdf <= drawn' /\ letters[m].scan <= drawn' /\ letters[m].claim <= drawn'
  BY <1>1, <1>2 DEF LetterInv, LetterKept
<1>4. letters[m].render = "ready" => letters[m].pdf # 0 /\ letters[m].snapshot # 0
                                     /\ prints'[letters[m].pdf] = letters[m].snapshot
  BY <1>1 DEF LetterInv, LetterKept
<1>5. letters[m].status = "sent" =>
        \/ letters[m].snapshot \in story'.overtaken
        \/ \E p \in posted' : p.of = m /\ p.snapshot = letters[m].snapshot
  BY <1>1 DEF LetterInv, LetterKept
<1> QED BY <1>1, <1>3, <1>4, <1>5 DEF LetterInv, LetterKept

LEMMA LettersStay ==
  ASSUME LettersInv, UNCHANGED <<letters, archive, prints, drawn, story>>, posted \subseteq posted'
  PROVE  \A m \in Letters : LetterInv(m)'
<1> TAKE m \in Letters
<1>1. drawn \in Nat
  BY LetterBoundsAssumption DEF LettersInv, LetterTypes, LettersTypeOK, LetterFile
<1>2. LetterKept(m)
  BY <1>1 DEF LetterKept
<1> QED BY <1>1, <1>2, LetterStays

LEMMA OthersStay ==
  ASSUME LettersInv, NEW l \in Letters, NEW row, LetterWritten(l, row),
         UNCHANGED <<archive, prints, story>>, drawn <= drawn', drawn' \in Nat, posted \subseteq posted'
  PROVE  \A m \in Letters \ {l} : LetterInv(m)'
<1> TAKE m \in Letters \ {l}
<1>1. LetterKept(m)
  BY DEF LetterKept, LetterWritten
<1> QED BY <1>1, LetterStays
(* Files. *)
FilesKept == \A m \in Letters : /\ letters'[m].pdf \in {0, letters[m].pdf}
                                /\ letters'[m].scan = letters[m].scan

LEMMA FilesStayOwn ==
  ASSUME LettersInv, FilesKept, story'.unscanned = story.unscanned, story'.unprinted = story.unprinted,
         drawn <= drawn', drawn' \in Nat
  PROVE  OwnFiles'
<1>1. drawn \in Nat /\ OwnFiles /\ story.unscanned \cup story.unprinted \subseteq Nat
  BY LetterBoundsAssumption DEF LettersInv, LetterTypes, LettersTypeOK, LetterFile
<1>2. ASSUME NEW l \in Letters PROVE LetterFiles(l)' \subseteq LetterFiles(l)
  BY DEF FilesKept, LetterFiles
<1>3. \A l, m \in Letters : l # m => LetterFiles(l)' \cap LetterFiles(m)' = {}
  BY <1>1, <1>2 DEF OwnFiles
<1>4. \A l \in Letters : letters'[l].pdf # 0 => letters'[l].pdf # letters'[l].scan
                                               /\ letters'[l].pdf \notin story'.unscanned
  BY <1>1 DEF OwnFiles, FilesKept
<1>5. \A f \in story'.unscanned \cup story'.unprinted : f <= drawn'
  BY <1>1 DEF OwnFiles
<1> QED BY <1>3, <1>4, <1>5 DEF OwnFiles

(* Clerks: k's file and letter are left alone. *)
ClerkKept(k) ==
    LET c == legalClerks[k] IN
    /\ legalClerks'[k] = c
    /\ \A j \in LegalClerks \ {k} :
         /\ legalClerks'[j].file = legalClerks[j].file \/ legalClerks'[j].file = 0
            \/ legalClerks'[j].file # c.file \/ c.file \in story'.unscanned
         /\ legalClerks'[j].op = "generate" =>
              \/ legalClerks[j].op = "generate" /\ legalClerks'[j].of = legalClerks[j].of
              \/ c.op # "generate" \/ legalClerks'[j].of # c.of
    /\ c.op = "generate" => letters'[c.of].status \in {"draft", "generated"}
    /\ \A m \in Letters : /\ letters'[m].pdf \in {0, letters[m].pdf} \/ letters'[m].pdf # c.file
                          /\ letters'[m].scan = letters[m].scan \/ letters'[m].scan # c.file
    /\ story.unscanned \subseteq story'.unscanned
    /\ c.file # 0 /\ c.op \in {"scanned", "sign"} =>
         /\ c.file \in archive => c.file \in archive'
         /\ c.file \notin story.unscanned => c.file \notin story'.unscanned
    /\ drawn <= drawn'

LEMMA ClerkStays ==
  ASSUME LettersInv, NEW k \in LegalClerks, ClerkKept(k), drawn' \in Nat
  PROVE  ClerkInv(k)'
<1>1. PICK c : c = legalClerks[k] /\ c = legalClerks'[k]
  BY DEF ClerkKept
<1>2. ClerkInv(k) /\ drawn \in Nat /\ drawn <= drawn' /\ c.file \in Nat
  BY <1>1, LetterBoundsAssumption DEF LettersInv, LetterTypes, LettersTypeOK, LetterFile, ClerkKept, LegalClerk
<1>3. c.file <= drawn'
  BY <1>1, <1>2 DEF ClerkInv
<1>4. c.op \notin {"none", "delete"} => c.of \in Letters
  BY <1>1, <1>2 DEF ClerkInv
<1>5. c.op = "generate" => letters'[c.of].status \in {"draft", "generated"}
  BY <1>1 DEF ClerkKept
<1>6. ASSUME c.op = "generate", NEW j \in Generators' \ {k} PROVE legalClerks'[j].of # c.of
  <2>1. legalClerks'[j].op = "generate" /\ j \in LegalClerks \ {k}
    BY DEF Generators
  <2>2. CASE legalClerks[j].op = "generate" /\ legalClerks'[j].of = legalClerks[j].of
    BY <1>1, <1>2, <1>6, <2>1, <2>2 DEF ClerkInv, Generators
  <2> QED BY <1>1, <1>6, <2>1, <2>2 DEF ClerkKept
<1>7. ASSUME c.file # 0 PROVE c.op \in {"scanned", "sign", "delete"} /\ \A l \in Letters : c.file # letters'[l].pdf
  BY <1>1, <1>2, <1>7 DEF ClerkInv, ClerkKept
<1>8. ASSUME c.file # 0, c.file \notin story'.unscanned
      PROVE  /\ \A l \in Letters : c.file # letters'[l].scan
             /\ \A j \in LegalClerks \ {k} : legalClerks'[j].file # c.file
  <2>1. c.file \notin story.unscanned
    BY <1>8 DEF ClerkKept
  <2>2. /\ \A l \in Letters : c.file # letters[l].scan
        /\ \A j \in LegalClerks \ {k} : legalClerks[j].file # c.file
    BY <1>1, <1>2, <1>8, <2>1 DEF ClerkInv
  <2>3. \A l \in Letters : c.file # letters'[l].scan
    BY <1>1, <2>2 DEF ClerkKept
  <2>4. \A j \in LegalClerks \ {k} : legalClerks'[j].file # c.file
    BY <1>1, <1>8, <2>2 DEF ClerkKept
  <2> QED BY <2>3, <2>4
<1>9. ASSUME c.file # 0, c.op \in {"scanned", "sign"} PROVE c.file \in archive' /\ c.file \notin story'.unscanned
  BY <1>1, <1>2, <1>9 DEF ClerkInv, ClerkKept
<1> QED BY <1>1, <1>3, <1>4, <1>5, <1>6, <1>7, <1>8, <1>9 DEF ClerkInv

(* A clerk that has nothing left. *)
LEMMA ClerkIsDone ==
  ASSUME NEW k \in LegalClerks, legalClerks'[k].op = "none", legalClerks'[k].file = 0, drawn' \in Nat
  PROVE  ClerkInv(k)'
  BY DEF ClerkInv

(* The worker: its file and its claim are left alone.                            *)
TypesetterKept ==
    LET c == typesetter.claim IN
    /\ UNCHANGED typesetter /\ story'.unprinted = story.unprinted
    /\ c # 0 /\ InUse(c)' => InUse(c) \/ c > drawn
    /\ drawn <= drawn'
    /\ typesetter.step = "stored" => /\ c \in archive => c \in archive'
                                     /\ prints'[c] = prints[c]
    /\ typesetter.step \in {"claimed", "stored"} /\ c # 0 =>
         LET row == letters[typesetter.of]  y == letters'[typesetter.of] IN
         y.claim = c /\ y.render = "rendering" =>
           row.claim = c /\ row.render = "rendering" /\ y.snapshot = row.snapshot

LEMMA TypesetterStays ==
  ASSUME LettersInv, TypesetterKept, drawn' \in Nat
  PROVE  TypesetterInv'
<1> SUFFICES ASSUME typesetter'.step # "idle" PROVE TypesetterInv'
  BY DEF TypesetterInv
<1>1. PICK c : c = typesetter.claim
  OBVIOUS
<1>2. TypesetterInv /\ typesetter' = typesetter /\ typesetter.step # "idle" /\ drawn \in Nat /\ c \in Nat
  BY <1>1, LetterBoundsAssumption DEF LettersInv, LetterTypes, LettersTypeOK, LetterFile, Typesetter, TypesetterKept
<1>3. c # 0 /\ c <= drawn /\ ~InUse(c)
  BY <1>1, <1>2 DEF TypesetterInv
<1>4. c <= drawn' /\ ~InUse(c)'
  <2>1. drawn <= drawn' /\ (c # 0 /\ InUse(c)' => InUse(c) \/ c > drawn)
    BY <1>1 DEF TypesetterKept
  <2> QED BY <1>2, <1>3, <2>1
<1>5. typesetter.step # "deleting" => c \notin story'.unprinted
  BY <1>1, <1>2 DEF TypesetterInv, TypesetterKept
<1>6. typesetter.step = "stored" => c \in archive' /\ prints'[c] = typesetter.snapshot
  BY <1>1, <1>2 DEF TypesetterInv, TypesetterKept
<1>7. ASSUME typesetter.step \in {"claimed", "stored"}
      PROVE  /\ typesetter.of \in Letters /\ typesetter.snapshot # 0
             /\ letters'[typesetter.of].claim = c /\ letters'[typesetter.of].render = "rendering" =>
                  letters'[typesetter.of].snapshot = typesetter.snapshot
  BY <1>1, <1>2, <1>3, <1>7 DEF TypesetterInv, TypesetterKept
<1> QED BY <1>1, <1>2, <1>3, <1>4, <1>5, <1>6, <1>7 DEF TypesetterInv

LEMMA DrawnIs == ASSUME LetterTypes PROVE drawn \in Nat /\ MaxLetterFiles \in Nat /\ drawn <= MaxLetterFiles
  BY LetterBoundsAssumption DEF LetterTypes, LettersTypeOK, LetterFile
-----------------------------------------------------------------------------
(* Senders. *)

LEMMA StepIs ==
  ASSUME NEW p \in Posting, NEW step \in {"queued", "checked", "accepted"}
  PROVE  /\ [p EXCEPT !.step = step] \in Posting /\ [p EXCEPT !.step = step].step = step
         /\ [p EXCEPT !.step = step].of = p.of /\ [p EXCEPT !.step = step].snapshot = p.snapshot
         /\ [p EXCEPT !.step = step].number = p.number
<1>1. PICK y : y = [p EXCEPT !.step = step]
  OBVIOUS
<1>2. /\ y \in Posting /\ y.step = step /\ y.of = p.of /\ y.snapshot = p.snapshot /\ y.number = p.number
  BY ONLY <1>1, p \in Posting, step \in {"queued", "checked", "accepted"} DEF Posting
<1> QED BY ONLY <1>1, <1>2

LEMMA ReadIs ==
  ASSUME NEW l \in Letters, NEW snapshot \in LetterSnapshot, NEW n \in Nat
  PROVE  LET p == [step |-> "read", of |-> l, snapshot |-> snapshot, number |-> n, same |-> TRUE] IN
         p \in Posting /\ p.step = "read" /\ p.of = l /\ p.number = n
<1>1. PICK yes, read : yes = TRUE /\ yes \in BOOLEAN /\ read = "read"
  OBVIOUS
<1>2. PICK p : p = [step |-> read, of |-> l, snapshot |-> snapshot, number |-> n, same |-> yes]
  OBVIOUS
<1>3. p \in Posting /\ p.step = read /\ p.of = l /\ p.number = n
  <2>1. yes \in BOOLEAN /\ read = "read"
    BY <1>1
  <2> QED BY ONLY <2>1, <1>2, l \in Letters, snapshot \in LetterSnapshot, n \in Nat DEF Posting
<1> QED BY ONLY <1>1, <1>2, <1>3

(* Sender s becomes p, and nothing but the delivery log and the mails changes beside. *)
PostingSet(s, p) ==
    /\ posting' \in [LetterSenders -> Posting] /\ posting'[s] = p
    /\ \A r \in LetterSenders \ {s} : posting'[r] = posting[r]

LEMMA PostingIsSet ==
  ASSUME LetterTypes, NEW s \in LetterSenders, NEW p \in Posting, posting' = [posting EXCEPT ![s] = p]
  PROVE  PostingSet(s, p)
  BY DEF LetterTypes, LettersTypeOK, PostingSet

OnlyPosting ==
    UNCHANGED <<letters, sequence, taken, drawn, archive, prints, legalClerks, typesetter, story>>

LEMMA OnlySender ==
  ASSUME LettersInv, OnlyPosting, NEW s \in LetterSenders, NEW p \in Posting, PostingSet(s, p),
         frozen' \subseteq Letters, posted \subseteq posted',
         \A m \in posted' \ posted : m.of \in Letters /\ m.number # 0 /\ letters[m.of].number = m.number,
         SenderInv(s)'
  PROVE  LettersInv'
<1>1. LetterTypes'
  BY DEF LettersInv, LetterTypes, LettersTypeOK, OnlyPosting, PostingSet
<1>2. SnapshotsLeft'
  BY SnapshotsStay DEF LettersInv, OnlyPosting
<1>3. NumberInv'
  BY DEF LettersInv, OnlyPosting, NumberInv
<1>4. \A l \in Letters : LetterInv(l)'
  BY LettersStay DEF OnlyPosting
<1>5. OwnFiles'
  BY DEF LettersInv, OnlyPosting, OwnFiles, LetterFiles
<1>6. \A k \in LegalClerks : ClerkInv(k)'
  BY DEF LettersInv, OnlyPosting, ClerkInv, Generators
<1>7. TypesetterInv'
  BY DEF LettersInv, OnlyPosting, TypesetterInv, InUse
<1>8. ASSUME NEW r \in LetterSenders \ {s} PROVE SenderInv(r)'
  <2>1. SenderInv(r) /\ posting'[r] = posting[r] /\ letters' = letters
    BY DEF LettersInv, OnlyPosting, PostingSet
  <2> QED BY <2>1 DEF SenderInv
<1> QED BY <1>1, <1>2, <1>3, <1>4, <1>5, <1>6, <1>7, <1>8 DEF LettersInv

LEMMA SenderGone ==
  ASSUME LettersInv, OnlyPosting, NEW s \in LetterSenders, posting' = [posting EXCEPT ![s] = NoPosting],
         frozen' \subseteq Letters, UNCHANGED posted
  PROVE  LettersInv'
<1>1. PostingSet(s, NoPosting)
  BY PostingIsSet, NoPostingIs DEF LettersInv
<1>2. SenderInv(s)'
  BY <1>1, NoPostingIs DEF PostingSet, SenderInv
<1> QED BY <1>1, <1>2, OnlySender, NoPostingIs

LEMMA SenderMoves ==
  ASSUME LettersInv, OnlyPosting, NEW s \in LetterSenders, posting[s].step # "idle",
         NEW step \in {"queued", "checked"}, posting' = [posting EXCEPT ![s].step = step],
         frozen' \subseteq Letters, UNCHANGED posted
  PROVE  LettersInv'
<1>1. PICK p : p = [posting[s] EXCEPT !.step = step]
  OBVIOUS
<1>2. posting[s] \in Posting /\ SenderInv(s) /\ posting' = [posting EXCEPT ![s] = p]
  BY <1>1 DEF LettersInv, LetterTypes, LettersTypeOK
<1>3. /\ p \in Posting /\ p.step = step /\ p.of = posting[s].of /\ p.number = posting[s].number
  <2>1. step \in {"queued", "checked", "accepted"} /\ posting[s] \in Posting
    BY <1>2
  <2> QED BY ONLY <1>1, <2>1, StepIs
<1>4. PostingSet(s, p)
  BY <1>2, <1>3, PostingIsSet DEF LettersInv
<1>5. SenderInv(s)'
  BY <1>2, <1>3, <1>4 DEF PostingSet, SenderInv, OnlyPosting
<1> QED BY <1>3, <1>4, <1>5, OnlySender

(* What is posted carries the number of its letter.                               *)
LEMMA PostIs ==
  ASSUME LettersInv, NEW s \in LetterSenders, posting[s].step # "idle", Post(s)
  PROVE  /\ posted \subseteq posted'
         /\ \A m \in posted' \ posted : m.of \in Letters /\ m.number # 0 /\ letters[m.of].number = m.number
         /\ \E m \in posted' : m.of = posting[s].of /\ m.snapshot = posting[s].snapshot
<1>1. SenderInv(s)
  BY DEF LettersInv
<1>2. PICK of, snapshot, n : of = posting[s].of /\ snapshot = posting[s].snapshot /\ n = posting[s].number
  OBVIOUS
<1>3. PICK m : m = [of |-> of, snapshot |-> snapshot, number |-> n]
  OBVIOUS
<1>4. posted' = posted \cup {m} /\ m.of = of /\ m.snapshot = snapshot /\ m.number = n
  BY <1>2, <1>3 DEF Post
<1>5. of \in Letters /\ n # 0 /\ letters[of].number = n
  BY <1>1, <1>2 DEF SenderInv
<1> QED BY <1>2, <1>4, <1>5

LEMMA ReadLetterKeeps ==
  ASSUME LettersInv, NEW s \in LetterSenders, NEW l \in Letters, ReadLetter(s, l)
  PROVE  LettersInv'
<1>1. PICK snapshot, n : snapshot = prints[letters[l].pdf] /\ n = letters[l].number
  OBVIOUS
<1>2. LetterInv(l) /\ letters[l] \in Letter /\ letters[l].pdf \in archive
  BY DEF LettersInv, LetterTypes, LettersTypeOK, ReadLetter
<1>3. snapshot \in LetterSnapshot /\ n \in Nat /\ n # 0
  BY <1>1, <1>2 DEF LettersInv, LetterTypes, LettersTypeOK, ReadLetter, LetterInv, Letter
<1>4. PICK p : p = [step |-> "read", of |-> l, snapshot |-> snapshot, number |-> n, same |-> TRUE]
  OBVIOUS
<1>5. p \in Posting /\ p.step = "read" /\ p.of = l /\ p.number = n
  BY <1>3, <1>4, ReadIs
<1>6. OnlyPosting /\ posting' = [posting EXCEPT ![s] = p] /\ UNCHANGED <<frozen, posted>>
  BY <1>1, <1>4 DEF ReadLetter, OnlyPosting
<1>7. PostingSet(s, p)
  BY <1>5, <1>6, PostingIsSet DEF LettersInv
<1>8. SenderInv(s)'
  BY <1>1, <1>3, <1>5, <1>6, <1>7 DEF SenderInv, PostingSet, OnlyPosting
<1>9. frozen' \subseteq Letters
  BY <1>6 DEF LettersInv, LetterTypes, LettersTypeOK
<1> QED BY <1>5, <1>6, <1>7, <1>8, <1>9, OnlySender

LEMMA QueueLetterKeeps ==
  ASSUME LettersInv, NEW s \in LetterSenders, QueueLetter(s) PROVE LettersInv'
<1>1. OnlyPosting /\ UNCHANGED posted /\ posting[s].step # "idle"
  BY DEF QueueLetter, OnlyPosting
<1>2. frozen \subseteq Letters /\ posting[s].of \in Letters
  BY <1>1 DEF LettersInv, LetterTypes, LettersTypeOK, SenderInv
<1>3. frozen' \subseteq Letters
  BY <1>2 DEF QueueLetter
<1>4. CASE posting' = [posting EXCEPT ![s].step = "queued"]
  BY <1>1, <1>3, <1>4, SenderMoves
<1>5. CASE posting' = [posting EXCEPT ![s] = NoPosting]
  BY <1>1, <1>3, <1>5, SenderGone
<1> QED BY <1>4, <1>5 DEF QueueLetter

LEMMA CheckQueuedKeeps ==
  ASSUME LettersInv, NEW s \in LetterSenders, CheckQueued(s) PROVE LettersInv'
<1>1. OnlyPosting /\ UNCHANGED posted /\ posting[s].step # "idle"
  BY DEF CheckQueued, OnlyPosting
<1>2. frozen' \subseteq Letters
  BY DEF LettersInv, LetterTypes, LettersTypeOK, CheckQueued
<1>3. CASE posting' = [posting EXCEPT ![s].step = "checked"]
  BY <1>1, <1>2, <1>3, SenderMoves
<1>4. CASE posting' = [posting EXCEPT ![s] = NoPosting]
  BY <1>1, <1>2, <1>4, SenderGone
<1> QED BY <1>3, <1>4 DEF CheckQueued

LEMMA PostLetterKeeps ==
  ASSUME LettersInv, NEW s \in LetterSenders, PostLetter(s) PROVE LettersInv'
<1>1. OnlyPosting /\ Post(s) /\ posting[s].step # "idle"
  BY DEF PostLetter, OnlyPosting
<1>2. frozen' \subseteq Letters
  BY DEF LettersInv, LetterTypes, LettersTypeOK, PostLetter
<1>3. PICK p : p = [posting[s] EXCEPT !.step = "accepted"]
  OBVIOUS
<1>4. posting[s] \in Posting /\ SenderInv(s) /\ posting' = [posting EXCEPT ![s] = p]
  BY <1>3 DEF LettersInv, LetterTypes, LettersTypeOK, PostLetter
<1>5. /\ p \in Posting /\ p.step = "accepted" /\ p.of = posting[s].of /\ p.number = posting[s].number
      /\ p.snapshot = posting[s].snapshot
  BY <1>3, <1>4, StepIs
<1>6. PostingSet(s, p)
  BY <1>4, <1>5, PostingIsSet DEF LettersInv
<1>7. \E m \in posted' : m.of = p.of /\ m.snapshot = p.snapshot
  BY <1>1, <1>5, PostIs
<1>8. SenderInv(s)'
  BY <1>1, <1>4, <1>5, <1>6, <1>7 DEF PostingSet, SenderInv, OnlyPosting
<1> QED BY <1>1, <1>2, <1>5, <1>6, <1>8, OnlySender, PostIs

LEMMA PostFailsKeeps ==
  ASSUME LettersInv, NEW s \in LetterSenders, PostFails(s) PROVE LettersInv'
<1>1. OnlyPosting /\ posting[s].step # "idle" /\ posting' = [posting EXCEPT ![s] = NoPosting]
  BY DEF PostFails, OnlyPosting
<1>2. frozen' \subseteq Letters
  BY DEF LettersInv, LetterTypes, LettersTypeOK, PostFails
<1>3. CASE UNCHANGED posted
  BY <1>1, <1>2, <1>3, SenderGone
<1>4. CASE Post(s)
  <2>1. PostingSet(s, NoPosting)
    BY <1>1, PostingIsSet, NoPostingIs DEF LettersInv
  <2>2. SenderInv(s)'
    BY <2>1, NoPostingIs DEF PostingSet, SenderInv
  <2> QED BY <1>1, <1>2, <1>4, <2>1, <2>2, PostIs, OnlySender, NoPostingIs
<1> QED BY <1>3, <1>4 DEF PostFails

LEMMA ReleaseLetterKeeps ==
  ASSUME LettersInv, NEW l \in Letters, ReleaseLetter(l) PROVE LettersInv'
<1>1. OnlyPosting /\ UNCHANGED <<posting, posted>> /\ frozen' \subseteq frozen
  BY DEF ReleaseLetter, OnlyPosting
<1>2. LetterTypes'
  BY <1>1 DEF LettersInv, LetterTypes, LettersTypeOK, OnlyPosting
<1>3. SnapshotsLeft' /\ \A m \in Letters : LetterInv(m)'
  BY <1>1, SnapshotsStay, LettersStay DEF LettersInv, OnlyPosting
<1>4. NumberInv'
  BY <1>1 DEF LettersInv, OnlyPosting, NumberInv
<1>5. OwnFiles'
  BY <1>1 DEF LettersInv, OnlyPosting, OwnFiles, LetterFiles
<1>6. \A k \in LegalClerks : ClerkInv(k)'
  BY <1>1 DEF LettersInv, OnlyPosting, ClerkInv, Generators
<1>7. TypesetterInv'
  BY <1>1 DEF LettersInv, OnlyPosting, TypesetterInv, InUse
<1>8. \A s \in LetterSenders : SenderInv(s)'
  BY <1>1 DEF LettersInv, OnlyPosting, SenderInv
<1> QED BY <1>2, <1>3, <1>4, <1>5, <1>6, <1>7, <1>8 DEF LettersInv

LEMMA LeaveLetterKeeps ==
  ASSUME LettersInv, NEW s \in LetterSenders, LeaveLetter(s) PROVE LettersInv'
<1>1. OnlyPosting /\ posting' = [posting EXCEPT ![s] = NoPosting] /\ UNCHANGED <<posted, frozen>>
  BY DEF LeaveLetter, OnlyPosting
<1> QED BY <1>1, SenderGone DEF LettersInv, LetterTypes, LettersTypeOK
-----------------------------------------------------------------------------
(* Steps that write no row. *)

LEMMA NoRowWritten ==
  ASSUME LettersInv, LetterTypes', UNCHANGED <<letters, sequence, posting, posted, story>>, SnapshotsLeft',
         drawn <= drawn', \A m \in Letters : LetterKept(m),
         \A k \in LegalClerks : ClerkInv(k)', TypesetterInv'
  PROVE  LettersInv'
<1>1. drawn' \in Nat
  BY LetterBoundsAssumption DEF LetterTypes, LettersTypeOK, LetterFile
<1>2. NumberInv'
  BY NumbersStay DEF LettersInv, SameNumbers
<1>3. \A m \in Letters : LetterInv(m)'
  BY <1>1, LetterStays
<1>4. OwnFiles'
  BY <1>1, FilesStayOwn DEF FilesKept
<1>5. \A s \in LetterSenders : SenderInv(s)'
  BY SendersStay, PostingsSame DEF LettersInv
<1> QED BY <1>2, <1>3, <1>4, <1>5 DEF LettersInv

(* A clerk, with a file of its own at most.                                     *)
LEMMA OtherClerksStay ==
  ASSUME LettersInv, UNCHANGED <<letters, story>>, NEW k \in LegalClerks, NEW c \in LegalClerk, ClerkSet(k, c),
         c.file \in {0, legalClerks[k].file} \/ c.file > drawn,
         c.op = "generate" => \A j \in Generators \ {k} : legalClerks[j].of # c.of,
         archive \subseteq archive', drawn <= drawn', drawn' \in Nat
  PROVE  \A j \in LegalClerks \ {k} : ClerkInv(j)'
<1> TAKE j \in LegalClerks \ {k}
<1>1. ClerkInv(j) /\ drawn \in Nat /\ legalClerks[j].file \in Nat /\ c.file \in Nat
  BY DrawnIs DEF LettersInv, LetterTypes, LettersTypeOK, LegalClerk, LetterFile
<1>2. legalClerks[j].file <= drawn
  BY <1>1 DEF ClerkInv
<1>3. legalClerks'[k].file = legalClerks[k].file \/ legalClerks'[k].file = 0
      \/ legalClerks'[k].file # legalClerks[j].file
  BY <1>1, <1>2 DEF ClerkSet
<1>4. \A i \in LegalClerks \ {j} :
        /\ legalClerks'[i].file = legalClerks[i].file \/ legalClerks'[i].file = 0
           \/ legalClerks'[i].file # legalClerks[j].file
        /\ legalClerks'[i].op = "generate" =>
             \/ legalClerks[i].op = "generate" /\ legalClerks'[i].of = legalClerks[i].of
             \/ legalClerks[j].op # "generate" \/ legalClerks'[i].of # legalClerks[j].of
  BY <1>3 DEF ClerkSet, Generators
<1>5. legalClerks[j].op = "generate" => letters'[legalClerks[j].of].status \in {"draft", "generated"}
  BY <1>1 DEF ClerkInv
<1>6. ClerkKept(j)
  BY <1>4, <1>5 DEF ClerkKept, ClerkSet
<1> QED BY <1>6, ClerkStays

LEMMA ClerkStep ==
  ASSUME LettersInv, UNCHANGED <<letters, sequence, taken, prints, posting, typesetter, frozen, posted, story>>,
         NEW k \in LegalClerks, NEW c \in LegalClerk, ClerkSet(k, c),
         c.file \in {0, legalClerks[k].file} \/ c.file > drawn,
         c.file = 0 \/ c.op = "delete" \/ legalClerks[k].op # "delete",
         c.op = "generate" => \A j \in Generators \ {k} : legalClerks[j].of # c.of,
         archive \subseteq archive', archive' \subseteq 1..MaxLetterFiles, drawn <= drawn', drawn' \in LetterFile,
         SnapshotsLeft', ClerkInv(k)'
  PROVE  LettersInv'
<1>1. LetterTypes' /\ drawn' \in Nat /\ drawn \in Nat
  BY DrawnIs, LetterBoundsAssumption DEF LettersInv, LetterTypes, LettersTypeOK, ClerkSet, LetterFile
<1>2. \A m \in Letters : LetterKept(m)
  BY DEF LetterKept
<1>3. \A j \in LegalClerks : ClerkInv(j)'
  BY <1>1, OtherClerksStay
<1>4. ASSUME typesetter.claim # 0, InUse(typesetter.claim)', ~(typesetter.claim > drawn)
      PROVE  InUse(typesetter.claim)
  <2>1. PICK f : f = typesetter.claim
    OBVIOUS
  <2>2. CASE \E j \in LegalClerks : f = legalClerks'[j].file /\ (legalClerks'[j].op # "delete" \/ f \notin story.unprinted)
    <3>1. PICK j \in LegalClerks : f = legalClerks'[j].file /\ (legalClerks'[j].op # "delete" \/ f \notin story.unprinted)
      BY <2>2
    <3>2. CASE j = k
      <4>1. c.file = legalClerks[k].file /\ f = c.file
        BY <1>4, <2>1, <3>1, <3>2 DEF ClerkSet
      <4>2. c.op # "delete" => legalClerks[k].op # "delete"
        BY <1>4, <2>1, <4>1
      <4> QED BY <2>1, <3>1, <3>2, <4>1, <4>2 DEF InUse, ClerkSet
    <3>3. CASE j # k
      BY <2>1, <3>1, <3>3 DEF InUse, ClerkSet
    <3> QED BY <3>2, <3>3
  <2> QED BY <1>4, <2>1, <2>2 DEF InUse
<1>5. TypesetterKept
  BY <1>4 DEF TypesetterKept
<1> QED BY <1>1, <1>2, <1>3, <1>5, TypesetterStays, NoRowWritten

LEMMA StatementIs ==
  ASSUME NEW op \in {"update", "cancel", "generate"}, NEW l \in Letters
  PROVE  LET c == [op |-> op, of |-> l, file |-> 0] IN
         c \in LegalClerk /\ c.op = op /\ c.of = l /\ c.file = 0
  BY LetterBoundsAssumption DEF LegalClerk, LetterFile

LEMMA BeginStatementKeeps ==
  ASSUME LettersInv, NEW k \in LegalClerks, NEW op \in {"update", "cancel", "generate"}, NEW l \in Letters,
         BeginStatement(k, op, l)
  PROVE  LettersInv'
<1>1. PICK c : c = [op |-> op, of |-> l, file |-> 0]
  OBVIOUS
<1>2. c \in LegalClerk /\ c.op = op /\ c.of = l /\ c.file = 0
  BY <1>1, StatementIs
<1>3. /\ UNCHANGED <<letters, sequence, taken, prints, posting, typesetter, frozen, posted, story>>
      /\ UNCHANGED <<drawn, archive>> /\ legalClerks' = [legalClerks EXCEPT ![k] = c]
      /\ legalClerks[k].op = "none"
  BY <1>1, NoLegalClerkIs DEF BeginStatement
<1>4. ClerkSet(k, c)
  BY <1>2, <1>3, ClerkIsSet DEF LettersInv
<1>5. drawn \in LetterFile /\ drawn \in Nat /\ archive \subseteq 1..MaxLetterFiles
  BY DrawnIs DEF LettersInv, LetterTypes, LettersTypeOK
<1>6. c.op = "generate" => \A j \in Generators \ {k} : legalClerks[j].of # c.of
  BY <1>2 DEF BeginStatement, Generating, Generators
<1>7. SnapshotsLeft'
  <2>1. CASE op = "generate"
    <3>1. taken + Cardinality(Generators) < MaxLetterSnapshots
      BY <2>1 DEF BeginStatement, Generators
    <3> QED BY <1>2, <1>3, <1>4, <2>1, <3>1, GeneratorComes DEF LettersInv
  <2>2. CASE op # "generate"
    BY <1>2, <1>3, <1>4, <2>2, SnapshotsStay DEF LettersInv, ClerkSet
  <2> QED BY <2>1, <2>2
<1>8. c.op = "generate" => letters[l].status \in {"draft", "generated"}
  BY <1>2 DEF BeginStatement, Allowed
<1>9. ClerkInv(k)'
  <2>1. \A j \in Generators' \ {k} : j \in Generators \ {k} /\ legalClerks'[j] = legalClerks[j]
    BY <1>4 DEF Generators, ClerkSet
  <2> QED BY <1>2, <1>3, <1>4, <1>5, <1>6, <1>8, <2>1 DEF ClerkInv, ClerkSet
<1> QED BY <1>2, <1>3, <1>4, <1>5, <1>6, <1>7, <1>9, ClerkStep

LEMMA GenerateFailsKeeps ==
  ASSUME LettersInv, NEW k \in LegalClerks, GenerateFails(k) PROVE LettersInv'
<1>1. /\ UNCHANGED <<letters, sequence, taken, prints, posting, typesetter, frozen, posted, story>>
      /\ UNCHANGED <<drawn, archive>> /\ legalClerks[k].op = "generate"
  BY DEF GenerateFails
<1>2. ClerkSet(k, NoLegalClerk)
  BY LeavesSets DEF LettersInv, GenerateFails
<1>3. drawn \in LetterFile /\ drawn \in Nat /\ archive \subseteq 1..MaxLetterFiles
  BY DrawnIs DEF LettersInv, LetterTypes, LettersTypeOK
<1>4. SnapshotsLeft'
  BY <1>1, <1>2, GeneratorGone, NoLegalClerkIs DEF LettersInv
<1>5. ClerkInv(k)'
  BY <1>1, <1>2, <1>3, ClerkIsDone, NoLegalClerkIs DEF ClerkSet
<1> QED BY <1>1, <1>2, <1>3, <1>4, <1>5, ClerkStep, NoLegalClerkIs

(* A file to delete. *)
LEMMA DeleterIs ==
  ASSUME NEW k \in LegalClerks, NEW f \in LetterFile, ClerkSet(k, Deleting(f)), f <= drawn',
         f # 0 => /\ \A l \in Letters : f # letters'[l].pdf
                  /\ f \notin story'.unscanned =>
                       /\ \A l \in Letters : f # letters'[l].scan
                       /\ \A j \in LegalClerks \ {k} : legalClerks[j].file # f
  PROVE  ClerkInv(k)'
<1>1. PICK c : c = Deleting(f) /\ legalClerks'[k] = c
  BY DEF ClerkSet
<1>2. c.file = f /\ c.op \in {"none", "delete"} /\ (f # 0 => c.op = "delete")
  BY <1>1, DeletingIs
<1>3. \A j \in LegalClerks \ {k} : legalClerks'[j] = legalClerks[j]
  BY DEF ClerkSet
<1> QED BY <1>1, <1>2, <1>3 DEF ClerkInv

LEMMA StoreScanKeeps ==
  ASSUME LettersInv, NEW k \in LegalClerks, NEW l \in Letters, StoreScan(k, l) PROVE LettersInv'
<1>1. /\ UNCHANGED <<letters, sequence, taken, prints, posting, typesetter, frozen, posted, story>>
      /\ legalClerks[k].op = "none"
  BY NoLegalClerkIs DEF StoreScan
<1>2. PICK f : /\ f \in {0, drawn + 1}
               /\ legalClerks' = [legalClerks EXCEPT ![k] = [op |-> "scanned", of |-> l, file |-> f]]
               /\ f = 0 => UNCHANGED <<drawn, archive>>
               /\ f # 0 => drawn < MaxLetterFiles /\ drawn' = drawn + 1 /\ archive' = archive \cup {drawn + 1}
  BY DrawnIs DEF StoreScan, LettersInv
<1>3. /\ drawn \in Nat /\ MaxLetterFiles \in Nat /\ drawn <= MaxLetterFiles /\ archive \subseteq 1..MaxLetterFiles
  BY DrawnIs DEF LettersInv, LetterTypes, LettersTypeOK
<1>4. /\ drawn' \in LetterFile /\ drawn <= drawn' /\ f \in LetterFile /\ f <= drawn'
      /\ archive \subseteq archive' /\ archive' \subseteq 1..MaxLetterFiles
      /\ f # 0 => f > drawn /\ f \in archive'
  <2>1. CASE f = 0
    <3>1. drawn' = drawn /\ archive' = archive
      BY <1>2, <2>1
    <3> QED BY <1>3, <2>1, <3>1 DEF LetterFile
  <2>2. CASE f # 0
    <3>1. f = drawn + 1 /\ drawn < MaxLetterFiles /\ drawn' = drawn + 1 /\ archive' = archive \cup {drawn + 1}
      BY <1>2, <2>2
    <3> QED BY <1>3, <3>1 DEF LetterFile
  <2> QED BY <2>1, <2>2
<1>5. PICK c : c = [op |-> "scanned", of |-> l, file |-> f]
  OBVIOUS
<1>6. c \in LegalClerk /\ c.op = "scanned" /\ c.of = l /\ c.file = f
  BY <1>4, <1>5 DEF LegalClerk
<1>7. ClerkSet(k, c)
  BY <1>2, <1>5, <1>6, ClerkIsSet DEF LettersInv
<1>8. SnapshotsLeft'
  BY <1>1, <1>6, <1>7, SnapshotsStay DEF LettersInv, ClerkSet
<1>9. ASSUME f # 0
      PROVE  /\ \A m \in Letters : f # letters[m].pdf /\ f # letters[m].scan
             /\ \A j \in LegalClerks \ {k} : legalClerks[j].file # f
             /\ f \notin story.unscanned
  <2>1. ASSUME NEW m \in Letters PROVE f # letters[m].pdf /\ f # letters[m].scan
    <3>1. LetterInv(m) /\ letters[m].pdf \in Nat /\ letters[m].scan \in Nat
      BY DEF LettersInv, LetterTypes, LettersTypeOK, Letter, LetterFile
    <3> QED BY <1>3, <1>4, <1>9, <3>1 DEF LetterInv
  <2>2. ASSUME NEW j \in LegalClerks \ {k} PROVE legalClerks[j].file # f
    <3>1. ClerkInv(j) /\ legalClerks[j].file \in Nat
      BY DEF LettersInv, LetterTypes, LettersTypeOK, LegalClerk, LetterFile
    <3> QED BY <1>3, <1>4, <1>9, <3>1 DEF ClerkInv
  <2>3. f \notin story.unscanned
    <3>1. f > drawn /\ f \in Nat /\ \A g \in story.unscanned : g <= drawn
      BY <1>4, <1>9 DEF LettersInv, OwnFiles, LetterFile
    <3> QED BY <1>3, <3>1
  <2> QED BY <2>1, <2>2, <2>3
<1>10. ClerkInv(k)'
  <2>1. \A j \in LegalClerks \ {k} : legalClerks'[j] = legalClerks[j]
    BY <1>7 DEF ClerkSet
  <2>2. legalClerks'[k] = c /\ letters' = letters /\ story' = story
    BY <1>1, <1>7 DEF ClerkSet
  <2> QED BY <1>4, <1>6, <1>9, <2>1, <2>2 DEF ClerkInv
<1> QED BY <1>1, <1>4, <1>6, <1>7, <1>8, <1>10, ClerkStep

LEMMA BeginSignKeeps ==
  ASSUME LettersInv, NEW k \in LegalClerks, BeginSign(k) PROVE LettersInv'
<1>1. /\ UNCHANGED <<letters, sequence, taken, prints, posting, typesetter, frozen, posted, story>>
      /\ UNCHANGED <<drawn, archive>> /\ legalClerks[k].op = "scanned"
  BY DEF BeginSign
<1>2. drawn \in LetterFile /\ drawn \in Nat /\ archive \subseteq 1..MaxLetterFiles
  BY DrawnIs DEF LettersInv, LetterTypes, LettersTypeOK
<1>3. PICK c, f : c = legalClerks[k] /\ f = c.file
  OBVIOUS
<1>4. c \in LegalClerk /\ ClerkInv(k) /\ f \in LetterFile /\ c.of \in Letters
  BY <1>1, <1>3 DEF LettersInv, LetterTypes, LettersTypeOK, LegalClerk, ClerkInv
<1>5. CASE legalClerks' = [legalClerks EXCEPT ![k].op = "sign"]
  <2>1. PICK d : d = [c EXCEPT !.op = "sign"]
    OBVIOUS
  <2>2. d \in LegalClerk /\ d.op = "sign" /\ d.of = c.of /\ d.file = f
    BY ONLY <1>3, <1>4, <2>1 DEF LegalClerk
  <2>3. ClerkSet(k, d)
    BY <1>3, <1>5, <2>1, <2>2, ClerkIsSet DEF LettersInv
  <2>4. SnapshotsLeft'
    BY <1>1, <2>2, <2>3, SnapshotsStay DEF LettersInv, ClerkSet
  <2>5. ClerkInv(k)'
    <3>1. \A j \in LegalClerks \ {k} : legalClerks'[j] = legalClerks[j]
      BY <2>3 DEF ClerkSet
    <3>2. legalClerks'[k] = d
      BY <2>3 DEF ClerkSet
    <3> QED BY <1>1, <1>3, <1>4, <2>2, <3>1, <3>2 DEF ClerkInv
  <2> QED BY <1>1, <1>2, <1>3, <2>2, <2>3, <2>4, <2>5, ClerkStep
<1>6. CASE LeavesFile(k, f)
  <2>1. ClerkSet(k, Deleting(f)) /\ Deleting(f) \in LegalClerk /\ Deleting(f).file = f
        /\ Deleting(f).op # "generate"
    BY <1>4, <1>6, LeavesFileSets, DeletingIs DEF LettersInv
  <2>2. SnapshotsLeft'
    BY <1>1, <2>1, SnapshotsStay DEF LettersInv, ClerkSet
  <2>3. ClerkInv(k)'
    BY <1>1, <1>3, <1>4, <2>1, DeleterIs DEF ClerkInv
  <2> QED BY <1>1, <1>2, <1>3, <2>1, <2>2, <2>3, ClerkStep
<1> QED BY <1>3, <1>5, <1>6 DEF BeginSign

LEMMA DeleteLegalFileKeeps ==
  ASSUME LettersInv, NEW k \in LegalClerks, DeleteLegalFile(k) PROVE LettersInv'
<1>1. PICK f : f = legalClerks[k].file
  OBVIOUS
<1>2. /\ UNCHANGED <<letters, sequence, taken, drawn, prints, posting, typesetter, frozen, posted, story>>
      /\ archive' = archive \ {f} /\ legalClerks[k].op = "delete"
  BY <1>1 DEF DeleteLegalFile
<1>3. ClerkSet(k, NoLegalClerk)
  BY LeavesSets DEF LettersInv, DeleteLegalFile
<1>4. LetterTypes' /\ drawn \in Nat
  BY <1>2, <1>3, DrawnIs DEF LettersInv, LetterTypes, LettersTypeOK, ClerkSet
<1>5. SnapshotsLeft'
  BY <1>2, <1>3, NoLegalClerkIs, SnapshotsStay DEF LettersInv, ClerkSet
<1>6. ClerkInv(k) /\ (f # 0 => \A m \in Letters : f # letters[m].pdf)
      /\ (f # 0 /\ f \notin story.unscanned => /\ \A m \in Letters : f # letters[m].scan
                                               /\ \A j \in LegalClerks \ {k} : legalClerks[j].file # f)
  BY <1>1 DEF LettersInv, ClerkInv
<1>7. \A m \in Letters : LetterKept(m)
  BY <1>2, <1>4, <1>6 DEF LetterKept
<1>8. ASSUME NEW j \in LegalClerks PROVE ClerkInv(j)'
  <2>1. CASE j = k
    BY <1>2, <1>3, <1>4, <2>1, ClerkIsDone, NoLegalClerkIs DEF ClerkSet
  <2>2. CASE j # k
    <3>1. ClerkInv(j) /\ legalClerks'[j] = legalClerks[j]
      BY <1>3, <2>2 DEF LettersInv, ClerkSet
    <3>2. \A i \in LegalClerks \ {j} :
            /\ legalClerks'[i].file = legalClerks[i].file \/ legalClerks'[i].file = 0
            /\ legalClerks'[i].op = "generate" =>
                 legalClerks[i].op = "generate" /\ legalClerks'[i].of = legalClerks[i].of
      BY <1>3, NoLegalClerkIs DEF ClerkSet
    <3>3. legalClerks[j].op = "generate" => letters'[legalClerks[j].of].status \in {"draft", "generated"}
      BY <1>2, <3>1 DEF ClerkInv
    <3>4. ASSUME legalClerks[j].file # 0, legalClerks[j].op \in {"scanned", "sign"} PROVE legalClerks[j].file # f
      BY <1>6, <2>2, <3>1, <3>4 DEF ClerkInv
    <3>5. ClerkKept(j)
      BY <1>2, <1>4, <3>1, <3>2, <3>3, <3>4 DEF ClerkKept
    <3> QED BY <1>2, <1>4, <3>5, ClerkStays
  <2> QED BY <2>1, <2>2
<1>9. InUse(typesetter.claim)' => InUse(typesetter.claim) \/ typesetter.claim = 0
  BY <1>2, <1>3, NoLegalClerkIs DEF InUse, ClerkSet
<1>10. typesetter.step = "stored" => typesetter.claim # f
  BY <1>1 DEF LettersInv, TypesetterInv, InUse
<1>11. TypesetterKept
  BY <1>2, <1>4, <1>9, <1>10 DEF TypesetterKept
<1> QED BY <1>2, <1>4, <1>5, <1>7, <1>8, <1>11, TypesetterStays, NoRowWritten
-----------------------------------------------------------------------------
(* Steps that write one row. *)

(* A row keeps its number and takes no file. *)
LEMMA RowRest ==
  ASSUME LettersInv, NEW l \in Letters, NEW row \in Letter, LetterWritten(l, row), PostingsKept,
         row.number = letters[l].number, row.pdf \in {0, letters[l].pdf}, row.scan = letters[l].scan,
         UNCHANGED <<sequence, archive, prints, posted>>, drawn <= drawn', drawn' \in Nat,
         story'.unscanned = story.unscanned, story'.unprinted = story.unprinted,
         story.overtaken \subseteq story'.overtaken,
         \A m \in Letters \ {l} : story'.signed[m] = story.signed[m]
  PROVE  /\ NumberInv' /\ OwnFiles' /\ \A m \in Letters \ {l} : LetterInv(m)'
         /\ \A s \in LetterSenders : SenderInv(s)'
<1>1. \A m \in Letters : letters'[m].number = letters[m].number
  BY DEF LetterWritten
<1>2. NumberInv'
  BY <1>1, NumbersStay DEF LettersInv, SameNumbers
<1>3. FilesKept
  BY DEF FilesKept, LetterWritten
<1>4. \A m \in Letters \ {l} : LetterInv(m)'
  <2> TAKE m \in Letters \ {l}
  <2>1. LetterKept(m)
    BY DEF LetterKept, LetterWritten
  <2> QED BY <2>1, LetterStays
<1> QED BY <1>1, <1>2, <1>3, <1>4, FilesStayOwn, SendersStay

(* The others' files are not those of the row, nor of a clerk that changes. *)
LEMMA ClerkStaysAtRow ==
  ASSUME LettersInv, NEW l \in Letters, NEW row \in Letter, LetterWritten(l, row),
         NEW j \in LegalClerks, legalClerks'[j] = legalClerks[j],
         \A i \in LegalClerks \ {j} :
           \/ legalClerks'[i] = legalClerks[i]
           \/ /\ legalClerks'[i].op # "generate"
              /\ \/ legalClerks'[i].file \in {0, legalClerks[i].file}
                 \/ legalClerks'[i].file # legalClerks[j].file
                 \/ legalClerks[j].file \in story'.unscanned,
         legalClerks[j].op = "generate" /\ legalClerks[j].of = l => row.status \in {"draft", "generated"},
         row.pdf \in {0, letters[l].pdf} \/ row.pdf # legalClerks[j].file,
         row.scan = letters[l].scan \/ row.scan # legalClerks[j].file,
         story.unscanned \subseteq story'.unscanned,
         legalClerks[j].file # 0 /\ legalClerks[j].file \in story'.unscanned => legalClerks[j].file \in story.unscanned,
         UNCHANGED archive, drawn <= drawn', drawn' \in Nat
  PROVE  ClerkInv(j)'
<1>1. ClerkInv(j)
  BY DEF LettersInv
<1>2. legalClerks[j].op = "generate" => letters'[legalClerks[j].of].status \in {"draft", "generated"}
  BY <1>1 DEF ClerkInv, LetterWritten
<1>3. \A m \in Letters : /\ letters'[m].pdf \in {0, letters[m].pdf} \/ letters'[m].pdf # legalClerks[j].file
                         /\ letters'[m].scan = letters[m].scan \/ letters'[m].scan # legalClerks[j].file
  BY DEF LetterWritten
<1>4. \A i \in LegalClerks \ {j} :
        /\ legalClerks'[i].file = legalClerks[i].file \/ legalClerks'[i].file = 0
           \/ legalClerks'[i].file # legalClerks[j].file \/ legalClerks[j].file \in story'.unscanned
        /\ legalClerks'[i].op = "generate" =>
             legalClerks[i].op = "generate" /\ legalClerks'[i].of = legalClerks[i].of
  OBVIOUS
<1>5. ClerkKept(j)
  BY <1>2, <1>3, <1>4 DEF ClerkKept
<1> QED BY <1>5, ClerkStays

(* Nobody changes, or a clerk is done. *)
LEMMA ClerksStayAtRow ==
  ASSUME LettersInv, NEW l \in Letters, NEW row \in Letter, LetterWritten(l, row),
         \A j \in LegalClerks : \/ legalClerks'[j] = legalClerks[j]
                                \/ legalClerks'[j].op = "none" /\ legalClerks'[j].file = 0,
         ~Generating(l) \/ row.status \in {"draft", "generated"},
         row.pdf \in {0, letters[l].pdf} \/ \A j \in LegalClerks : row.pdf # legalClerks[j].file,
         row.scan = letters[l].scan, story'.unscanned = story.unscanned,
         UNCHANGED archive, drawn <= drawn', drawn' \in Nat
  PROVE  \A j \in LegalClerks : ClerkInv(j)'
<1> TAKE j \in LegalClerks
<1>1. CASE legalClerks'[j] = legalClerks[j]
  <2>1. legalClerks[j].op = "generate" /\ legalClerks[j].of = l => row.status \in {"draft", "generated"}
    BY DEF Generating
  <2>2. \A i \in LegalClerks \ {j} :
           \/ legalClerks'[i] = legalClerks[i]
           \/ legalClerks'[i].op # "generate" /\ legalClerks'[i].file \in {0, legalClerks[i].file}
    OBVIOUS
  <2> QED BY <1>1, <2>1, <2>2, ClerkStaysAtRow
<1>2. CASE legalClerks'[j].op = "none" /\ legalClerks'[j].file = 0
  BY <1>2, ClerkIsDone
<1> QED BY <1>1, <1>2

(* The worker's file stays its own, and a claim in force means what it did. *)
LEMMA TypesetterStaysAtRow ==
  ASSUME LettersInv, NEW l \in Letters, NEW row \in Letter, LetterWritten(l, row),
         row.pdf \in {0, letters[l].pdf},
         \/ row.scan \in {0, letters[l].scan}
         \/ \E k \in LegalClerks : row.scan = legalClerks[k].file /\ legalClerks[k].op # "delete",
         \/ row.claim = 0
         \/ row.claim = letters[l].claim /\ row.render = letters[l].render /\ row.snapshot = letters[l].snapshot,
         \A k \in LegalClerks :
           \/ legalClerks'[k].file = 0
           \/ legalClerks'[k].file \in {letters[l].pdf, letters[l].scan} /\ legalClerks'[k].op = "delete"
           \/ /\ legalClerks'[k].file = legalClerks[k].file
              /\ legalClerks'[k].op \in {"delete", legalClerks[k].op},
         \A f \in story'.unscanned :
           \/ f \in story.unscanned
           \/ \E k \in LegalClerks : f = legalClerks[k].file /\ legalClerks[k].op # "delete",
         story'.unprinted = story.unprinted,
         UNCHANGED <<typesetter, archive, prints, drawn>>
  PROVE  TypesetterInv'
<1>1. PICK c : c = typesetter.claim /\ drawn \in Nat
  BY DrawnIs DEF LettersInv
<1>2. ASSUME c # 0, InUse(c)' PROVE InUse(c)
  <2>1. CASE c \in story'.unscanned
    BY <2>1 DEF InUse
  <2>2. CASE \E m \in Letters : c = letters'[m].scan \/ (c = letters'[m].pdf /\ c \notin story'.unprinted)
    BY <1>2, <2>2 DEF InUse, LetterWritten
  <2>3. CASE \E k \in LegalClerks : c = legalClerks'[k].file /\ (legalClerks'[k].op # "delete" \/ c \notin story'.unprinted)
    <3>1. PICK k \in LegalClerks :
            c = legalClerks'[k].file /\ (legalClerks'[k].op # "delete" \/ c \notin story.unprinted)
      BY <2>3
    <3>2. CASE c \in {letters[l].pdf, letters[l].scan} /\ legalClerks'[k].op = "delete"
      BY <3>1, <3>2 DEF InUse
    <3>3. CASE c = legalClerks[k].file /\ legalClerks'[k].op \in {"delete", legalClerks[k].op}
      BY <3>1, <3>3 DEF InUse
    <3> QED BY <1>2, <3>1, <3>2, <3>3
  <2> QED BY <1>2, <2>1, <2>2, <2>3 DEF InUse
<1>3. ASSUME c # 0, letters'[typesetter.of].claim = c, typesetter.of \in Letters
      PROVE  /\ letters[typesetter.of].claim = c
             /\ letters'[typesetter.of].render = letters[typesetter.of].render
             /\ letters'[typesetter.of].snapshot = letters[typesetter.of].snapshot
  BY <1>3 DEF LetterWritten
<1>4. typesetter.step \in {"claimed", "stored"} => typesetter.of \in Letters
  BY DEF LettersInv, TypesetterInv
<1>5. TypesetterKept
  BY <1>1, <1>2, <1>3, <1>4 DEF TypesetterKept
<1> QED BY <1>1, <1>5, TypesetterStays

(* The row says of its files what it said, if neither they nor its snapshot changed. *)
RowStands(l, row) ==
    /\ row.status \in {"generated", "sent", "signed"} => row.number # 0 /\ row.snapshot # 0
    /\ row.render = "ready" => letters[l].render = "ready" /\ row.pdf = letters[l].pdf
                               /\ row.snapshot = letters[l].snapshot
    /\ row.claim \in {0, letters[l].claim}
    /\ row.pdf \in {0, letters[l].pdf} /\ row.scan = letters[l].scan
    /\ story'.signed[l] # 0 => row.status = "signed" /\ row.snapshot = story'.signed[l]
    /\ row.status = "sent" =>
         \/ row.snapshot \in story'.overtaken
         \/ \E m \in posted' : m.of = l /\ m.snapshot = row.snapshot

LEMMA RowKeepsItsFiles ==
  ASSUME LettersInv, NEW l \in Letters, NEW row \in Letter, LetterWritten(l, row), RowStands(l, row),
         UNCHANGED <<archive, prints, drawn>>, story'.unscanned = story.unscanned,
         story'.unprinted = story.unprinted
  PROVE  LetterInv(l)'
<1>1. LetterInv(l) /\ drawn \in Nat /\ letters'[l] = row
  BY DrawnIs DEF LettersInv, LetterWritten
<1>2. row.pdf <= drawn /\ row.scan <= drawn /\ row.claim <= drawn
  BY <1>1 DEF LetterInv, RowStands
<1>3. /\ row.pdf # 0 => row.pdf \in archive \cup story.unprinted
      /\ row.scan # 0 => row.scan \in archive \cup story.unscanned
      /\ row.render = "ready" => row.pdf # 0 /\ row.snapshot # 0 /\ prints[row.pdf] = row.snapshot
  BY <1>1 DEF LetterInv, RowStands
<1> QED BY <1>1, <1>2, <1>3 DEF LetterInv, RowStands
-----------------------------------------------------------------------------
(* Drafts, and rows whose status alone changes. *)

LEMMA StatusStep ==
  ASSUME LettersInv, NEW l \in Letters, NEW status \in {"draft", "generated", "sent", "signed", "cancelled", "deleted"},
         LetterWritten(l, [letters[l] EXCEPT !.status = status]), PostingsKept,
         status \in {"generated", "sent", "signed"} => letters[l].status \in {"generated", "sent", "signed"},
         story'.signed[l] # 0 => status = "signed" /\ letters[l].snapshot = story'.signed[l],
         status = "sent" => \/ letters[l].snapshot \in story'.overtaken
                            \/ \E m \in posted : m.of = l /\ m.snapshot = letters[l].snapshot,
         UNCHANGED <<sequence, taken, drawn, archive, prints, typesetter, frozen, posted>>,
         story' \in [signed : [Letters -> LetterSnapshot], overtaken : SUBSET LetterSnapshot,
                     unscanned : SUBSET LetterFile, unprinted : SUBSET LetterFile],
         story'.unscanned = story.unscanned, story'.unprinted = story.unprinted,
         story.overtaken \subseteq story'.overtaken,
         \A m \in Letters \ {l} : story'.signed[m] = story.signed[m],
         ~Generating(l),
         legalClerks' \in [LegalClerks -> LegalClerk], SnapshotsLeft',
         \A j \in LegalClerks : \/ legalClerks'[j] = legalClerks[j]
                                \/ legalClerks'[j].op = "none" /\ legalClerks'[j].file = 0
  PROVE  LettersInv'
<1>1. PICK row : row = [letters[l] EXCEPT !.status = status]
  OBVIOUS
<1>2. letters[l] \in Letter /\ LetterInv(l) /\ drawn \in Nat
  BY DrawnIs DEF LettersInv, LetterTypes, LettersTypeOK
<1>3. /\ row \in Letter /\ row.status = status /\ row.number = letters[l].number /\ row.pdf = letters[l].pdf
      /\ row.scan = letters[l].scan /\ row.snapshot = letters[l].snapshot /\ row.render = letters[l].render
      /\ row.claim = letters[l].claim /\ LetterWritten(l, row)
  <2>1. LetterWritten(l, row)
    BY <1>1
  <2>2. status \in {"draft", "generated", "sent", "signed", "cancelled", "deleted"}
    OBVIOUS
  <2>3. PICK old : old = letters[l]
    OBVIOUS
  <2>4. old \in Letter /\ row = [old EXCEPT !.status = status]
    BY <1>1, <1>2, <2>3
  <2>5. /\ row \in Letter /\ row.status = status /\ SameNumberAndFiles(old, row)
        /\ row.snapshot = old.snapshot /\ row.render = old.render /\ row.claim = old.claim
    BY ONLY <2>2, <2>4, StatusIs
  <2> QED BY <2>1, <2>3, <2>5 DEF SameNumberAndFiles
<1>4. LetterTypes'
  BY <1>3 DEF LettersInv, LetterTypes, LettersTypeOK, LetterWritten, PostingsKept
<1>5. /\ NumberInv' /\ OwnFiles' /\ \A m \in Letters \ {l} : LetterInv(m)'
      /\ \A s \in LetterSenders : SenderInv(s)'
  BY <1>2, <1>3, RowRest
<1>6. \A j \in LegalClerks : ClerkInv(j)'
  BY <1>2, <1>3, ClerksStayAtRow
<1>7. TypesetterInv'
  BY <1>3, TypesetterStaysAtRow
<1>8. RowStands(l, row)
  BY <1>2, <1>3 DEF RowStands, LetterInv
<1>9. LetterInv(l)'
  BY <1>3, <1>8, RowKeepsItsFiles
<1> QED BY <1>4, <1>5, <1>6, <1>7, <1>9 DEF LettersInv

LEMMA StoryIs ==
  ASSUME LettersInv
  PROVE  story \in [signed : [Letters -> LetterSnapshot], overtaken : SUBSET LetterSnapshot,
                    unscanned : SUBSET LetterFile, unprinted : SUBSET LetterFile]
  BY DEF LettersInv, LetterTypes

(* A letter that has been signed is called so. *)
LEMMA NotSigned ==
  ASSUME LettersInv, NEW l \in Letters, letters[l].status # "signed" PROVE story.signed[l] = 0
  BY DEF LettersInv, LetterInv

LEMMA NoGeneratorOf ==
  ASSUME LettersInv, NEW l \in Letters, letters[l].status \notin {"draft", "generated"} PROVE ~Generating(l)
  BY DEF LettersInv, ClerkInv, Generating

LEMMA CreateLetterKeeps == ASSUME LettersInv, NEW l \in Letters, CreateLetter(l) PROVE LettersInv'
<1>1. letters[l] \in Letter /\ [letters[l] EXCEPT !.status = "draft"] \in Letter
  BY StatusIs DEF LettersInv, LetterTypes, LettersTypeOK
<1>2. /\ letters[l].status = "absent" /\ letters' = [letters EXCEPT ![l] = [letters[l] EXCEPT !.status = "draft"]]
      /\ UNCHANGED <<sequence, taken, drawn, archive, prints, typesetter, frozen, posted>>
      /\ UNCHANGED <<story, legalClerks, posting>>
  BY DEF CreateLetter
<1>3. LetterWritten(l, [letters[l] EXCEPT !.status = "draft"])
  BY <1>1, <1>2, LetterIsWritten DEF LettersInv
<1>4. PostingsKept /\ SnapshotsLeft' /\ legalClerks' \in [LegalClerks -> LegalClerk] /\ ~Generating(l)
  BY <1>2, PostingsSame, SnapshotsStay, NoGeneratorOf DEF LettersInv, LetterTypes, LettersTypeOK
<1>5. story.signed[l] = 0
  BY <1>2, NotSigned
<1> QED BY <1>2, <1>3, <1>4, <1>5, StatusStep, StoryIs

LEMMA DeleteDraftKeeps == ASSUME LettersInv, NEW l \in Letters, DeleteDraft(l) PROVE LettersInv'
<1>1. letters[l] \in Letter /\ [letters[l] EXCEPT !.status = "deleted"] \in Letter
  BY StatusIs DEF LettersInv, LetterTypes, LettersTypeOK
<1>2. /\ letters[l].status = "draft" /\ letters' = [letters EXCEPT ![l] = [letters[l] EXCEPT !.status = "deleted"]]
      /\ UNCHANGED <<sequence, taken, drawn, archive, prints, typesetter, frozen, posted>>
      /\ UNCHANGED <<story, legalClerks, posting>> /\ ~Generating(l)
  BY DEF DeleteDraft
<1>3. LetterWritten(l, [letters[l] EXCEPT !.status = "deleted"])
  BY <1>1, <1>2, LetterIsWritten DEF LettersInv
<1>4. PostingsKept /\ SnapshotsLeft' /\ legalClerks' \in [LegalClerks -> LegalClerk]
  BY <1>2, PostingsSame, SnapshotsStay DEF LettersInv, LetterTypes, LettersTypeOK
<1>5. story.signed[l] = 0
  BY <1>2, NotSigned
<1> QED BY <1>2, <1>3, <1>4, <1>5, StatusStep, StoryIs

LEMMA LetterOf ==
  ASSUME LettersInv, NEW k \in LegalClerks, legalClerks[k].op \notin {"none", "delete"}
  PROVE  legalClerks[k].of \in Letters
  BY DEF LettersInv, ClerkInv

LEMMA CancelKeeps == ASSUME LettersInv, NEW k \in LegalClerks, Cancel(k) PROVE LettersInv'
<1>1. PICK l : l = legalClerks[k].of
  OBVIOUS
<1>2. /\ l \in Letters /\ letters[l] \in Letter /\ legalClerks[k].op = "cancel" /\ ~Generating(l)
      /\ UNCHANGED <<sequence, taken, drawn, archive, prints, typesetter, frozen, posted, story>>
  BY <1>1, LetterOf DEF Cancel, LettersInv, LetterTypes, LettersTypeOK
<1>3. ClerkSet(k, NoLegalClerk)
  BY LeavesSets DEF Cancel, LettersInv
<1>4. /\ legalClerks' \in [LegalClerks -> LegalClerk]
      /\ \A j \in LegalClerks : \/ legalClerks'[j] = legalClerks[j]
                                \/ legalClerks'[j].op = "none" /\ legalClerks'[j].file = 0
  BY <1>3, NoLegalClerkIs DEF ClerkSet
<1>5. SnapshotsLeft'
  BY <1>2, <1>3, NoLegalClerkIs, SnapshotsStay DEF LettersInv, ClerkSet
<1>6. CASE letters[l].status \in Allowed("cancel") /\ WriteLetter(l, [letters[l] EXCEPT !.status = "cancelled"])
  <2>1. letters[l].status # "signed"
    BY <1>6 DEF Allowed
  <2>2. [letters[l] EXCEPT !.status = "cancelled"] \in Letter
    BY <1>2, StatusIs
  <2>3. LetterWritten(l, [letters[l] EXCEPT !.status = "cancelled"]) /\ PostingsKept
    BY <1>2, <1>6, <2>2, LetterWrites DEF LettersInv
  <2>4. story.signed[l] = 0
    BY <1>2, <2>1, NotSigned
  <2> QED BY <1>2, <1>4, <1>5, <2>3, <2>4, StatusStep, StoryIs
<1>7. CASE UNCHANGED <<letters, posting>>
  <2>1. NoLegalClerk.file \in {0, legalClerks[k].file} /\ NoLegalClerk.op # "generate"
    BY NoLegalClerkIs
  <2>2. drawn \in LetterFile /\ drawn \in Nat /\ archive \subseteq 1..MaxLetterFiles
    BY DrawnIs DEF LettersInv, LetterTypes, LettersTypeOK
  <2>3. ClerkInv(k)'
    BY <1>2, <1>3, <2>2, ClerkIsDone, NoLegalClerkIs DEF ClerkSet
  <2> QED BY <1>2, <1>3, <1>5, <1>7, <2>1, <2>2, <2>3, ClerkStep, NoLegalClerkIs
<1> QED BY <1>1, <1>6, <1>7 DEF Cancel

LEMMA MarkLetterSentKeeps == ASSUME LettersInv, NEW s \in LetterSenders, MarkLetterSent(s) PROVE LettersInv'
<1>1. PICK l : l = posting[s].of
  OBVIOUS
<1>2. /\ posting[s].step = "accepted" /\ ~Generating(l)
      /\ UNCHANGED <<sequence, taken, drawn, archive, prints, typesetter, frozen, posted>>
      /\ UNCHANGED legalClerks
  BY <1>1 DEF MarkLetterSent
<1>3. SenderInv(s)
  BY DEF LettersInv
<1>4. l \in Letters /\ \E m \in posted : m.of = l /\ m.snapshot = posting[s].snapshot
  BY <1>1, <1>2, <1>3 DEF SenderInv
<1>5. /\ letters[l] \in Letter /\ LetterInv(l) /\ legalClerks' \in [LegalClerks -> LegalClerk] /\ SnapshotsLeft'
      /\ letters[l].snapshot \in LetterSnapshot
  BY <1>2, <1>4, SnapshotsStay DEF LettersInv, LetterTypes, LettersTypeOK, Letter
<1>6. ASSUME letters[l].status \in {"generated", "sent", "signed"},
             letters' = [letters EXCEPT ![l].status = IF letters[l].status = "generated" THEN "sent" ELSE @],
             posting' = [r \in LetterSenders |->
                IF r = s THEN NoPosting
                ELSE IF posting[r].of = l THEN [posting[r] EXCEPT !.same = FALSE] ELSE posting[r]],
             story' = IF letters[l].status = "generated" /\ letters[l].snapshot # posting[s].snapshot
                        THEN [story EXCEPT !.overtaken = @ \cup {letters[l].snapshot}] ELSE story
      PROVE  LettersInv'
  <2>1. PICK status : status = IF letters[l].status = "generated" THEN "sent" ELSE letters[l].status
    OBVIOUS
  <2>2. /\ status \in {"sent", "signed"} /\ letters' = [letters EXCEPT ![l] = [letters[l] EXCEPT !.status = status]]
        /\ letters[l].status # "generated" => status = letters[l].status
        /\ letters[l].status = "generated" => status = "sent"
    BY <1>6, <2>1
  <2>3. [letters[l] EXCEPT !.status = status] \in Letter
    BY <1>5, <2>2, StatusIs
  <2>4. LetterWritten(l, [letters[l] EXCEPT !.status = status])
    BY <1>4, <2>2, <2>3, LetterIsWritten DEF LettersInv
  <2>5. ASSUME NEW r \in LetterSenders
        PROVE  /\ posting'[r] \in Posting
               /\ \/ posting'[r].step = "idle"
                  \/ /\ posting'[r].step = posting[r].step /\ posting'[r].of = posting[r].of
                     /\ posting'[r].snapshot = posting[r].snapshot /\ posting'[r].number = posting[r].number
    <3>1. posting[r] \in Posting
      BY DEF LettersInv, LetterTypes, LettersTypeOK
    <3>0. /\ r = s => posting'[r] = NoPosting
          /\ r # s /\ posting[r].of = l => posting'[r] = [posting[r] EXCEPT !.same = FALSE]
          /\ r # s /\ posting[r].of # l => posting'[r] = posting[r]
      BY <1>6
    <3>2. CASE r = s
      BY <3>0, <3>2, NoPostingIs
    <3>3. CASE r # s /\ posting[r].of = l
      BY <3>0, <3>1, <3>3, NotSame
    <3>4. CASE r # s /\ posting[r].of # l
      BY <3>0, <3>1, <3>4
    <3> QED BY <3>2, <3>3, <3>4
  <2>6. posting' = [r \in LetterSenders |-> posting'[r]]
    BY <1>6
  <2>7. PostingsKept
    <3>1. posting' \in [LetterSenders -> Posting]
      BY <2>5, <2>6
    <3> QED BY <2>5, <3>1 DEF PostingsKept
  <2>8. PICK S : S = IF letters[l].status = "generated" /\ letters[l].snapshot # posting[s].snapshot
                       THEN story.overtaken \cup {letters[l].snapshot} ELSE story.overtaken
    OBVIOUS
  <2>9. /\ S \in SUBSET LetterSnapshot /\ story.overtaken \subseteq S /\ story' = [story EXCEPT !.overtaken = S]
    <3>1. S \in SUBSET LetterSnapshot /\ story.overtaken \subseteq S
      BY <1>5, <2>8, StoryIs
    <3>2. story = [story EXCEPT !.overtaken = story.overtaken]
      BY StoryIs
    <3> QED BY <1>6, <2>8, <3>1, <3>2
  <2>10. /\ story' \in [signed : [Letters -> LetterSnapshot], overtaken : SUBSET LetterSnapshot,
                        unscanned : SUBSET LetterFile, unprinted : SUBSET LetterFile]
         /\ story'.unscanned = story.unscanned /\ story'.unprinted = story.unprinted
         /\ story'.overtaken = S /\ story'.signed = story.signed
    BY <2>9, StoryIs
  <2>11. status = "sent" => \/ letters[l].snapshot \in story'.overtaken
                            \/ \E m \in posted : m.of = l /\ m.snapshot = letters[l].snapshot
    <3>1. CASE letters[l].status = "generated"
      BY <1>4, <2>8, <2>10, <3>1
    <3>2. CASE letters[l].status = "sent"
      BY <1>5, <2>9, <2>10, <3>2 DEF LetterInv
    <3> QED BY <1>6, <2>2, <3>1, <3>2
  <2>12. story'.signed[l] # 0 => status = "signed" /\ letters[l].snapshot = story'.signed[l]
    BY <1>5, <2>2, <2>10 DEF LetterInv
  <2> QED BY <1>2, <1>4, <1>5, <1>6, <2>2, <2>4, <2>7, <2>9, <2>10, <2>11, <2>12, StatusStep
<1>7. ASSUME posting' = [posting EXCEPT ![s] = NoPosting], UNCHANGED <<letters, story>> PROVE LettersInv'
  BY <1>2, <1>7, SenderGone DEF OnlyPosting, LettersInv, LetterTypes, LettersTypeOK
<1> QED BY <1>1, <1>6, <1>7 DEF MarkLetterSent
-----------------------------------------------------------------------------
(* The document worker. *)

LEMMA StoredIs ==
  ASSUME NEW t \in Typesetter, NEW step \in {"stored", "deleting"}, NEW u, u = [t EXCEPT !.step = step]
  PROVE  /\ u \in Typesetter /\ u.step = step /\ u.claim = t.claim
         /\ u.of = t.of /\ u.snapshot = t.snapshot
  BY DEF Typesetter

LEMMA LegalTypes ==
  ASSUME LettersInv
  PROVE  /\ letters \in [Letters -> Letter] /\ drawn \in LetterFile /\ archive \subseteq 1..MaxLetterFiles
         /\ prints \in [1..MaxLetterFiles -> LetterSnapshot] /\ legalClerks \in [LegalClerks -> LegalClerk]
         /\ posting \in [LetterSenders -> Posting] /\ typesetter \in Typesetter /\ taken \in LetterSnapshot
         /\ sequence \in Nat /\ LetterTypes /\ drawn \in Nat /\ MaxLetterFiles \in Nat
  BY DrawnIs DEF LettersInv, LetterTypes, LettersTypeOK

LEMMA StorePDFKeeps == ASSUME LettersInv, StorePDF PROVE LettersInv'
<1>1. PICK c, t : c = typesetter.claim /\ t = [typesetter EXCEPT !.step = "stored"]
  OBVIOUS
<1>2. /\ typesetter.step = "claimed" /\ archive' = archive \cup {c} /\ typesetter' = t
      /\ prints' = [prints EXCEPT ![c] = typesetter.snapshot]
      /\ UNCHANGED <<letters, sequence, taken, drawn, legalClerks, posting, frozen, posted, story>>
  BY <1>1 DEF StorePDF
<1>3. /\ typesetter \in Typesetter /\ TypesetterInv /\ c \in LetterFile /\ typesetter.snapshot \in LetterSnapshot
  BY <1>1, LegalTypes DEF LettersInv, Typesetter
<1>4. /\ t \in Typesetter /\ t.step = "stored" /\ t.claim = c /\ t.of = typesetter.of
      /\ t.snapshot = typesetter.snapshot
  <2>1. t = [typesetter EXCEPT !.step = "stored"] /\ c = typesetter.claim /\ typesetter \in Typesetter
    BY <1>1, <1>3
  <2> QED BY ONLY <2>1, StoredIs
<1>5. c # 0 /\ ~InUse(c) /\ c \notin story.unprinted
  BY <1>1, <1>2, <1>3 DEF TypesetterInv
<1>6. c \in 1..MaxLetterFiles
  BY <1>3, <1>5, LegalTypes DEF LetterFile
<1>7. /\ prints' \in [1..MaxLetterFiles -> LetterSnapshot] /\ prints'[c] = typesetter.snapshot
      /\ \A f : f # c => prints'[f] = prints[f]
  BY <1>2, <1>3, <1>6, LegalTypes
<1>8. LetterTypes'
  BY <1>2, <1>4, <1>6, <1>7, LegalTypes DEF LetterTypes, LettersTypeOK
<1>9. SnapshotsLeft'
  BY <1>2, SnapshotsStay DEF LettersInv
<1>10. \A m \in Letters : LetterKept(m)
  <2> TAKE m \in Letters
  <2>1. letters[m].pdf # c
    BY <1>5 DEF InUse
  <2> QED BY <1>2, <1>7, <2>1, LegalTypes DEF LetterKept
<1>11. ASSUME NEW k \in LegalClerks PROVE ClerkInv(k)'
  <2>1. ClerkInv(k)
    BY DEF LettersInv
  <2> QED BY <1>2, <2>1 DEF ClerkInv, Generators
<1>12. TypesetterInv'
  BY <1>1, <1>2, <1>3, <1>4, <1>7 DEF TypesetterInv, InUse
<1> QED BY <1>2, <1>8, <1>9, <1>10, <1>11, <1>12, LegalTypes, NoRowWritten

LEMMA DeleteReplacedPDFKeeps == ASSUME LettersInv, DeleteReplacedPDF PROVE LettersInv'
<1>1. PICK c : c = typesetter.claim
  OBVIOUS
<1>2. /\ typesetter.step = "deleting" /\ archive' = archive \ {c} /\ typesetter' = NoRender
      /\ UNCHANGED <<letters, sequence, taken, drawn, prints, legalClerks, posting, frozen, posted, story>>
  BY <1>1 DEF DeleteReplacedPDF
<1>3. /\ c # 0 /\ \A l \in Letters : c # letters[l].scan /\ (c = letters[l].pdf => c \in story.unprinted)
      /\ \A k \in LegalClerks : legalClerks[k].op # "delete" => legalClerks[k].file # c
  BY <1>1, <1>2 DEF LettersInv, TypesetterInv, InUse
<1>4. LetterTypes' /\ SnapshotsLeft'
  <2>1. LetterTypes'
    BY <1>2, LegalTypes, NoRenderIs DEF LetterTypes, LettersTypeOK
  <2> QED BY <1>2, <2>1, SnapshotsStay DEF LettersInv
<1>5. \A m \in Letters : LetterKept(m)
  BY <1>2, <1>3, LegalTypes DEF LetterKept
<1>6. ASSUME NEW k \in LegalClerks PROVE ClerkInv(k)'
  <2>1. ClerkInv(k)
    BY DEF LettersInv
  <2> QED BY <1>2, <1>3, <2>1 DEF ClerkInv, Generators
<1>7. TypesetterInv'
  BY <1>2, NoRenderIs DEF TypesetterInv
<1> QED BY <1>2, <1>4, <1>5, <1>6, <1>7, LegalTypes, NoRowWritten

(* Only the worker changes. *)
LEMMA OnlyTypesetter ==
  ASSUME LettersInv, typesetter' \in Typesetter, TypesetterInv',
         UNCHANGED <<letters, sequence, taken, drawn, archive, prints, legalClerks, posting, frozen, posted, story>>
  PROVE  LettersInv'
<1>1. LetterTypes' /\ SnapshotsLeft'
  <2>1. LetterTypes'
    BY LegalTypes DEF LettersInv, LetterTypes, LettersTypeOK
  <2> QED BY <2>1, SnapshotsStay DEF LettersInv
<1>2. \A m \in Letters : LetterKept(m)
  BY LegalTypes DEF LetterKept
<1>3. ASSUME NEW k \in LegalClerks PROVE ClerkInv(k)'
  <2>1. ClerkInv(k)
    BY DEF LettersInv
  <2> QED BY <2>1 DEF ClerkInv, Generators
<1> QED BY <1>1, <1>2, <1>3, LegalTypes, NoRowWritten

(* A render that failed, under its claim or before it. *)
LEMMA FailedStep ==
  ASSUME LettersInv, NEW l \in Letters, ~Generating(l),
         WriteLetter(l, [letters[l] EXCEPT !.render = "failed", !.claim = 0]),
         UNCHANGED <<sequence, taken, drawn, archive, prints, legalClerks, frozen, posted, story>>,
         typesetter' \in {typesetter, NoRender}
  PROVE  LettersInv'
<1>1. PICK row : row = [letters[l] EXCEPT !.render = "failed", !.claim = 0]
  OBVIOUS
<1>2. letters[l] \in Letter /\ LetterInv(l) /\ 0 \in LetterFile /\ letters[l].pdf \in LetterFile
  BY LegalTypes DEF LettersInv, Letter, LetterFile
<1>3. /\ row \in Letter /\ row.status = letters[l].status /\ row.number = letters[l].number
      /\ row.snapshot = letters[l].snapshot /\ row.render = "failed" /\ row.claim = 0
      /\ row.pdf = letters[l].pdf /\ row.scan = letters[l].scan
  <2>1. PICK failed, zero, z : failed = "failed" /\ zero = 0 /\ z = letters[l]
    OBVIOUS
  <2>2. failed \in {"rendering", "ready", "failed"} /\ zero \in LetterFile /\ z \in Letter
        /\ row = [z EXCEPT !.render = failed, !.claim = zero]
    BY <1>1, <1>2, <2>1
  <2>3. /\ row \in Letter /\ row.status = z.status /\ row.number = z.number
        /\ row.snapshot = z.snapshot /\ row.render = failed /\ row.claim = zero
        /\ row.pdf = z.pdf /\ row.scan = z.scan
    BY ONLY <2>2 DEF Letter
  <2> QED BY <2>1, <2>3
<1>4. LetterWritten(l, row) /\ PostingsKept
  BY <1>1, <1>3, LegalTypes, LetterWrites
<1>5. LetterTypes' /\ SnapshotsLeft'
  <2>1. typesetter' \in Typesetter
    BY NoRenderIs, LegalTypes
  <2>2. LetterTypes'
    BY <1>4, <2>1 DEF LettersInv, LetterTypes, LettersTypeOK, LetterWritten, PostingsKept
  <2> QED BY <2>2, SnapshotsStay DEF LettersInv
<1>6. /\ NumberInv' /\ OwnFiles' /\ \A m \in Letters \ {l} : LetterInv(m)'
      /\ \A s \in LetterSenders : SenderInv(s)'
  BY <1>3, <1>4, RowRest, LegalTypes
<1>7. \A j \in LegalClerks : ClerkInv(j)'
  BY <1>3, <1>4, ClerksStayAtRow, LegalTypes
<1>8. TypesetterInv'
  <2>1. CASE typesetter' = typesetter
    BY <1>3, <1>4, <2>1, TypesetterStaysAtRow, LegalTypes DEF LettersInv, OwnFiles
  <2>2. CASE typesetter' = NoRender
    BY <2>2, NoRenderIs DEF TypesetterInv
  <2> QED BY <2>1, <2>2
<1>9. RowStands(l, row)
  BY <1>2, <1>3 DEF RowStands, LetterInv
<1>10. LetterInv(l)'
  BY <1>3, <1>4, <1>9, RowKeepsItsFiles
<1> QED BY <1>5, <1>6, <1>7, <1>8, <1>10 DEF LettersInv

LEMMA FailRenderKeeps == ASSUME LettersInv, FailRender PROVE LettersInv'
<1>1. PICK l : l = typesetter.of
  OBVIOUS
<1>2. l \in Letters
  BY <1>1 DEF FailRender, LettersInv, TypesetterInv
<1>3. CASE WriteLetter(l, [letters[l] EXCEPT !.render = "failed", !.claim = 0])
  BY <1>1, <1>2, <1>3, FailedStep DEF FailRender
<1>4. CASE UNCHANGED <<letters, posting>>
  <2>1. /\ UNCHANGED <<letters, posting>> /\ typesetter' = NoRender
        /\ UNCHANGED <<sequence, taken, drawn, archive, prints, legalClerks, frozen, posted, story>>
    BY <1>1, <1>4 DEF FailRender
  <2>2. typesetter' \in Typesetter /\ TypesetterInv'
    BY <2>1, NoRenderIs DEF TypesetterInv
  <2> QED BY <2>1, <2>2, OnlyTypesetter
<1> QED BY <1>1, <1>3, <1>4 DEF FailRender

LEMMA FailUnclaimedKeeps == ASSUME LettersInv, NEW l \in Letters, FailUnclaimed(l) PROVE LettersInv'
  BY FailedStep DEF FailUnclaimed

LEMMA ClaimRenderKeeps == ASSUME LettersInv, NEW l \in Letters, ClaimRender(l) PROVE LettersInv'
<1>1. PICK f, row : f = drawn + 1 /\ row = [letters[l] EXCEPT !.render = "rendering", !.claim = f]
  OBVIOUS
<1>2. PICK t : t = [step |-> "claimed", of |-> l, claim |-> f, snapshot |-> letters[l].snapshot]
  OBVIOUS
<1>3. /\ letters' = [letters EXCEPT ![l] = row] /\ drawn' = f /\ typesetter' = t /\ ~Generating(l)
      /\ drawn < MaxLetterFiles /\ Rendered(letters[l])
      /\ UNCHANGED <<sequence, taken, archive, prints, legalClerks, posting, frozen, posted, story>>
  BY <1>1, <1>2 DEF ClaimRender
<1>4. /\ f \in LetterFile /\ f \in Nat /\ f # 0 /\ drawn <= f /\ drawn < f
  BY <1>1, <1>3, LegalTypes DEF LetterFile
<1>5. letters[l] \in Letter /\ LetterInv(l) /\ letters[l].pdf \in LetterFile
  BY LegalTypes DEF LettersInv, Letter
<1>6. /\ row \in Letter /\ row.status = letters[l].status /\ row.number = letters[l].number
      /\ row.snapshot = letters[l].snapshot /\ row.render = "rendering" /\ row.claim = f
      /\ row.pdf = letters[l].pdf /\ row.scan = letters[l].scan
  <2>1. PICK rendering, z : rendering = "rendering" /\ z = letters[l]
    OBVIOUS
  <2>2. rendering \in {"rendering", "ready", "failed"} /\ f \in LetterFile /\ z \in Letter
        /\ row = [z EXCEPT !.render = rendering, !.claim = f]
    BY <1>1, <1>4, <1>5, <2>1
  <2>3. /\ row \in Letter /\ row.status = z.status /\ row.number = z.number
        /\ row.snapshot = z.snapshot /\ row.render = rendering /\ row.claim = f
        /\ row.pdf = z.pdf /\ row.scan = z.scan
    BY ONLY <2>2 DEF Letter
  <2> QED BY <2>1, <2>3
<1>7. LetterWritten(l, row) /\ PostingsKept
  BY <1>3, <1>6, LegalTypes, LetterIsWritten, PostingsSame
<1>8. t \in Typesetter /\ t.step = "claimed" /\ t.of = l /\ t.claim = f /\ t.snapshot = letters[l].snapshot
  BY <1>2, <1>4, <1>5 DEF Typesetter, Letter
<1>9. LetterTypes'
  BY <1>3, <1>4, <1>7, <1>8 DEF LettersInv, LetterTypes, LettersTypeOK, LetterWritten, PostingsKept
<1>10. SnapshotsLeft'
  BY <1>3, SnapshotsStay DEF LettersInv
<1>11. /\ NumberInv' /\ OwnFiles' /\ \A m \in Letters \ {l} : LetterInv(m)'
       /\ \A s \in LetterSenders : SenderInv(s)'
  BY <1>3, <1>4, <1>6, <1>7, RowRest
<1>12. \A j \in LegalClerks : ClerkInv(j)'
  BY <1>3, <1>4, <1>6, <1>7, ClerksStayAtRow
<1>13. letters[l].pdf <= f /\ letters[l].scan <= f
  BY <1>4, <1>5, LegalTypes DEF LetterInv, Letter, LetterFile
<1>14. LetterInv(l)'
  <2>1. letters'[l] = row
    BY <1>7 DEF LetterWritten
  <2>2. row.status \in {"generated", "sent", "signed"} => row.number # 0 /\ row.snapshot # 0
    BY <1>5, <1>6 DEF LetterInv
  <2>3. /\ row.pdf # 0 => row.pdf \in archive \cup story.unprinted
        /\ row.scan # 0 => row.scan \in archive \cup story.unscanned
        /\ story.signed[l] # 0 => row.status = "signed" /\ row.snapshot = story.signed[l]
        /\ row.status = "sent" => row.snapshot \in story.overtaken \/ \E m \in posted : m.of = l /\ m.snapshot = row.snapshot
    BY <1>5, <1>6 DEF LetterInv
  <2>4. row.pdf <= f /\ row.scan <= f /\ row.claim <= f
    BY <1>4, <1>6, <1>13
  <2> QED BY <1>3, <1>6, <2>1, <2>2, <2>3, <2>4 DEF LetterInv
<1>15. TypesetterInv'
  <2>1. f \notin story.unscanned \cup story.unprinted
    <3>1. \A g \in story.unscanned \cup story.unprinted : g <= drawn
      BY DEF LettersInv, OwnFiles
    <3> QED BY <1>4, <3>1, LegalTypes
  <2>2. ASSUME NEW m \in Letters PROVE f # letters'[m].pdf /\ f # letters'[m].scan
    <3>1. letters[m].pdf <= drawn /\ letters[m].scan <= drawn /\ letters[m].pdf \in Nat /\ letters[m].scan \in Nat
      BY LegalTypes DEF LettersInv, LetterInv, Letter, LetterFile
    <3>2. letters'[m].pdf = letters[m].pdf /\ letters'[m].scan = letters[m].scan
      BY <1>6, <1>7 DEF LetterWritten
    <3>3. f # letters[m].pdf /\ f # letters[m].scan
      BY <1>4, <3>1, LegalTypes
    <3> QED BY <3>2, <3>3
  <2>3. ASSUME NEW k \in LegalClerks PROVE legalClerks'[k].file # f
    <3>1. legalClerks[k].file <= drawn /\ legalClerks[k].file \in Nat
      BY LegalTypes DEF LettersInv, ClerkInv, LegalClerk, LetterFile
    <3> QED BY <1>3, <1>4, <3>1, LegalTypes
  <2>4. letters'[l].snapshot = t.snapshot /\ t.snapshot # 0
    BY <1>3, <1>6, <1>7, <1>8 DEF LetterWritten, Rendered
  <2>5. ~InUse(f)'
    BY <1>3, <2>1, <2>2, <2>3 DEF InUse
  <2> QED BY <1>3, <1>4, <1>8, <2>1, <2>4, <2>5 DEF TypesetterInv
<1> QED BY <1>9, <1>10, <1>11, <1>12, <1>14, <1>15 DEF LettersInv

(* The PDF is recorded; the one it replaced is deleted, or the new one if the recording  *)
(* looked like a failure. *)
LEMMA PrintedStep ==
  ASSUME LettersInv, typesetter.step = "stored", NEW l \in Letters, l = typesetter.of, ~Generating(l),
         Claimed(letters[l]), WriteLetter(l, Printed(letters[l])), NEW lost \in BOOLEAN,
         ~lost => DeletesReplaced(letters[l].pdf) /\ UNCHANGED story,
         lost => DeletesOwn /\ story' = [story EXCEPT !.unprinted = @ \cup {typesetter.claim}],
         UNCHANGED <<sequence, taken, drawn, archive, prints, legalClerks, frozen, posted>>
  PROVE  LettersInv'
<1>1. PICK c, old : c = typesetter.claim /\ old = letters[l].pdf
  OBVIOUS
<1>2. TypesetterInv /\ typesetter \in Typesetter /\ OwnFiles
  BY LegalTypes DEF LettersInv
<1>3. /\ c # 0 /\ c <= drawn /\ c \notin story.unscanned /\ c \notin story.unprinted /\ typesetter.snapshot # 0
      /\ c \in archive /\ prints[c] = typesetter.snapshot /\ letters[l].snapshot = typesetter.snapshot
      /\ \A m \in Letters : c # letters[m].pdf /\ c # letters[m].scan
      /\ \A k \in LegalClerks : legalClerks[k].file # c
  BY <1>1, <1>2 DEF TypesetterInv, InUse, Claimed
<1>4. /\ letters[l] \in Letter /\ LetterInv(l) /\ c \in LetterFile /\ 0 \in LetterFile /\ old \in LetterFile
  BY <1>1, <1>2, <1>3, LegalTypes DEF LettersInv, Letter, LetterFile, Typesetter
<1>5. PICK row : row = Printed(letters[l])
  OBVIOUS
<1>6. /\ row \in Letter /\ row.status = letters[l].status /\ row.number = letters[l].number
      /\ row.snapshot = letters[l].snapshot /\ row.render = "ready" /\ row.claim = 0
      /\ row.pdf = c /\ row.scan = letters[l].scan
  <2>1. PICK ready, zero, z : ready = "ready" /\ zero = 0 /\ z = letters[l]
    OBVIOUS
  <2>2. /\ ready \in {"rendering", "ready", "failed"} /\ zero \in LetterFile /\ z \in Letter /\ c \in LetterFile
        /\ row = [z EXCEPT !.render = ready, !.claim = zero, !.pdf = c]
    BY <1>1, <1>4, <1>5, <2>1 DEF Printed
  <2>3. /\ row \in Letter /\ row.status = z.status /\ row.number = z.number
        /\ row.snapshot = z.snapshot /\ row.render = ready /\ row.claim = zero
        /\ row.pdf = c /\ row.scan = z.scan
    BY ONLY <2>2 DEF Letter
  <2> QED BY <2>1, <2>3
<1>7. LetterWritten(l, row) /\ PostingsKept
  BY <1>5, <1>6, LetterWrites, LegalTypes
<1>8. /\ typesetter' \in Typesetter /\ typesetter'.step \in {"idle", "deleting"}
      /\ typesetter'.step # "idle" => typesetter'.claim = IF lost THEN c ELSE old
      /\ typesetter'.step # "idle" => lost \/ old # 0
  <2>1. CASE lost
    <3>1. PICK t : t = typesetter
      OBVIOUS
    <3>2. typesetter' = [t EXCEPT !.step = "deleting"] /\ t \in Typesetter
      BY <1>2, <2>1, <3>1 DEF DeletesOwn
    <3>3. typesetter' \in Typesetter /\ typesetter'.step = "deleting" /\ typesetter'.claim = t.claim
      BY ONLY <3>2 DEF Typesetter
    <3> QED BY <1>1, <2>1, <3>1, <3>3
  <2>2. CASE ~lost /\ old = 0
    BY <1>1, <2>2, NoRenderIs DEF DeletesReplaced
  <2>3. CASE ~lost /\ old # 0
    <3>1. PICK t : t = typesetter
      OBVIOUS
    <3>2. typesetter' = [t EXCEPT !.step = "deleting", !.claim = old] /\ t \in Typesetter /\ old \in LetterFile
      BY <1>1, <1>2, <1>4, <2>3, <3>1 DEF DeletesReplaced
    <3>3. typesetter' \in Typesetter /\ typesetter'.step = "deleting" /\ typesetter'.claim = old
      BY ONLY <3>2 DEF Typesetter
    <3> QED BY <2>3, <3>3
  <2> QED BY <2>1, <2>2, <2>3
<1>9. /\ story' \in [signed : [Letters -> LetterSnapshot], overtaken : SUBSET LetterSnapshot,
                      unscanned : SUBSET LetterFile, unprinted : SUBSET LetterFile]
      /\ story'.signed = story.signed /\ story'.overtaken = story.overtaken
      /\ story'.unscanned = story.unscanned
      /\ story'.unprinted = IF lost THEN story.unprinted \cup {c} ELSE story.unprinted
  <2>1. PICK z, U : z = story /\ U = story.unprinted \cup {c}
    OBVIOUS
  <2>2. /\ z \in [signed : [Letters -> LetterSnapshot], overtaken : SUBSET LetterSnapshot,
                   unscanned : SUBSET LetterFile, unprinted : SUBSET LetterFile]
        /\ U \in SUBSET LetterFile
    BY <1>4, <2>1, StoryIs
  <2>3. PICK y : y = [z EXCEPT !.unprinted = U]
    OBVIOUS
  <2>4. /\ y \in [signed : [Letters -> LetterSnapshot], overtaken : SUBSET LetterSnapshot,
                   unscanned : SUBSET LetterFile, unprinted : SUBSET LetterFile]
        /\ y.signed = z.signed /\ y.overtaken = z.overtaken /\ y.unscanned = z.unscanned /\ y.unprinted = U
    BY ONLY <2>2, <2>3
  <2>5. lost => story' = y
    BY <1>1, <2>1, <2>3
  <2> QED BY <2>1, <2>2, <2>4, <2>5
<1>10. story.unprinted \subseteq story'.unprinted
  BY <1>9
<1>11. LetterTypes' /\ SnapshotsLeft'
  <2>1. LetterTypes'
    BY <1>7, <1>8, <1>9 DEF LettersInv, LetterTypes, LettersTypeOK, LetterWritten, PostingsKept
  <2> QED BY <2>1, SnapshotsStay DEF LettersInv
<1>12. /\ letters'[l] = row /\ \A m \in Letters \ {l} : letters'[m] = letters[m]
  BY <1>7 DEF LetterWritten
<1>13. NumberInv' /\ \A s \in LetterSenders : SenderInv(s)'
  <2>1. \A m \in Letters : letters'[m].number = letters[m].number
    BY <1>6, <1>12
  <2> QED BY <1>7, <2>1, NumbersStay, SendersStay DEF LettersInv, SameNumbers
<1>14. \A m \in Letters \ {l} : LetterInv(m)'
  <2> TAKE m \in Letters \ {l}
  <2>1. LetterKept(m)
    BY <1>9, <1>10, <1>12, LegalTypes DEF LetterKept
  <2> QED BY <2>1, LetterStays, LegalTypes
<1>15. LetterInv(l)'
  <2>1. /\ row.status \in {"generated", "sent", "signed"} => row.number # 0 /\ row.snapshot # 0
        /\ row.scan # 0 => row.scan \in archive \cup story'.unscanned
        /\ story'.signed[l] # 0 => row.status = "signed" /\ row.snapshot = story'.signed[l]
        /\ row.status = "sent" => row.snapshot \in story'.overtaken \/ \E m \in posted : m.of = l /\ m.snapshot = row.snapshot
        /\ row.scan <= drawn /\ row.claim <= drawn
    BY <1>4, <1>6, <1>9, LegalTypes DEF LetterInv
  <2>2. row.pdf \in archive /\ row.pdf # 0 /\ row.pdf <= drawn /\ prints[row.pdf] = row.snapshot /\ row.snapshot # 0
    BY <1>3, <1>6
  <2> QED BY <1>12, <2>1, <2>2 DEF LetterInv
<1>16. OwnFiles'
  <2>1. ASSUME NEW m \in Letters PROVE LetterFiles(m)' \subseteq (IF m = l THEN LetterFiles(m) \cup {c} ELSE LetterFiles(m))
    BY <1>6, <1>12 DEF LetterFiles
  <2>2. \A m, n \in Letters : m # n => LetterFiles(m)' \cap LetterFiles(n)' = {}
    BY <1>2, <1>3, <2>1 DEF OwnFiles, LetterFiles
  <2>3. ASSUME NEW m \in Letters, letters'[m].pdf # 0
        PROVE  letters'[m].pdf # letters'[m].scan /\ letters'[m].pdf \notin story'.unscanned
    <3>1. CASE m = l
      BY <1>3, <1>6, <1>9, <1>12, <3>1
    <3>2. CASE m # l
      BY <1>2, <1>9, <1>12, <2>3, <3>2 DEF OwnFiles
    <3> QED BY <3>1, <3>2
  <2>4. \A f \in story'.unscanned \cup story'.unprinted : f <= drawn'
    BY <1>2, <1>3, <1>9 DEF OwnFiles
  <2> QED BY <2>2, <2>3, <2>4 DEF OwnFiles
<1>17. \A j \in LegalClerks : ClerkInv(j)'
  BY <1>3, <1>6, <1>7, <1>9, ClerksStayAtRow, LegalTypes
<1>18. ASSUME typesetter'.step # "idle" PROVE ~InUse(typesetter.claim)' /\ typesetter'.claim # 0 /\ typesetter'.claim <= drawn
  <2>1. PICK f : f = typesetter'.claim
    OBVIOUS
  <2>2. CASE lost
    <3>1. f = c /\ f \in story'.unprinted
      BY <1>8, <1>9, <1>18, <2>1, <2>2
    <3>2. \A m \in Letters : f # letters'[m].scan
      BY <1>3, <1>6, <1>12, <3>1
    <3>3. ~InUse(f)'
      BY <1>3, <1>9, <3>1, <3>2 DEF InUse
    <3> QED BY <1>3, <2>1, <3>1, <3>3 DEF InUse
  <2>3. CASE ~lost
    <3>1. f = old /\ f # 0 /\ f <= drawn
      BY <1>1, <1>4, <1>8, <1>18, <2>1, <2>3 DEF LetterInv
    <3>2. f # letters[l].scan /\ f \notin story.unscanned /\ f # c
      BY <1>1, <1>2, <1>3, <3>1 DEF OwnFiles
    <3>3. ASSUME NEW m \in Letters PROVE f # letters'[m].pdf /\ f # letters'[m].scan
      <4>1. CASE m = l
        BY <1>6, <1>12, <3>2, <4>1
      <4>2. CASE m # l
        BY <1>1, <1>2, <1>12, <3>1, <4>2 DEF OwnFiles, LetterFiles
      <4> QED BY <4>1, <4>2
    <3>4. ASSUME NEW k \in LegalClerks PROVE legalClerks[k].file # f
      BY <1>1, <3>1 DEF LettersInv, ClerkInv
    <3>5. ~InUse(f)'
      BY <1>9, <3>2, <3>3, <3>4 DEF InUse
    <3> QED BY <2>1, <3>1, <3>5 DEF InUse
  <2> QED BY <2>2, <2>3
<1>19. TypesetterInv'
  BY <1>8, <1>18 DEF TypesetterInv
<1> QED BY <1>11, <1>13, <1>14, <1>15, <1>16, <1>17, <1>19 DEF LettersInv

LEMMA CompleteRenderKeeps == ASSUME LettersInv, CompleteRender PROVE LettersInv'
<1>1. PICK l : l = typesetter.of
  OBVIOUS
<1>2. /\ typesetter.step = "stored" /\ ~Generating(l) /\ TypesetterInv /\ typesetter \in Typesetter
      /\ UNCHANGED <<sequence, taken, drawn, archive, prints, legalClerks, frozen, posted>>
  BY <1>1, LegalTypes DEF CompleteRender, LettersInv
<1>3. l \in Letters
  BY <1>1, <1>2 DEF TypesetterInv
<1>4. ASSUME Claimed(letters[l]), WriteLetter(l, Printed(letters[l])),
             DeletesReplaced(letters[l].pdf), UNCHANGED story
      PROVE  LettersInv'
  <2>1. PICK lost \in BOOLEAN : ~lost
    OBVIOUS
  <2> QED BY <1>1, <1>2, <1>3, <1>4, <2>1, PrintedStep
<1>5. ASSUME Claimed(letters[l]), WriteLetter(l, Printed(letters[l])), DeletesOwn,
             story' = [story EXCEPT !.unprinted = @ \cup {typesetter.claim}]
      PROVE  LettersInv'
  <2>1. PICK lost \in BOOLEAN : lost
    OBVIOUS
  <2> QED BY <1>1, <1>2, <1>3, <1>5, <2>1, PrintedStep
<1>6. ASSUME DeletesOwn, UNCHANGED <<letters, posting, story>> PROVE LettersInv'
  <2>1. /\ typesetter' \in Typesetter /\ typesetter'.step = "deleting" /\ typesetter'.claim = typesetter.claim
    <3>1. PICK t : t = typesetter
      OBVIOUS
    <3>2. typesetter' = [t EXCEPT !.step = "deleting"] /\ t \in Typesetter
      BY <1>2, <1>6, <3>1 DEF DeletesOwn
    <3>3. typesetter' \in Typesetter /\ typesetter'.step = "deleting" /\ typesetter'.claim = t.claim
      BY ONLY <3>2 DEF Typesetter
    <3> QED BY <3>1, <3>3
  <2>2. TypesetterInv'
    BY <1>2, <1>6, <2>1 DEF TypesetterInv, InUse
  <2> QED BY <1>2, <1>6, <2>1, <2>2, OnlyTypesetter
<1> QED BY <1>1, <1>4, <1>5, <1>6 DEF CompleteRender

-----------------------------------------------------------------------------
(* Numbers, edits, signatures. *)

LEMMA GenerateKeeps == ASSUME LettersInv, NEW k \in LegalClerks, Generate(k) PROVE LettersInv'
<1>1. PICK l, row : l = legalClerks[k].of /\ row = Issued(letters[l])
  OBVIOUS
<1>2. /\ legalClerks[k].op = "generate" /\ WriteLetter(l, row) /\ taken' = taken + 1
      /\ sequence' = IF letters[l].number = 0 THEN sequence + 1 ELSE sequence
      /\ UNCHANGED <<drawn, archive, prints, typesetter, frozen, posted, story>>
  BY <1>1 DEF Generate
<1>3. /\ l \in Letters /\ letters[l] \in Letter /\ LetterInv(l) /\ ClerkInv(k)
  BY <1>1, <1>2, LetterOf, LegalTypes DEF LettersInv
<1>4. ClerkSet(k, NoLegalClerk)
  BY LeavesSets, LegalTypes DEF Generate
<1>5. SnapshotsLeft' /\ taken < MaxLetterSnapshots
  BY <1>2, <1>4, GeneratorGone, NoLegalClerkIs DEF LettersInv
<1>6. /\ row \in Letter /\ row.status = "generated"
      /\ row.number = IF letters[l].number = 0 THEN sequence + 1 ELSE letters[l].number
      /\ row.snapshot = taken + 1 /\ row.render = "pending" /\ row.claim = 0
      /\ row.pdf = letters[l].pdf /\ row.scan = letters[l].scan
  BY <1>1, <1>3, <1>5, IssuedIs, LegalTypes
<1>7. LetterWritten(l, row) /\ PostingsKept
  BY <1>2, <1>3, <1>6, LetterWrites, LegalTypes
<1>8. /\ taken \in Nat /\ taken' \in LetterSnapshot /\ row.snapshot # 0 /\ sequence \in Nat /\ sequence' \in Nat
      /\ sequence' \in {sequence, sequence + 1} /\ letters[l].number \in Nat
  BY <1>2, <1>3, <1>5, <1>6, LegalTypes, LetterBoundsAssumption DEF LetterSnapshot, Letter
<1>9. LetterTypes'
  BY <1>2, <1>4, <1>7, <1>8 DEF LettersInv, LetterTypes, LettersTypeOK, LetterWritten, PostingsKept, ClerkSet
<1>10. /\ letters'[l] = row /\ \A m \in Letters \ {l} : letters'[m] = letters[m]
  BY <1>7 DEF LetterWritten
<1>11. NumberInv /\ \A m \in Letters : letters[m].number \in 0..sequence
  BY DEF LettersInv, NumberInv
<1>12. row.number # 0
  BY <1>6, <1>8
<1>13. NumberInv'
  <2>1. CASE letters[l].number # 0
    <3>1. SameNumbers
      BY <1>2, <1>6, <1>10, <2>1 DEF SameNumbers
    <3> QED BY <1>2, <1>11, <3>1, NumbersStay
  <2>2. CASE letters[l].number = 0
    <3>1. sequence' = sequence + 1 /\ letters'[l].number = sequence + 1
      BY <1>2, <1>6, <1>10, <2>2
    <3>2. ASSUME NEW m \in Letters PROVE letters'[m].number \in 0..sequence'
      BY <1>8, <1>10, <1>11, <3>1
    <3>3. ASSUME NEW n \in 1..sequence' PROVE \E m \in Letters : letters'[m].number = n
      <4>1. CASE n = sequence + 1
        BY <1>3, <3>1, <4>1
      <4>2. CASE n # sequence + 1
        <5>1. n \in 1..sequence /\ n # 0
          BY <1>8, <3>1, <4>2
        <5>2. PICK m \in Letters : letters[m].number = n
          BY <1>11, <5>1 DEF NumberInv
        <5>3. m # l
          BY <2>2, <5>1, <5>2
        <5> QED BY <1>10, <5>2, <5>3
      <4> QED BY <4>1, <4>2
    <3>4. ASSUME NEW m \in Letters, NEW n \in Letters, letters'[m].number = letters'[n].number, letters'[m].number # 0
          PROVE  m = n
      <4>1. \A i \in Letters \ {l} : letters'[i].number = letters[i].number /\ letters[i].number # sequence + 1
        BY <1>8, <1>10, <1>11
      <4>2. CASE m = l \/ n = l
        BY <3>1, <3>4, <4>1, <4>2
      <4>3. CASE m # l /\ n # l
        BY <1>11, <3>4, <4>1, <4>3 DEF NumberInv
      <4> QED BY <4>2, <4>3
    <3>5. ASSUME NEW p \in posted' PROVE p.of \in Letters /\ p.number # 0 /\ letters'[p.of].number = p.number
      <4>1. p.of \in Letters /\ p.number # 0 /\ letters[p.of].number = p.number
        BY <1>2, <1>11 DEF NumberInv
      <4>2. p.of # l
        BY <2>2, <4>1
      <4> QED BY <1>10, <4>1, <4>2
    <3> QED BY <3>2, <3>3, <3>4, <3>5 DEF NumberInv
  <2> QED BY <2>1, <2>2
<1>14. \A s \in LetterSenders : SenderInv(s)'
  <2>1. \A m \in Letters : letters[m].number # 0 => letters'[m].number = letters[m].number
    BY <1>6, <1>10
  <2> QED BY <1>2, <1>7, <2>1, SendersStay
<1>15. \A m \in Letters \ {l} : LetterInv(m)'
  BY <1>2, <1>3, <1>7, OthersStay, LegalTypes
<1>16. OwnFiles'
  BY <1>2, <1>6, <1>10, FilesStayOwn, LegalTypes DEF FilesKept
<1>17. \A j \in LegalClerks : ClerkInv(j)'
  <2>1. \A j \in LegalClerks : \/ legalClerks'[j] = legalClerks[j]
                               \/ legalClerks'[j].op = "none" /\ legalClerks'[j].file = 0
    BY <1>4, NoLegalClerkIs DEF ClerkSet
  <2> QED BY <1>2, <1>3, <1>6, <1>7, <2>1, ClerksStayAtRow, LegalTypes
<1>18. TypesetterInv'
  <2>1. \A j \in LegalClerks : legalClerks'[j].file = 0 \/ legalClerks'[j] = legalClerks[j]
    BY <1>4, NoLegalClerkIs DEF ClerkSet
  <2> QED BY <1>2, <1>3, <1>6, <1>7, <2>1, TypesetterStaysAtRow
<1>19. LetterInv(l)'
  <2>1. letters[l].status # "signed"
    BY <1>1, <1>2, <1>3 DEF ClerkInv
  <2>2. story.signed[l] = 0
    BY <1>3, <2>1, NotSigned
  <2>3. RowStands(l, row)
    BY <1>2, <1>6, <1>8, <1>12, <2>2 DEF RowStands
  <2> QED BY <1>2, <1>3, <1>6, <1>7, <2>3, RowKeepsItsFiles
<1> QED BY <1>5, <1>9, <1>13, <1>14, <1>15, <1>16, <1>17, <1>18, <1>19 DEF LettersInv

(* A statement whose row has moved on: nothing but the clerk changes. *)
LEMMA NothingWritten ==
  ASSUME LettersInv, NEW k \in LegalClerks, legalClerks[k].op # "generate",
         NEW f \in {0, legalClerks[k].file}, ClerkSet(k, Deleting(f)),
         UNCHANGED <<letters, sequence, taken, drawn, archive, prints, posting, typesetter, frozen, posted, story>>
  PROVE  LettersInv'
<1>1. /\ ClerkInv(k) /\ legalClerks[k].file \in LetterFile /\ f \in LetterFile /\ f \in Nat
      /\ legalClerks[k].file \in Nat
  BY LegalTypes DEF LettersInv, LegalClerk, LetterFile
<1>2. /\ Deleting(f) \in LegalClerk /\ Deleting(f).file = f /\ Deleting(f).op # "generate"
      /\ f = 0 \/ Deleting(f).op = "delete"
  BY <1>1, DeletingIs
<1>3. SnapshotsLeft'
  BY <1>2, SnapshotsStay DEF LettersInv, ClerkSet
<1>4. f <= drawn
  BY <1>1, LegalTypes DEF ClerkInv
<1>5. f # 0 => /\ \A l \in Letters : f # letters'[l].pdf
               /\ f \notin story'.unscanned =>
                    /\ \A l \in Letters : f # letters'[l].scan
                    /\ \A j \in LegalClerks \ {k} : legalClerks[j].file # f
  BY <1>1 DEF ClerkInv
<1>6. ClerkInv(k)'
  BY <1>1, <1>4, <1>5, DeleterIs
<1> QED BY <1>2, <1>3, <1>6, ClerkStep, LegalTypes

LEMMA DoneIs == Deleting(0) = NoLegalClerk
  BY DEF Deleting, NoLegalClerk

LEMMA UpdateKeeps == ASSUME LettersInv, NEW k \in LegalClerks, Update(k) PROVE LettersInv'
<1>1. PICK l, row, f : l = legalClerks[k].of /\ row = Redrafted(letters[l]) /\ f = letters[l].pdf
  OBVIOUS
<1>2. /\ legalClerks[k].op = "update" /\ ~Generating(l)
      /\ UNCHANGED <<sequence, taken, drawn, archive, prints, typesetter, frozen, posted, story>>
  BY <1>1 DEF Update
<1>3. /\ l \in Letters /\ letters[l] \in Letter /\ LetterInv(l) /\ f \in LetterFile
  BY <1>1, <1>2, LetterOf, LegalTypes DEF LettersInv, Letter
<1>4. ASSUME letters[l].status \in Allowed("update"), WriteLetter(l, row), LeavesFile(k, f) PROVE LettersInv'
  <2>1. /\ row \in Letter /\ row.status = "draft" /\ row.number = letters[l].number /\ row.render = "none"
        /\ row.claim = 0 /\ row.pdf = 0 /\ row.scan = letters[l].scan
    BY <1>1, <1>3, RedraftedIs
  <2>2. LetterWritten(l, row) /\ PostingsKept
    BY <1>3, <1>4, <2>1, LetterWrites, LegalTypes
  <2>3. /\ ClerkSet(k, Deleting(f)) /\ Deleting(f) \in LegalClerk /\ Deleting(f).file = f /\ Deleting(f).op # "generate"
    BY <1>3, <1>4, LeavesFileSets, DeletingIs, LegalTypes
  <2>4. LetterTypes' /\ SnapshotsLeft'
    <3>1. LetterTypes'
      BY <1>2, <2>2, <2>3 DEF LettersInv, LetterTypes, LettersTypeOK, LetterWritten, PostingsKept, ClerkSet
    <3> QED BY <1>2, <2>3, <3>1, SnapshotsStay DEF LettersInv, ClerkSet
  <2>5. /\ NumberInv' /\ OwnFiles' /\ \A m \in Letters \ {l} : LetterInv(m)'
        /\ \A s \in LetterSenders : SenderInv(s)'
    BY <1>2, <1>3, <2>1, <2>2, RowRest, LegalTypes
  <2>6. LetterInv(l)'
    <3>1. letters[l].status # "signed"
      BY <1>4 DEF Allowed
    <3>2. story.signed[l] = 0
      BY <1>3, <3>1, NotSigned
    <3>3. RowStands(l, row)
      BY <1>2, <2>1, <3>2 DEF RowStands
    <3> QED BY <1>2, <1>3, <2>1, <2>2, <3>3, RowKeepsItsFiles
  <2>7. /\ letters'[l] = row /\ \A m \in Letters \ {l} : letters'[m] = letters[m]
        /\ legalClerks'[k].file = f /\ legalClerks'[k].op # "generate"
        /\ \A j \in LegalClerks \ {k} : legalClerks'[j] = legalClerks[j]
    BY <2>2, <2>3 DEF LetterWritten, ClerkSet
  <2>8. ASSUME f # 0
        PROVE  /\ \A m \in Letters : f # letters'[m].pdf /\ f # letters'[m].scan
               /\ \A j \in LegalClerks : legalClerks[j].file # f
               /\ f <= drawn
    <3>1. OwnFiles /\ f \in LetterFiles(l) /\ f # letters[l].scan
      BY <1>1, <1>3, <2>8 DEF LettersInv, OwnFiles, LetterFiles
    <3>2. ASSUME NEW m \in Letters PROVE f # letters'[m].pdf /\ f # letters'[m].scan
      <4>1. CASE m = l
        BY <2>1, <2>7, <2>8, <3>1, <4>1
      <4>2. CASE m # l
        BY <1>3, <2>7, <2>8, <3>1, <4>2 DEF OwnFiles, LetterFiles
      <4> QED BY <4>1, <4>2
    <3>3. ASSUME NEW j \in LegalClerks PROVE legalClerks[j].file # f
      BY <1>1, <1>3, <2>8 DEF LettersInv, ClerkInv
    <3> QED BY <1>1, <1>3, <3>2, <3>3 DEF LetterInv
  <2>9. ASSUME NEW j \in LegalClerks PROVE ClerkInv(j)'
    <3>1. CASE j = k
      <4>1. f <= drawn'
        BY <1>1, <1>2, <1>3 DEF LetterInv
      <4> QED BY <1>3, <2>3, <2>8, <3>1, <4>1, DeleterIs
    <3>2. CASE j # k
      <4>1. legalClerks'[j] = legalClerks[j] /\ (f = 0 \/ f # legalClerks[j].file)
        BY <2>7, <2>8, <3>2
      <4>2. \A i \in LegalClerks \ {j} :
              \/ legalClerks'[i] = legalClerks[i]
              \/ /\ legalClerks'[i].op # "generate"
                 /\ \/ legalClerks'[i].file \in {0, legalClerks[i].file}
                    \/ legalClerks'[i].file # legalClerks[j].file
        BY <2>7, <4>1
      <4> QED BY <1>2, <1>3, <2>1, <2>2, <4>1, <4>2, ClerkStaysAtRow, LegalTypes
    <3> QED BY <3>1, <3>2
  <2>10. TypesetterInv'
    <3>1. \A j \in LegalClerks : \/ legalClerks'[j].file = 0 \/ legalClerks'[j] = legalClerks[j]
                                 \/ legalClerks'[j].file = letters[l].pdf /\ legalClerks'[j].op = "delete"
      BY <1>1, <1>3, <2>3, <2>7, DeletingIs DEF ClerkSet
    <3> QED BY <1>2, <1>3, <2>1, <2>2, <3>1, TypesetterStaysAtRow
  <2> QED BY <2>4, <2>5, <2>6, <2>9, <2>10 DEF LettersInv
<1>5. ASSUME Leaves(k), UNCHANGED <<letters, posting>> PROVE LettersInv'
  <2>1. ClerkSet(k, Deleting(0)) /\ 0 \in {0, legalClerks[k].file}
    BY <1>5, LeavesSets, DoneIs, LegalTypes
  <2> QED BY <1>2, <1>5, <2>1, NothingWritten
<1> QED BY <1>1, <1>4, <1>5 DEF Update

LEMMA SigningIs ==
  ASSUME LettersInv, NEW l \in Letters, NEW f \in LetterFile, NEW lost \in BOOLEAN,
         story' = IF lost THEN [story EXCEPT !.signed[l] = IF @ = 0 THEN letters[l].snapshot ELSE @,
                                             !.unscanned = @ \cup {f}]
                  ELSE [story EXCEPT !.signed[l] = IF @ = 0 THEN letters[l].snapshot ELSE @]
  PROVE  /\ story' \in [signed : [Letters -> LetterSnapshot], overtaken : SUBSET LetterSnapshot,
                        unscanned : SUBSET LetterFile, unprinted : SUBSET LetterFile]
         /\ story'.signed[l] = IF story.signed[l] = 0 THEN letters[l].snapshot ELSE story.signed[l]
         /\ \A m \in Letters \ {l} : story'.signed[m] = story.signed[m]
         /\ story'.overtaken = story.overtaken /\ story'.unprinted = story.unprinted
         /\ lost => story'.unscanned = story.unscanned \cup {f}
         /\ ~lost => story'.unscanned = story.unscanned
<1>1. letters[l].snapshot \in LetterSnapshot
  BY LegalTypes DEF Letter
<1>2. PICK z, n, U : /\ z = story /\ n = (IF story.signed[l] = 0 THEN letters[l].snapshot ELSE story.signed[l])
                     /\ U = story.unscanned \cup {f}
  OBVIOUS
<1>3. /\ z \in [signed : [Letters -> LetterSnapshot], overtaken : SUBSET LetterSnapshot,
                unscanned : SUBSET LetterFile, unprinted : SUBSET LetterFile]
      /\ n \in LetterSnapshot /\ U \in SUBSET LetterFile
  BY <1>1, <1>2, StoryIs
<1>4. PICK x, y : x = [z EXCEPT !.signed[l] = n] /\ y = [z EXCEPT !.signed[l] = n, !.unscanned = U]
  OBVIOUS
<1>5. /\ x \in [signed : [Letters -> LetterSnapshot], overtaken : SUBSET LetterSnapshot,
                unscanned : SUBSET LetterFile, unprinted : SUBSET LetterFile]
      /\ x.signed[l] = n /\ \A m \in Letters \ {l} : x.signed[m] = z.signed[m]
      /\ x.overtaken = z.overtaken /\ x.unscanned = z.unscanned /\ x.unprinted = z.unprinted
  BY ONLY <1>3, <1>4, l \in Letters
<1>6. /\ y \in [signed : [Letters -> LetterSnapshot], overtaken : SUBSET LetterSnapshot,
                unscanned : SUBSET LetterFile, unprinted : SUBSET LetterFile]
      /\ y.signed[l] = n /\ \A m \in Letters \ {l} : y.signed[m] = z.signed[m]
      /\ y.overtaken = z.overtaken /\ y.unscanned = U /\ y.unprinted = z.unprinted
  BY ONLY <1>3, <1>4, l \in Letters
<1>7. story' = IF lost THEN y ELSE x
  BY <1>2, <1>4
<1> QED BY <1>2, <1>5, <1>6, <1>7

(* The scan is recorded; the one it replaced is deleted, or the new one if the recording *)
(* looked like a failure. *)
LEMMA SignedStep ==
  ASSUME LettersInv, NEW k \in LegalClerks, NEW l \in Letters, NEW f \in LetterFile, NEW lost \in BOOLEAN,
         legalClerks[k].op = "sign", f = legalClerks[k].file, ~Generating(l),
         letters[l].status \in Allowed("sign"), WriteLetter(l, Signed(letters[l], f)),
         LeavesFile(k, IF lost THEN f ELSE IF f = 0 THEN 0 ELSE letters[l].scan),
         story' = IF lost THEN [story EXCEPT !.signed[l] = IF @ = 0 THEN letters[l].snapshot ELSE @,
                                             !.unscanned = @ \cup {f}]
                  ELSE [story EXCEPT !.signed[l] = IF @ = 0 THEN letters[l].snapshot ELSE @],
         UNCHANGED <<sequence, taken, drawn, archive, prints, typesetter, frozen, posted>>
  PROVE  LettersInv'
<1>1. PICK row, g : /\ row = Signed(letters[l], f)
                    /\ g = IF lost THEN f ELSE IF f = 0 THEN 0 ELSE letters[l].scan
  OBVIOUS
<1>2. /\ letters[l] \in Letter /\ LetterInv(l) /\ ClerkInv(k) /\ OwnFiles /\ g \in LetterFile
      /\ letters[l].scan \in LetterFile /\ letters[l].scan <= drawn /\ f <= drawn /\ g <= drawn
  <2>1. letters[l] \in Letter /\ LetterInv(l) /\ ClerkInv(k) /\ OwnFiles
    BY LegalTypes DEF LettersInv
  <2>2. letters[l].scan \in LetterFile /\ letters[l].scan <= drawn /\ f <= drawn
    BY <2>1 DEF Letter, LetterInv, ClerkInv
  <2>3. g = f \/ g = letters[l].scan
    BY <1>1
  <2> QED BY <2>1, <2>2, <2>3
<1>3. /\ row \in Letter /\ row.status = "signed" /\ row.number = letters[l].number
      /\ row.snapshot = letters[l].snapshot /\ row.render = letters[l].render /\ row.claim = letters[l].claim
      /\ row.pdf = letters[l].pdf /\ row.scan = IF f = 0 THEN letters[l].scan ELSE f
  BY <1>1, <1>2, SignedIs
<1>4. LetterWritten(l, row) /\ PostingsKept
  BY <1>1, <1>3, LetterWrites, LegalTypes
<1>5. /\ ClerkSet(k, Deleting(g)) /\ Deleting(g) \in LegalClerk /\ Deleting(g).file = g
      /\ Deleting(g).op # "generate"
  BY <1>1, <1>2, LeavesFileSets, DeletingIs, LegalTypes
<1>6. /\ story' \in [signed : [Letters -> LetterSnapshot], overtaken : SUBSET LetterSnapshot,
                     unscanned : SUBSET LetterFile, unprinted : SUBSET LetterFile]
      /\ story'.signed[l] = IF story.signed[l] = 0 THEN letters[l].snapshot ELSE story.signed[l]
      /\ \A m \in Letters \ {l} : story'.signed[m] = story.signed[m]
      /\ story'.overtaken = story.overtaken /\ story'.unprinted = story.unprinted
      /\ lost => story'.unscanned = story.unscanned \cup {f}
      /\ ~lost => story'.unscanned = story.unscanned
  BY SigningIs
<1>7. story.unscanned \subseteq story'.unscanned /\ story'.unscanned \subseteq story.unscanned \cup {f}
  BY <1>6
<1>8. LetterTypes' /\ SnapshotsLeft'
  <2>1. LetterTypes'
    BY <1>4, <1>5, <1>6 DEF LettersInv, LetterTypes, LettersTypeOK, LetterWritten, PostingsKept, ClerkSet
  <2> QED BY <1>5, <2>1, SnapshotsStay DEF LettersInv, ClerkSet
<1>9. /\ letters'[l] = row /\ \A m \in Letters \ {l} : letters'[m] = letters[m]
      /\ legalClerks'[k].file = g /\ legalClerks'[k].op # "generate"
      /\ \A j \in LegalClerks \ {k} : legalClerks'[j] = legalClerks[j]
  BY <1>4, <1>5 DEF LetterWritten, ClerkSet
<1>10. NumberInv' /\ \A s \in LetterSenders : SenderInv(s)'
  <2>1. \A m \in Letters : letters'[m].number = letters[m].number
    BY <1>3, <1>9
  <2> QED BY <1>4, <2>1, NumbersStay, SendersStay DEF LettersInv, SameNumbers
<1>11. ASSUME f # 0
       PROVE  /\ f \in archive /\ f \notin story.unscanned
              /\ \A m \in Letters : f # letters[m].pdf /\ f # letters[m].scan
              /\ \A j \in LegalClerks \ {k} : legalClerks[j].file # f
  BY <1>2, <1>11 DEF ClerkInv
<1>12. \A m \in Letters \ {l} : LetterInv(m)'
  <2> TAKE m \in Letters \ {l}
  <2>1. LetterKept(m)
    BY <1>6, <1>7, <1>9, LegalTypes DEF LetterKept
  <2> QED BY <2>1, LetterStays, LegalTypes
<1>13. LetterInv(l)'
  <2>1. row.number # 0 /\ row.snapshot # 0
    BY <1>2, <1>3 DEF LetterInv, Allowed
  <2>2. /\ row.pdf # 0 => row.pdf \in archive \cup story'.unprinted
        /\ row.render = "ready" => row.pdf # 0 /\ row.snapshot # 0 /\ prints[row.pdf] = row.snapshot
        /\ row.pdf <= drawn /\ row.claim <= drawn /\ row.scan <= drawn
    BY <1>2, <1>3, <1>6 DEF LetterInv
  <2>3. row.scan # 0 => row.scan \in archive \cup story'.unscanned
    BY <1>2, <1>3, <1>7, <1>11 DEF LetterInv
  <2>4. story'.signed[l] # 0 => row.snapshot = story'.signed[l]
    BY <1>2, <1>3, <1>6 DEF LetterInv
  <2> QED BY <1>3, <1>9, <2>1, <2>2, <2>3, <2>4 DEF LetterInv
<1>14. ASSUME NEW m \in Letters
       PROVE  /\ letters'[m].pdf = letters[m].pdf
              /\ letters'[m].scan # letters[m].scan => m = l /\ f # 0 /\ letters'[m].scan = f
  <2>1. CASE m = l
    BY <1>3, <1>9, <2>1
  <2>2. CASE m # l
    BY <1>9, <2>2
  <2> QED BY <2>1, <2>2
<1>15. OwnFiles'
  <2>1. ASSUME NEW m \in Letters PROVE LetterFiles(m)' \subseteq LetterFiles(m) \cup (IF m = l /\ f # 0 THEN {f} ELSE {})
    BY <1>14 DEF LetterFiles
  <2>2. f # 0 => \A m \in Letters : f \notin LetterFiles(m)
    BY <1>11 DEF LetterFiles
  <2>3. \A m, n \in Letters : m # n => LetterFiles(m)' \cap LetterFiles(n)' = {}
    BY <1>2, <2>1, <2>2 DEF OwnFiles
  <2>4. ASSUME NEW m \in Letters, letters'[m].pdf # 0
        PROVE  letters'[m].pdf # letters'[m].scan /\ letters'[m].pdf \notin story'.unscanned
    <3>1. letters[m].pdf # letters[m].scan /\ letters[m].pdf \notin story.unscanned
      BY <1>2, <1>14, <2>4 DEF OwnFiles
    <3>2. f # 0 => letters[m].pdf # f
      BY <1>11
    <3>3. f = 0 => letters[m].pdf # f
      BY <1>14, <2>4
    <3> QED BY <1>7, <1>14, <3>1, <3>2, <3>3
  <2>5. \A h \in story'.unscanned \cup story'.unprinted : h <= drawn'
    BY <1>2, <1>6, <1>7 DEF OwnFiles
  <2> QED BY <2>3, <2>4, <2>5 DEF OwnFiles
<1>16. ASSUME g # 0
       PROVE  /\ \A m \in Letters : g # letters'[m].pdf
              /\ g \notin story'.unscanned => \A m \in Letters : g # letters'[m].scan
              /\ g \notin story'.unscanned => \A j \in LegalClerks : g # legalClerks[j].file
              /\ \A j \in LegalClerks \ {k} : g # legalClerks[j].file \/ g \in story.unscanned
  <2>1. CASE lost
    <3>1. g = f /\ f # 0 /\ g \in story'.unscanned
      BY <1>1, <1>6, <1>16, <2>1
    <3> QED BY <1>11, <1>14, <3>1
  <2>2. CASE ~lost
    <3>1. g = letters[l].scan /\ f # 0 /\ row.scan = f /\ g # f
      BY <1>1, <1>3, <1>11, <1>16, <2>2
    <3>2. ASSUME NEW m \in Letters PROVE g # letters'[m].pdf /\ g # letters'[m].scan
      <4>1. CASE m = l
        BY <1>2, <1>3, <1>9, <1>14, <1>16, <3>1, <4>1 DEF OwnFiles
      <4>2. CASE m # l
        BY <1>2, <1>9, <1>16, <3>1, <4>2 DEF OwnFiles, LetterFiles
      <4> QED BY <4>1, <4>2
    <3>3. ASSUME NEW j \in LegalClerks, g \notin story.unscanned PROVE g # legalClerks[j].file
      BY <1>16, <3>1, <3>3 DEF LettersInv, ClerkInv
    <3> QED BY <1>7, <3>2, <3>3
  <2> QED BY <2>1, <2>2
<1>17. ASSUME NEW j \in LegalClerks PROVE ClerkInv(j)'
  <2>1. CASE j = k
    BY <1>2, <1>5, <1>16, <2>1, DeleterIs
  <2>2. CASE j # k
    <3>1. PICK h : h = legalClerks[j].file
      OBVIOUS
    <3>2. h # f \/ f = 0
      BY <1>11, <2>2, <3>1
    <3>3. h # 0 /\ h \in story'.unscanned => h \in story.unscanned
      BY <1>7, <3>2
    <3>4. row.scan = letters[l].scan \/ row.scan # h
      BY <1>3, <3>2
    <3>5. g = 0 \/ g # h \/ h \in story'.unscanned
      BY <1>7, <1>16, <2>2, <3>1
    <3>6. \A i \in LegalClerks \ {j} :
            \/ legalClerks'[i] = legalClerks[i]
            \/ /\ legalClerks'[i].op # "generate"
               /\ \/ legalClerks'[i].file \in {0, legalClerks[i].file}
                  \/ legalClerks'[i].file # legalClerks[j].file
                  \/ legalClerks[j].file \in story'.unscanned
      BY <1>9, <3>1, <3>5
    <3>7. legalClerks[j].op = "generate" /\ legalClerks[j].of = l => row.status \in {"draft", "generated"}
      BY DEF Generating
    <3>8. legalClerks'[j] = legalClerks[j] /\ row.pdf = letters[l].pdf
      BY <1>3, <1>9, <2>2
    <3> QED BY <1>3, <1>4, <1>7, <3>1, <3>3, <3>4, <3>6, <3>7, <3>8, ClerkStaysAtRow, LegalTypes
  <2> QED BY <2>1, <2>2
<1>18. TypesetterInv'
  <2>1. ASSUME NEW j \in LegalClerks
        PROVE  \/ legalClerks'[j].file = 0 \/ legalClerks'[j] = legalClerks[j]
               \/ legalClerks'[j].file \in {letters[l].pdf, letters[l].scan} /\ legalClerks'[j].op = "delete"
               \/ legalClerks'[j].file = legalClerks[j].file /\ legalClerks'[j].op = "delete"
    <3>1. CASE j # k
      BY <1>9, <3>1
    <3>2. CASE j = k
      <4>1. legalClerks'[k].file = g /\ (g # 0 => legalClerks'[k].op = "delete")
        BY <1>2, <1>5, DeletingIs DEF ClerkSet
      <4>2. g \in {0, f, letters[l].scan} /\ f = legalClerks[k].file
        BY <1>1
      <4> QED BY <3>2, <4>1, <4>2
    <3> QED BY <3>1, <3>2
  <2>2. \A h \in story'.unscanned :
          h \in story.unscanned \/ \E j \in LegalClerks : h = legalClerks[j].file /\ legalClerks[j].op # "delete"
    BY <1>7
  <2>3. \/ row.scan \in {0, letters[l].scan}
        \/ \E j \in LegalClerks : row.scan = legalClerks[j].file /\ legalClerks[j].op # "delete"
    BY <1>3
  <2>4. \A j \in LegalClerks :
          \/ legalClerks'[j].file = 0
          \/ legalClerks'[j].file \in {letters[l].pdf, letters[l].scan} /\ legalClerks'[j].op = "delete"
          \/ legalClerks'[j].file = legalClerks[j].file /\ legalClerks'[j].op \in {"delete", legalClerks[j].op}
    BY <2>1
  <2>5. row.pdf \in {0, letters[l].pdf} /\ story'.unprinted = story.unprinted
    BY <1>3, <1>6
  <2>6. row.claim = letters[l].claim /\ row.render = letters[l].render /\ row.snapshot = letters[l].snapshot
    BY <1>3
  <2> QED BY <1>3, <1>4, <2>2, <2>3, <2>4, <2>5, <2>6, TypesetterStaysAtRow
<1> QED BY <1>8, <1>10, <1>12, <1>13, <1>15, <1>17, <1>18 DEF LettersInv

LEMMA SetSignedKeeps == ASSUME LettersInv, NEW k \in LegalClerks, SetSigned(k) PROVE LettersInv'
<1>1. PICK l, f : l = legalClerks[k].of /\ f = legalClerks[k].file
  OBVIOUS
<1>2. /\ legalClerks[k].op = "sign" /\ ~Generating(l)
      /\ UNCHANGED <<sequence, taken, drawn, archive, prints, typesetter, frozen, posted>>
  BY <1>1 DEF SetSigned
<1>3. l \in Letters /\ f \in LetterFile
  BY <1>1, <1>2, LetterOf, LegalTypes DEF LegalClerk
<1>4. ASSUME letters[l].status \in Allowed("sign"), WriteLetter(l, Signed(letters[l], f)),
             LeavesFile(k, IF f = 0 THEN 0 ELSE letters[l].scan),
             story' = [story EXCEPT !.signed[l] = IF @ = 0 THEN letters[l].snapshot ELSE @]
      PROVE  LettersInv'
  <2>1. PICK lost \in BOOLEAN : ~lost
    OBVIOUS
  <2> QED BY <1>1, <1>2, <1>3, <1>4, <2>1, SignedStep
<1>5. ASSUME letters[l].status \in Allowed("sign"), WriteLetter(l, Signed(letters[l], f)), LeavesFile(k, f),
             story' = [story EXCEPT !.signed[l] = IF @ = 0 THEN letters[l].snapshot ELSE @,
                                    !.unscanned = @ \cup {f}]
      PROVE  LettersInv'
  <2>1. PICK lost \in BOOLEAN : lost
    OBVIOUS
  <2> QED BY <1>1, <1>2, <1>3, <1>5, <2>1, SignedStep
<1>6. ASSUME LeavesFile(k, f), UNCHANGED <<letters, posting, story>> PROVE LettersInv'
  <2>1. ClerkSet(k, Deleting(f)) /\ f \in {0, legalClerks[k].file}
    BY <1>1, <1>3, <1>6, LeavesFileSets, LegalTypes
  <2> QED BY <1>2, <1>6, <2>1, NothingWritten
<1> QED BY <1>1, <1>4, <1>5, <1>6 DEF SetSigned

(* Nothing in memory survives a restart, and nothing else is lost. *)
LEMMA StopLegalKeeps == ASSUME LettersInv, StopLegal PROVE LettersInv'
<1>1. /\ legalClerks' = [k \in LegalClerks |-> NoLegalClerk] /\ typesetter' = NoRender
      /\ posting' = [s \in LetterSenders |-> NoPosting]
      /\ UNCHANGED <<letters, sequence, taken, drawn, archive, prints, frozen, story>>
  BY DEF StopLegal
<1>2. LetterTypes'
  BY <1>1, NoRenderIs, NoPostingIs, NoLegalClerkIs DEF LettersInv, LetterTypes, LettersTypeOK
<1>3. SnapshotsLeft'
  <2>1. Generators' = {}
    BY <1>1, NoLegalClerkIs DEF Generators
  <2> QED BY <1>1, <2>1, FS_EmptySet, LegalTypes, LetterBoundsAssumption DEF SnapshotsLeft, LetterSnapshot
<1>4. /\ posted \subseteq posted'
      /\ \A m \in posted' \ posted : m.of \in Letters /\ m.number # 0 /\ letters[m.of].number = m.number
  <2>1. CASE UNCHANGED posted
    BY <2>1
  <2>2. CASE \E s \in LetterSenders : posting[s].step = "checked" /\ Post(s)
    BY <2>2, PostIs
  <2> QED BY <2>1, <2>2 DEF StopLegal
<1>5. NumberInv'
  BY <1>1, <1>4 DEF LettersInv, NumberInv
<1>6. \A l \in Letters : LetterInv(l)'
  BY <1>1, <1>4, LettersStay
<1>7. OwnFiles'
  BY <1>1, FilesStayOwn, LegalTypes DEF FilesKept
<1>8. \A k \in LegalClerks : ClerkInv(k)'
  BY <1>1, NoLegalClerkIs, ClerkIsDone, LegalTypes
<1>9. TypesetterInv'
  BY <1>1, NoRenderIs DEF TypesetterInv
<1>10. \A s \in LetterSenders : SenderInv(s)'
  BY <1>1, NoPostingIs DEF SenderInv
<1> QED BY <1>2, <1>3, <1>5, <1>6, <1>7, <1>8, <1>9, <1>10 DEF LettersInv

LEMMA LettersInitially == ASSUME LettersInit PROVE LettersInv
<1>1. LetterTypes
  BY NoLetterIs, NoLegalClerkIs, NoPostingIs, NoRenderIs, LetterBoundsAssumption
     DEF LettersInit, LetterTypes, LettersTypeOK, LetterFile, LetterSnapshot
<1>2. SnapshotsLeft
  <2>1. Generators = {}
    BY NoLegalClerkIs DEF LettersInit, Generators
  <2> QED BY <2>1, FS_EmptySet, LetterBoundsAssumption DEF LettersInit, SnapshotsLeft
<1>3. NumberInv
  BY NoLetterIs DEF LettersInit, NumberInv
<1>4. \A l \in Letters : LetterInv(l)
  BY NoLetterIs DEF LettersInit, LetterInv
<1>5. OwnFiles
  BY NoLetterIs DEF LettersInit, OwnFiles, LetterFiles
<1>6. \A k \in LegalClerks : ClerkInv(k)
  BY NoLegalClerkIs DEF LettersInit, ClerkInv
<1>7. TypesetterInv
  BY NoRenderIs DEF LettersInit, TypesetterInv
<1>8. \A s \in LetterSenders : SenderInv(s)
  BY NoPostingIs DEF LettersInit, SenderInv
<1> QED BY <1>1, <1>2, <1>3, <1>4, <1>5, <1>6, <1>7, <1>8 DEF LettersInv

LEMMA LettersSame == ASSUME LettersInv, UNCHANGED legalVars PROVE LettersInv'
<1>1. /\ UNCHANGED <<letters, sequence, taken, drawn, archive, prints, legalClerks, posting, frozen, posted, story>>
      /\ UNCHANGED typesetter
  BY DEF legalVars
<1>2. typesetter' \in Typesetter /\ TypesetterInv'
  BY <1>1, LegalTypes DEF LettersInv, TypesetterInv, InUse
<1> QED BY <1>1, <1>2, OnlyTypesetter

LEMMA LettersInductive == ASSUME LettersInv, [LettersNext]_legalVars PROVE LettersInv'
<1>1. ASSUME NEW l \in Letters,
             CreateLetter(l) \/ DeleteDraft(l) \/ ClaimRender(l) \/ FailUnclaimed(l) \/ ReleaseLetter(l)
      PROVE  LettersInv'
  BY <1>1, CreateLetterKeeps, DeleteDraftKeeps, ClaimRenderKeeps, FailUnclaimedKeeps, ReleaseLetterKeeps
<1>2. ASSUME NEW l \in Letters, NEW k \in LegalClerks,
             (\E op \in {"update", "cancel", "generate"} : BeginStatement(k, op, l)) \/ StoreScan(k, l)
      PROVE  LettersInv'
  BY <1>2, BeginStatementKeeps, StoreScanKeeps
<1>3. ASSUME NEW l \in Letters, NEW s \in LetterSenders, ReadLetter(s, l) PROVE LettersInv'
  BY <1>3, ReadLetterKeeps
<1>4. ASSUME NEW k \in LegalClerks,
             \/ Generate(k) \/ GenerateFails(k) \/ Update(k) \/ Cancel(k)
             \/ BeginSign(k) \/ SetSigned(k) \/ DeleteLegalFile(k)
      PROVE  LettersInv'
  BY <1>4, GenerateKeeps, GenerateFailsKeeps, UpdateKeeps, CancelKeeps, BeginSignKeeps, SetSignedKeeps,
     DeleteLegalFileKeeps
<1>5. ASSUME StorePDF \/ CompleteRender \/ DeleteReplacedPDF \/ FailRender PROVE LettersInv'
  BY <1>5, StorePDFKeeps, CompleteRenderKeeps, DeleteReplacedPDFKeeps, FailRenderKeeps
<1>6. ASSUME NEW s \in LetterSenders,
             \/ QueueLetter(s) \/ CheckQueued(s) \/ PostLetter(s) \/ PostFails(s)
             \/ MarkLetterSent(s) \/ LeaveLetter(s)
      PROVE  LettersInv'
  BY <1>6, QueueLetterKeeps, CheckQueuedKeeps, PostLetterKeeps, PostFailsKeeps, MarkLetterSentKeeps,
     LeaveLetterKeeps
<1>7. ASSUME StopLegal PROVE LettersInv'
  BY <1>7, StopLegalKeeps
<1>8. ASSUME UNCHANGED legalVars PROVE LettersInv'
  BY <1>8, LettersSame
<1> QED BY <1>1, <1>2, <1>3, <1>4, <1>5, <1>6, <1>7, <1>8 DEF LettersNext

(* As many letters are numbered as numbers are given. *)
LEMMA NumbersCount ==
  ASSUME LettersInv
  PROVE  Cardinality({l \in Letters : letters[l].number # 0}) = sequence
<1>1. PICK numbered : numbered = {l \in Letters : letters[l].number # 0}
  OBVIOUS
<1>2. PICK number : number = [l \in numbered |-> letters[l].number]
  OBVIOUS
<1>3. sequence \in Nat /\ \A l \in numbered : letters[l].number \in 1..sequence
  BY <1>1, LegalTypes DEF LettersInv, NumberInv
<1>4. /\ number \in [numbered -> 1..sequence]
      /\ \A l, m \in numbered : number[l] = number[m] => l = m
      /\ \A n \in 1..sequence : \E l \in numbered : number[l] = n
  BY <1>1, <1>2, <1>3 DEF LettersInv, NumberInv
<1>5. number \in Bijection(numbered, 1..sequence)
  BY <1>4 DEF Bijection, Injection, Surjection, IsInjective
<1>6. ExistsBijection(1..sequence, numbered)
  BY <1>5, Fun_ExistsBijSymmetric DEF ExistsBijection
<1> QED BY <1>1, <1>3, <1>6, FS_CountingElements

LEMMA LettersInvImplies == ASSUME LettersInv PROVE LettersInOrder
<1>1. LettersAreNumbered
  <2>1. \A n \in 1..sequence : \E l \in Letters : letters[l].number = n /\ letters[l].number # 0
    BY DEF LettersInv, NumberInv
  <2>2. \A l \in Letters : letters[l].number # 0 => letters[l].number \in 1..sequence
    BY LegalTypes DEF LettersInv, NumberInv
  <2>3. {letters[l].number : l \in {m \in Letters : letters[m].number # 0}} = 1..sequence
    BY <2>1, <2>2
  <2>4. \A m \in posted : letters[m.of].number = m.number
    BY DEF LettersInv, NumberInv
  <2> QED BY <2>3, <2>4, NumbersCount DEF LettersAreNumbered
<1>2. LegalFilesExist
  BY DEF LettersInv, LetterInv, LegalFilesExist, PdfReady
<1>3. LetterStands
  BY DEF LettersInv, LetterInv, LetterStands
<1> QED BY <1>1, <1>2, <1>3 DEF LettersInOrder

(* The invariant of legal documents: numbers are given once, a file is one row's or one *)
(* request's, and a letter keeps the snapshot it was signed as. *)
THEOREM LettersAlwaysSound == LettersSpec => []LettersInv
<1>1. LettersInit => LettersInv
  BY LettersInitially
<1>2. LettersInv /\ [LettersNext]_legalVars => LettersInv'
  BY LettersInductive
<1> QED BY <1>1, <1>2, PTL DEF LettersSpec

(* Rows, files and requests have their types. *)
THEOREM LettersTypeCorrect == LettersSpec => []LettersTypeOK
<1>1. LettersInv => LettersTypeOK
  BY DEF LettersInv, LetterTypes
<1> QED BY <1>1, LettersAlwaysSound, PTL

(* A letter's number, files, status and mails agree, whatever crosses or fails: numbers have no *)
(* gap, the PDF on offer is of the snapshot, and what was signed is what is kept. *)
THEOREM SignedLettersStand == LettersSpec => []LettersInOrder
<1>1. LettersInv => LettersInOrder
  BY LettersInvImplies
<1> QED BY <1>1, LettersAlwaysSound, PTL

===============================================================================
