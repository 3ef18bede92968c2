------------------------------ MODULE LegalLetters ------------------------------
(***************************************************************************)
(* Legal documents (service/legal/service.go and render.go,                  *)
(* repository/legal/documents.go): drafts that get a number and a snapshot   *)
(* when they are generated, are rendered, mailed, signed with a scan, edited  *)
(* back into drafts or cancelled.                                            *)
(*                                                                         *)
(* An UPDATE reads the delivery log in the snapshot its statement starts with *)
(* and the row when it commits: BeginStatement and what follows.  Generate holds the row and  *)
(* the sequence from its first read to its commit.  The form is complete and   *)
(* the server has a PDF converter; a month's sequence of one type stands for   *)
(* all.                                                                      *)
(***************************************************************************)
EXTENDS Integers, FiniteSets

CONSTANTS
    Letters,
    LegalClerks,        \* requests that write, reused one after another
    LetterSenders,      \* requests that send
    MaxLetterSnapshots, \* bound: snapshots taken in all
    MaxLetterFiles      \* bound: files written in all

ASSUME LetterBoundsAssumption == MaxLetterSnapshots \in Nat /\ MaxLetterFiles \in Nat

VARIABLES
    letters,      \* the legal_documents table
    sequence,     \* the document_sequences row: the last number given
    taken,        \* snapshots taken so far: each encrypts to another ciphertext
    drawn,        \* files written, or about to be: each has a path of its own
    archive,      \* files that exist
    prints,       \* the snapshot a file was rendered from, 0 for a scan
    legalClerks,  \* requests at work
    posting,      \* what each send is doing
    typesetter,   \* the document worker
    frozen,       \* letters with a delivery queued or sending
    posted,       \* history: what the mail server accepted
    story         \* history: signed as which snapshot, marked for a mail of another
                  \* one, scans and PDFs whose recording looked like a failure

legalVars == <<letters, sequence, taken, drawn, archive, prints, legalClerks, posting,
               typesetter, frozen, posted, story>>

-----------------------------------------------------------------------------

LetterFile == 0..MaxLetterFiles
LetterSnapshot == 0..MaxLetterSnapshots

Letter ==
    [status : {"absent", "draft", "generated", "sent", "signed", "cancelled", "deleted"},
     number : Nat, snapshot : LetterSnapshot,
     render : {"none", "pending", "rendering", "ready", "failed"}, claim : LetterFile,
     pdf : LetterFile, scan : LetterFile]

NoLetter == [status |-> "absent", number |-> 0, snapshot |-> 0, render |-> "none",
             claim |-> 0, pdf |-> 0, scan |-> 0]

(* file is the scan to record, or the file to delete.                          *)
LegalClerk == [op : {"none", "scanned", "update", "generate", "sign", "cancel", "delete"},
               of : Letters \cup {"nothing"}, file : LetterFile]
NoLegalClerk == [op |-> "none", of |-> "nothing", file |-> 0]

(* same: updated_at is still the one that was read.                             *)
Posting == [step : {"idle", "read", "queued", "checked", "accepted"},
            of : Letters \cup {"nothing"}, snapshot : LetterSnapshot, number : Nat,
            same : BOOLEAN]
NoPosting == [step |-> "idle", of |-> "nothing", snapshot |-> 0, number |-> 0, same |-> FALSE]

Typesetter == [step : {"idle", "claimed", "stored", "deleting"},
               of : Letters \cup {"nothing"}, claim : LetterFile, snapshot : LetterSnapshot]
NoRender == [step |-> "idle", of |-> "nothing", claim |-> 0, snapshot |-> 0]

LettersInit ==
    /\ letters = [l \in Letters |-> NoLetter]
    /\ sequence = 0 /\ taken = 0 /\ drawn = 0
    /\ archive = {} /\ prints = [f \in 1..MaxLetterFiles |-> 0]
    /\ legalClerks = [k \in LegalClerks |-> NoLegalClerk]
    /\ posting = [s \in LetterSenders |-> NoPosting]
    /\ typesetter = NoRender
    /\ frozen = {} /\ posted = {}
    /\ story = [signed |-> [l \in Letters |-> 0], overtaken |-> {},
                 unscanned |-> {}, unprinted |-> {}]

-----------------------------------------------------------------------------
(* Rows *)

Generating(l) == \E k \in LegalClerks : legalClerks[k].op = "generate" /\ legalClerks[k].of = l

(* updated_at = NOW() *)
Touch(l) ==
    posting' = [s \in LetterSenders |->
        IF posting[s].of = l THEN [posting[s] EXCEPT !.same = FALSE] ELSE posting[s]]

WriteLetter(l, row) ==
    /\ letters' = [letters EXCEPT ![l] = row]
    /\ Touch(l)

Leaves(k) == legalClerks' = [legalClerks EXCEPT ![k] = NoLegalClerk]

(* deleteFile, after the statement. *)
LeavesFile(k, f) ==
    legalClerks' = [legalClerks EXCEPT
        ![k] = IF f = 0 THEN NoLegalClerk ELSE [op |-> "delete", of |-> "nothing", file |-> f]]

CreateLetter(l) ==
    /\ letters[l].status = "absent"
    /\ letters' = [letters EXCEPT ![l].status = "draft"]
    /\ UNCHANGED <<sequence, taken, drawn, archive, prints, legalClerks, posting, typesetter,
                   frozen, posted, story>>

DeleteDraft(l) ==
    /\ letters[l].status = "draft" /\ letters[l].number = 0
    /\ ~Generating(l)
    /\ letters' = [letters EXCEPT ![l].status = "deleted"]
    /\ UNCHANGED <<sequence, taken, drawn, archive, prints, legalClerks, posting, typesetter,
                   frozen, posted, story>>

-----------------------------------------------------------------------------
(* Statements *)

Allowed(op) ==
    CASE op = "generate" -> {"draft", "generated"}
      [] op = "sign"     -> {"generated", "sent", "signed"}
      [] OTHER           -> {"draft", "generated", "sent"}

(* The upsert of Next locks the sequence until the transaction ends.            *)
SequenceFree ==
    \A k \in LegalClerks :
        legalClerks[k].op = "generate" => letters[legalClerks[k].of].number # 0

(* notSending, in the statement's snapshot.                                     *)
BeginStatement(k, op, l) ==
    /\ legalClerks[k] = NoLegalClerk
    /\ op \in {"update", "cancel", "generate"}
    /\ letters[l].status \in Allowed(op) /\ l \notin frozen
    /\ op = "generate" =>
         /\ ~Generating(l)
         /\ taken + Cardinality({j \in LegalClerks : legalClerks[j].op = "generate"}) < MaxLetterSnapshots
         /\ letters[l].number = 0 => SequenceFree
    /\ legalClerks' = [legalClerks EXCEPT ![k] = [op |-> op, of |-> l, file |-> 0]]
    /\ UNCHANGED <<letters, sequence, taken, drawn, archive, prints, posting, typesetter,
                   frozen, posted, story>>

(* RecordSnapshot *)
Issued(row) ==
    [row EXCEPT !.status = "generated", !.number = IF @ = 0 THEN sequence + 1 ELSE @,
                !.snapshot = taken + 1, !.render = "pending", !.claim = 0]

Generate(k) ==
    LET l == legalClerks[k].of IN
    /\ legalClerks[k].op = "generate"
    /\ WriteLetter(l, Issued(letters[l]))
    /\ sequence' = IF letters[l].number = 0 THEN sequence + 1 ELSE sequence
    /\ taken' = taken + 1
    /\ Leaves(k)
    /\ UNCHANGED <<drawn, archive, prints, typesetter, frozen, posted, story>>

(* The transaction is rolled back, and the number with it.                      *)
GenerateFails(k) ==
    /\ legalClerks[k].op = "generate"
    /\ Leaves(k)
    /\ UNCHANGED <<letters, sequence, taken, drawn, archive, prints, posting, typesetter,
                   frozen, posted, story>>

Redrafted_KeepsClaim(row) ==
    [row EXCEPT !.status = "draft", !.snapshot = 0, !.pdf = 0]

(* Update: snapshot, claim and PDF are dropped, the number is kept.              *)
Redrafted(row) ==
    [row EXCEPT !.status = "draft", !.snapshot = 0, !.render = "none", !.claim = 0, !.pdf = 0]

Update(k) ==
    LET l == legalClerks[k].of IN
    /\ legalClerks[k].op = "update" /\ ~Generating(l)
    /\ \/ /\ letters[l].status \in Allowed("update")
          /\ WriteLetter(l, Redrafted(letters[l]))
          /\ LeavesFile(k, letters[l].pdf)
       \/ /\ letters[l].status \notin Allowed("update")
          /\ Leaves(k) /\ UNCHANGED <<letters, posting>>
    /\ UNCHANGED <<sequence, taken, drawn, archive, prints, typesetter, frozen, posted, story>>

Cancel(k) ==
    LET l == legalClerks[k].of IN
    /\ legalClerks[k].op = "cancel" /\ ~Generating(l)
    /\ \/ /\ letters[l].status \in Allowed("cancel")
          /\ WriteLetter(l, [letters[l] EXCEPT !.status = "cancelled"])
       \/ /\ letters[l].status \notin Allowed("cancel")
          /\ UNCHANGED <<letters, posting>>
    /\ Leaves(k)
    /\ UNCHANGED <<sequence, taken, drawn, archive, prints, typesetter, frozen, posted, story>>

-----------------------------------------------------------------------------
(* Signing *)

(* MarkSigned reads the row and stores the scan, if one is given.                *)
StoreScan(k, l) ==
    /\ legalClerks[k] = NoLegalClerk
    /\ letters[l].status \in Allowed("sign")
    /\ \/ /\ drawn < MaxLetterFiles
          /\ drawn' = drawn + 1 /\ archive' = archive \cup {drawn + 1}
          /\ legalClerks' = [legalClerks EXCEPT ![k] = [op |-> "scanned", of |-> l, file |-> drawn + 1]]
       \/ /\ legalClerks' = [legalClerks EXCEPT ![k] = [op |-> "scanned", of |-> l, file |-> 0]]
          /\ UNCHANGED <<drawn, archive>>
    /\ UNCHANGED <<letters, sequence, taken, prints, posting, typesetter, frozen, posted, story>>

BeginSign(k) ==
    /\ legalClerks[k].op = "scanned"
    /\ \/ /\ legalClerks[k].of \notin frozen
          /\ legalClerks' = [legalClerks EXCEPT ![k].op = "sign"]
       \/ LeavesFile(k, legalClerks[k].file)
    /\ UNCHANGED <<letters, sequence, taken, drawn, archive, prints, posting, typesetter,
                   frozen, posted, story>>

Signed(row, f) == [row EXCEPT !.status = "signed", !.scan = IF f = 0 THEN @ ELSE f]

(* SetSigned; MarkSigned deletes the scan that was replaced, or, on any error, its own: *)
(* also when only the reply of the commit is lost.                               *)
SetSigned(k) ==
    LET l == legalClerks[k].of
        f == legalClerks[k].file
    IN
    /\ legalClerks[k].op = "sign" /\ ~Generating(l)
    /\ \/ /\ letters[l].status \in Allowed("sign")
          /\ WriteLetter(l, Signed(letters[l], f))
          /\ \/ /\ LeavesFile(k, IF f = 0 THEN 0 ELSE letters[l].scan)
                /\ story' = [story EXCEPT !.signed[l] = IF @ = 0 THEN letters[l].snapshot ELSE @]
             \/ /\ LeavesFile(k, f)
                /\ story' = [story EXCEPT !.signed[l] = IF @ = 0 THEN letters[l].snapshot ELSE @,
                                          !.unscanned = @ \cup {f}]
       \/ /\ letters[l].status \notin Allowed("sign")
          /\ LeavesFile(k, f) /\ UNCHANGED <<letters, posting, story>>
    /\ UNCHANGED <<sequence, taken, drawn, archive, prints, typesetter, frozen, posted>>

DeleteLegalFile(k) ==
    /\ legalClerks[k].op = "delete"
    /\ archive' = archive \ {legalClerks[k].file}
    /\ Leaves(k)
    /\ UNCHANGED <<letters, sequence, taken, drawn, prints, posting, typesetter, frozen, posted, story>>

-----------------------------------------------------------------------------
(* The document worker, one job at a time *)

Rendered(row) == row.status \in {"generated", "sent", "signed"} /\ row.snapshot # 0

(* A pending row, or one whose worker is gone.                                   *)
ClaimRender(l) ==
    /\ typesetter = NoRender /\ drawn < MaxLetterFiles
    /\ Rendered(letters[l]) /\ letters[l].render \in {"pending", "rendering"}
    /\ ~Generating(l)
    /\ drawn' = drawn + 1
    /\ letters' = [letters EXCEPT ![l].render = "rendering", ![l].claim = drawn + 1]
    /\ typesetter' = [step |-> "claimed", of |-> l, claim |-> drawn + 1,
                      snapshot |-> letters[l].snapshot]
    /\ UNCHANGED <<sequence, taken, archive, prints, legalClerks, posting, frozen, posted, story>>

StorePDF ==
    /\ typesetter.step = "claimed"
    /\ archive' = archive \cup {typesetter.claim}
    /\ prints' = [prints EXCEPT ![typesetter.claim] = typesetter.snapshot]
    /\ typesetter' = [typesetter EXCEPT !.step = "stored"]
    /\ UNCHANGED <<letters, sequence, taken, drawn, legalClerks, posting, frozen, posted, story>>

Claimed(row) == row.claim = typesetter.claim /\ row.render = "rendering"

(* The worker deletes its own PDF. *)
DeletesOwn == typesetter' = [typesetter EXCEPT !.step = "deleting"]

DeletesReplaced(pdf) ==
    typesetter' = IF pdf = 0 THEN NoRender
                  ELSE [typesetter EXCEPT !.step = "deleting", !.claim = pdf]

Printed(row) == [row EXCEPT !.render = "ready", !.claim = 0, !.pdf = typesetter.claim]

(* CompleteRender returns the PDF it replaced.  On any error recordOutcome deletes the *)
(* worker's own: one that is superseded or could not be recorded, and also one that is  *)
(* recorded, when only the reply is lost.                                          *)
CompleteRender ==
    LET l == typesetter.of IN
    /\ typesetter.step = "stored" /\ ~Generating(l)
    /\ \/ /\ Claimed(letters[l])
          /\ WriteLetter(l, Printed(letters[l]))
          /\ \/ DeletesReplaced(letters[l].pdf) /\ UNCHANGED story
             \/ /\ DeletesOwn
                /\ story' = [story EXCEPT !.unprinted = @ \cup {typesetter.claim}]
       \/ DeletesOwn /\ UNCHANGED <<letters, posting, story>>
    /\ UNCHANGED <<sequence, taken, drawn, archive, prints, legalClerks, frozen, posted>>

DeleteReplacedPDF ==
    /\ typesetter.step = "deleting"
    /\ archive' = archive \ {typesetter.claim}
    /\ typesetter' = NoRender
    /\ UNCHANGED <<letters, sequence, taken, drawn, prints, legalClerks, posting, frozen, posted, story>>

(* FailRender under the claim, when the conversion fails; it may be superseded or fail. *)
FailRender ==
    LET l == typesetter.of IN
    /\ typesetter.step = "claimed" /\ ~Generating(l)
    /\ \/ /\ Claimed(letters[l])
          /\ WriteLetter(l, [letters[l] EXCEPT !.render = "failed", !.claim = 0])
       \/ UNCHANGED <<letters, posting>>
    /\ typesetter' = NoRender
    /\ UNCHANGED <<sequence, taken, drawn, archive, prints, legalClerks, frozen, posted, story>>

(* FailRender without one, when the claim itself failed.                         *)
FailUnclaimed(l) ==
    /\ typesetter = NoRender /\ ~Generating(l)
    /\ letters[l].render \in {"pending", "rendering"}
    /\ WriteLetter(l, [letters[l] EXCEPT !.render = "failed", !.claim = 0])
    /\ UNCHANGED <<sequence, taken, drawn, archive, prints, legalClerks, typesetter, frozen, posted, story>>

-----------------------------------------------------------------------------
(* Send *)

PdfReady(row) == row.render = "ready" /\ row.pdf # 0

(* getDocument and attachment *)
ReadLetter(s, l) ==
    /\ posting[s] = NoPosting
    /\ letters[l].status \in {"generated", "sent", "signed"} /\ PdfReady(letters[l])
    /\ letters[l].pdf \in archive
    /\ posting' = [posting EXCEPT
           ![s] = [step |-> "read", of |-> l, snapshot |-> prints[letters[l].pdf],
                   number |-> letters[l].number, same |-> TRUE]]
    /\ UNCHANGED <<letters, sequence, taken, drawn, archive, prints, legalClerks, typesetter,
                   frozen, posted, story>>

(* The mailer takes one delivery of a letter at a time.                          *)
QueueLetter(s) ==
    /\ posting[s].step = "read"
    /\ \/ /\ posting[s].of \notin frozen
          /\ frozen' = frozen \cup {posting[s].of}
          /\ posting' = [posting EXCEPT ![s].step = "queued"]
       \/ /\ posting[s].of \in frozen
          /\ posting' = [posting EXCEPT ![s] = NoPosting]
          /\ UNCHANGED frozen
    /\ UNCHANGED <<letters, sequence, taken, drawn, archive, prints, legalClerks, typesetter,
                   posted, story>>

(* The row is read again; CancelQueued.                                          *)
CheckQueued(s) ==
    /\ posting[s].step = "queued"
    /\ \/ /\ posting[s].same
          /\ posting' = [posting EXCEPT ![s].step = "checked"]
          /\ UNCHANGED frozen
       \/ /\ ~posting[s].same
          /\ posting' = [posting EXCEPT ![s] = NoPosting]
          /\ frozen' = frozen \ {posting[s].of}
    /\ UNCHANGED <<letters, sequence, taken, drawn, archive, prints, legalClerks, typesetter,
                   posted, story>>

Post(s) == posted' = posted \cup {[of |-> posting[s].of, snapshot |-> posting[s].snapshot,
                                   number |-> posting[s].number]}

(* DeliverQueued: accepted and recorded as sent, *)
PostLetter(s) ==
    /\ posting[s].step = "checked"
    /\ Post(s)
    /\ frozen' = frozen \ {posting[s].of}
    /\ posting' = [posting EXCEPT ![s].step = "accepted"]
    /\ UNCHANGED <<letters, sequence, taken, drawn, archive, prints, legalClerks, typesetter, story>>

(* or recorded as failed, accepted or not.                                       *)
PostFails(s) ==
    /\ posting[s].step = "checked"
    /\ Post(s) \/ UNCHANGED posted
    /\ frozen' = frozen \ {posting[s].of}
    /\ posting' = [posting EXCEPT ![s] = NoPosting]
    /\ UNCHANGED <<letters, sequence, taken, drawn, archive, prints, legalClerks, typesetter, story>>

(* MarkSent does not look at the snapshot.                                       *)
MarkLetterSent(s) ==
    LET l == posting[s].of
        row == letters[l]
        turns == row.status = "generated"
    IN
    /\ posting[s].step = "accepted" /\ ~Generating(l)
    /\ \/ /\ row.status \in {"generated", "sent", "signed"}
          /\ letters' = [letters EXCEPT ![l].status = IF turns THEN "sent" ELSE @]
          /\ posting' = [r \in LetterSenders |->
                IF r = s THEN NoPosting
                ELSE IF posting[r].of = l THEN [posting[r] EXCEPT !.same = FALSE] ELSE posting[r]]
          /\ story' = IF turns /\ row.snapshot # posting[s].snapshot
                        THEN [story EXCEPT !.overtaken = @ \cup {row.snapshot}] ELSE story
       \/ /\ row.status \notin {"generated", "sent", "signed"}
          /\ posting' = [posting EXCEPT ![s] = NoPosting]
          /\ UNCHANGED <<letters, story>>
    /\ UNCHANGED <<sequence, taken, drawn, archive, prints, legalClerks, typesetter, frozen, posted>>

(* ReleaseStale of the mailer, of a delivery whose sender is gone.               *)
ReleaseLetter(l) ==
    /\ l \in frozen
    /\ \A s \in LetterSenders : posting[s].of = l => posting[s].step \notin {"queued", "checked"}
    /\ frozen' = frozen \ {l}
    /\ UNCHANGED <<letters, sequence, taken, drawn, archive, prints, legalClerks, posting,
                   typesetter, posted, story>>

(* A client that leaves takes its request along, short of the exchange with the mail server. *)
LeaveLetter(s) ==
    /\ posting[s].step \in {"queued", "accepted"}
    /\ posting' = [posting EXCEPT ![s] = NoPosting]
    /\ UNCHANGED <<letters, sequence, taken, drawn, archive, prints, legalClerks, typesetter,
                   frozen, posted, story>>

(* The server stops: transactions are rolled back, rows and files stay.          *)
StopLegal ==
    /\ \/ \E k \in LegalClerks : legalClerks[k] # NoLegalClerk
       \/ typesetter # NoRender
       \/ \E s \in LetterSenders : posting[s] # NoPosting
    /\ \/ UNCHANGED posted
       \/ \E s \in LetterSenders : posting[s].step = "checked" /\ Post(s)
    /\ legalClerks' = [k \in LegalClerks |-> NoLegalClerk]
    /\ typesetter' = NoRender
    /\ posting' = [s \in LetterSenders |-> NoPosting]
    /\ UNCHANGED <<letters, sequence, taken, drawn, archive, prints, frozen, story>>

-----------------------------------------------------------------------------

LettersNext ==
    \/ \E l \in Letters :
         \/ CreateLetter(l) \/ DeleteDraft(l) \/ ClaimRender(l) \/ FailUnclaimed(l) \/ ReleaseLetter(l)
         \/ \E k \in LegalClerks :
              \/ \E op \in {"update", "cancel", "generate"} : BeginStatement(k, op, l)
              \/ StoreScan(k, l)
         \/ \E s \in LetterSenders : ReadLetter(s, l)
    \/ \E k \in LegalClerks :
         \/ Generate(k) \/ GenerateFails(k) \/ Update(k) \/ Cancel(k)
         \/ BeginSign(k) \/ SetSigned(k) \/ DeleteLegalFile(k)
    \/ StorePDF \/ CompleteRender \/ DeleteReplacedPDF \/ FailRender
    \/ \E s \in LetterSenders :
         \/ QueueLetter(s) \/ CheckQueued(s) \/ PostLetter(s) \/ PostFails(s)
         \/ MarkLetterSent(s) \/ LeaveLetter(s)
    \/ StopLegal

LettersSpec == LettersInit /\ [][LettersNext]_legalVars

-----------------------------------------------------------------------------
(* Properties *)

(* Types of the rows, the files and the requests.                               *)
LettersTypeOK ==
    /\ letters \in [Letters -> Letter]
    /\ sequence \in Nat /\ taken \in LetterSnapshot /\ drawn \in LetterFile
    /\ archive \subseteq 1..MaxLetterFiles /\ prints \in [1..MaxLetterFiles -> LetterSnapshot]
    /\ legalClerks \in [LegalClerks -> LegalClerk]
    /\ posting \in [LetterSenders -> Posting] /\ typesetter \in Typesetter
    /\ frozen \subseteq Letters

(* The numbers given are 1, 2, ... without a gap, each to one letter, and a letter that was *)
(* mailed keeps the number its mails carry.                                       *)
LettersAreNumbered ==
    LET numbered == {l \in Letters : letters[l].number # 0} IN
    /\ {letters[l].number : l \in numbered} = 1..sequence
    /\ Cardinality(numbered) = sequence
    /\ \A m \in posted : letters[m.of].number = m.number

(* The PDF on offer is of the letter's snapshot, and what a row points at exists, except a *)
(* scan or a PDF whose recording looked like a failure to its writer, who then deletes it.  *)
LegalFilesExist ==
    \A l \in Letters :
        LET row == letters[l] IN
        /\ row.pdf # 0 => row.pdf \in archive \cup story.unprinted
        /\ PdfReady(row) => prints[row.pdf] = row.snapshot /\ row.snapshot # 0
        /\ row.scan # 0 => row.scan \in archive \cup story.unscanned

(* A signed letter stays signed, with the snapshot it was signed as; a letter called sent *)
(* was mailed as it is, unless it was generated anew between its mail and the mark.    *)
LetterStands ==
    \A l \in Letters :
        LET row == letters[l] IN
        /\ story.signed[l] # 0 => row.status = "signed" /\ row.snapshot = story.signed[l]
        /\ row.status = "sent" =>
             \/ row.snapshot \in story.overtaken
             \/ \E m \in posted : m.of = l /\ m.snapshot = row.snapshot

(* What a letter's number, files, status and mails say of it agrees, whatever requests,  *)
(* renders, failures and restarts come between.                                    *)
LettersInOrder == LettersAreNumbered /\ LegalFilesExist /\ LetterStands
=============================================================================
