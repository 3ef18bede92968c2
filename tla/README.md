# Kantor: TLA+ verification

Kantor is a multi-tenant back office (Go backend, PostgreSQL, React frontend, a browser
extension): HR records, compensation, reimbursements, payslips and contracts sent by
e-mail, project boards, activity tracking, marketing pipelines, WhatsApp broadcasts and
monitors. This directory holds the TLA+ models of it, the TLC runs and the proofs.

Paths below are relative to `src/backend/internal/` unless they start with `src/`.

## How to read it

| file | what it is |
|---|---|
| `DocumentRender.tla` | the PDF side of payslips: requests, queue, worker, sweep, files, restarts |
| `PayslipDocument.tla` | abstract specification: one document per slip, which `DocumentRender` implements |
| `PayslipSend.tla` | e-mailing slips: senders, the delivery log, edits and Void & Reissue meanwhile |
| `PayslipCarryOver.tla` | which bonuses and reimbursements go on which month's slip |
| `EmploymentContracts.tla` | contracts: edits, numbers, generation, sending, signing, renewal |
| `ActivityTracker.tla` | tracked time: consent, sessions, heartbeats, replays, sweeps |
| `CampaignBoard.tla` | the marketing board: lanes, stages and campaigns under row locks |
| `TaskBoard.tla` | a project's board: columns, tasks, members, assignment |
| `Broadcasts.tla` | WhatsApp: the minute loop, runs, the daily limit, the cached client |
| `Reimbursements.tla` | claims, receipts, payments and the finance records they become |
| `Monitors.tla` | uptime and DNS checks, the rolled-up status, alerts |
| `RolePermissions.tla` | who may do what: roles, assignments and the cache each request is checked against |
| `OfflineQueue.tla` | the browser extension: ticks, pop-up messages and the queue of unsent heartbeats |
| `LegalLetters.tla` | legal documents: numbers, edits, renders, mails, signed scans |
| `ReminderJobs.tla` | the minute tickers that remind people, through the tenants |
| `MCBackOffice.tla` | composes the last eleven for TLC, one scene at a time |
| `MC*.tla`, `MC*_*.cfg` | TLC instances; `<module>_<run>.cfg` |
| `*_proofs.tla` | TLAPS proofs: types, inductive invariants, properties, the refinement; `Agreements_proofs` is about `EmploymentContracts` and `LegalLetters`, `Tracking_proofs` about `ActivityTracker` and `OfflineQueue`, `BackOffice_proofs` about `RolePermissions` and `Monitors`, `PayAndClaims_proofs` about `PayslipCarryOver` and `Reimbursements`, `Messages_proofs` about `Broadcasts` and `ReminderJobs`, `Boards_proofs` about `CampaignBoard` and `TaskBoard` |
| `PROJECT.json` | components, runs, mutants, the map from definitions to source lines, hazards |

`tlc -config MCPayslipSend_guard.cfg MCPayslipSend.tla` runs one instance,
`tlapm PayslipSend_proofs.tla` checks one proof module. A definition named `X_Something`
just before `X` is a plausible bug of `X`: replacing `X` by it makes the property listed
in `PROJECT.json` fail. Specifications never use them.

## Inventory

| component | state | operations | interacts with | hard behaviours |
|---|---|---|---|---|
| Document worker (`service/hris/document_worker.go`, `payslip_render.go`) | channel of 1024 jobs and dedupe keys in memory; `render_*` columns; files | Enqueue, Run, claim, convert, record, Sweep | payslips, contracts, store, LibreOffice | drops, stale claims, crashes between two statements, late results, replaced files |
| Document store (`document_storage.go`) | encrypted files | Write, Read, Delete | worker, mailer | files without rows, rows without files |
| Payslips (`service/hris/payslips.go`, `repository/hris/payslips.go`) | rows draft, sent, void; revisions | Generate, Update, Send, batch, Void & Reissue | worker, mailer, compensation, reimbursements | no transaction spans a send; two requests on one slip |
| Mailer and delivery log (`document_mailer.go`, `service/auth/document_mail.go`, `repository/notifications/email_deliveries.go`) | `email_deliveries` rows; batches in memory | Enqueue, verify, Deliver, SweepStale | payslips, contracts, SMTP | in-flight guard, stale release of live senders, SMTP timeouts, gone clients |
| Assembly, carry-over (`payslip_assembly.go`) | none; reads rows by several statements | selection, totals, layout | payslips, bonuses, reimbursements | two clocks, read races, voided anchors |
| Contracts, NDA, legal letters | rows, numbering sequence | issue, sign, amend, terminate | worker, mailer | numbers, one active contract |
| Compensation, reimbursements | rows with review states | create, review, approve, pay, bulk | carry-over, reminders | bulk operations with partial failure |
| Tracker and browser extension (`service/operational/tracker.go`, `src/extension/background.js`) | sessions, entries; an offline queue in the browser | heartbeat, batch, start/end session, stale sweep | each other over HTTP | retries, duplicates, reordered heartbeats, days and offline gaps |
| Kanban, campaigns | column and task positions | create, move, delete | automations | concurrent moves of one ordering |
| WhatsApp, e-mail, Discord and tracker reminders | schedules, last-run marks | minute tickers | gateway, SMTP | once per slot across restarts |
| VPS and domain monitors | results, consecutive failures | probes, rollups, purges | alerts | overlapping probes |
| Accounts, roles, tenants | tokens, permission cache | sign-in, refresh, role changes | every handler | a cache that outlives a change |
| Document generation, SMTP client, exports, frontend | none | pure functions and I/O | | |

What makes each correct, in a sentence: a PDF on offer is of the current snapshot and its
file exists; whoever holds a slip by mail holds what its row says, once; a payment is on
exactly one slip; a number is given once; a session's time is counted once; an ordering
stays an ordering; a job runs once per slot; an alert follows every change.
`PROJECT.json` lists the components with their status and every hazard at its line.

## Plan

Modelled first: the documents an employee receives, because they cross the most
boundaries (memory queue, rows, files, SMTP, clocks) and mistakes in them cannot be undone.

1. `DocumentRender` with the abstract `PayslipDocument` (done, proved).
2. `PayslipSend` (done, proved).
3. `PayslipCarryOver` (done, proved).
4. `EmploymentContracts` (done, proved): numbers, revisions, signatures and renewals.
5. `ActivityTracker` (done, proved): tracked time counted once, and only with consent.
6. `CampaignBoard` and `TaskBoard` (done, proved): two boards, one with row locks and one without.
7. `Broadcasts` (done, proved): jobs once per slot across restarts.
8. `Reimbursements` (done, proved): review and payment in bulk, the books, files.
9. `Monitors` (done, proved): consecutive failures, alerts, the rolled-up status.
10. `RolePermissions` (done, proved): a change of roles is in effect at once, a stale copy ends.
11. `OfflineQueue` (done, proved): no heartbeat is lost between tick, queue and server.
12. `LegalLetters` (done, proved): what was signed is what is kept.
13. `ReminderJobs` (done, proved): every reminder once, none forgotten.
14. Left: token rotation and sessions of accounts.

Each module keeps its bounds out of the invariants, so that the invariants can be proved.

## DocumentRender

**State and code.** `slips` has the columns of the payslips table that rendering touches;
a snapshot is the number of the write that stored it, since every write encrypts afresh.
A PDF is the number of the snapshot it was rendered from, which is what its sha256 tells
apart; a claim token and the file written under it share a number. `queue` and `queued`
are the channel and the map of `DocumentWorker`, `jobs` its `documentRenderState` values, `pc` says
which of `Run`, `processQueued`, `prepareBatch`, the conversion, `storePDFs` and
`recordOutcome` comes next. `held`, `mail` and `unmarked` follow a sender through
attachment, delivery row and `MarkSent`; `PayslipSend` has the details of that side.

**Actions.** Requests: `StoreSnapshot` (Create, UpdateDraftSnapshot), `ReadAttachment`,
`QueueMail`, `VerifyMail`, `CloseMail`, `MarkSent`, `Void`, `Enqueue`. Ticker: `Sweep`; its
LIMIT 500 is left out. Worker: one action per statement or per step outside the database,
with its error: `Prepare…`, `Fail…`, `Convert`, `Store`, `Record…`, `DeleteReplaced`, `Panic`.
`GoStale` is the stale window passing, `Crash` a restart, which keeps rows and files and
forgets the rest. `LostReplies` lets a statement commit while its caller sees an error.

**Runs.**

- `render_claims` (2.8 million states): one slip, 3 snapshots, 2 crashes or database errors,
  1 sender, room for one job. A second snapshot overtakes the render of the first,
  a third comes after a restart; more slips add nothing because claims and rows of two slips share only
  the queue and the numbers. `ReadyMatchesSnapshot`: what is offered as ready is of the
  current snapshot. `RecordedFileExists`: what a row points at has not been deleted.
  `MailCarriesSnapshot`: a verified mail carries what the row says. `SettledSlipIsFinal`:
  after sending, content, recorded PDF and file stay. `FailureIsCurrent`: a failure under a
  claim is about the current snapshot. `ImplementsDocument`: all of this refines
  `PayslipDocument`.
- `render_queue` (275 thousand states): two slips and room for one job, so jobs are dropped,
  2 snapshots, 1 fault, nobody sends. `KeysAreWaiting`: every dedupe key is that of a job that waits.
  `NoOrphanFiles`: without a fault, no file is left that no row and no job knows.
  `RenderSettles` (liveness): each draft that waits for its PDF gets an outcome.
- `render_lost` (violation of `ReadyPdfIsKept`): see Findings.

**Fairness.** The worker is one goroutine that never waits for anybody (`Worker`); a request
that stored a snapshot goes on to offer it (`Enqueue`); the stale window passes (`GoStale`);
`startBackgroundJobs` in `app/app.go` starts a one-minute ticker for `Sweep`. Nothing is assumed
of requests, and faults are finite by their bound: a database that is down forever
renders nothing. In the code, too, a crash takes `Enqueue` with it.

## PayslipSend

**State and code.** One employee. A slip is a month and a revision (`slips`); every sender
has one delivery row (`deliveries`), and `senders[s].step` says between which two statements of
`Send`, of a batch job or of `DocumentMailService.Deliver` it is. `editors` are requests in Generate,
Update or Void & Reissue. `mailed` is what the SMTP server accepted: the world outside.

**Actions.** `Load` (the reads of `Send` or `selectForSend`), `Enqueue` (the queued row, kept
unique by an index), `Verify` (`verifyQueued` with `OverlappingSlip`), `Cancel`, `Start`,
`Transmit`, `LateAccept` (accepted after the client's timeout), `LogOutcome`, `LogError`, `MarkSlip`,
`Abandon` (the request is cancelled before the slip is marked), `GoStale`, `ReleaseStale`, `Crash`; `Generate`, `Create`,
`Update`, `BeginUpdate`, `CommitUpdate`, `CheckVoid`, `VoidReissue`. The release of stale rows that `Enqueue` and
`InFlight` begin with is a statement of its own in the code and is the action `ReleaseStale`
here. An UPDATE is two steps, as READ COMMITTED allows: it reads the guard in the snapshot taken when
the statement starts (`BeginUpdate`) and commits later, if the row still is a draft (`CommitUpdate`). So an UPDATE
that began before a guard was taken passes it. `raced` of a sender is a history: at `Verify`, such an UPDATE of its
slip was still running.

**Runs.**

- `send_guard` (502 thousand states): two months that may share an item, two senders, one
  editor, 2 snapshots, 1 fault. `MailIsCurrent`: from its check to the SMTP answer nobody
  replaces what is being sent. `VerifiedDraftsDisjoint`: two drafts past their checks share no
  item. Both except a sender that `raced`, which is what `send_skew` shows: an UPDATE that was older than the guard and
  committed before the check is noticed by it, one that begins later sees the guard. `LogIsTrue`: sent means accepted; failed means not accepted, short of a fault.
  `GuardIsReleased` (liveness): no delivery row blocks its slip forever. Two senders are the
  least that can race; a third only adds another rival of the same kind.
- `send_reissue` (2.8 million states): one month with a reissue, two senders, two
  editors, 1 fault. `SentSlipWasMailed`: a sent or void slip was mailed as the row keeps
  it. `ReissueKeepsItems`: through regenerations and edits.
- `send_double`, `send_skew`, `send_unmarked` (violations): see Findings.

**Fairness.** A sender that started goes on (`Proceed`): batches run in a goroutine and every statement
and SMTP exchange has a timeout. The stale window passes, and the tenant's ticker
`document_delivery_stale_sweep` runs. Nothing is assumed of editors, faults or `Abandon`.

## PayslipCarryOver

**State and code.** One employee, months 1 to `LastMonth` of `MonthLength` ticks. A bonus or
reimbursement is open, stamped (its `approved_at` or `paid_at` is `NOW()`, the start of a
statement that has not committed) or settled. A slip has its `generated_at` and
its items. A request that builds a slip reads the clock (`Generate`), then, in statements of
their own, the records, the anchor and the consumed items (`ReadRecords`, `ReadAnchor`,
`ReadConsumed`, as `assembleFor` does), and stores (`Create`, `Rebuild`). `Update` reads a draft
and `StoreEdit` writes back the items it read. `Floor`, `TakesReimbursement` and `TakesBonus` are the
selection functions. Sending is one step here and takes a draft that shares no item with a
sent slip. An approval is never withdrawn and a payment never deleted; a month's slips of
other employees do not matter.

**Mishaps.** The rule cannot hold under every circumstance, and the constant `Mishaps` lets
six of them in, one by one. `NothingLost` fails under each of them alone:

- `early`: a slip is built before its month (or with its grace reaching before it);
- `unsent`: a slip is built while an earlier one waits to be sent and nothing before it is;
- `late`: a month's first slip is built after that of a later month, which had no anchor then and
  took its own month alone, so that a bonus of a month in between is on neither;
- `approval`: a bonus of an older month is approved while, or in the tick in which, a slip reads;
- `edit`: a draft is edited and rebuilt at once;
- `rebuild`: a draft is rebuilt by two requests at once; the one that read less stores last, after
  a later month's slip has left out what the other one took.

`early` and `edit` contradict what the documents say and are runs; `unsent` follows from
"L is sent" in the documents, `approval` is accepted by the comment of `payslipCarryOverGrace`.
`late` and `rebuild` need three months: TLC finds them with `LastMonth = 3`, `MonthLength = 1`, a
grace of 1 and one bonus (of month 2), and the instance below, which has two, could not. They came up
in the proof about `NothingLost`. The guards are in `Stamp`, `Generate`, `Update` and
`ReadAnchor`. The pass run lets none in. Of the theorems, `WindowCorrect` lets in all and `NothingIsSweptIn` all but `edit`.
Nothing in the code prevents the six, so `NothingLost` is no promise of the code and no theorem claims it: what the
run shows, and the lemma `LostByMishapOnly` for every value of the constants, is that the list is complete. An item is
lost through one of the six or not at all.

**Runs.**

- `carry_windows` (2.8 million states): two months, each with a void and a reissue, one reimbursement, one bonus of the
  first month, two requests, 5 ticks with months of 2, a grace of 2. Ticks are of any length; the grace is longer than a statement takes, which `Tick` keeps
  (`QueryContext` ends a statement after 5 seconds, the grace is 5 minutes). Two months
  are an anchor and a slip that starts from it; with reissues the anchor comes and goes.
  `NothingLost`: when no draft waits, what is due is on a sent slip or the next month's slip
  would take it. `NothingSweptIn`: a reimbursement on a slip was paid in or after the first
  month with a slip and not after the slip's clock. `ReissueKeepsWindow`: a reissue has the items
  and clock of the slip it replaces.
- `carry_early`, `carry_edit` (violations): see Findings.

## EmploymentContracts

**State and code.** `contracts` has the columns of `employment_contracts` that decide anything: status,
number with its month, revision, `recordOnly`, the snapshot of the last generation, the render's
state and the PDF, the contract it renews. `counters` is `document_sequences`. A transaction
that has written a row and not committed is in `pending`; others read the old row. `editing` and
`mailing` are requests between their read and their statement, `guards` the delivery rows in flight,
`mails` what was accepted. `missed` remembers that an accepted mail's contract was not marked sent.

**Actions.** `CreateContract`, `ReadForEdit`/`UpdateTerms`, `GenerateContract` (which takes the number),
`RenderContract`/`RenderFails`, `SetStatus` with `StatusSources`, `Renew`, `ReadForSend`, `Queue`,
`VerifyQueued`, `Deliver`/`DeliverFails`, `MarkSent`, `AbandonSend`, `ReleaseGuard`; `CommitWrite` and
`RollBack` end a transaction. The render is one step, since `DocumentRender` has its inside.

**Properties** (`back_office`; also proved). `NumbersAreGapless`: the numbers of a month are 1 to n,
each on one contract, whatever is rolled back. `RevisionTellsDocuments`: two mails that show the same
number and revision carry the same documents. `SignedAsIssued`: what is signed has its documents and they
say what the row says. `ChainNeverForks`: at most one living renewal, of a contract that was signed.

## ActivityTracker

**State and code.** One user. `sessions` are rows of `activity_sessions`; `credited` is the set
of ticks a session was credited for, a history variable beside its `total`. `calls` are requests that
have arrived and may hold a batch of heartbeats. The client may send any timestamp and any session it was given, late,
twice, out of order: that covers what the extension's offline queue can do. `closing` is
a revocation between its two statements.

**Actions.** `GiveConsent`, `RevokeConsent`, `EndActiveSessions`, `LoseRevocation`, `Arrive`, `RequireConsent`,
`StartSession`, `EndSession`, `RecordHeartbeat` (with the rotation at midnight and after a gap),
`Disconnect`, `EndStaleSessions`, `PassTime`.

**Properties.** `NoDoubleCredit`: one session is open at most, totals equal the ticks credited, and
no tick is credited to two. `NothingWithoutConsent`: nothing is credited for a time without
consent, except for a session that survived its revocation (`slipped`): one whose start had passed its
check, or whose revocation failed between its statements. Both are ways of the code.

## CampaignBoard

**State and code.** `lanes` are `campaign_columns`, `cards` campaigns with their placement, `holds` the locks
of each request, `tx` what a request is doing. Statements take row locks one at a time, a
deferred change is visible when it commits. The advisory lock of `lockCampaignColumnLayout` is `Layout`.

**Actions.** `CreateCampaign`, `UpdateCampaign`, `MoveCampaign`, then `LockCampaign`, `FindStage`, `LockLane` (in the
order of their ids), `Place`; `DeleteCampaign`; `CreateColumn`, `DeleteColumn`, `ReorderColumns`, `EnsureStageColumns`, then
`LockLayout`, `LockRow`, `AddLane`, `DropLane`, `OrderLanes`, `AdoptStage`, `AppendStage`; `CommitBoard`, `RollBackBoard`.

**Properties.** `BoardInOrder`: no two cards of a lane share a position and none is in a lane that is
gone (`NoSharedPosition`); lanes are 1 to n, a stage has one lane (`LanesInOrder`); a card in a stage's lane has
that status, unless the lane was given its stage while it had cards (`StatusMatchesLane`). `PlacementsNeverDeadlock`: placements never wait for each other in a
circle, as the code claims of moves in opposite directions. Nothing of the kind is claimed for two changes of the layout:
`CloseGap` and the reorder lock rows in the order the database finds them, and a deadlock between them
is ended by the database (`RollBackBoard`).

## TaskBoard

**State and code.** `columns` and `tasks` with their positions, `team` (members in order of joining), `cursor` of the
round-robin, `movers` requests between their reads and their writes. `notified` and `turns` are histories.
Nothing a request has read is locked. `tangled` has the columns in which a request wrote from
positions that another had changed since, `skewed` says that a column was deleted while another
was added, `hushed` has the tasks whose notice failed or whose assignee two requests changed.

**Actions.** `StartCreate`, `StartUpdate`, `ReadProject`, `PickInTurn`, `PickMember`, `CheckAssignee`, `CreateTask`, `UpdateTask`,
`SendTaskAssignedNotification`, `StartMove`, `MoveTask`, `DeleteTask`, `ReadColumns`, `InsertColumn`, `RemoveColumn`,
`OrderColumns`, `MutateProjectMember`, `FailRequest`.

**Property.** `BoardIsKept`: `ColumnsInOrder` and `TasksInOrder` (positions stay 1 to n, except where requests
tangled them), `AssigneesAreTold` (whose task it is was told so or took it), `TurnsAreFair` (by turns nobody
is picked twice more than another, since the team last changed).

## Broadcasts

**State and code.** `jobs` has the loop of the `wa_scheduler` ticker and the requests, each with what is left to send;
`settings` is the `wa_configs` row, `cached` the client of the service, `schedule` a
broadcast schedule with its last run, `logged` and `reminded` the message log. `mailed` is
the outside: what was accepted, how often, what of it was never logged.

**Actions.** `PassMinute`, `RunCronJobs`, `NextRecipient`, `GetClient`, `StoreClient`, `EnsureDailyLimit`, `SendMessage`,
`CreateLog`, `EndRun`; `TriggerSchedule`, `QuickSend`, `HangUp`; `SaveSettings`, `InvalidateClient`, `ToggleSchedule`,
`DeleteSchedule`; `Stop` and `Start`, whose first tick comes at once.

**Properties.** `JobsRunOnce`: a reminder is sent once a day, also when the server restarts in its minute, unless an
accepted message could not be logged (`ReminderOncePerDay`); a run is not repeated for its minute, unless
it was not recorded (`NoRunTwice`). `SettingsRespected`: the limit is exceeded by at most one
for each other sender, which counts before the rest have logged (`DailyLimitKept`), and after an update a
cached client has the new settings, unless `getClient` was between its read and its store
(`ClientFollowsSettings`).

## Reimbursements

**State and code.** `claims` and `files` are rows and attachments on disk, `books` the finance records of paid
claims, `entries` those entered by hand, `clerks` requests between two of their statements. `granted` is the amount
that was approved; `stale` and `crossed` have the claims that were reviewed or given receipts between the read
and the write of another request, whose statement does not look at the status.

**Actions.** `CreateClaim`, `ReadClaimForEdit`, `ReadClaimForDelete`, `StoreChange`, `RemoveFiles`, `SaveFiles`, `DiscardFiles`,
`CheckUpload`, `AddAttachments`, `ReviewClaims` (one or in bulk), `MarkPaid`, `RecordOutcome`, `CommitPayment`,
`RollBackPayment`, `StopClerks` (a restart); `CreateRecord`, `UpdateRecord`, `DeleteRecord`, `SubmitRecord`, `ReviewRecord`.

**Properties.** `BooksAgree`: a paid claim has one entry, of the approved amount, and no other claim has any, through
single and bulk payments, failures and retries. `ReceiptsAreKept`: a receipt that a claim lists is on disk, unless
two requests changed the claim's receipts at once or an upload reported an error after its commit.

## Monitors

**State and code.** `probes` has the health checks of one server and a domain, `due` the round's list, `workers` who
records, rolls up and tells what; `lastStatus` is the server's status; times are ages in intervals.
`told` and `gap` are histories; `untold` has the checks whose last message or mark failed, `torn` says that a
status was written over a newer one, failed, or that checks were switched since.

**Actions.** `CreateCheck`, `DeleteCheck`, `SetEnabled`, `ListDueChecks`, `RunWorker`, `RecordCheckResult`, `LoseResult`, `LoseReply`
(the result is committed, its reply lost), `ReadStatuses`, `UpdateVPSStatusSnapshot`, `DecideAlert`, `StoreAlert`, `StopMonitors`, `IntervalPasses`.

**Property.** `MonitorsAgree`: `AlertsMatchOutages` (the alert is active, and people's last word is "down", exactly from the
threshold of failures to the next success), `CooldownIsKept` (no two "still down" of jobs that began within the cooldown, by which the code
counts: the messages may be nearer by the length of a job)
and `StatusIsRolledUp`.

## RolePermissions

**State and code.** `people` are users with their module role, `roles` the rows of `roles_v2` with their permissions,
`cache` the map of `PermissionCache`, `loading` what each `Load` has read so far (flags, roles and permissions are
three queries without a transaction), `admins` changes between their commit and their invalidation. An entry also remembers
what happened to it (`mishaps`) and when the rows first departed from it (`changed`), histories.

**Actions.** `Load`, `InvalidateKey` (an expired entry), `ReadFlags`, `ReadModuleRoles`, `ReadPermissions`, `StorePermissions`,
`LoadFails`, `SweepCache`, `RestartCache`; `SetUserActive`, `SetUserSuperAdmin`, `ReplaceUserModuleRoles`,
`ReplaceUserRoles`, `CreateRole`, `UpdateRole`, `ToggleRole`, `CountUsers`/`DeleteRole`, then `Invalidate` or
`ChangeFails`. `ReadPermissions` joins the user's role anew, so an entry may mix two roles.

**Property.** `RolesInEffect`: once the cache was told of a change, what it serves agrees with the rows, whatever else
is changed meanwhile (`ChangesTakeEffect`), except an entry that was being loaded during the change, that does not list
a role just switched on, or whose change was reported as failed. Those are served for no longer than the TTL after the
first change they do not show (`StaleNoLongerThanTTL`): `CachedAt` is taken before roles and permissions are read.

## OfflineQueue

**State and code.** `kept` is what `background.js` has in `browser.storage.local`: session, consent, pause and
queue. `chores` are runs of its handlers, which overlap at every `await`: what each has read, what it waits for.
`activity` is the server's side as far as its answers depend on it (`ActivityTracker` has the rest), `beats` what
became of each heartbeat, a history.

**Actions.** `TakeBeat`, `FlushQueue`, `EnsureActiveSession`, `AnswerStart`, `KeepSession`, `AnswerBatch`, `RecordEntry`,
`DropSent`, `SendHeartbeat`, `AnswerHeartbeat`, `ReadAnswer`, `QueueEntry`: one tick, step by step. `Pause`, `Resume`,
`StopTracking`, `RevokeInPopup`, `GrantConsent`, `RefreshConsent`, `Suspend`, with `EndKeptSession`, `AnswerConsent`,
`KeepConsent`: the messages. `LoseRequest` loses a request or its answer, `EndScript` is the browser stopping the
script, `CloseStale` the server's sweep.

**Property.** `QueueKeepsBeats`: a heartbeat that was taken has been recorded, waits in the queue or is in a
handler's hands, except those that made room in a full queue, that the server refused or skipped, that ended with their
script, or that a second flush of the same entries dropped along with its own.

## LegalLetters

**State and code.** `letters` are rows of `legal_documents`, `sequence` the counter of a month and type, `legalClerks`
requests between two of their statements, `posting` the sends, `typesetter` the document worker, `archive` and
`prints` the files and what each shows, `frozen` the letters with a delivery under way. An UPDATE takes the guard from the
snapshot in which its statement began and the row when it commits (`BeginStatement`, then `Update`, `Cancel`,
`SetSigned`); `Generate` holds row and counter throughout. `story` is a history. A recording whose reply is lost, of a scan (`SetSigned`) or of a PDF
(`CompleteRender`), is undone by its writer, who deletes the file the row now points at: `story.unscanned` and
`story.unprinted` name these files.

**Actions.** `CreateLetter`, `DeleteDraft`, `BeginStatement`, `Generate`, `GenerateFails`, `Update`, `Cancel`, `StoreScan`,
`BeginSign`, `SetSigned`, `DeleteLegalFile`; `ClaimRender`, `StorePDF`, `CompleteRender`, `DeleteReplacedPDF`, `FailRender`,
`FailUnclaimed`; `ReadLetter`, `QueueLetter`, `CheckQueued`, `PostLetter`, `PostFails`, `MarkLetterSent`, `LeaveLetter`,
`ReleaseLetter`; `StopLegal`.

**Property.** `LettersInOrder`: the numbers are 1 to n and a mail shows the letter's, a PDF that is ready is of the
current snapshot and its file exists, what was signed keeps its snapshot, a recorded scan exists, what is sent was
mailed, each but for the mishaps that `story` names: a lost reply of a recording costs the file.

## ReminderJobs

**State and code.** `ticker` is one loop of `runPerTenantTicker` with the tick in its channel, `round` where
`ForEachTenant` and the tenant's job are, `wanted` the settings, `lastRuns` the maps that remember runs in memory,
`notices` the tracker's notices in the database, which keep others away. A behaviour is of one of the four
loops (`loop`). `tellings` is a history: who was told what, what ticks owed, and what excuses it.

**Actions.** `MinutePasses`, `TickComes`, `TickComesAgain`, `StartRound`, `NextTenant`, `ReadSettings`, `FindRecipients`,
`NotifyInApp`, `NoticeFails`, `SendOut`, `DispatchFails`, `JobFails`, `JobPanics`, `RestartReminders`,
`ChangeReminders`, `SendTestReminder`.

**Property.** `RemindersKept`: nobody is reminded twice but after a restart in the same minute or day, or when the
tracker's notice failed (`RemindedOnce`); what a tick owed was told, is still to come or is excused by a
failure, a switch or nobody to tell (`NothingForgotten`): no tenant and no kind takes another's place. The
digest remembers its day, not its minute (`discord_reminder.go:133`), before it knows whether there is anything to
tell: one that had nothing to tell and is moved to a later hour does not come that day. Hence the exception for a
tenant whose digest was given another hour (`rehoured`).

## The run back_office

1.1 million states. The eleven parts share no row and no memory, so `MCBackOffice` composes them
with one moving and the others at rest. Which one is picked in `Init` (`scene`): the instances add up instead
of multiplying, and one run asks all the questions. `VIEW Moving` compares states by the part that
moves; the parts at rest stay as `Init` leaves them. A part with too many states for one
instance has several scenes, each a restriction of which requests happen, not of what they do.

| scene | states | what happens |
|---|---|---|
| `tracker` | 81k | 1 call, with a batch of 2 at the end, 2 sessions, 3 ticks (1 without consent), up to a revocation that slips, a day of 2, a gap of 1 credited, of 2 stale |
| `document` | 53k | one contract, 1 month, 1 editor, 2 senders, 1 revision, 2 generations |
| `numbers`, `renewals` | 26k | two contracts race for a number; three renew each other |
| `cards` | 75k | 2 campaigns, 2 requests, 2 lanes, 2 stages |
| `lanes` | 74k | 1 campaign, 2 lanes and room for a third, a request that creates, edits, adopts, one that moves, adds, drops, orders |
| `places`, `columns` | 93k | 3 tasks and 2 movers in 2 columns; columns added, dropped, ordered |
| `turns`, `hands` | 57k | 2 teammates, tasks given by turns or by workload |
| `broadcasts` | 106k | the loop and 1 request, 1 recipient, a limit of 2, 2 events in the first minute |
| `midnight` | 40k | the same with 1 event, up to the first minute of the next day |
| `claim`, `bulk`, `entry` | 115k | 1 claim with 2 receipts and 2 requests; 2 claims in bulk; a record |
| `alerts`, `servers`, `dns` | 85k | 1 check, 2 checks with 2 workers, 1 domain; thresholds 3 and 2, cooldowns 2 and 3 |
| `roles` | 85k | 1 user, 2 roles with 1 permission, 1 load, 2 changes by 2 administrators, 2 ticks with a TTL of 1 |
| `full` | 17k | 1 handler at a time, 4 beats, a queue of 3, batches of 2 at most |
| `flushes`, `popup` | 14k | 2 ticks overlap, 2 beats, 2 sessions; 1 tick and 1 message overlap, 1 beat, 1 session |
| `mails` | 65k | 1 letter, 1 clerk, 1 sender, 2 snapshots, 2 files |
| `letter`, `letterNumbers` | 40k | 2 clerks, one of whom signs, nobody sends; 2 letters are numbered |
| `trackerReminders`, `digests`, `reviews`, `weeklies` | 118k | 2 tenants, 2 mishaps, 1 minute (3 for the digests, into the next day) |

Two requests are the least that race and every property names at most two rows at once; a third
repeats the pair. Two sessions are a rotation, two days a midnight, three lanes a lane
that appears and one that goes, three tasks a move across a neighbour. The deadlock of placements needs two
lanes and two requests in opposite directions, which `cards` has. `places` and `columns` stop where two requests
tangled a column, since nothing is claimed of it from there. Two changes are the one an entry misses and the
one that hides it. A queue of 3 overflows with the fourth beat and is longer than a batch with the third. Two snapshots and
two files are a letter that is generated, edited and generated again, or signed. The parts whose properties are proved for
every value of the constants have the smaller instances. Of two
tenants the first may fail, and only its settings change. All properties of the run are safety, so it
assumes no fairness.

All modules disable the deadlock check: bounded requests and time come to an end.

## What is proved

For every value of the constants that satisfies the named assumptions:

| theorem | module | argument |
|---|---|---|
| `TypeCorrect` | `DocumentRender_proofs` | types and `Len(queue) <= QueueCap`, inductive as they stand |
| `RenderSafe`: `[]RenderInv`, if `~LostReplies` | `DocumentRender_proofs` | `RowsInv`: an older snapshot never becomes current again; `JobsInv`: a row carrying a job's claim has the snapshot the job was prepared from; `PathsInv`: numbers are drawn once, so what is deleted is nobody's |
| `ReadyIsCurrent`, `RecordedFilesStay`, `MailIsOfTheRow`, if `~LostReplies` | `DocumentRender_proofs` | the three invariants that `render_claims` checks, each from `RenderInv` |
| `SettledForGood`: `SettledSlipIsFinal` | `DocumentRender_proofs` | from `RenderInv`: a sent slip carries no claim that records, and its file is not replaced |
| `Refinement`: `ImplementsDocument` | `DocumentRender_proofs` | initial states map to initial states; each step rewrites, publishes, settles or stutters, by cases on what it does to a row |
| `HistoryCorrect`, `SendTypeCorrect`, `SentWasMailed`, `ReissueFaithful` | `PayslipSend_proofs` | `HistoryInv`: what a sender or an editor took from the rows still holds at its statement; a revision exists only after the one before it was voided |
| `GuardCorrect`, `MailStaysCurrent`, `DraftsStayDisjoint` | `PayslipSend_proofs` | `GuardInv`: each sender raises its guard before it looks for the others', and on the slip of one that was alone at its check no UPDATE runs, since none begins under the guard |
| `NoKeyLeaks` | `DocumentRender_proofs` | a key is added with its id and removed with it, also when a job is dropped; inductive with the types |
| `FilesAreAccountedFor`, `FailuresAreCurrent`, if `~LostReplies` | `DocumentRender_proofs` | `OrphanInv`, on top of `RenderInv`: a job that has stored its file is in the hands of a worker about to record it; a failure is recorded under the claim of its snapshot |
| `LogStaysTrue` | `PayslipSend_proofs` | `LogInv`: a row is in flight while its message is on its way, and none is on its way before; without a fault each outcome is logged or about to be |
| `NothingIsSweptIn`, if `"edit" \notin Mishaps` | `PayAndClaims_proofs` | `SweptInv`, on top of `WindowInv`: what each request carries between its statements fits the slip it will store, and nothing else rebuilds a draft that is being edited |
| `RolesAlwaysInv`, `RolesTypeCorrect`, `RightsInEffect` | `BackOffice_proofs` | `RolesInv`, below |
| `CreditAlwaysSound`, `CreditedOnce`, `ConsentFirst` | `Tracking_proofs` | `CreditInv`, below |
| `QueueAlwaysSound`, `NoBeatIsLost` | `Tracking_proofs` | `QueueInv`, below |
| `BooksAlwaysSound`, `ClaimsTypeCorrect`, `PaidOnceAsGranted` | `PayAndClaims_proofs` | `BooksInv`, below |
| `ReceiptsAlwaysSound`, `ListedReceiptsAreKept` | `PayAndClaims_proofs` | `ReceiptsInv`, below |
| `MonitorsAlwaysSound`, `MonitorsTypeCorrect`, `OutagesAreTold` | `BackOffice_proofs` | `MonitorInv`, below |
| `LettersAlwaysSound`, `LettersTypeCorrect`, `SignedLettersStand` | `Agreements_proofs` | `LettersInv`, below |
| `BroadcastsAlwaysSound`, `BroadcastTypesCorrect`, `RemindedAndRunOnce`, `LimitAndSettingsKept` | `Messages_proofs` | `BroadcastInv`, below |
| `RemindersAlwaysSound`, `ReminderTypesCorrect`, `RemindersComeOnce` | `Messages_proofs` | `RemindersInv`, below |
| `BoardAlwaysSound`, `BoardTypesCorrect`, `BoardStaysInOrder` | `Boards_proofs` | `BoardInv`, below |
| `PlacementsDoNotDeadlock` | `Boards_proofs` | from `BoardInv` by a measure (`Progress`): a placement waits only for one that has come further, so the furthest of any set waits for none of it |
| `TaskBoardAlwaysKept`, `TaskBoardTypesCorrect` | `Boards_proofs` | `TaskBoardInv`, below |
| `WindowCorrect`, `CarryTypeCorrect`, `WindowKept` | `PayAndClaims_proofs` | `WindowInv`: one active slip per month, revisions in order, and what each request read of the slip it replaces. Any `Mishaps` |
| `ContractInvAlways`, `ContractTypeCorrect` | `Agreements_proofs` | `ContractInv`, below |
| `DocumentNumbersAreGapless`, `OneDocumentPerRevision`, `SignedStandsAsIssued`, `RenewalChainNeverForks` | `Agreements_proofs` | the four properties of contracts, from `ContractInv` |

None of the safety properties is inductive alone: `ReadyMatchesSnapshot` needs to know that a
claim found on a row still means the snapshot it was taken for, `MailIsCurrent` that no editor
of a slip whose sender was alone is between its check and its write, `ReissueKeepsWindow` that a rebuild
under way carries the old clock.

`ContractInv` is about a row and the write that waits to commit. `RowsInv` says that a row alone makes
sense (`RowOK`: only documents carry numbers, what is signed has its render), that a pending row is a
legal successor of the committed one (`Successor`), and that a write which takes a number is alone in
its month and takes the next (`Numbered`). `EditsInv` bounds what an editor has read, `SendsInv` says
that the documents a sender has read are still those of their snapshot. `NumbersInv`
and `ChainInv` are two of the properties without cardinalities; `MailsInv` adds to `RevisionTellsDocuments`
that a mail's contract was marked for it or has moved on. The pending rows are why the properties
are not inductive: a write commits later than its checks. The proof rests on `ContractMonthsAssumption`,
`ContractNamesAssumption` and `ContractBoundsAssumption`.

`LostByMishapOnly` rests on `LossInv`, on top of `SweptInv`. It is about what a slip leaves behind (`Behind`): what is due and the next slip would not take, were this one
the last to be sent. `CoverInv` says that each such item is held (`Held`) by a row whose items no request changes any more
(sent, or the draft of a reissue) or by the draft of that month or an earlier one. A draft may be rebuilt, so the other half is about requests.
`ReadInv` says that what a request did not see when it read the records lies within the grace of its clock; `AnchorInv` that its
anchor is a final row, however that is voided and reissued, or that no earlier month has a slip; `CarryInv` that what it will store
has all that its slip leaves behind and all that was on the draft it replaces, unless an earlier row holds it. So a rebuild drops no
item but to an earlier month (`RebuildsAlone`: nobody else rebuilds the draft meanwhile), and what the selection leaves
out is consumed, hence held, or was already behind the anchor, whose own `CoverInv` says who holds it (`LeftOut`). `ClocksInv` keeps stamps
that are not committed within the grace of every clock. When no draft is left, what is held is on a sent slip, and what
the last slip does not leave behind the next one takes (`LossInvSuffices`; that there is a last one is a minimum of the library's
well-founded order on the naturals). `TimeAssumption` asks for a grace
above zero (`payslipCarryOverGrace` is 5 minutes).

`RolesInv` says of every cached entry that it is what the rows say until something of it is
changed (`changed`), and that one which differs has a change about to drop it (`Told`) or a mishap on its record
(`EntryInv`); and the same of an entry that is being loaded, as far as it has been read (`LoadInv`, `ReadSoFar`).
A mishap of the load itself becomes the entry's, which is why the property alone is not inductive. `CreditInv` adds to
the two properties where a session's `seen` lies: no tick credited to any session, and none without consent, is
later than the `seen` of the open one, from where the next beat counts. `QueueInv` adds to the
account of the heartbeats what each handler holds (`ChoreSound`): a batch is the oldest part of the queue unless
it was shifted, and every entry of it that is not left to do landed or was skipped. So what `DropSent` takes off has
landed, or has its excuse.

`BooksInv` says that an edit or a deletion under way has read the claim as it was submitted, unless the
claim was reviewed since (which makes it stale), and that a payment alone holds its rows, approved and not
yet booked: a second payment of the same claim waits, and then finds it paid. `ReceiptsInv` says that the
files of claims, requests and uploads are each one's own, and that an edit nobody crossed has read what
the claim lists, so that what it removes is listed no more. `MonitorInv` says that no check is in the
hands of two workers, that between two checks the alert of a row is what people were told and since when, that
a worker which has recorded its probe holds the row as it is, and that a status about to be written is
that of the checks, unless somebody else still has to read them. `LettersInv` counts the requests that may
still take a snapshot (`SnapshotsLeft`), and gives every file to one row, one clerk or the document worker
(`OwnFiles`, `ClerkInv`, `TypesetterInv`), but for a scan or PDF whose recording looked like a failure; a claim
in force means the snapshot it was taken for, and a letter that is being generated is not yet signed. So
whatever is deleted is nobody's, and a PDF is recorded only on the snapshot it shows.

`BroadcastInv` joins four arguments over what is known of every sender (`SenderInv`). `LimitInv` counts: what was
accepted today is at most what is logged, what was given up, and the messages accepted and waiting for their row
(`Unrecorded`); those let through the limit (`LetThrough`) fit under the largest limit plus one for each request. The
loop logs before it counts again, so of the senders at most the requests can be ahead of the log. `ReminderInv` says that
whoever was reminded today is in the log, is lost to it, or is the one whom the loop is about to log, so a
loop that starts anew skips all but the lost. `RunInv` says why a minute's run does not come again (`NotAgain`):
it is on record, or the minute has passed for the clock, the waiting tick and the loop, or the loop is at it and
its `todo` shrinks. `ClientInv` says that a client under construction has the settings in force, unless they were
saved meanwhile. `SendersAssumption` asks for a finite set of requests, so that they can be counted: a server has
finitely many at a time; and that the names of the loop and of no recipient are not also those of a request and a
recipient.

`RemindersInv` follows a run from its tick to its end. `ClockInv` keeps the waiting tick, the round and the
remembered runs in the order of their minutes, so that what is over (`Over`: no round of that minute or an earlier one
can start) stays over. `OnceInv` says why what was told is done with (`DoneWith`): the run is remembered, its minute or
day is over, or a restart in it took the memory, and of a tracker's reminder its notice is there. A run that claims is
therefore new, or falls under one of the exceptions (`ClaimedInv`), and nothing else is told. `RanInv` says that a
remembered run has told, was excused or is under way: this is what makes skipping it right, and why a failure
excuses the run it interrupts. Nothing is assumed of the cron minutes and the tenants; `ReminderTimeAssumption` asks for
hours and days of at least one minute and a deduplication window shorter than an hour.

`BoardInv` is about what a transaction of the marketing board has read, drafted and locked, and why that is still so
when it commits. `Draft` says that a drafted board is the committed one but for lanes without a stage which the
transaction has locked, to give them one or to drop them, and lanes nobody uses yet; and that it is as good a
board (`GoodBoard`). Only who has the layout lock drafts a board, so no other board commits meanwhile. `Aim` says that the
lane a placement goes to is there and has its status: no commit takes a stage from a lane. `Filed` says that a
plan holds every card of the two lanes, which are locked until the commit, so no other placement comes
between; a deletion may, and takes its card from every plan. `Apart` says that locks exclude each other and that a campaign
is in the hands of one transaction. `PlacementKeepsApart` is the argument about the numbers themselves: renumbering
by rank, closing the gap behind the card and making room for it gives no place twice. `Ordered` holds the order in which
lanes are locked, on which `Progress` rests. `BoardAssumption` asks for finitely many campaigns,
so that those of a lane can be counted, and that "none" is neither a campaign nor a stage.

`TaskBoardInv` is about requests that lock nothing they have read. What a request knows of a column is still so
unless the request is stale (`ReadsHold`), and whoever writes to a column makes stale all who have read it; so a
request that is not stale puts its task behind the last, or takes it from where it is, and a column in which no
stale request has written (`InPlace`) is numbered without a gap: inserting, removing and moving keep 1 to n
(`InsertedInOrder`, `RemovedInOrder`, `MovedInOrder`). A stale move shifts whatever is there, wherever the task is by now,
so it gives up all the columns it touches. `ColumnsKept` needs
more than its property: positions of columns differ even when a gap was left (`skewed`), or an ordering could not
close it. `HandsKept` follows whose task it is to the request that will tell, or has read who it was;
`TurnsKept` says that those who had their turn in a round wait longest (`Waits`), which is why the next
never had his. `IdsAreFresh` keeps the ids of requests that create apart. `TaskBoardAssumption` asks for finitely many
tasks, columns and members, since positions are compared with their number, and for default columns that differ.

The hypotheses are not decoration: `render_lost` shows
that a lost reply breaks `RenderInv`, `send_skew` what splitting an UPDATE does to the guard, and `carry_edit` what a
draft edited and rebuilt at once can do to the window. `TrackerBoundsAssumption` asks for batches of at least one
beat (`MaxReplay`), which a beat of its own is.

Only model-checked: the liveness properties `RenderSettles` and `GuardIsReleased` (liveness
is beyond the prover), and the types of all scenes
at once (`BackOfficeTypeOK`), which is about the instance that composes them.

## Findings

Each is a run in which TLC violates what a comment or document says.

- `send_double`: the delivery log turns `sent` before the slip does. In between the mailed slip is
  a draft with no delivery in flight, so another month's slip with the same item passes its
  overlap check, and the item is on two sent slips.
- `send_skew`: the in-flight check and the UPDATE are one statement, yet the check reads the
  statement's snapshot. An edit that began before the guard was committed replaces the snapshot
  after the sender verified it. `markSent` then finds the mismatch, so that `SentSlipWasMailed` holds.
- `send_unmarked`: a client that leaves during the SMTP exchange leaves a delivered slip a draft,
  since `markSent` runs on the request's context. The run is fair to everybody but the client.
- `render_lost`: the reply of a committed `CompleteRender` is lost and the worker deletes the
  files it takes for unrecorded; the row stays ready without a file.
- `carry_early`: a slip generated before its month starts. What is paid after its generation
  and before the first day of its month is above its ceiling and below the next slip's floor.
- `carry_edit`: an edit overwrites a rebuild's items and keeps its `generated_at`.

## Disagreements seen while modelling

No run is about these; the models have the behaviour and the properties except it by name, or leave
it to a variable that says so.

- The comment of `selectCarryOverReimbursements` (`service/hris/payslip_assembly.go:231-232`) promises that nothing falls between windows. A first
  slip of an earlier month than one that was sent without an anchor (`LatestSentBefore`, `repository/hris/payslips.go:288`) makes bonuses
  of the months in between due, and nothing takes them. Two rebuilds of a draft at once (`generateOne`, `service/hris/payslips.go:884`; `UpdateDraftSnapshot`
  only asks whether the row still is a draft) can undo each other, after a later slip left out what the first had taken.
- `service/operational/tracker.go:154-156` ends a replay's gap with a new session whose `updated_at`
  is `NOW()`: the beats after the gap are older and credit nothing.
- `service/hris/contracts.go:908-915` keeps the document date once a number is given, but judges the row
  as read: an edit that read the draft before it was numbered can change the month, and two edits
  can overwrite each other (`UpdateTerms` guards the status and revision).
- `getClient` may store a client made from settings that were replaced and invalidated meanwhile.
- The `wa_scheduler` ticker drops ticks while a job overruns its minute; the weekly digest is not
  deduplicated across restarts; a schedule deleted during its run leaves its messages unlogged; with
  no limit, a cancelled request goes on sending and logs nothing.
- `last_run_at` holds one run: a triggered run in between makes the loop forget its own.
- `MoveTask` shifts positions read without locks; a task deleted meanwhile still shifts the
  others. The unique index on column positions is checked after every row, so a shift may fail.
- An error of `AdvanceCursor` is ignored, so the next pick repeats; `least_busy` counts finished tasks;
  a member who is removed keeps their tasks.
- Update and Delete of a reimbursement do not look at the status in their statement: the amount may change,
  or the row go, after it was approved or paid. Two uploads at once may exceed five receipts, and an
  upload whose final read fails removes files that its row lists.
- A rejected finance record can be edited but never submitted again (`SubmitRecord` takes drafts only).
- A status refresh may write what it read before another worker's result; disabling or deleting a
  check refreshes nothing. An alert whose dispatch failed is still marked or cleared.
- `service/auth/service.go:693-694` says that a deactivated user loses access on the very next request. A `Load` that read
  the user before the change and stores after the invalidation keeps the old rights until the TTL (60 seconds in
  `app/app.go`); so does a change whose commit is reported as failed. A role that is switched on again reaches those
  who have it only then.
- `src/extension/background.js:247-248` says that entries queued under a session closed while offline still land.
  `ensureActiveSession` returns the session it has kept, so they are posted under the closed one, skipped one by one
  under a 200, and dropped.
- `src/extension/background.js:26-28` sizes the queue for a workday, 5000 entries, while
  `dto/operational/tracker.go:25` takes at most 500 in a batch: a longer queue is refused every time and never drains.
- Two ticks that flush the same entries each drop their number, and with them beats queued in between. A payload made
  before there was a session is posted without one, refused and queued.
- `src/extension/README.md:11` says that consent comes before active tracking; the tick does not ask for it, so beats taken
  without consent are queued and sent once it is given.
- `MarkSent` of legal documents ("records a successful e-mail") does not compare the snapshot: a letter generated anew
  between the outcome and the mark is called sent and was never mailed as it is. A client that leaves before the mark
  leaves a mailed letter generated.
- Any error of `SetSigned`, also a lost reply, deletes the scan that the row may by now point at, and any error of
  `CompleteRender` the PDF of a letter as it does that of a slip (`render_lost`). A letter may be signed while
  its render is pending; if that render fails, nothing can render it again.
- An error in one tenant's job ends the tick for all tenants after it, and a panic ends the ticker, since the
  recovery is outside its loop (`app/app.go:671-680`). A test reminder keeps a real one away for 50 minutes. A
  weekday range that ends in 7 never matches.
- `service/operational/discord_reminder.go:32-35` says that `lastFireDate` protects against restarts, but it
  is in memory.

## Not modelled

Components with status `not_modelled` in `PROJECT.json` are either planned (see Plan) or
have no state of their own (template filling, exports, SMTP encoding, protocol adapters, frontend).
Within the modelled ones: encryption, amounts of slips, totals and warnings, recipients and their
confirmation, permissions and access logs, formats other than the attached PDF or DOCX, other
tenants (every table is per tenant), deletion of employees, and time zones
(`payslipLocation` only fixes where a month starts). Of contracts: payloads, compensation, preflight,
manual downloads. Of the tracker: categories, reports, purges, learning a user's time zone. Of the boards: titles,
labels, attachments, renames, leads and ads metrics. Of letters: field values, parties, the Word download, a server without a PDF converter. Of reminders: what a cron
expression matches, texts. Of WhatsApp: templates, recipient queries, the gateway.
Of finance: categories, subscriptions and their alerts, employees and departments. Of the monitors: the probes
themselves, event logs, WHOIS and renewal alerts, rollups and purges.
