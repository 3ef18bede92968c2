---------------------------- MODULE OfflineQueue ----------------------------
(***************************************************************************)
(* The browser extension (src/extension/background.js): the ticks of its       *)
(* alarm and the messages of its pop-up, which overlap at every await, the       *)
(* state they share in browser.storage and the queue of heartbeats in it that     *)
(* could not be sent.  Of the server (service/operational/tracker.go) there is      *)
(* what its answers depend on: the consent and which session is open.               *)
(* ActivityTracker has what a heartbeat is credited with.                           *)
(*                                                                         *)
(* The extension is connected, and on a page it tracks.  A heartbeat is its          *)
(* number.  Summary, category, version and the text of errors are left out.           *)
(***************************************************************************)
EXTENDS Integers, Sequences, FiniteSets

CONSTANTS
    Chores,       \* runs of handlers, reused one after another
    QueueCap,     \* MAX_QUEUED_ENTRIES
    MaxBatch,     \* the longest batch the server takes
    MaxBeats,     \* bound: heartbeats taken
    MaxOpened     \* bound: sessions the server opens

ASSUME QueueAssumption ==
    /\ QueueCap \in Nat \ {0} /\ MaxBatch \in Nat \ {0}
    /\ MaxBeats \in Nat /\ MaxOpened \in Nat

VARIABLES
    kept,       \* browser.storage.local
    chores,     \* where each run of a handler is
    activity,   \* the server
    beats       \* what became of the heartbeats, a history

queueVars == <<kept, chores, activity, beats>>

-----------------------------------------------------------------------------

Beats == 1..MaxBeats

SessionNames == 1..MaxOpened

None == 0

Queued == UNION {[1..n -> Beats] : n \in 0..QueueCap}

Kept == [session : SessionNames \cup {None}, consented : BOOLEAN, paused : BOOLEAN, queue : Queued]

(* at: what comes next.  An answer is on its way at "started", "flushed", "posted",  *)
(* "revoked", "granted" and "asked".                                                 *)
Steps == {"free", "flush", "session", "start", "started", "batch", "entries", "flushed",
          "send", "post", "posted", "queue", "end", "revoke", "revoked", "stopped",
          "grant", "granted", "ask", "asked"}

(* then: what a session is for, or what follows the answer.  sid is the payload's,      *)
(* route the session of a batch or in an answer; skipped, of the batch, was not taken     *)
(* by the server; shifted: others took entries off the queue while it was on its way.      *)
Chore == [at : Steps, then : {"none", "batch", "send", "again", "fresh", "session", "revoke", "stopped"},
          beat : Beats \cup {None}, sid : SessionNames \cup {None}, route : SessionNames \cup {None},
          batch : Queued, todo : Queued, got : {"none", "ok", "refused", "missing"},
          skipped : SUBSET Beats, shifted : BOOLEAN]

NoChore == [at |-> "free", then |-> "none", beat |-> None, sid |-> None, route |-> None,
            batch |-> <<>>, todo |-> <<>>, got |-> "none", skipped |-> {}, shifted |-> FALSE]

QueueInit ==
    /\ kept \in [session : {None}, consented : BOOLEAN, paused : {FALSE}, queue : {<<>>}]
    /\ chores = [c \in Chores |-> NoChore]
    /\ activity = [consent |-> kept.consented, open |-> None, opened |-> 0]
    /\ beats = [taken |-> 0, landed |-> {}, excused |-> {}]

Elements(q) == {q[i] : i \in 1..Len(q)}

Goes(c, chore) == chores' = [chores EXCEPT ![c] = chore]

At(c, step) == chores[c].at = step

-----------------------------------------------------------------------------
(* ensureActiveSession and what its callers do with its answer *)

Given(chore, s) ==
    LET on == [chore EXCEPT !.then = "none", !.got = "none", !.route = None] IN
    CASE chore.then = "batch" /\ s # None -> [on EXCEPT !.at = "batch", !.route = s, !.todo = chore.batch]
      [] chore.then = "batch" /\ s = None -> [on EXCEPT !.at = "send", !.batch = <<>>]
      [] chore.then = "send" /\ s # None  -> [on EXCEPT !.at = "post", !.sid = s]
      [] chore.then = "again" /\ s # None -> [on EXCEPT !.at = "send", !.sid = s]
      [] chore.then \in {"send", "again"} /\ s = None -> [on EXCEPT !.at = "queue"]
      [] OTHER -> NoChore

EnsureActiveSession(c) ==
    /\ At(c, "session")
    /\ LET chore == chores[c]
           force == chore.then \in {"again", "fresh"}
       IN Goes(c, CASE ~kept.consented \/ kept.paused    -> Given(chore, None)
                    [] kept.consented /\ ~kept.paused /\ kept.session # None /\ ~force
                                                         -> Given(chore, kept.session)
                    [] OTHER                             -> [chore EXCEPT !.at = "start"])
    /\ UNCHANGED <<kept, activity, beats>>

(* The server's StartSession, which resumes an open session.                             *)
AnswerStart(c) ==
    /\ At(c, "start")
    /\ \/ /\ ~activity.consent
          /\ Goes(c, [chores[c] EXCEPT !.at = "started", !.route = None])
          /\ UNCHANGED activity
       \/ /\ activity.consent /\ activity.open # None
          /\ Goes(c, [chores[c] EXCEPT !.at = "started", !.route = activity.open])
          /\ UNCHANGED activity
       \/ /\ activity.consent /\ activity.open = None /\ activity.opened < MaxOpened
          /\ activity' = [activity EXCEPT !.open = activity.opened + 1, !.opened = @ + 1]
          /\ Goes(c, [chores[c] EXCEPT !.at = "started", !.route = activity.opened + 1])
    /\ UNCHANGED <<kept, beats>>

KeepSession(c) ==
    /\ At(c, "started")
    /\ kept' = IF chores[c].route = None THEN kept ELSE [kept EXCEPT !.session = chores[c].route]
    /\ Goes(c, Given(chores[c], chores[c].route))
    /\ UNCHANGED <<activity, beats>>

-----------------------------------------------------------------------------
(* handleHeartbeatTick *)

TakeBeat(c) ==
    /\ At(c, "free") /\ ~kept.paused /\ beats.taken < MaxBeats
    /\ beats' = [beats EXCEPT !.taken = @ + 1]
    /\ Goes(c, [NoChore EXCEPT !.at = "flush", !.beat = beats.taken + 1, !.sid = kept.session])
    /\ UNCHANGED <<kept, activity>>

FlushQueue(c) ==
    /\ At(c, "flush")
    /\ Goes(c, IF kept.queue = <<>> THEN [chores[c] EXCEPT !.at = "send"]
               ELSE [chores[c] EXCEPT !.at = "session", !.then = "batch", !.batch = kept.queue])
    /\ UNCHANGED <<kept, activity, beats>>

Unsent(chore) == [chore EXCEPT !.at = "send", !.batch = <<>>, !.todo = <<>>, !.route = None,
                               !.skipped = {}, !.shifted = FALSE]

(* A batch that is too long, or that comes without consent, is refused as a whole.        *)
AnswerBatch(c) ==
    /\ At(c, "batch")
    /\ Goes(c, IF activity.consent /\ Len(chores[c].batch) <= MaxBatch
                 THEN [chores[c] EXCEPT !.at = "entries"] ELSE Unsent(chores[c]))
    /\ UNCHANGED <<kept, activity, beats>>

(* A beat in the open session; it may turn out abandoned, or midnight be over, and the      *)
(* server go on in a new one.                                                             *)
Records(b, s, after) ==
    /\ activity.consent /\ s = activity.open /\ s # None
    /\ beats' = [beats EXCEPT !.landed = @ \cup {b}]
    /\ \/ after = s /\ UNCHANGED activity
       \/ /\ activity.opened < MaxOpened /\ after = activity.opened + 1
          /\ activity' = [activity EXCEPT !.open = after, !.opened = after]

(* RecordBatch: an entry that fails is skipped, one that does not shows the way to the     *)
(* rest.                                                                                 *)
RecordEntry(c) ==
    /\ At(c, "entries")
    /\ LET chore == chores[c] IN
       \/ /\ chore.todo = <<>>
          /\ Goes(c, [chore EXCEPT !.at = "flushed"])
          /\ UNCHANGED <<activity, beats>>
       \/ /\ chore.todo # <<>>
          /\ \E after \in SessionNames :
                /\ Records(Head(chore.todo), chore.route, after)
                /\ Goes(c, [chore EXCEPT !.todo = Tail(@), !.route = after])
       \/ /\ chore.todo # <<>>
          /\ ~activity.consent \/ chore.route # activity.open
          /\ Goes(c, [chore EXCEPT !.todo = Tail(@), !.skipped = @ \cup {Head(chore.todo)}])
          /\ UNCHANGED <<activity, beats>>
    /\ UNCHANGED kept

(* What is on its way when others take entries off the queue.                             *)
Shift(cs) ==
    [d \in Chores |-> IF chores[d].batch # <<>> THEN [cs[d] EXCEPT !.shifted = TRUE] ELSE cs[d]]

Oldest(q, n) == SubSeq(q, 1, IF n < Len(q) THEN n ELSE Len(q))

Rest(q, n) == SubSeq(q, n + 1, Len(q))

SentCount_Current(chore) == Len(kept.queue)

SentCount(chore) == Len(chore.batch)

(* The oldest entries go, whatever they are by now.                                       *)
DropSent(c) ==
    /\ At(c, "flushed")
    /\ LET chore == chores[c]
           sent == Oldest(kept.queue, SentCount(chore))
       IN /\ kept' = [kept EXCEPT !.queue = Rest(@, SentCount(chore))]
          /\ beats' = [beats EXCEPT !.excused = @ \cup chore.skipped
                                    \cup IF chore.shifted THEN Elements(sent) \ Elements(chore.batch) ELSE {}]
          /\ chores' = [Shift(chores) EXCEPT ![c] = Unsent(chore)]
    /\ UNCHANGED activity

(* sendHeartbeat: the payload has the session it was made with, which may be none though    *)
(* there is one by now.                                                                   *)
SendHeartbeat(c) ==
    /\ At(c, "send")
    /\ Goes(c, IF kept.session = None THEN [chores[c] EXCEPT !.at = "session", !.then = "send"]
               ELSE [chores[c] EXCEPT !.at = "post"])
    /\ UNCHANGED <<kept, activity, beats>>

AnswerHeartbeat(c) ==
    /\ At(c, "post")
    /\ LET chore == chores[c] IN
       \/ /\ chore.sid = None
          /\ Goes(c, [chore EXCEPT !.at = "queue"])
          /\ UNCHANGED <<activity, beats>>
       \/ /\ chore.sid # None /\ ~activity.consent
          /\ Goes(c, [chore EXCEPT !.at = "posted", !.got = "refused"])
          /\ UNCHANGED <<activity, beats>>
       \/ /\ chore.sid # None /\ activity.consent /\ chore.sid # activity.open
          /\ Goes(c, [chore EXCEPT !.at = "posted", !.got = "missing"])
          /\ UNCHANGED <<activity, beats>>
       \/ \E after \in SessionNames :
            /\ Records(chore.beat, chore.sid, after)
            /\ Goes(c, [chore EXCEPT !.at = "posted", !.got = "ok", !.route = after])
    /\ UNCHANGED kept

(* What the server refuses for want of consent is not kept.                                *)
ReadAnswer(c) ==
    /\ At(c, "posted")
    /\ LET chore == chores[c] IN
       \/ /\ chore.got = "ok"
          /\ kept' = [kept EXCEPT !.session = chore.route]
          /\ Goes(c, NoChore) /\ UNCHANGED beats
       \/ /\ chore.got = "missing"
          /\ Goes(c, [chore EXCEPT !.at = "session", !.then = "again", !.got = "none"])
          /\ UNCHANGED <<kept, beats>>
       \/ /\ chore.got = "refused"
          /\ kept' = [kept EXCEPT !.consented = FALSE]
          /\ beats' = [beats EXCEPT !.excused = @ \cup {chore.beat}]
          /\ Goes(c, NoChore)
    /\ UNCHANGED activity

(* Read before the lock, without what another handler stored last.                      *)
Appended_Unlocked(q, b) == Append(Oldest(q, Len(q) - 1), b)

Appended(q, b) == Append(q, b)

(* The oldest make room.                                                                 *)
QueueEntry(c) ==
    /\ At(c, "queue")
    /\ LET next == Appended(kept.queue, chores[c].beat)
           over == IF Len(next) > QueueCap THEN Len(next) - QueueCap ELSE 0
       IN /\ kept' = [kept EXCEPT !.queue = Rest(next, over)]
          /\ beats' = [beats EXCEPT !.excused = @ \cup Elements(Oldest(next, over))]
          /\ chores' = [(IF over > 0 THEN Shift(chores) ELSE chores) EXCEPT ![c] = NoChore]
    /\ UNCHANGED activity

-----------------------------------------------------------------------------
(* Messages *)

Pause ==
    /\ ~kept.paused
    /\ kept' = [kept EXCEPT !.paused = TRUE]
    /\ UNCHANGED <<chores, activity, beats>>

Resume(c) ==
    /\ At(c, "free") /\ kept.paused
    /\ kept' = [kept EXCEPT !.paused = FALSE]
    /\ Goes(c, [NoChore EXCEPT !.at = "session"])
    /\ UNCHANGED <<activity, beats>>

(* stopTracking asks for the consent it has read before it ends the session.               *)
StopTracking(c) ==
    /\ At(c, "free")
    /\ LET next == IF kept.consented THEN "revoke" ELSE "stopped" IN
       Goes(c, IF kept.session = None THEN [NoChore EXCEPT !.at = next]
               ELSE [NoChore EXCEPT !.at = "end", !.sid = kept.session, !.then = next])
    /\ UNCHANGED <<kept, activity, beats>>

RevokeInPopup(c) ==
    /\ At(c, "free")
    /\ Goes(c, [NoChore EXCEPT !.at = "revoke"])
    /\ UNCHANGED <<kept, activity, beats>>

GrantConsent(c) ==
    /\ At(c, "free")
    /\ Goes(c, [NoChore EXCEPT !.at = "grant"])
    /\ UNCHANGED <<kept, activity, beats>>

(* tracker:refresh, or initializeState, which goes on to a session.                        *)
RefreshConsent(c) ==
    /\ At(c, "free")
    /\ \E then \in {"none", "session"} : Goes(c, [NoChore EXCEPT !.at = "ask", !.then = then])
    /\ UNCHANGED <<kept, activity, beats>>

(* bestEffortEndSession forgets nothing.                                                 *)
Suspend(c) ==
    /\ At(c, "free") /\ kept.session # None
    /\ Goes(c, [NoChore EXCEPT !.at = "end", !.sid = kept.session])
    /\ UNCHANGED <<kept, activity, beats>>

After(chore) == IF chore.then = "none" THEN NoChore
                ELSE [NoChore EXCEPT !.at = chore.then]

EndKeptSession(c) ==
    /\ At(c, "end")
    /\ activity' = IF activity.open = chores[c].sid THEN [activity EXCEPT !.open = None] ELSE activity
    /\ Goes(c, After(chores[c]))
    /\ UNCHANGED <<kept, beats>>

AnswerConsent(c) ==
    /\ \/ /\ At(c, "revoke")
          /\ activity' = [activity EXCEPT !.consent = FALSE, !.open = None]
          /\ Goes(c, [chores[c] EXCEPT !.at = "revoked"])
       \/ /\ At(c, "grant")
          /\ activity' = [activity EXCEPT !.consent = TRUE]
          /\ Goes(c, [chores[c] EXCEPT !.at = "granted"])
       \/ /\ At(c, "ask") /\ UNCHANGED activity
          /\ Goes(c, [chores[c] EXCEPT !.at = "asked", !.got = IF activity.consent THEN "ok" ELSE "refused"])
    /\ UNCHANGED <<kept, beats>>

KeepConsent(c) ==
    /\ \/ /\ chores[c].at \in {"revoked", "stopped"}
          /\ kept' = [kept EXCEPT !.consented = FALSE, !.paused = TRUE, !.session = None]
          /\ Goes(c, NoChore)
       \/ /\ At(c, "granted")
          /\ kept' = [kept EXCEPT !.consented = TRUE, !.paused = FALSE]
          /\ Goes(c, [NoChore EXCEPT !.at = "session", !.then = "fresh"])
       \/ /\ At(c, "asked")
          /\ kept' = [kept EXCEPT !.consented = chores[c].got = "ok"]
          /\ Goes(c, After(chores[c]))
    /\ UNCHANGED <<activity, beats>>

-----------------------------------------------------------------------------
(* The network, the browser and the server *)

(* A request or its answer is lost, or refused for another reason.                         *)
LoseRequest(c) ==
    /\ LET chore == chores[c] IN
       \/ /\ chore.at \in {"start", "started"}
          /\ Goes(c, Given(chore, None)) /\ UNCHANGED kept
       \/ /\ chore.at \in {"batch", "entries", "flushed"}
          /\ Goes(c, Unsent(chore)) /\ UNCHANGED kept
       \/ /\ chore.at \in {"post", "posted"}
          /\ Goes(c, [chore EXCEPT !.at = "queue", !.got = "none", !.route = None]) /\ UNCHANGED kept
       \/ /\ chore.at = "end"
          /\ Goes(c, After(chore)) /\ UNCHANGED kept
       \/ /\ chore.at \in {"revoke", "revoked", "grant", "granted"}
          /\ Goes(c, NoChore) /\ UNCHANGED kept
       \/ /\ chore.at \in {"ask", "asked"}
          /\ kept' = [kept EXCEPT !.consented = FALSE]
          /\ Goes(c, After(chore))
    /\ UNCHANGED <<activity, beats>>

(* The browser ends the background script: what it had in hand is gone.                     *)
EndScript ==
    /\ \E c \in Chores : ~At(c, "free")
    /\ chores' = [c \in Chores |-> NoChore]
    /\ beats' = [beats EXCEPT !.excused = @ \cup {chores[c].beat : c \in {d \in Chores : chores[d].beat # None}}]
    /\ UNCHANGED <<kept, activity>>

(* EndStaleSessions.                                                                     *)
CloseStale ==
    /\ activity.open # None
    /\ activity' = [activity EXCEPT !.open = None]
    /\ UNCHANGED <<kept, chores, beats>>

-----------------------------------------------------------------------------

QueueNext ==
    \/ \E c \in Chores :
        \/ TakeBeat(c) \/ FlushQueue(c) \/ EnsureActiveSession(c) \/ AnswerStart(c) \/ KeepSession(c)
        \/ AnswerBatch(c) \/ RecordEntry(c) \/ DropSent(c) \/ SendHeartbeat(c)
        \/ AnswerHeartbeat(c) \/ ReadAnswer(c) \/ QueueEntry(c)
        \/ Resume(c) \/ StopTracking(c) \/ RevokeInPopup(c) \/ GrantConsent(c) \/ RefreshConsent(c)
        \/ Suspend(c) \/ EndKeptSession(c) \/ AnswerConsent(c) \/ KeepConsent(c) \/ LoseRequest(c)
    \/ Pause \/ EndScript \/ CloseStale

QueueSpec == QueueInit /\ [][QueueNext]_queueVars

-----------------------------------------------------------------------------
(* Properties *)

(* Types of what is stored and of the handlers under way.                                 *)
QueueTypeOK ==
    /\ kept \in Kept /\ chores \in [Chores -> Chore]
    /\ activity \in [consent : BOOLEAN, open : SessionNames \cup {None}, opened : 0..MaxOpened]
    /\ beats \in [taken : 0..MaxBeats, landed : SUBSET Beats, excused : SUBSET Beats]

(* Every heartbeat that was taken has been recorded, waits in the queue or is in a          *)
(* handler's hands, whatever ticks, messages and answers overlap ("beats queued while this   *)
(* batch was in flight are not lost"): but for those that made room in a full queue, that      *)
(* the server refused or skipped, that a script took with it, or that a second flush of the      *)
(* same entries dropped with its own.                                                       *)
QueueKeepsBeats ==
    1..beats.taken =
        beats.landed \cup beats.excused \cup Elements(kept.queue)
            \cup {chores[c].beat : c \in {d \in Chores : chores[d].beat # None}}
=============================================================================
