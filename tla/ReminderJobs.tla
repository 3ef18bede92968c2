------------------------------ MODULE ReminderJobs ------------------------------
(***************************************************************************)
(* The minute tickers that remind people (app/app.go, runPerTenantTicker): the *)
(* tracker's reminders, the Discord digest (service/operational), reminders to *)
(* review and to pay reimbursements (service/hris) and the weekly e-mail        *)
(* (service/notifications).  Each has a loop of its own that goes through the   *)
(* tenants (middleware/tenant.go); a behaviour is of one of them.               *)
(*                                                                         *)
(* Each tenant has one recipient with all addresses.  What the cron expressions *)
(* match is given.                                                            *)
(***************************************************************************)
EXTENDS Integers, FiniteSets, Sequences

CONSTANTS
    Companies,      \* active tenants
    HourLength,     \* minutes of an hour, in the model
    DedupWindow,    \* minutes a tracker reminder keeps others away
    DayHours,       \* hours of a day
    CronMinutes,    \* minutes the cron expressions match
    LastReminder,   \* bound: minutes of a behaviour
    MaxMishaps      \* bound: failures, restarts, changes of settings, early ticks

ASSUME ReminderTimeAssumption ==
    /\ HourLength \in Nat \ {0} /\ DayHours \in Nat \ {0} /\ LastReminder \in Nat
    /\ DedupWindow \in Nat /\ DedupWindow < HourLength
ASSUME ReminderBoundsAssumption == MaxMishaps \in Nat

VARIABLES
    loop,       \* which of the four
    now,        \* the minute it is
    ticker,     \* alive unless the loop panicked or the server is down; the tick in
                \* its channel, which holds one; when the last tick came
    round,      \* what the loop is doing
    wanted,     \* the tenants' settings
    lastRuns,   \* in memory: the last minute, or day, of a tenant and a kind
    notices,    \* the tracker's in-app notices: tenant and minute
    mishaps,    \* counter of the bound
    tellings    \* history, see Tellings

reminderVars == <<loop, now, ticker, round, wanted, lastRuns, notices, mishaps, tellings>>

-----------------------------------------------------------------------------

Clock == 0..LastReminder
NoMinute == -1

KindsOf == [tracker |-> <<"tracker">>, discord |-> <<"digest">>,
            reimbursement |-> <<"review", "payment">>, email |-> <<"weekly">>]
Loops == DOMAIN KindsOf
ReminderKind == {"tracker", "digest", "review", "payment", "weekly"}

MinutesOfDay == HourLength * DayHours

(* hour is the digest's; the channels outside the application are always on.     *)
Wanted == [on : BOOLEAN, inApp : BOOLEAN, hour : 0..(DayHours - 1)]

Ticker == [alive : BOOLEAN, tick : Clock \cup {NoMinute}, last : Clock, regular : BOOLEAN]

(* todo are the kinds of the tenant's job that are left, the first one under way. *)
Round == [step : {"idle", "tenant", "settings", "find", "notify", "send"},
          at : Clock, left : SUBSET Companies, of : Companies \cup {"nobody"},
          todo : {<<>>} \cup {<<k>> : k \in ReminderKind} \cup {<<"review", "payment">>}]
NoRound == [step |-> "idle", at |-> 0, left |-> {}, of |-> "nobody", todo |-> <<>>]

(* The in-app reminder of a run and the one sent out.  A reminder is due in its   *)
(* minute, the digest on its day.                                              *)
Message == Companies \X ReminderKind \X Clock \X {"inApp", "out"}
Due == Companies \X ReminderKind \X Clock

(* History.  owed is what a tick that came should lead to, excused what it did not *)
(* because something failed, was switched off or had nobody to go to; bare are     *)
(* the tracker reminders that left no notice; rehoured the tenants whose digest was *)
(* given another hour; started the minutes in which the server started.            *)
Tellings == [once : SUBSET Message, twice : SUBSET Message, owed : SUBSET Due,
             excused : SUBSET Due, bare : SUBSET (Companies \X Clock),
             rehoured : SUBSET Companies, started : SUBSET Clock]

NoRuns == [c \in Companies |-> [k \in ReminderKind |-> NoMinute]]

IsDueAt(k, c, m) ==
    CASE k = "tracker" -> m % HourLength = 0
      [] k = "digest"  -> m % MinutesOfDay = wanted[c].hour * HourLength
      [] OTHER         -> m \in CronMinutes

ReminderSlot(k, m) == IF k = "digest" THEN m \div MinutesOfDay ELSE m

KindsOfLoop == {KindsOf[loop][n] : n \in DOMAIN KindsOf[loop]}

(* What a tick at m is to bring.                                               *)
OwedAt(m) ==
    {<<c, k, m>> : c \in {d \in Companies : wanted[d].on}, k \in KindsOfLoop}
        \cap {d \in Due : IsDueAt(d[2], d[1], d[3])}

(* The tracker's and the Discord ticker wait for their first tick.               *)
Immediate == loop \in {"reimbursement", "email"}

TickerAt(m) == [alive |-> TRUE, tick |-> IF Immediate THEN m ELSE NoMinute, last |-> m,
                regular |-> FALSE]

(* What the loop looks at: the digest and the weekly e-mail have no in-app notice, only *)
(* the digest has an hour.                                                      *)
Matters(w) ==
    /\ loop \in {"discord", "email"} => w.inApp
    /\ loop # "discord" => w.hour = 0

RemindersInit ==
    /\ loop \in Loops
    /\ now = 0
    /\ ticker = TickerAt(0)
    /\ round = NoRound
    /\ wanted \in [Companies -> {w \in Wanted : Matters(w)}]
    /\ lastRuns = NoRuns
    /\ notices = {}
    /\ mishaps = 0
    /\ tellings = [once |-> {}, twice |-> {}, owed |-> IF Immediate THEN OwedAt(0) ELSE {},
                    excused |-> {}, bare |-> {}, rehoured |-> {}, started |-> {0}]

Mishap == mishaps < MaxMishaps /\ mishaps' = mishaps + 1

-----------------------------------------------------------------------------
(* The ticker *)

MinutePasses ==
    /\ now < LastReminder
    /\ now' = now + 1
    /\ UNCHANGED <<loop, ticker, round, wanted, lastRuns, notices, mishaps, tellings>>

(* A tick that finds the channel full is dropped.                               *)
TickComes ==
    /\ ticker.alive /\ ticker.last # now
    /\ ticker' = [ticker EXCEPT !.tick = IF @ = NoMinute THEN now ELSE @,
                                !.last = now, !.regular = TRUE]
    /\ tellings' = IF ticker.tick = NoMinute THEN [tellings EXCEPT !.owed = @ \cup OwedAt(now)]
                    ELSE tellings
    /\ UNCHANGED <<loop, now, round, wanted, lastRuns, notices, mishaps>>

(* Ticks a minute apart may still come in one minute, one late and one on time.   *)
TickComesAgain ==
    /\ ticker.alive /\ ticker.regular /\ ticker.last = now /\ ticker.tick = NoMinute
    /\ Mishap
    /\ ticker' = [ticker EXCEPT !.tick = now]
    /\ tellings' = [tellings EXCEPT !.owed = @ \cup OwedAt(now)]
    /\ UNCHANGED <<loop, now, round, wanted, lastRuns, notices>>

StartRound ==
    /\ ticker.alive /\ ticker.tick # NoMinute /\ round.step = "idle"
    /\ ticker' = [ticker EXCEPT !.tick = NoMinute]
    /\ round' = [NoRound EXCEPT !.step = "tenant", !.at = ticker.tick, !.left = Companies]
    /\ UNCHANGED <<loop, now, wanted, lastRuns, notices, mishaps, tellings>>

(* ForEachTenant *)
NextTenant ==
    /\ round.step = "tenant"
    /\ IF round.left = {} THEN round' = NoRound
       ELSE \E c \in round.left :
              round' = [round EXCEPT !.step = "settings", !.of = c, !.left = @ \ {c},
                                     !.todo = KindsOf[loop]]
    /\ UNCHANGED <<loop, now, ticker, wanted, lastRuns, notices, mishaps, tellings>>

-----------------------------------------------------------------------------
(* The job of a tenant *)

Company == round.of
Kind == Head(round.todo)
This == <<Company, Kind, round.at>>

Excuse(due) == [tellings EXCEPT !.excused = @ \cup due]

(* The kind is done with; the next one, or the next tenant.                       *)
AfterKind ==
    round' = IF Len(round.todo) = 1 THEN [round EXCEPT !.step = "tenant", !.of = "nobody", !.todo = <<>>]
             ELSE [round EXCEPT !.step = "settings", !.todo = Tail(@)]

(* lastReminderRuns, lastFireDate, lastWeeklyDigestRun                           *)
RunKey_OfTenant(k) == "review"
RunKey(k) == k

HasRun(c, k, m) == k # "tracker" /\ lastRuns[c][RunKey(k)] = ReminderSlot(k, m)

(* The settings are read, and the run is claimed, if it is due.  (Both kinds of the *)
(* reimbursements go by one reading of them; a change between the two is none.)     *)
ReadSettings ==
    /\ round.step = "settings"
    /\ \/ /\ wanted[Company].on /\ IsDueAt(Kind, Company, round.at)
          /\ ~HasRun(Company, Kind, round.at)
          /\ round' = [round EXCEPT !.step = "find"]
          /\ lastRuns' = [lastRuns EXCEPT ![Company][RunKey(Kind)] = ReminderSlot(Kind, round.at)]
          /\ UNCHANGED tellings
       \/ /\ wanted[Company].on /\ IsDueAt(Kind, Company, round.at)
          /\ HasRun(Company, Kind, round.at)
          /\ AfterKind
          /\ UNCHANGED <<lastRuns, tellings>>
       \/ /\ ~(wanted[Company].on /\ IsDueAt(Kind, Company, round.at))
          /\ AfterKind
          /\ tellings' = Excuse({This})
          /\ UNCHANGED lastRuns
    /\ UNCHANGED <<loop, now, ticker, wanted, notices, mishaps>>

(* HasRecentReminder *)
Recent(c) == \E n \in notices : n[1] = c /\ n[2] >= round.at - DedupWindow

(* Whom to remind: nobody, if nothing is pending or the tracker is on, or the one. *)
FindRecipients ==
    /\ round.step = "find"
    /\ \/ /\ AfterKind
          /\ tellings' = Excuse({This})
       \/ /\ Kind = "tracker" => ~Recent(Company)
          /\ round' = [round EXCEPT !.step =
                IF Kind \in {"tracker", "review", "payment"} /\ wanted[Company].inApp
                  THEN "notify" ELSE "send"]
          /\ tellings' = IF Kind = "tracker" /\ ~wanted[Company].inApp
                            THEN [tellings EXCEPT !.bare = @ \cup {<<Company, round.at>>}]
                            ELSE tellings
    /\ UNCHANGED <<loop, now, ticker, wanted, lastRuns, notices, mishaps>>

TellThis(channel) ==
    LET m == <<Company, Kind, ReminderSlot(Kind, round.at), channel>> IN
    [tellings EXCEPT !.once = @ \cup {m}, !.twice = IF m \in tellings.once THEN @ \cup {m} ELSE @]

Noticed == IF Kind = "tracker" THEN notices \cup {<<Company, now>>} ELSE notices

(* CreateMany *)
NotifyInApp ==
    /\ round.step = "notify"
    /\ notices' = Noticed
    /\ tellings' = TellThis("inApp")
    /\ round' = [round EXCEPT !.step = "send"]
    /\ UNCHANGED <<loop, now, ticker, wanted, lastRuns, mishaps>>

(* The tracker's reminder goes out without its notice.                            *)
NoticeFails ==
    /\ round.step = "notify" /\ Kind = "tracker" /\ Mishap
    /\ round' = [round EXCEPT !.step = "send"]
    /\ tellings' = [tellings EXCEPT !.bare = @ \cup {<<Company, round.at>>}]
    /\ UNCHANGED <<loop, now, ticker, wanted, lastRuns, notices>>

(* WhatsApp, e-mail, the webhook *)
SendOut ==
    /\ round.step = "send"
    /\ tellings' = TellThis("out")
    /\ AfterKind
    /\ UNCHANGED <<loop, now, ticker, wanted, lastRuns, notices, mishaps>>

(* A failed dispatch is logged, and so is any failure of the digest.               *)
DispatchFails ==
    /\ round.step = "send" \/ (round.step = "find" /\ Kind = "digest")
    /\ Mishap
    /\ tellings' = Excuse({This})
    /\ AfterKind
    /\ UNCHANGED <<loop, now, ticker, wanted, lastRuns, notices>>

(* What the round has not come to yet.                                           *)
Unreached ==
    {<<c, k, round.at>> : c \in round.left, k \in KindsOfLoop}
        \cup {<<Company, round.todo[n], round.at>> : n \in DOMAIN round.todo}

Waiting == {d \in tellings.owed : d[3] = ticker.tick}

(* What has been claimed and not been told, owed or not.                          *)
ClaimedRun == IF round.step \in {"find", "notify", "send"} THEN {This} ELSE {}

(* An error of the job ends the round: ForEachTenant returns it.                   *)
JobFails ==
    /\ \/ round.step \in {"tenant", "settings"}
       \/ round.step = "find" /\ Kind # "digest"
       \/ round.step = "notify" /\ Kind # "tracker"
    /\ Mishap
    /\ tellings' = Excuse((tellings.owed \cap Unreached) \cup ClaimedRun)
    /\ round' = NoRound
    /\ UNCHANGED <<loop, now, ticker, wanted, lastRuns, notices>>

(* The recovery is outside the loop: the ticker is gone until the next start.       *)
JobPanics ==
    /\ round.step \in {"settings", "find", "notify", "send"} /\ Mishap
    /\ tellings' = Excuse((tellings.owed \cap Unreached) \cup Waiting \cup ClaimedRun)
    /\ round' = NoRound
    /\ ticker' = [ticker EXCEPT !.alive = FALSE, !.tick = NoMinute]
    /\ UNCHANGED <<loop, now, wanted, lastRuns, notices>>

(* A restart: what was in memory is gone.                                         *)
RestartReminders ==
    /\ Mishap
    /\ ticker' = TickerAt(now)
    /\ round' = NoRound
    /\ lastRuns' = NoRuns
    /\ tellings' = [tellings EXCEPT
           !.excused = @ \cup (tellings.owed \cap Unreached) \cup Waiting,
           !.owed = IF Immediate THEN @ \cup OwedAt(now) ELSE @,
           !.started = @ \cup {now}]
    /\ UNCHANGED <<loop, now, wanted, notices>>

-----------------------------------------------------------------------------
(* Requests *)

(* UpdateConfig of one kind or another.  What is waiting goes by the new settings.  *)
ChangeReminders(c) ==
    /\ round.of # c /\ Mishap
    /\ \E w \in Wanted :
         /\ w # wanted[c] /\ Matters(w)
         /\ wanted' = [wanted EXCEPT ![c] = w]
         /\ tellings' = IF w.hour # wanted[c].hour
                           THEN [tellings EXCEPT !.rehoured = @ \cup {c}] ELSE tellings
    /\ UNCHANGED <<loop, now, ticker, round, lastRuns, notices>>

(* SendTestReminder writes the same type of notice.                               *)
SendTestReminder(c) ==
    /\ loop = "tracker" /\ wanted[c].inApp /\ Mishap
    /\ notices' = notices \cup {<<c, now>>}
    /\ UNCHANGED <<loop, now, ticker, round, wanted, lastRuns, tellings>>

RemindersNext ==
    \/ MinutePasses \/ TickComes \/ TickComesAgain \/ StartRound \/ NextTenant
    \/ ReadSettings \/ FindRecipients \/ NotifyInApp \/ NoticeFails \/ SendOut
    \/ DispatchFails \/ JobFails \/ JobPanics \/ RestartReminders
    \/ \E c \in Companies : ChangeReminders(c) \/ SendTestReminder(c)

RemindersSpec == RemindersInit /\ [][RemindersNext]_reminderVars

-----------------------------------------------------------------------------
(* Properties *)

(* Types of the ticker, the round, the settings and the memory.                    *)
RemindersTypeOK ==
    /\ loop \in Loops /\ now \in Clock /\ ticker \in Ticker /\ round \in Round
    /\ wanted \in [Companies -> Wanted]
    /\ lastRuns \in [Companies -> [ReminderKind -> Clock \cup {NoMinute}]]
    /\ notices \subseteq Companies \X Clock /\ tellings \in Tellings

(* A reminder is told once: again only in a minute in which the server started, for a  *)
(* tracker's reminder that left no notice, or for a digest whose hour was moved and whose *)
(* memory a restart took.                                                          *)
MayRepeat(m) ==
    CASE m[2] = "tracker" -> m[4] = "out" /\ <<m[1], m[3]>> \in tellings.bare
      [] m[2] = "digest"  -> /\ m[1] \in tellings.rehoured
                             /\ \E t \in tellings.started : t > 0 /\ t \div MinutesOfDay = m[3]
      [] OTHER            -> m[3] \in tellings.started

RemindedOnce == \A m \in tellings.twice : MayRepeat(m)

ToldOf(d) ==
    \E ch \in {"inApp", "out"} : <<d[1], d[2], ReminderSlot(d[2], d[3]), ch>> \in tellings.once

(* What a tick should have brought has been told, is still to come in its round, or was  *)
(* excused: neither another tenant, nor another kind, nor another tick in the minute takes *)
(* its place.  Only a digest whose hour was moved may find its day used up by an earlier   *)
(* hour that told nothing.                                                         *)
NothingForgotten ==
    \A d \in tellings.owed \ (tellings.excused \cup Waiting \cup Unreached) :
        ToldOf(d) \/ (d[2] = "digest" /\ d[1] \in tellings.rehoured)

RemindersKept == RemindedOnce /\ NothingForgotten
=============================================================================
