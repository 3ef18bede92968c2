------------------------------- MODULE Broadcasts -------------------------------
(***************************************************************************)
(* The WhatsApp messages of one tenant (service/whatsapp/service.go,         *)
(* scheduler.go and repository/whatsapp/repository.go): the loop of the wa_scheduler *)
(* ticker with its reminders, its digest and its schedules, the runs and the *)
(* messages requests ask for, the daily limit, the log and the cached client. *)
(*                                                                         *)
(* The server is one process, so there is one loop.  Every recipient has a  *)
(* phone and one task or project due, templates are active, and the list of *)
(* recipients is read at the start of a job.  The tasks of a notification or *)
(* of an event are one message each, like a quick send.                      *)
(***************************************************************************)
EXTENDS Integers, FiniteSets, Sequences

CONSTANTS
    Recipients,
    Requests,      \* HTTP requests, reused one after another
    Settings,      \* wa_configs rows an admin may save: [on, limit], limit 0 is none
    ReminderAt,    \* minutes the cron expressions match
    DigestAt,
    ScheduleAt,
    DayMinutes,    \* minutes of a calendar day
    LastMinute,    \* bound: minutes of a behaviour
    MaxEvents      \* bound: requests, changes of the settings and the schedule, and faults

ASSUME BroadcastTimeAssumption == DayMinutes \in Nat \ {0} /\ LastMinute \in Nat
ASSUME SettingsAssumption == Settings \subseteq [on : BOOLEAN, limit : Nat]
ASSUME BroadcastBoundsAssumption == MaxEvents \in Nat
ASSUME SendersAssumption ==
    IsFiniteSet(Requests) /\ "loop" \notin Requests /\ "nobody" \notin Recipients

VARIABLES
    minute,
    server,    \* "starting" until the job of its first, immediate tick is over
    tick,      \* the tick in the ticker's channel, which holds one
    settings,
    saving,    \* an update of the settings is between its two steps
    cached,    \* s.clients: the settings the cached client was made from
    schedule,  \* a row of wa_broadcast_schedules
    jobs,      \* what each sender is doing
    logged,    \* wa_broadcast_logs: rows with status sent, by day
    reminded,  \* of these, the reminders: recipient and day
    events,    \* counter of the bound
    mailed     \* history: what the gateway accepted, see Mailed

broadcastVars == <<minute, server, tick, settings, saving, cached, schedule, jobs, logged,
                   reminded, events, mailed>>

-----------------------------------------------------------------------------

Minutes == 0..LastMinute
Never == -1

DayOfMinute(m) == m \div DayMinutes
Days == 0..DayOfMinute(LastMinute)
Today == DayOfMinute(minute)

NoClient == [on |-> FALSE, limit |-> Never]

Senders == Requests \cup {"loop"}

(* has is whether a log row refers to it: such a schedule cannot be deleted.   *)
Schedule == [is : {"active", "paused", "gone"}, lastRun : Minutes \cup {Never}, has : BOOLEAN]

(* at is the minute of the tick, to the recipient the message is being sent to, *)
(* sent what the gateway answered, hungUp a cancelled request context.          *)
Job == [kind : {"none", "reminders", "digest", "schedule", "quick"},
        step : {"idle", "client", "loading", "next", "count", "send", "log"},
        at : Minutes, client : Settings \cup {NoClient}, to : Recipients \cup {"nobody"},
        todo : SUBSET Recipients, sent : BOOLEAN, hungUp : BOOLEAN]

NoJob == [kind |-> "none", step |-> "idle", at |-> 0, client |-> NoClient, to |-> "nobody",
          todo |-> {}, sent |-> FALSE, hungUp |-> FALSE]

(* History.  total and unlogged count the accepted messages of a day, and those *)
(* of them without a row; twice and loose are the reminders accepted again, and *)
(* those without a row; run and rerun what the loop's runs of the schedule sent, *)
(* by minute, forgot the minutes whose run did not get to be recorded, or had     *)
(* another recorded over it; raced is whether settings were saved while a client *)
(* was being made from the old ones.                                          *)
Mailed == [total : [Days -> Nat], unlogged : [Days -> Nat],
           once : SUBSET (Recipients \X Days), twice : SUBSET (Recipients \X Days),
           loose : SUBSET (Recipients \X Days),
           run : SUBSET (Recipients \X Minutes), rerun : SUBSET (Recipients \X Minutes),
           forgot : SUBSET Minutes, raced : BOOLEAN]

BroadcastInit ==
    /\ minute = 0
    /\ server = "starting"
    /\ tick = 0
    /\ settings \in Settings
    /\ saving = FALSE
    /\ cached = NoClient
    /\ schedule = [is |-> "active", lastRun |-> Never, has |-> FALSE]
    /\ jobs = [w \in Senders |-> NoJob]
    /\ logged = [d \in Days |-> 0]
    /\ reminded = {}
    /\ events = 0
    /\ mailed = [total |-> [d \in Days |-> 0], unlogged |-> [d \in Days |-> 0],
                 once |-> {}, twice |-> {}, loose |-> {}, run |-> {}, rerun |-> {},
                 forgot |-> {}, raced |-> FALSE]

(* Something that is asked for, or goes wrong. *)
Event == events < MaxEvents /\ events' = events + 1

-----------------------------------------------------------------------------
(* The ticker and the loop *)

PassMinute ==
    /\ minute < LastMinute
    /\ minute' = minute + 1
    /\ tick' = IF server = "running" /\ tick = Never THEN minute + 1 ELSE tick
    /\ UNCHANGED <<server, settings, saving, cached, schedule, jobs, logged, reminded,
                   events, mailed>>

(* The jobs of a tick, in their order. *)
Kinds == <<"reminders", "digest", "schedule">>

IsDue_Again(kind, m) ==
    CASE kind = "reminders" -> m \in ReminderAt
      [] kind = "digest"    -> m \in DigestAt
      [] kind = "schedule"  -> schedule.is = "active" /\ m \in ScheduleAt

(* shouldRunScheduleNow *)
IsDue(kind, m) ==
    CASE kind = "reminders" -> m \in ReminderAt
      [] kind = "digest"    -> m \in DigestAt
      [] kind = "schedule"  -> schedule.is = "active" /\ m \in ScheduleAt /\ schedule.lastRun # m

DueAfter(n, m) == {k \in (n + 1)..Len(Kinds) : IsDue(Kinds[k], m)}

(* The loop goes on with the first job after the n-th that is due at minute m,  *)
(* or waits for the next tick.                                               *)
Proceed(n, m) ==
    IF DueAfter(n, m) = {}
      THEN /\ jobs' = [jobs EXCEPT !["loop"] = NoJob]
           /\ server' = "running"
      ELSE /\ LET first == CHOOSE k \in DueAfter(n, m) : \A j \in DueAfter(n, m) : k <= j IN
              jobs' = [jobs EXCEPT !["loop"] = [NoJob EXCEPT !.kind = Kinds[first], !.at = m,
                                                  !.step = "next", !.todo = Recipients]]
           /\ UNCHANGED server

RunCronJobs ==
    /\ server # "down" /\ tick # Never /\ jobs["loop"] = NoJob
    /\ tick' = Never
    /\ Proceed(IF settings.on THEN 0 ELSE Len(Kinds), tick)
    /\ UNCHANGED <<minute, settings, saving, cached, schedule, logged, reminded,
                   events, mailed>>

Nth(kind) == CHOOSE n \in 1..Len(Kinds) : Kinds[n] = kind

EndJob ==
    /\ jobs["loop"].step = "next" /\ jobs["loop"].todo = {}
    /\ jobs["loop"].kind \in {"reminders", "digest"}
    /\ Proceed(Nth(jobs["loop"].kind), jobs["loop"].at)
    /\ UNCHANGED <<minute, tick, settings, saving, cached, schedule, logged, reminded,
                   events, mailed>>

(* UpdateScheduleRunMetadata, which may fail; the schedule may be gone.          *)
EndRun(w) ==
    /\ jobs[w].kind = "schedule" /\ jobs[w].step = "next" /\ jobs[w].todo = {}
    /\ \/ /\ ~jobs[w].hungUp
          /\ schedule' = IF schedule.is = "gone" THEN schedule
                         ELSE [schedule EXCEPT !.lastRun = minute]
          /\ mailed' = [mailed EXCEPT !.forgot = @ \cup ({schedule.lastRun} \ {minute, Never})]
          /\ UNCHANGED events
       \/ /\ UNCHANGED schedule
          /\ mailed' = IF w = "loop" THEN [mailed EXCEPT !.forgot = @ \cup {jobs[w].at}] ELSE mailed
          /\ IF jobs[w].hungUp THEN UNCHANGED events ELSE Event
    /\ jobs' = [jobs EXCEPT ![w] = NoJob]
    /\ server' = IF w = "loop" THEN "running" ELSE server
    /\ UNCHANGED <<minute, tick, settings, saving, cached, logged, reminded>>

-----------------------------------------------------------------------------
(* Requests *)

Ask(w, kind, to, todo) ==
    /\ server # "down" /\ jobs[w] = NoJob /\ Event
    /\ jobs' = [jobs EXCEPT ![w] = [NoJob EXCEPT !.kind = kind, !.step = "client",
                                                 !.to = to, !.todo = todo]]
    /\ UNCHANGED <<minute, server, tick, settings, saving, cached, schedule, logged,
                   reminded, mailed>>

TriggerSchedule(w) == schedule.is # "gone" /\ Ask(w, "schedule", "nobody", Recipients)

QuickSend(w) == \E r \in Recipients : Ask(w, "quick", r, {r})

(* The client of a request goes away: its context is cancelled, its work goes on. *)
HangUp(w) ==
    /\ jobs[w].kind # "none" /\ ~jobs[w].hungUp
    /\ jobs' = [jobs EXCEPT ![w].hungUp = TRUE]
    /\ UNCHANGED <<minute, server, tick, settings, saving, cached, schedule, logged,
                   reminded, events, mailed>>

-----------------------------------------------------------------------------
(* One message *)

NextRecipient_Unchecked(w) ==
    /\ jobs[w].step = "next"
    /\ \E r \in jobs[w].todo :
         jobs' = [jobs EXCEPT ![w] = [@ EXCEPT !.to = r, !.step = "client"]]
    /\ UNCHANGED <<minute, server, tick, settings, saving, cached, schedule, logged,
                   reminded, events, mailed>>

(* CheckDuplicateToday, of reminders only. *)
NextRecipient(w) ==
    /\ jobs[w].step = "next"
    /\ \E r \in jobs[w].todo :
         jobs' = [jobs EXCEPT ![w] =
             IF jobs[w].kind = "reminders" /\ <<r, Today>> \in reminded
               THEN [jobs[w] EXCEPT !.todo = @ \ {r}]
               ELSE [jobs[w] EXCEPT !.to = r, !.step = "client"]]
    /\ UNCHANGED <<minute, server, tick, settings, saving, cached, schedule, logged,
                   reminded, events, mailed>>

(* With a client, TriggerSchedule goes on if it is enabled, a message is counted. *)
WithClient(job, client) ==
    CASE job.to # "nobody" -> [job EXCEPT !.client = client, !.step = "count"]
      [] job.to = "nobody" /\ client.on -> [job EXCEPT !.step = "next"]
      [] OTHER -> NoJob

(* getClient: the cached one, or one made from the settings it reads, which is   *)
(* stored if there is still none.  A cancelled request cannot read them.         *)
GetClient(w) ==
    /\ jobs[w].step = "client"
    /\ jobs' = [jobs EXCEPT ![w] =
           CASE cached # NoClient -> WithClient(@, cached)
             [] cached = NoClient /\ ~@.hungUp ->
                    [@ EXCEPT !.client = settings, !.step = "loading"]
             [] OTHER -> IF @.to = "nobody" THEN NoJob
                         ELSE [@ EXCEPT !.sent = FALSE, !.step = "log"]]
    /\ UNCHANGED <<minute, server, tick, settings, saving, cached, schedule, logged,
                   reminded, events, mailed>>

StoreClient(w) ==
    /\ jobs[w].step = "loading"
    /\ cached' = IF cached = NoClient THEN jobs[w].client ELSE cached
    /\ jobs' = [jobs EXCEPT ![w] = WithClient(@, cached')]
    /\ UNCHANGED <<minute, server, tick, settings, saving, schedule, logged, reminded,
                   events, mailed>>

(* ensureDailyLimit, whose statement fails when the request was cancelled.       *)
WithinLimit(job) ==
    job.client.limit = 0 \/ (~job.hungUp /\ logged[Today] < job.client.limit)

EnsureDailyLimit(w) ==
    /\ jobs[w].step = "count"
    /\ jobs' = [jobs EXCEPT ![w].sent = FALSE, ![w].step =
           IF WithinLimit(jobs[w]) /\ jobs[w].client.on THEN "send" ELSE "log"]
    /\ UNCHANGED <<minute, server, tick, settings, saving, cached, schedule, logged,
                   reminded, events, mailed>>

(* The gateway has accepted the message of w. *)
Accepted(w) ==
    LET job == jobs[w]
        reminder == IF job.kind = "reminders" THEN {<<job.to, Today>>} ELSE {}
        run == IF w = "loop" /\ job.kind = "schedule" THEN {<<job.to, job.at>>} ELSE {}
    IN [mailed EXCEPT !.total[Today] = @ + 1,
                      !.once = @ \cup reminder, !.twice = @ \cup (mailed.once \cap reminder),
                      !.run = @ \cup run, !.rerun = @ \cup (mailed.run \cap run)]

(* The log will never say so. *)
Unlogged(w, history) ==
    [history EXCEPT !.unlogged[Today] = @ + 1,
                    !.loose = IF jobs[w].kind = "reminders" THEN @ \cup {<<jobs[w].to, Today>>} ELSE @]

(* It accepts, refuses, or accepts and its answer is lost. *)
SendMessage(w) ==
    /\ jobs[w].step = "send"
    /\ \E answer \in {"accepted", "refused", "lost"} :
         /\ jobs' = [jobs EXCEPT ![w].sent = answer = "accepted", ![w].step = "log"]
         /\ mailed' = CASE answer = "accepted" -> Accepted(w)
                        [] answer = "refused"  -> mailed
                        [] answer = "lost"     -> Unlogged(w, Accepted(w))
         /\ IF answer = "lost" THEN Event ELSE UNCHANGED events
    /\ UNCHANGED <<minute, server, tick, settings, saving, cached, schedule, logged,
                   reminded>>

(* CreateLog fails for a cancelled request and for a schedule that is gone.       *)
LogWillFail(w) == jobs[w].hungUp \/ (jobs[w].kind = "schedule" /\ schedule.is = "gone")

CreateLog(w) ==
    LET job == jobs[w] IN
    /\ job.step = "log"
    /\ jobs' = [jobs EXCEPT ![w] =
           IF job.kind = "quick" THEN NoJob
           ELSE [job EXCEPT !.to = "nobody", !.todo = @ \ {job.to}, !.step = "next", !.sent = FALSE,
                            !.client = NoClient]]
    /\ \/ /\ ~LogWillFail(w)
          /\ logged' = IF job.sent THEN [logged EXCEPT ![Today] = @ + 1] ELSE logged
          /\ reminded' = IF job.sent /\ job.kind = "reminders"
                           THEN reminded \cup {<<job.to, Today>>} ELSE reminded
          /\ schedule' = IF job.kind = "schedule" THEN [schedule EXCEPT !.has = TRUE] ELSE schedule
          /\ UNCHANGED <<events, mailed>>
       \/ /\ mailed' = IF job.sent THEN Unlogged(w, mailed) ELSE mailed
          /\ UNCHANGED <<logged, reminded, schedule>>
          /\ IF LogWillFail(w) THEN UNCHANGED events ELSE Event
    /\ UNCHANGED <<minute, server, tick, settings, saving, cached>>

-----------------------------------------------------------------------------
(* Settings, schedules and the server *)

(* UpdateWAConfig: the row, *)
SaveSettings ==
    /\ server # "down" /\ ~saving /\ Event
    /\ settings' \in Settings \ {settings}
    /\ saving' = TRUE
    /\ mailed' = [mailed EXCEPT !.raced = (@ \/ \E w \in Senders : jobs[w].step = "loading")]
    /\ UNCHANGED <<minute, server, tick, cached, schedule, jobs, logged, reminded>>

InvalidateClient_Dropped ==
    /\ saving
    /\ saving' = FALSE
    /\ UNCHANGED <<minute, server, tick, settings, cached, schedule, jobs, logged, reminded,
                   events, mailed>>

(* then "invalidate cached client so next call picks up new config".              *)
InvalidateClient ==
    /\ saving
    /\ saving' = FALSE
    /\ cached' = NoClient
    /\ UNCHANGED <<minute, server, tick, settings, schedule, jobs, logged, reminded,
                   events, mailed>>

ToggleSchedule ==
    /\ server # "down" /\ schedule.is # "gone" /\ Event
    /\ schedule' = [schedule EXCEPT !.is = IF @ = "active" THEN "paused" ELSE "active"]
    /\ UNCHANGED <<minute, server, tick, settings, saving, cached, jobs, logged, reminded,
                   mailed>>

(* The logs of a schedule refer to it. *)
DeleteSchedule ==
    /\ server # "down" /\ schedule.is # "gone" /\ ~schedule.has
    /\ Event
    /\ schedule' = [schedule EXCEPT !.is = "gone"]
    /\ UNCHANGED <<minute, server, tick, settings, saving, cached, jobs, logged, reminded,
                   mailed>>

(* Jobs, the client and the tick are in memory. *)
Stop ==
    /\ server # "down" /\ Event
    /\ server' = "down"
    /\ tick' = Never
    /\ saving' = FALSE
    /\ cached' = NoClient
    /\ jobs' = [w \in Senders |-> NoJob]
    /\ LET open == {w \in Senders : jobs[w].step = "log" /\ jobs[w].sent}
           job == jobs["loop"]
       IN mailed' = [mailed EXCEPT
              !.unlogged[Today] = @ + Cardinality(open), !.raced = FALSE,
              !.loose = IF "loop" \in open /\ job.kind = "reminders"
                          THEN @ \cup {<<job.to, Today>>} ELSE @,
              !.forgot = IF job.kind = "schedule" THEN @ \cup {job.at} ELSE @]
    /\ UNCHANGED <<minute, settings, schedule, logged, reminded>>

(* "runImmediately": the first job is of this minute. *)
Start ==
    /\ server = "down"
    /\ server' = "starting"
    /\ tick' = minute
    /\ UNCHANGED <<minute, settings, saving, cached, schedule, jobs, logged, reminded,
                   events, mailed>>

-----------------------------------------------------------------------------

BroadcastNext ==
    \/ PassMinute \/ RunCronJobs \/ EndJob
    \/ SaveSettings \/ InvalidateClient \/ ToggleSchedule \/ DeleteSchedule \/ Stop \/ Start
    \/ \E w \in Requests : TriggerSchedule(w) \/ QuickSend(w) \/ HangUp(w)
    \/ \E w \in Senders : \/ NextRecipient(w) \/ GetClient(w) \/ StoreClient(w)
                          \/ EnsureDailyLimit(w) \/ SendMessage(w) \/ CreateLog(w) \/ EndRun(w)

BroadcastSpec == BroadcastInit /\ [][BroadcastNext]_broadcastVars

-----------------------------------------------------------------------------
(* Properties *)

(* Types of the settings, the schedule, the jobs and the log.                   *)
BroadcastTypeOK ==
    /\ minute \in Minutes /\ tick \in Minutes \cup {Never}
    /\ server \in {"starting", "running", "down"}
    /\ settings \in Settings /\ cached \in Settings \cup {NoClient} /\ saving \in BOOLEAN
    /\ schedule \in Schedule /\ jobs \in [Senders -> Job]
    /\ logged \in [Days -> Nat] /\ reminded \subseteq Recipients \X Days
    /\ mailed \in Mailed

(* Nobody gets the reminder of a task twice a day ("anti-spam: check if already *)
(* sent today"), whatever is restarted in the minute of the reminders: unless a *)
(* message that was accepted could not be logged.                              *)
ReminderOncePerDay == mailed.twice \subseteq mailed.loose

(* The messages of a day exceed the largest limit by at most one for each other *)
(* sender, which counts before the others have logged (ensureDailyLimit), and by *)
(* those that were accepted and never logged.                                  *)
DailyLimitKept ==
    (\A s \in Settings : s.limit > 0) =>
        \A d \in Days : \E s \in Settings :
            mailed.total[d] <= s.limit + Cardinality(Requests) + mailed.unlogged[d]

(* A run of the loop is not repeated for the same minute (shouldRunScheduleNow), *)
(* by a restart or by a late tick: unless the first did not get to be recorded,  *)
(* or last_run_at, which holds one run, has another in its place.              *)
NoRunTwice == \A x \in mailed.rerun : x[2] \in mailed.forgot

(* Neither a reminder nor a run is repeated.                                    *)
JobsRunOnce == ReminderOncePerDay /\ NoRunTwice

(* Once an update of the settings is over, a cached client has been made from    *)
(* them, unless getClient was between its read and its store when they were saved. *)
ClientFollowsSettings ==
    cached # NoClient /\ ~saving /\ ~mailed.raced => cached = settings

(* What is sent and by which client follows the settings, of today and after an update. *)
SettingsRespected == DailyLimitKept /\ ClientFollowsSettings
=============================================================================
