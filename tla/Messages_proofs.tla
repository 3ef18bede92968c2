---------------------------- MODULE Messages_proofs ----------------------------
(***************************************************************************)
(* JobsRunOnce and SettingsRespected of the WhatsApp messages, for any finite    *)
(* number of requests, any recipients, settings, cron minutes and length of day,  *)
(* and RemindersKept of the other reminders, for any tenants, cron minutes,       *)
(* length of an hour and a day and number of mishaps.                           *)
(*                                                                         *)
(* The invariant of the messages says of each sender where it is, counts those    *)
(* let through the limit and those not yet logged, and remembers why no reminder  *)
(* and no run can come again: what has been sent is on record, was given up, or is *)
(* what the loop is about to record.  The one of the reminders keeps the ticks and *)
(* the remembered runs in order, says why what was told is done with, and follows  *)
(* each claimed run until it has told or was excused.                           *)
(***************************************************************************)
EXTENDS Broadcasts, ReminderJobs, TLAPS, FiniteSetTheorems, FunctionTheorems

(* Only the loop reminds; what it sends goes to one of those left to do, and its *)
(* context is nobody's to cancel.                                             *)
Underway(w) == jobs[w].step \in {"client", "loading", "count", "send", "log"}

SenderInv ==
    /\ \A w \in Requests : jobs[w].kind \notin {"reminders", "digest"}
    /\ ~jobs["loop"].hungUp
    /\ Underway("loop") => jobs["loop"].to \in jobs["loop"].todo
    /\ jobs["loop"].kind = "none" <=> jobs["loop"] = NoJob
    /\ jobs["loop"].kind \in {"none", "reminders", "digest", "schedule"}
    /\ \A w \in Senders : jobs[w].sent => jobs[w].step = "log"
    /\ \A w \in Senders : jobs[w].step = "loading" => jobs[w].client # NoClient
    /\ server = "down" => tick = Never /\ \A w \in Senders : jobs[w] = NoJob

(* Those that were let through the limit, and those whose message was accepted and *)
(* is not yet logged.                                                         *)
LetThrough == {w \in Senders : jobs[w].step = "send"}
Unrecorded == {w \in Senders : jobs[w].step = "log" /\ jobs[w].sent}

(* n more of them may follow. *)
Within(total, unlogged, n) ==
    (\A s \in Settings : s.limit > 0) =>
        \E s \in Settings : total + n <= s.limit + Cardinality(Requests) + unlogged

LimitInv ==
    /\ mailed.total[Today] <= logged[Today] + mailed.unlogged[Today] + Cardinality(Unrecorded)
    /\ Within(mailed.total[Today], mailed.unlogged[Today], Cardinality(LetThrough))
    /\ \A d \in Days : Within(mailed.total[d], mailed.unlogged[d], 0)
    /\ \A d \in Days : d > Today => mailed.total[d] = 0

(* Whoever has had a reminder today is in the log, or will never be, or it is what  *)
(* the loop is about to log.                                                   *)
ReminderInv ==
    LET job == jobs["loop"] IN
    /\ \A x \in mailed.once : x[2] <= Today
    /\ \A r \in Recipients : <<r, Today>> \in mailed.once =>
         \/ <<r, Today>> \in reminded \cup mailed.loose
         \/ job.kind = "reminders" /\ job.step = "log" /\ job.sent /\ job.to = r
    /\ job.kind = "reminders" /\ job.step \in {"client", "loading", "count", "send"} =>
         (<<job.to, Today>> \in mailed.once => <<job.to, Today>> \in mailed.loose)
    /\ mailed.twice \subseteq mailed.loose

(* No job of minute m comes any more.                                         *)
Past(m) ==
    /\ m < minute
    /\ tick # Never => tick > m
    /\ jobs["loop"].kind # "none" => jobs["loop"].at > m

RunningAt(m) == jobs["loop"].kind = "schedule" /\ jobs["loop"].at = m

(* What was run at m is not run again: it is on record as such, or was forgotten.   *)
NotAgain(m) ==
    \/ m \in mailed.forgot \/ schedule.lastRun = m \/ schedule.is = "gone"
    \/ Past(m) \/ RunningAt(m)

RunInv ==
    LET job == jobs["loop"] IN
    /\ tick # Never => tick <= minute
    /\ job.kind # "none" => job.at <= minute /\ (tick # Never => tick > job.at)
    /\ \A x \in mailed.run : NotAgain(x[2])
    /\ \A x \in mailed.run :
         job.kind = "schedule" /\ x[2] = job.at /\ x[2] \notin mailed.forgot =>
           x[1] \notin job.todo \/ (job.step = "log" /\ job.to = x[1])
    /\ \A x \in mailed.rerun : x[2] \in mailed.forgot

(* A client being made is made from the settings, unless they are saved meanwhile.  *)
ClientInv ==
    /\ ~mailed.raced => \A w \in Senders : jobs[w].step = "loading" => jobs[w].client = settings
    /\ ClientFollowsSettings

BroadcastInv ==
    /\ BroadcastTypeOK /\ SenderInv /\ LimitInv /\ ReminderInv /\ RunInv /\ ClientInv

-----------------------------------------------------------------------------
(* Minutes and days. *)

LEMMA DaysGoOn ==
  ASSUME NEW m \in Minutes
  PROVE  /\ DayOfMinute(m) \in Days /\ DayOfMinute(m) \in Nat
         /\ m < LastMinute => m + 1 \in Minutes /\ DayOfMinute(m) <= DayOfMinute(m + 1)
<1>1. \A a, b \in Nat : a <= b => DayOfMinute(a) <= DayOfMinute(b) /\ DayOfMinute(a) \in Nat
  BY BroadcastTimeAssumption DEF DayOfMinute
<1>2. LastMinute \in Nat /\ m \in Nat /\ m <= LastMinute
  BY BroadcastTimeAssumption DEF Minutes
<1>3. DayOfMinute(m) \in Nat /\ DayOfMinute(LastMinute) \in Nat /\ DayOfMinute(m) <= DayOfMinute(LastMinute)
  BY <1>1, <1>2
<1>4. DayOfMinute(m) \in Days
  BY <1>3 DEF Days
<1>5. m < LastMinute => m + 1 \in Minutes /\ DayOfMinute(m) <= DayOfMinute(m + 1)
  BY <1>1, <1>2 DEF Minutes
<1> QED BY <1>3, <1>4, <1>5

LEMMA TodayIsADay ==
  ASSUME BroadcastTypeOK
  PROVE  Today \in Days /\ Today \in Nat
  BY DaysGoOn DEF BroadcastTypeOK, Today

LEMMA SendersAreFinite ==
    /\ IsFiniteSet(Senders) /\ Cardinality(Senders) = Cardinality(Requests) + 1
    /\ Cardinality(Requests) \in Nat /\ "loop" \in Senders /\ Requests \subseteq Senders
  BY SendersAssumption, FS_AddElement, FS_CardinalityType DEF Senders

(* Jobs. *)

LEMMA SettingsAre ==
    /\ \A s \in Settings : s.limit \in Nat /\ s.on \in BOOLEAN
    /\ NoClient \notin Settings /\ NoClient.limit = -1 /\ NoClient.on = FALSE
  BY SettingsAssumption DEF NoClient, Never

LEMMA NoJobIs ==
    /\ NoJob \in Job /\ NoJob.kind = "none" /\ NoJob.step = "idle" /\ NoJob.todo = {}
    /\ NoJob.to = "nobody" /\ NoJob.sent = FALSE /\ NoJob.hungUp = FALSE /\ NoJob.at = 0
    /\ NoJob.client = NoClient
<1>1. PICK no : no = FALSE /\ no \in BOOLEAN
  OBVIOUS
<1>2. 0 \in Minutes
  BY BroadcastTimeAssumption DEF Minutes
<1>3. PICK c : c = NoClient /\ c \in Settings \cup {NoClient}
  OBVIOUS
<1> QED BY ONLY <1>1, <1>2, <1>3 DEF NoJob, Job

(* The steps of a sender change nothing of the others. *)
Steps(w) == jobs' \in [Senders -> Job] /\ \A v \in Senders \ {w} : jobs'[v] = jobs[v]

LEMMA StepsIs ==
  ASSUME jobs \in [Senders -> Job], NEW w \in Senders, NEW x \in Job, jobs' = [jobs EXCEPT ![w] = x]
  PROVE  Steps(w) /\ jobs'[w] = x
  BY DEF Steps

(* The flags of a job as any set of values. *)
JobWith(B) ==
    [kind : {"none", "reminders", "digest", "schedule", "quick"},
     step : {"idle", "client", "loading", "next", "count", "send", "log"},
     at : Minutes, client : Settings \cup {NoClient}, to : Recipients \cup {"nobody"},
     todo : SUBSET Recipients, sent : B, hungUp : B]

LEMMA JobIsWith ==
  ASSUME NEW B, B = BOOLEAN
  PROVE  Job = JobWith(B)
  BY DEF Job, JobWith

(* What a sender's step makes of its job. *)

SameRun(j, y) == y.kind = j.kind /\ y.at = j.at /\ y.hungUp = j.hungUp

LEMMA NextRecipientIs ==
  ASSUME BroadcastTypeOK, NEW w \in Senders, NextRecipient(w)
  PROVE  LET j == jobs[w]  y == jobs'[w] IN
         /\ Steps(w) /\ SameRun(j, y) /\ j.step = "next" /\ y.sent = j.sent
         /\ \E r \in j.todo :
              \/ /\ y.step = "next" /\ y.todo = j.todo \ {r}
                 /\ j.kind = "reminders" /\ <<r, Today>> \in reminded
              \/ /\ y.step = "client" /\ y.todo = j.todo /\ y.to = r
                 /\ j.kind = "reminders" => <<r, Today>> \notin reminded
<1>1. PICK j \in Job : j = jobs[w]
  BY DEF BroadcastTypeOK
<1>2. PICK r \in j.todo :
         jobs' = [jobs EXCEPT ![w] = IF j.kind = "reminders" /\ <<r, Today>> \in reminded
                                       THEN [j EXCEPT !.todo = @ \ {r}]
                                       ELSE [j EXCEPT !.to = r, !.step = "client"]]
  BY <1>1 DEF NextRecipient
<1>3. j.step = "next"
  BY <1>1 DEF NextRecipient
<1>4. PICK a : a = [j EXCEPT !.todo = @ \ {r}]
  OBVIOUS
<1>5. PICK b : b = [j EXCEPT !.to = r, !.step = "client"]
  OBVIOUS
<1>6. /\ a \in Job /\ a.todo = j.todo \ {r} /\ a.step = j.step /\ a.sent = j.sent
      /\ SameRun(j, a)
  BY ONLY <1>4, j \in Job DEF Job, SameRun
<1>7. /\ b \in Job /\ b.todo = j.todo /\ b.step = "client" /\ b.to = r /\ b.sent = j.sent
      /\ SameRun(j, b)
  BY ONLY <1>5, j \in Job, r \in j.todo DEF Job, SameRun
<1>8. CASE j.kind = "reminders" /\ <<r, Today>> \in reminded
  <2>1. jobs' = [jobs EXCEPT ![w] = a]
    BY <1>2, <1>4, <1>8
  <2>2. Steps(w) /\ jobs'[w] = a
    BY <2>1, <1>6, StepsIs DEF BroadcastTypeOK
  <2> QED BY <2>2, <1>1, <1>3, <1>6, <1>8
<1>9. CASE ~(j.kind = "reminders" /\ <<r, Today>> \in reminded)
  <2>1. jobs' = [jobs EXCEPT ![w] = b]
    BY <1>2, <1>5, <1>9
  <2>2. Steps(w) /\ jobs'[w] = b
    BY <2>1, <1>7, StepsIs DEF BroadcastTypeOK
  <2> QED BY <2>2, <1>1, <1>3, <1>7, <1>9
<1> QED BY <1>8, <1>9

(* With a client the message is counted, or the run begins, or nothing comes of it. *)
Served(j, y, client) ==
    \/ /\ y.step = "count" /\ SameRun(j, y) /\ y.sent = j.sent /\ y.to = j.to /\ y.todo = j.todo
    \/ /\ y.step = "next" /\ SameRun(j, y) /\ y.sent = j.sent /\ y.todo = j.todo /\ j.to = "nobody"
    \/ y = NoJob /\ j.to = "nobody"

LEMMA WithClientIs ==
  ASSUME NEW j \in Job, NEW client \in Settings
  PROVE  WithClient(j, client) \in Job /\ Served(j, WithClient(j, client), client)
<1>1. PICK a : a = [j EXCEPT !.client = client, !.step = "count"]
  OBVIOUS
<1>2. PICK b : b = [j EXCEPT !.step = "next"]
  OBVIOUS
<1>3. /\ a \in Job /\ a.step = "count" /\ SameRun(j, a) /\ a.sent = j.sent /\ a.to = j.to
      /\ a.todo = j.todo
  BY ONLY <1>1, j \in Job, client \in Settings DEF Job, SameRun
<1>4. b \in Job /\ b.step = "next" /\ SameRun(j, b) /\ b.sent = j.sent /\ b.todo = j.todo
  BY ONLY <1>2, j \in Job DEF Job, SameRun
<1>5. WithClient(j, client) = IF j.to # "nobody" THEN a ELSE IF client.on THEN b ELSE NoJob
  BY <1>1, <1>2 DEF WithClient
<1> QED BY <1>3, <1>4, <1>5, NoJobIs DEF Served

LEMMA GetClientIs ==
  ASSUME BroadcastTypeOK, NEW w \in Senders, GetClient(w)
  PROVE  LET j == jobs[w]  y == jobs'[w] IN
         /\ Steps(w) /\ j.step = "client"
         /\ \/ Served(j, y, cached)
            \/ /\ SameRun(j, y) /\ y.to = j.to /\ y.todo = j.todo
               /\ \/ y.step = "loading" /\ y.client = settings /\ y.sent = j.sent
                  \/ y.step = "log" /\ y.sent = FALSE
<1>1. PICK j \in Job : j = jobs[w]
  BY DEF BroadcastTypeOK
<1>2. settings \in Settings /\ cached \in Settings \cup {NoClient} /\ NoClient \notin Settings
  BY SettingsAre DEF BroadcastTypeOK
<1>3. PICK a : a = [j EXCEPT !.client = settings, !.step = "loading"]
  OBVIOUS
<1>4. PICK no : no = FALSE /\ no \in BOOLEAN
  OBVIOUS
<1>5. PICK b : b = [j EXCEPT !.sent = no, !.step = "log"]
  OBVIOUS
<1>6. /\ a \in Job /\ a.step = "loading" /\ a.client = settings /\ SameRun(j, a) /\ a.to = j.to
      /\ a.todo = j.todo /\ a.sent = j.sent
  <2>1. PICK s : s = settings /\ s \in Settings \cup {NoClient}
    BY <1>2
  <2>2. PICK S : S = Settings \cup {NoClient}
    OBVIOUS
  <2> QED BY ONLY <1>3, j \in Job, <2>1, <2>2 DEF Job, SameRun
<1>7. /\ b \in Job /\ b.step = "log" /\ b.sent = no /\ SameRun(j, b) /\ b.to = j.to
      /\ b.todo = j.todo
  <2>1. b \in Job
    <3>1. PICK B : B = BOOLEAN
      OBVIOUS
    <3>2. no \in B
      BY <1>4, <3>1, Zenon
    <3>3. Job = JobWith(B)
      BY <3>1, JobIsWith
    <3> QED BY ONLY <1>5, j \in Job, <3>2, <3>3 DEF JobWith
  <2>2. /\ b.step = "log" /\ SameRun(j, b) /\ b.to = j.to /\ b.todo = j.todo
    BY ONLY <1>5, j \in Job DEF Job, SameRun
  <2>3. b.sent = no
    BY ONLY <1>5, j \in Job DEF Job
  <2> QED BY ONLY <2>1, <2>2, <2>3
<1>8. PICK c : c = WithClient(j, cached)
  OBVIOUS
<1>9. cached # NoClient => c \in Job /\ Served(j, c, cached)
  BY <1>2, <1>8, WithClientIs
<1>10. PICK x : x = CASE cached # NoClient -> c
                      [] cached = NoClient /\ ~j.hungUp -> a
                      [] OTHER -> IF j.to = "nobody" THEN NoJob ELSE b
  OBVIOUS
<1>11. jobs' = [jobs EXCEPT ![w] = x] /\ j.step = "client"
  BY <1>1, <1>3, <1>4, <1>5, <1>8, <1>10 DEF GetClient
<1>12. \/ cached # NoClient /\ x = c
       \/ x = a
       \/ j.to = "nobody" /\ x = NoJob
       \/ x = b
  BY <1>10
<1>13. x \in Job
  BY <1>12, <1>6, <1>7, <1>9, NoJobIs
<1>14. Steps(w) /\ jobs'[w] = x
  BY <1>11, <1>13, StepsIs DEF BroadcastTypeOK
<1> QED BY <1>1, <1>4, <1>6, <1>7, <1>9, <1>11, <1>12, <1>14 DEF Served

LEMMA StoreClientIs ==
  ASSUME BroadcastTypeOK, NEW w \in Senders, StoreClient(w), jobs[w].client # NoClient
  PROVE  /\ Steps(w) /\ jobs[w].step = "loading"
         /\ Served(jobs[w], jobs'[w], cached') /\ cached' \in Settings
         /\ cached' = IF cached = NoClient THEN jobs[w].client ELSE cached
<1>1. PICK j \in Job : j = jobs[w]
  BY DEF BroadcastTypeOK
<1>2. cached' = IF cached = NoClient THEN j.client ELSE cached
  BY <1>1 DEF StoreClient
<1>3. j.client \in Settings
  BY <1>1 DEF Job
<1>4. cached' \in Settings
  BY <1>2, <1>3 DEF BroadcastTypeOK
<1>5. PICK c : c = WithClient(j, cached')
  OBVIOUS
<1>6. c \in Job /\ Served(j, c, cached')
  BY <1>4, <1>5, WithClientIs
<1>7. jobs' = [jobs EXCEPT ![w] = c] /\ j.step = "loading"
  BY <1>1, <1>5 DEF StoreClient
<1>8. Steps(w) /\ jobs'[w] = c
  BY <1>6, <1>7, StepsIs DEF BroadcastTypeOK
<1> QED BY <1>1, <1>2, <1>4, <1>6, <1>7, <1>8

LEMMA WithSentAndStep ==
  ASSUME jobs \in [Senders -> Job], NEW w \in Senders, NEW sent \in BOOLEAN,
         NEW step \in {"idle", "client", "loading", "next", "count", "send", "log"},
         jobs' = [jobs EXCEPT ![w].sent = sent, ![w].step = step]
  PROVE  /\ Steps(w) /\ SameRun(jobs[w], jobs'[w])
         /\ jobs'[w].sent = sent /\ jobs'[w].step = step
         /\ jobs'[w].to = jobs[w].to /\ jobs'[w].todo = jobs[w].todo
<1>1. PICK B : B = BOOLEAN
  OBVIOUS
<1>2. sent \in B
  BY <1>1, Zenon
<1>3. Job = JobWith(B)
  BY <1>1, JobIsWith
<1>4. PICK j : j = jobs[w]
  OBVIOUS
<1>5. j \in Job
  BY <1>4
<1>6. PICK y : y = [j EXCEPT !.sent = sent, !.step = step]
  OBVIOUS
<1>7. jobs' = [jobs EXCEPT ![w] = y]
  BY ONLY <1>4, <1>6, jobs \in [Senders -> Job], w \in Senders,
          jobs' = [jobs EXCEPT ![w].sent = sent, ![w].step = step]
<1>8. /\ y \in Job /\ SameRun(j, y) /\ y.sent = sent /\ y.step = step /\ y.to = j.to
      /\ y.todo = j.todo
  <2>1. y \in Job
    BY ONLY <1>2, <1>3, <1>5, <1>6, step \in {"idle", "client", "loading", "next", "count", "send", "log"} DEF JobWith
  <2>2. SameRun(j, y) /\ y.step = step /\ y.to = j.to /\ y.todo = j.todo
    BY ONLY <1>3, <1>5, <1>6 DEF JobWith, SameRun
  <2>3. y.sent = sent
    BY ONLY <1>3, <1>5, <1>6 DEF JobWith
  <2> QED BY ONLY <2>1, <2>2, <2>3
<1> QED BY <1>4, <1>7, <1>8, StepsIs

LEMMA EnsureDailyLimitIs ==
  ASSUME BroadcastTypeOK, NEW w \in Senders, EnsureDailyLimit(w)
  PROVE  LET j == jobs[w]  y == jobs'[w] IN
         /\ Steps(w) /\ SameRun(j, y) /\ j.step = "count" /\ y.sent = FALSE
         /\ y.to = j.to /\ y.todo = j.todo
         /\ y.step = IF WithinLimit(j) /\ j.client.on THEN "send" ELSE "log"
<1>1. PICK step : step = IF WithinLimit(jobs[w]) /\ jobs[w].client.on THEN "send" ELSE "log"
  OBVIOUS
<1>2. PICK no : no = FALSE /\ no \in BOOLEAN
  OBVIOUS
<1>3. jobs' = [jobs EXCEPT ![w].sent = no, ![w].step = step]
  BY <1>1, <1>2 DEF EnsureDailyLimit
<1>4. step \in {"idle", "client", "loading", "next", "count", "send", "log"}
  BY <1>1
<1>5. jobs \in [Senders -> Job]
  BY DEF BroadcastTypeOK
<1>6. /\ Steps(w) /\ SameRun(jobs[w], jobs'[w]) /\ jobs'[w].sent = no /\ jobs'[w].step = step
      /\ jobs'[w].to = jobs[w].to /\ jobs'[w].todo = jobs[w].todo
  BY ONLY <1>2, <1>3, <1>4, <1>5, w \in Senders, WithSentAndStep
<1>7. jobs[w].step = "count"
  BY DEF EnsureDailyLimit
<1> QED BY <1>1, <1>2, <1>6, <1>7

LEMMA SendMessageIs ==
  ASSUME BroadcastTypeOK, NEW w \in Senders, SendMessage(w)
  PROVE  LET j == jobs[w]  y == jobs'[w] IN
         /\ Steps(w) /\ SameRun(j, y) /\ j.step = "send" /\ y.step = "log"
         /\ y.to = j.to /\ y.todo = j.todo
         /\ \/ y.sent = TRUE /\ mailed' = Accepted(w)
            \/ y.sent = FALSE /\ mailed' = mailed
            \/ y.sent = FALSE /\ mailed' = Unlogged(w, Accepted(w))
<1>1. PICK answer \in {"accepted", "refused", "lost"} :
         /\ jobs' = [jobs EXCEPT ![w].sent = answer = "accepted", ![w].step = "log"]
         /\ mailed' = CASE answer = "accepted" -> Accepted(w)
                        [] answer = "refused"  -> mailed
                        [] answer = "lost"     -> Unlogged(w, Accepted(w))
  BY DEF SendMessage
<1>2. PICK sent : sent = (answer = "accepted") /\ sent \in BOOLEAN
  OBVIOUS
<1>2a. sent \in BOOLEAN
  BY ONLY <1>2, Zenon
<1>3. jobs' = [jobs EXCEPT ![w].sent = sent, ![w].step = "log"]
  BY <1>1, <1>2, Zenon
<1>4. jobs \in [Senders -> Job]
  BY DEF BroadcastTypeOK
<1>5. "log" \in {"idle", "client", "loading", "next", "count", "send", "log"}
  OBVIOUS
<1>6. /\ Steps(w) /\ SameRun(jobs[w], jobs'[w]) /\ jobs'[w].sent = sent /\ jobs'[w].step = "log"
      /\ jobs'[w].to = jobs[w].to /\ jobs'[w].todo = jobs[w].todo
  BY ONLY <1>2a, <1>3, <1>4, <1>5, w \in Senders, WithSentAndStep
<1>7. jobs[w].step = "send"
  BY DEF SendMessage
<1>8. \/ answer = "accepted" /\ mailed' = Accepted(w)
      \/ answer # "accepted" /\ mailed' = mailed
      \/ answer # "accepted" /\ mailed' = Unlogged(w, Accepted(w))
  BY <1>1
<1>9. (sent = TRUE <=> answer = "accepted") /\ (sent = FALSE <=> answer # "accepted")
  BY <1>2, Zenon
<1> QED BY <1>6, <1>7, <1>8, <1>9, Zenon

LEMMA CreateLogIs ==
  ASSUME BroadcastTypeOK, NEW w \in Senders, CreateLog(w)
  PROVE  LET j == jobs[w]  y == jobs'[w] IN
         /\ Steps(w) /\ j.step = "log"
         /\ \/ j.kind = "quick" /\ y = NoJob
            \/ SameRun(j, y) /\ y.step = "next" /\ y.sent = FALSE /\ y.todo = j.todo \ {j.to}
<1>1. PICK j \in Job : j = jobs[w]
  BY DEF BroadcastTypeOK
<1>2. PICK no : no = FALSE /\ no \in BOOLEAN
  OBVIOUS
<1>3. PICK B : B = BOOLEAN
  OBVIOUS
<1>4. no \in B
  BY <1>2, <1>3, Zenon
<1>5. Job = JobWith(B)
  BY <1>3, JobIsWith
<1>6. PICK c : c = NoClient /\ c \in Settings \cup {NoClient}
  OBVIOUS
<1>7. PICK y : y = [j EXCEPT !.to = "nobody", !.todo = @ \ {j.to}, !.step = "next", !.sent = no,
                            !.client = c]
  OBVIOUS
<1>8. y \in Job /\ SameRun(j, y) /\ y.step = "next" /\ y.todo = j.todo \ {j.to}
  BY ONLY <1>4, <1>5, <1>6, <1>7, j \in Job DEF JobWith, SameRun
<1>9. y.sent = no
  BY ONLY <1>5, <1>7, j \in Job DEF JobWith
<1>10. PICK x : x = IF j.kind = "quick" THEN NoJob ELSE y
  OBVIOUS
<1>11. jobs' = [jobs EXCEPT ![w] = x] /\ j.step = "log"
  BY <1>1, <1>2, <1>6, <1>7, <1>10 DEF CreateLog
<1>12. x \in Job
  BY <1>8, <1>10, NoJobIs
<1>13. Steps(w) /\ jobs'[w] = x
  BY <1>11, <1>12, StepsIs DEF BroadcastTypeOK
<1> QED BY <1>1, <1>2, <1>8, <1>9, <1>10, <1>11, <1>13

LEMMA EndRunIs ==
  ASSUME BroadcastTypeOK, NEW w \in Senders, EndRun(w)
  PROVE  Steps(w) /\ jobs'[w] = NoJob /\ jobs[w].kind = "schedule" /\ jobs[w].step = "next"
  BY StepsIs, NoJobIs DEF EndRun, BroadcastTypeOK

LEMMA AskIs ==
  ASSUME BroadcastTypeOK, NEW w \in Senders, NEW kind \in {"schedule", "quick"},
         NEW to \in Recipients \cup {"nobody"}, NEW todo \in SUBSET Recipients, Ask(w, kind, to, todo)
  PROVE  LET y == jobs'[w] IN
         /\ Steps(w) /\ jobs[w] = NoJob /\ server # "down"
         /\ y.kind = kind /\ y.step = "client" /\ y.sent = FALSE
<1>1. PICK y : y = [NoJob EXCEPT !.kind = kind, !.step = "client", !.to = to, !.todo = todo]
  OBVIOUS
<1>2. PICK n : n = NoJob
  OBVIOUS
<1>3. PICK no : no = n.sent
  OBVIOUS
<1>4. y \in Job /\ y.kind = kind /\ y.step = "client"
  <2>1. n \in Job
    BY <1>2, NoJobIs
  <2>2. y = [n EXCEPT !.kind = kind, !.step = "client", !.to = to, !.todo = todo]
    BY <1>1, <1>2
  <2> QED BY ONLY <2>1, <2>2, kind \in {"schedule", "quick"}, to \in Recipients \cup {"nobody"},
                  todo \in SUBSET Recipients DEF Job
<1>5. y.sent = FALSE
  <2>1. n \in Job
    BY <1>2, NoJobIs
  <2>2. y = [n EXCEPT !.kind = kind, !.step = "client", !.to = to, !.todo = todo]
    BY <1>1, <1>2
  <2>3. y.sent = no
    BY ONLY <1>3, <2>1, <2>2 DEF Job
  <2> QED BY <2>3, <1>2, <1>3, NoJobIs
<1>6. jobs' = [jobs EXCEPT ![w] = y] /\ jobs[w] = NoJob /\ server # "down"
  BY <1>1 DEF Ask
<1> QED BY <1>4, <1>5, <1>6, StepsIs DEF BroadcastTypeOK

LEMMA HangUpIs ==
  ASSUME BroadcastTypeOK, NEW w \in Senders, HangUp(w)
  PROVE  LET j == jobs[w]  y == jobs'[w] IN
         /\ Steps(w) /\ j.kind # "none"
         /\ y.kind = j.kind /\ y.step = j.step /\ y.client = j.client /\ y.to = j.to /\ y.sent = j.sent
<1>1. PICK j \in Job : j = jobs[w]
  BY DEF BroadcastTypeOK
<1>2. PICK yes : yes = TRUE /\ yes \in BOOLEAN
  OBVIOUS
<1>3. PICK B : B = BOOLEAN
  OBVIOUS
<1>4. yes \in B
  BY <1>2, <1>3, Zenon
<1>5. Job = JobWith(B)
  BY <1>3, JobIsWith
<1>6. PICK y : y = [j EXCEPT !.hungUp = yes]
  OBVIOUS
<1>7. /\ y \in Job /\ y.kind = j.kind /\ y.step = j.step /\ y.client = j.client /\ y.to = j.to
      /\ y.sent = j.sent
  BY ONLY <1>4, <1>5, <1>6, j \in Job DEF JobWith
<1>8. jobs' = [jobs EXCEPT ![w].hungUp = yes] /\ j.kind # "none"
  BY <1>1, <1>2 DEF HangUp
<1>9. jobs \in [Senders -> Job]
  BY DEF BroadcastTypeOK
<1>10. jobs' = [jobs EXCEPT ![w] = y]
  BY ONLY <1>1, <1>6, <1>8, <1>9, w \in Senders
<1> QED BY <1>1, <1>7, <1>8, <1>9, <1>10, StepsIs

LEMMA ProceedIs ==
  ASSUME BroadcastTypeOK, NEW n \in 0..3, NEW m \in Minutes, Proceed(n, m)
  PROVE  LET y == jobs'["loop"] IN
         /\ Steps("loop")
         /\ \/ y = NoJob /\ server' = "running"
            \/ /\ server' = server
               /\ y.kind \in {"reminders", "digest", "schedule"} /\ y.at = m /\ y.step = "next"
               /\ y.sent = FALSE /\ y.hungUp = FALSE
               /\ y.kind = "schedule" => schedule.is = "active" /\ schedule.lastRun # m
<1>1. CASE DueAfter(n, m) = {}
  BY <1>1, StepsIs, NoJobIs, SendersAreFinite DEF Proceed, BroadcastTypeOK
<1>2. CASE DueAfter(n, m) # {}
  <2>1. PICK first : first = CHOOSE k \in DueAfter(n, m) : \A j \in DueAfter(n, m) : k <= j
    OBVIOUS
  <2>2. Len(Kinds) = 3 /\ Kinds[1] = "reminders" /\ Kinds[2] = "digest" /\ Kinds[3] = "schedule"
    BY DEF Kinds
  <2>3. DueAfter(n, m) \subseteq 1..3
    BY <2>2 DEF DueAfter
  <2>4. \E k \in DueAfter(n, m) : \A j \in DueAfter(n, m) : k <= j
    <3>1. PICK D : D = DueAfter(n, m)
      OBVIOUS
    <3>2. \E k \in D : \A j \in D : k <= j
      BY ONLY <1>2, <2>3, <3>1
    <3> QED BY <3>1, <3>2
  <2>5. first \in DueAfter(n, m)
    BY <2>1, <2>4
  <2>6. first \in 1..3 /\ IsDue(Kinds[first], m)
    BY <2>3, <2>5 DEF DueAfter
  <2>7. PICK kind \in {"reminders", "digest", "schedule"} : kind = Kinds[first]
    BY <2>2, <2>6
  <2>8. kind = "schedule" => schedule.is = "active" /\ schedule.lastRun # m
    BY <2>6, <2>7 DEF IsDue
  <2>9. PICK y : y = [NoJob EXCEPT !.kind = kind, !.at = m, !.step = "next", !.todo = Recipients]
    OBVIOUS
  <2>10. jobs' = [jobs EXCEPT !["loop"] = y] /\ server' = server
    BY <1>2, <2>1, <2>7, <2>9 DEF Proceed
  <2>11. PICK j : j = NoJob
    OBVIOUS
  <2>12. j \in Job /\ y = [j EXCEPT !.kind = kind, !.at = m, !.step = "next", !.todo = Recipients]
    BY <2>9, <2>11, NoJobIs
  <2>13. y \in Job /\ y.kind = kind /\ y.at = m /\ y.step = "next"
    BY ONLY <2>12, kind \in {"reminders", "digest", "schedule"}, m \in Minutes DEF Job
  <2>14. y.sent = j.sent
    BY ONLY <2>12 DEF Job
  <2>15. y.hungUp = j.hungUp
    BY ONLY <2>12 DEF Job
  <2>16. y.sent = FALSE /\ y.hungUp = FALSE
    BY <2>11, <2>14, <2>15, NoJobIs
  <2>17. Steps("loop") /\ jobs'["loop"] = y
    BY <2>10, <2>13, StepsIs, SendersAreFinite DEF BroadcastTypeOK
  <2> QED BY <2>8, <2>10, <2>13, <2>16, <2>17
<1> QED BY <1>1, <1>2

(* What is told of a message. *)

LEMMA MailedIs ==
  ASSUME mailed \in Mailed
  PROVE  /\ mailed.total \in [Days -> Nat] /\ mailed.unlogged \in [Days -> Nat]
         /\ mailed.once \subseteq Recipients \X Days /\ mailed.twice \subseteq Recipients \X Days
         /\ mailed.loose \subseteq Recipients \X Days
         /\ mailed.run \subseteq Recipients \X Minutes /\ mailed.rerun \subseteq Recipients \X Minutes
         /\ mailed.forgot \subseteq Minutes
  BY DEF Mailed

Reminds(w) == IF jobs[w].kind = "reminders" THEN {<<jobs[w].to, Today>>} ELSE {}
Runs(w) == IF w = "loop" /\ jobs[w].kind = "schedule" THEN {<<jobs[w].to, jobs[w].at>>} ELSE {}

LEMMA AcceptedIs ==
  ASSUME BroadcastTypeOK, NEW w \in Senders,
         jobs[w].kind = "reminders" \/ w = "loop" => jobs[w].to \in Recipients
  PROVE  LET y == Accepted(w) IN
         /\ y \in Mailed
         /\ y.total = [mailed.total EXCEPT ![Today] = @ + 1] /\ y.unlogged = mailed.unlogged
         /\ y.once = mailed.once \cup Reminds(w) /\ y.loose = mailed.loose
         /\ y.twice = mailed.twice \cup (mailed.once \cap Reminds(w))
         /\ y.run = mailed.run \cup Runs(w) /\ y.rerun = mailed.rerun \cup (mailed.run \cap Runs(w))
         /\ y.forgot = mailed.forgot /\ y.raced = mailed.raced
<1>1. PICK h : h = mailed
  OBVIOUS
<1>2. h \in Mailed
  BY <1>1 DEF BroadcastTypeOK
<1>3. PICK reminder : reminder = Reminds(w)
  OBVIOUS
<1>4. PICK run : run = Runs(w)
  OBVIOUS
<1>5. PICK t : t = [h.total EXCEPT ![Today] = @ + 1]
  OBVIOUS
<1>6. PICK y : y = [h EXCEPT !.total = t, !.once = @ \cup reminder, !.twice = @ \cup (h.once \cap reminder),
                            !.run = @ \cup run, !.rerun = @ \cup (h.run \cap run)]
  OBVIOUS
<1>7. h.total \in [Days -> Nat] /\ Today \in Days
  BY <1>2, TodayIsADay DEF Mailed
<1>8. t \in [Days -> Nat]
  BY ONLY <1>5, <1>7
<1>9. jobs[w] \in Job
  BY DEF BroadcastTypeOK
<1>10. reminder \subseteq Recipients \X Days
  BY <1>3, <1>7 DEF Reminds
<1>11. run \subseteq Recipients \X Minutes
  <2>1. jobs[w].at \in Minutes
    BY <1>9 DEF Job
  <2> QED BY <1>4, <2>1 DEF Runs
<1>12. y = Accepted(w)
  <2>1. Accepted(w) = [mailed EXCEPT !.total[Today] = @ + 1, !.once = @ \cup Reminds(w),
                                     !.twice = @ \cup (mailed.once \cap Reminds(w)),
                                     !.run = @ \cup Runs(w), !.rerun = @ \cup (mailed.run \cap Runs(w))]
    BY Zenon DEF Accepted, Reminds, Runs
  <2>2. Accepted(w) = [h EXCEPT !.total[Today] = @ + 1, !.once = @ \cup reminder,
                                !.twice = @ \cup (h.once \cap reminder),
                                !.run = @ \cup run, !.rerun = @ \cup (h.run \cap run)]
    BY <1>1, <1>3, <1>4, <2>1
  <2>3. [h EXCEPT !.total[Today] = @ + 1, !.once = @ \cup reminder,
                  !.twice = @ \cup (h.once \cap reminder),
                  !.run = @ \cup run, !.rerun = @ \cup (h.run \cap run)] = y
    BY ONLY <1>2, <1>5, <1>6, <1>7 DEF Mailed
  <2> QED BY <2>2, <2>3
<1>13. /\ y.total = t /\ y.unlogged = h.unlogged /\ y.once = h.once \cup reminder /\ y.loose = h.loose
       /\ y.twice = h.twice \cup (h.once \cap reminder) /\ y.run = h.run \cup run
       /\ y.rerun = h.rerun \cup (h.run \cap run) /\ y.forgot = h.forgot /\ y.raced = h.raced
  BY ONLY <1>2, <1>6 DEF Mailed
<1>14. y \in Mailed
  BY ONLY <1>2, <1>6, <1>8, <1>10, <1>11 DEF Mailed
<1> QED BY <1>1, <1>3, <1>4, <1>5, <1>12, <1>13, <1>14

LEMMA UnloggedIs ==
  ASSUME BroadcastTypeOK, NEW w \in Senders, NEW h \in Mailed,
         jobs[w].kind = "reminders" => jobs[w].to \in Recipients
  PROVE  LET y == Unlogged(w, h) IN
         /\ y \in Mailed
         /\ y.unlogged = [h.unlogged EXCEPT ![Today] = @ + 1] /\ y.total = h.total
         /\ y.loose = h.loose \cup Reminds(w)
         /\ y.once = h.once /\ y.twice = h.twice /\ y.run = h.run /\ y.rerun = h.rerun
         /\ y.forgot = h.forgot /\ y.raced = h.raced
<1>1. PICK reminder : reminder = Reminds(w)
  OBVIOUS
<1>2. PICK t : t = [h.unlogged EXCEPT ![Today] = @ + 1]
  OBVIOUS
<1>3. PICK y : y = [h EXCEPT !.unlogged = t, !.loose = @ \cup reminder]
  OBVIOUS
<1>4. h.unlogged \in [Days -> Nat] /\ Today \in Days
  BY TodayIsADay DEF Mailed
<1>5. t \in [Days -> Nat]
  BY ONLY <1>2, <1>4
<1>6. reminder \subseteq Recipients \X Days
  BY <1>1, <1>4 DEF Reminds
<1>7. y = Unlogged(w, h)
  <2>1. PICK loose : loose = IF jobs[w].kind = "reminders" THEN h.loose \cup {<<jobs[w].to, Today>>} ELSE h.loose
    OBVIOUS
  <2>2. loose = h.loose \cup reminder
    BY <1>1, <2>1 DEF Reminds
  <2>3. Unlogged(w, h) = [h EXCEPT !.unlogged[Today] = @ + 1, !.loose = loose]
    BY <2>1, Zenon DEF Unlogged
  <2>4. [h EXCEPT !.unlogged[Today] = @ + 1, !.loose = loose] = y
    BY ONLY <1>2, <1>3, <1>4, <2>2, h \in Mailed DEF Mailed
  <2> QED BY <2>3, <2>4
<1>8. /\ y.unlogged = t /\ y.total = h.total /\ y.loose = h.loose \cup reminder
      /\ y.once = h.once /\ y.twice = h.twice /\ y.run = h.run /\ y.rerun = h.rerun
      /\ y.forgot = h.forgot /\ y.raced = h.raced
  BY ONLY h \in Mailed, <1>3 DEF Mailed
<1>9. y \in Mailed
  BY ONLY h \in Mailed, <1>3, <1>5, <1>6 DEF Mailed
<1> QED BY <1>1, <1>2, <1>7, <1>8, <1>9

SameMessages(h, y) ==
    /\ y.total = h.total /\ y.unlogged = h.unlogged /\ y.once = h.once /\ y.twice = h.twice
    /\ y.loose = h.loose /\ y.run = h.run /\ y.rerun = h.rerun

LEMMA ForgotIs ==
  ASSUME NEW h \in Mailed, NEW F \in SUBSET Minutes, NEW y, y = [h EXCEPT !.forgot = @ \cup F]
  PROVE  y \in Mailed /\ SameMessages(h, y) /\ y.forgot = h.forgot \cup F /\ y.raced = h.raced
<1>1. SameMessages(h, y) /\ y.forgot = h.forgot \cup F /\ y.raced = h.raced
  BY DEF Mailed, SameMessages
<1>2. y \in Mailed
  BY DEF Mailed
<1> QED BY <1>1, <1>2

LEMMA RacedIs ==
  ASSUME NEW h \in Mailed, NEW race \in BOOLEAN, NEW y, y = [h EXCEPT !.raced = race]
  PROVE  y \in Mailed /\ SameMessages(h, y) /\ y.forgot = h.forgot /\ y.raced = race
<1>1. PICK B : B = BOOLEAN
  OBVIOUS
<1>2. race \in B
  BY <1>1, Zenon
<1>3. Mailed = [total : [Days -> Nat], unlogged : [Days -> Nat],
                once : SUBSET (Recipients \X Days), twice : SUBSET (Recipients \X Days),
                loose : SUBSET (Recipients \X Days),
                run : SUBSET (Recipients \X Minutes), rerun : SUBSET (Recipients \X Minutes),
                forgot : SUBSET Minutes, raced : B]
  BY <1>1 DEF Mailed
<1>4. y \in Mailed
  BY ONLY <1>2, <1>3, h \in Mailed, y = [h EXCEPT !.raced = race]
<1>5. SameMessages(h, y) /\ y.forgot = h.forgot
  BY ONLY <1>3, h \in Mailed, y = [h EXCEPT !.raced = race] DEF SameMessages
<1>6. y.raced = race
  BY ONLY <1>3, h \in Mailed, y = [h EXCEPT !.raced = race]
<1> QED BY <1>4, <1>5, <1>6

(* A schedule keeps its type when it has reached somebody, *)
LEMMA ScheduleHas ==
  ASSUME NEW s \in Schedule, NEW has \in BOOLEAN
  PROVE  /\ [s EXCEPT !.has = has] \in Schedule /\ [s EXCEPT !.has = has].lastRun = s.lastRun
         /\ [s EXCEPT !.has = has].is = s.is
<1>1. PICK B : B = BOOLEAN
  OBVIOUS
<1>2. has \in B
  BY <1>1, Zenon
<1>3. Schedule = [is : {"active", "paused", "gone"}, lastRun : Minutes \cup {Never}, has : B]
  BY <1>1 DEF Schedule
<1>4. PICK b : b = [s EXCEPT !.has = has]
  OBVIOUS
<1>5. b \in Schedule /\ b.lastRun = s.lastRun /\ b.is = s.is
  BY ONLY <1>2, <1>3, <1>4, s \in Schedule
<1> QED BY ONLY <1>4, <1>5

(* ... and when it is paused, resumed or deleted. *)
LEMMA ScheduleBecomes ==
  ASSUME NEW s \in Schedule, NEW is \in {"active", "paused", "gone"}
  PROVE  [s EXCEPT !.is = is] \in Schedule /\ [s EXCEPT !.is = is].lastRun = s.lastRun
<1>1. PICK c : c = [s EXCEPT !.is = is]
  OBVIOUS
<1>2. c \in Schedule /\ c.lastRun = s.lastRun
  BY ONLY <1>1, s \in Schedule, is \in {"active", "paused", "gone"} DEF Schedule
<1> QED BY ONLY <1>1, <1>2

LEMMA EndRunTold ==
  ASSUME BroadcastTypeOK, NEW w \in Senders, EndRun(w)
  PROVE  /\ mailed' \in Mailed /\ SameMessages(mailed, mailed') /\ mailed'.raced = mailed.raced
         /\ schedule' \in Schedule
         /\ \/ /\ schedule'.is = schedule.is
               /\ schedule.is # "gone" => schedule'.lastRun = minute
               /\ mailed'.forgot = mailed.forgot \cup ({schedule.lastRun} \ {minute, Never})
            \/ /\ schedule' = schedule
               /\ mailed'.forgot = mailed.forgot \cup (IF w = "loop" THEN {jobs[w].at} ELSE {})
<1>1. mailed \in Mailed /\ schedule \in Schedule /\ minute \in Minutes /\ jobs[w] \in Job
  BY DEF BroadcastTypeOK
<1>2. CASE /\ schedule' = IF schedule.is = "gone" THEN schedule ELSE [schedule EXCEPT !.lastRun = minute]
           /\ mailed' = [mailed EXCEPT !.forgot = @ \cup ({schedule.lastRun} \ {minute, Never})]
  <2>1. {schedule.lastRun} \ {minute, Never} \in SUBSET Minutes
    BY <1>1 DEF Schedule
  <2>2. /\ mailed' \in Mailed /\ SameMessages(mailed, mailed') /\ mailed'.raced = mailed.raced
        /\ mailed'.forgot = mailed.forgot \cup ({schedule.lastRun} \ {minute, Never})
    BY ONLY <1>1, <1>2, <2>1, ForgotIs
  <2>3. PICK a : a = [schedule EXCEPT !.lastRun = minute]
    OBVIOUS
  <2>4. a \in Schedule /\ a.lastRun = minute /\ a.is = schedule.is
    BY ONLY <1>1, <2>3 DEF Schedule
  <2>5. schedule' = IF schedule.is = "gone" THEN schedule ELSE a
    BY <1>2, <2>3
  <2> QED BY <1>1, <2>2, <2>4, <2>5
<1>3. CASE /\ schedule' = schedule
           /\ mailed' = IF w = "loop" THEN [mailed EXCEPT !.forgot = @ \cup {jobs[w].at}] ELSE mailed
  <2>1. {jobs[w].at} \in SUBSET Minutes
    BY <1>1 DEF Job
  <2>2. CASE w = "loop"
    <3>1. mailed' = [mailed EXCEPT !.forgot = @ \cup {jobs[w].at}]
      BY <1>3, <2>2
    <3>2. /\ mailed' \in Mailed /\ SameMessages(mailed, mailed') /\ mailed'.raced = mailed.raced
          /\ mailed'.forgot = mailed.forgot \cup {jobs[w].at}
      BY ONLY <1>1, <2>1, <3>1, ForgotIs
    <3> QED BY <1>1, <1>3, <2>2, <3>2
  <2>3. CASE w # "loop"
    BY <1>1, <1>3, <2>3 DEF SameMessages
  <2> QED BY <2>2, <2>3
<1> QED BY <1>2, <1>3 DEF EndRun

(* A server that stops leaves its accepted messages without a row. *)
LEMMA StopTold ==
  ASSUME BroadcastTypeOK, Stop, jobs["loop"].kind = "reminders" /\ jobs["loop"].sent => jobs["loop"].to \in Recipients
  PROVE  LET job == jobs["loop"]  y == mailed' IN
         /\ y \in Mailed
         /\ y.unlogged = [mailed.unlogged EXCEPT ![Today] = @ + Cardinality(Unrecorded)]
         /\ y.total = mailed.total /\ y.once = mailed.once /\ y.twice = mailed.twice
         /\ y.run = mailed.run /\ y.rerun = mailed.rerun /\ y.raced = FALSE
         /\ y.loose = mailed.loose \cup (IF "loop" \in Unrecorded /\ job.kind = "reminders"
                                           THEN {<<job.to, Today>>} ELSE {})
         /\ y.forgot = mailed.forgot \cup (IF job.kind = "schedule" THEN {job.at} ELSE {})
<1>1. PICK h : h = mailed
  OBVIOUS
<1>2. h \in Mailed /\ jobs["loop"] \in Job
  BY <1>1, SendersAreFinite DEF BroadcastTypeOK
<1>3. PICK n : n = Cardinality(Unrecorded)
  OBVIOUS
<1>4. n \in Nat
  <2>1. Unrecorded \subseteq Senders
    BY DEF Unrecorded
  <2> QED BY <1>3, <2>1, SendersAreFinite, FS_Subset, FS_CardinalityType
<1>5. PICK L : L = (IF "loop" \in Unrecorded /\ jobs["loop"].kind = "reminders"
                      THEN {<<jobs["loop"].to, Today>>} ELSE {})
  OBVIOUS
<1>6. PICK F : F = (IF jobs["loop"].kind = "schedule" THEN {jobs["loop"].at} ELSE {})
  OBVIOUS
<1>7. Today \in Days /\ h.unlogged \in [Days -> Nat]
  BY <1>2, TodayIsADay DEF Mailed
<1>8. L \in SUBSET (Recipients \X Days)
  <2>1. CASE "loop" \in Unrecorded /\ jobs["loop"].kind = "reminders"
    <3>1. jobs["loop"].sent
      BY <2>1 DEF Unrecorded
    <3>2. jobs["loop"].to \in Recipients
      BY <2>1, <3>1
    <3> QED BY <1>5, <1>7, <2>1, <3>2
  <2>2. CASE ~("loop" \in Unrecorded /\ jobs["loop"].kind = "reminders")
    BY <1>5, <2>2
  <2> QED BY <2>1, <2>2
<1>9. F \in SUBSET Minutes
  BY <1>2, <1>6 DEF Job
<1>10. PICK no : no = FALSE /\ no \in BOOLEAN
  OBVIOUS
<1>11. PICK t : t = [h.unlogged EXCEPT ![Today] = @ + n]
  OBVIOUS
<1>12. t \in [Days -> Nat]
  BY ONLY <1>4, <1>7, <1>11
<1>13. PICK x : x = [h EXCEPT !.unlogged = t, !.loose = @ \cup L, !.forgot = @ \cup F]
  OBVIOUS
<1>14. x \in Mailed
  BY ONLY <1>2, <1>8, <1>9, <1>12, <1>13 DEF Mailed
<1>15. /\ x.unlogged = t /\ x.total = h.total /\ x.once = h.once /\ x.twice = h.twice /\ x.run = h.run
       /\ x.rerun = h.rerun /\ x.loose = h.loose \cup L /\ x.forgot = h.forgot \cup F
  BY ONLY <1>2, <1>13 DEF Mailed
<1>16. PICK y : y = [x EXCEPT !.raced = no]
  OBVIOUS
<1>17. y \in Mailed /\ SameMessages(x, y) /\ y.forgot = x.forgot /\ y.raced = no
  BY ONLY <1>10, <1>14, <1>16, RacedIs
<1>18. mailed' = y
  <2>1. mailed' = [h EXCEPT !.unlogged[Today] = @ + n, !.raced = no,
              !.loose = IF "loop" \in Unrecorded /\ jobs["loop"].kind = "reminders"
                          THEN @ \cup {<<jobs["loop"].to, Today>>} ELSE @,
              !.forgot = IF jobs["loop"].kind = "schedule" THEN @ \cup {jobs["loop"].at} ELSE @]
    BY <1>1, <1>3, <1>10, Zenon DEF Stop, Unrecorded
  <2>2. PICK lo : lo = IF "loop" \in Unrecorded /\ jobs["loop"].kind = "reminders"
                         THEN h.loose \cup {<<jobs["loop"].to, Today>>} ELSE h.loose
    OBVIOUS
  <2>3. PICK fo : fo = IF jobs["loop"].kind = "schedule" THEN h.forgot \cup {jobs["loop"].at} ELSE h.forgot
    OBVIOUS
  <2>4. mailed' = [h EXCEPT !.unlogged[Today] = @ + n, !.raced = no, !.loose = lo, !.forgot = fo]
    BY <2>1, <2>2, <2>3, Zenon
  <2>5. lo = h.loose \cup L
    BY <1>5, <2>2
  <2>6. fo = h.forgot \cup F
    BY <1>6, <2>3
  <2>7. mailed' = [h EXCEPT !.unlogged = t, !.raced = no, !.loose = h.loose \cup L, !.forgot = h.forgot \cup F]
    BY ONLY <1>2, <1>7, <1>11, <2>4, <2>5, <2>6 DEF Mailed
  <2> QED BY ONLY <1>2, <1>13, <1>16, <2>7 DEF Mailed
<1> QED BY <1>1, <1>3, <1>5, <1>6, <1>10, <1>11, <1>15, <1>17, <1>18 DEF SameMessages
-----------------------------------------------------------------------------
(* Types. *)

LEMMA OnlyTheLoopReminds ==
  ASSUME BroadcastTypeOK, SenderInv, NEW w \in Senders
  PROVE  /\ jobs[w].kind \in {"reminders", "digest"} => w = "loop"
         /\ Underway("loop") => jobs["loop"].to \in Recipients
         /\ jobs[w].kind = "reminders" /\ Underway(w) => jobs[w].to \in Recipients
<1>1. jobs["loop"] \in Job
  BY SendersAreFinite DEF BroadcastTypeOK
<1>2. jobs[w].kind \in {"reminders", "digest"} => w = "loop"
  BY DEF SenderInv, Senders
<1>3. Underway("loop") => jobs["loop"].to \in Recipients
  <2>1. jobs["loop"].todo \subseteq Recipients
    BY <1>1 DEF Job
  <2> QED BY <2>1 DEF SenderInv
<1> QED BY <1>2, <1>3

LEMMA SendTypes ==
  ASSUME BroadcastTypeOK, SenderInv, NEW w \in Senders, SendMessage(w)
  PROVE  mailed' \in Mailed
<1>1. Underway(w)
  BY DEF SendMessage, Underway
<1>2. jobs[w].kind = "reminders" \/ w = "loop" => jobs[w].to \in Recipients
  BY <1>1, OnlyTheLoopReminds
<1>3. Accepted(w) \in Mailed
  BY <1>2, AcceptedIs
<1>4. Unlogged(w, Accepted(w)) \in Mailed
  BY <1>2, <1>3, UnloggedIs
<1> QED BY <1>3, <1>4, SendMessageIs DEF BroadcastTypeOK

LEMMA CreateLogTold ==
  ASSUME BroadcastTypeOK, SenderInv, NEW w \in Senders, CreateLog(w)
  PROVE  /\ schedule' \in Schedule /\ schedule'.lastRun = schedule.lastRun /\ schedule'.is = schedule.is
         /\ logged' \in [Days -> Nat] /\ reminded' \subseteq Recipients \X Days
         /\ \/ /\ mailed' = mailed
               /\ logged' = IF jobs[w].sent THEN [logged EXCEPT ![Today] = @ + 1] ELSE logged
               /\ reminded' = reminded \cup (IF jobs[w].sent THEN Reminds(w) ELSE {})
            \/ /\ logged' = logged /\ reminded' = reminded
               /\ mailed' = IF jobs[w].sent THEN Unlogged(w, mailed) ELSE mailed
<1>1. PICK yes : yes = TRUE /\ yes \in BOOLEAN
  OBVIOUS
<1>2. schedule \in Schedule /\ logged \in [Days -> Nat] /\ minute \in Minutes
  BY DEF BroadcastTypeOK
<1>3. Underway(w)
  BY DEF CreateLog, Underway
<1>4. Reminds(w) \subseteq Recipients \X Days
  BY <1>3, OnlyTheLoopReminds, TodayIsADay DEF Reminds
<1>5. CASE /\ logged' = IF jobs[w].sent THEN [logged EXCEPT ![Today] = @ + 1] ELSE logged
           /\ reminded' = IF jobs[w].sent /\ jobs[w].kind = "reminders"
                            THEN reminded \cup {<<jobs[w].to, Today>>} ELSE reminded
           /\ schedule' = IF jobs[w].kind = "schedule" THEN [schedule EXCEPT !.has = TRUE] ELSE schedule
           /\ mailed' = mailed
  <2>1. PICK l : l = [logged EXCEPT ![Today] = @ + 1]
    OBVIOUS
  <2>2. l \in [Days -> Nat]
    BY ONLY <1>2, <2>1, BroadcastTypeOK, TodayIsADay
  <2>3. logged' = IF jobs[w].sent THEN l ELSE logged
    BY <1>5, <2>1
  <2>4. reminded' = reminded \cup (IF jobs[w].sent THEN Reminds(w) ELSE {})
    <3>1. CASE jobs[w].sent /\ jobs[w].kind = "reminders"
      BY <1>5, <3>1 DEF Reminds
    <3>2. CASE ~(jobs[w].sent /\ jobs[w].kind = "reminders")
      BY <1>5, <3>2 DEF Reminds
    <3> QED BY <3>1, <3>2
  <2>5. reminded' \subseteq Recipients \X Days
    BY <1>4, <2>4 DEF BroadcastTypeOK
  <2>6. PICK a : a = [schedule EXCEPT !.has = yes]
    OBVIOUS
  <2>7. a \in Schedule /\ a.lastRun = schedule.lastRun /\ a.is = schedule.is
    <3>1. schedule \in Schedule /\ yes \in BOOLEAN
      BY ONLY <1>1, <1>2
    <3> QED BY ONLY <2>6, <3>1, ScheduleHas
  <2>8. schedule' = IF jobs[w].kind = "schedule" THEN a ELSE schedule
    BY <1>1, <1>5, <2>6
  <2>9. schedule' \in Schedule /\ schedule'.lastRun = schedule.lastRun /\ schedule'.is = schedule.is
    BY <1>2, <2>7, <2>8
  <2>10. logged' \in [Days -> Nat]
    BY <1>2, <2>2, <2>3
  <2> QED BY <1>5, <2>4, <2>5, <2>9, <2>10
<1>6. CASE /\ mailed' = IF jobs[w].sent THEN Unlogged(w, mailed) ELSE mailed
           /\ UNCHANGED <<logged, reminded, schedule>>
  BY <1>2, <1>6 DEF BroadcastTypeOK
<1> QED BY <1>5, <1>6 DEF CreateLog

LEMMA CreateLogTypes ==
  ASSUME BroadcastTypeOK, SenderInv, NEW w \in Senders, CreateLog(w)
  PROVE  mailed' \in Mailed
<1>1. Underway(w)
  BY DEF CreateLog, Underway
<1>2. jobs[w].kind = "reminders" => jobs[w].to \in Recipients
  BY <1>1, OnlyTheLoopReminds
<1>3. mailed \in Mailed
  BY DEF BroadcastTypeOK
<1>4. Unlogged(w, mailed) \in Mailed
  BY <1>2, <1>3, UnloggedIs
<1> QED BY <1>3, <1>4, CreateLogTold

LEMMA TypesKept ==
  ASSUME BroadcastTypeOK, SenderInv, BroadcastNext
  PROVE  BroadcastTypeOK'
<1> USE DEF BroadcastTypeOK
<1>1. mailed \in Mailed /\ schedule \in Schedule /\ minute \in Minutes /\ jobs \in [Senders -> Job]
  OBVIOUS
<1>2. CASE PassMinute
  BY <1>2, DaysGoOn DEF PassMinute
<1>3. CASE RunCronJobs
  <2>1. tick \in Minutes
    BY <1>3 DEF RunCronJobs
  <2>2. \E n \in 0..3 : Proceed(n, tick)
    BY <1>3 DEF RunCronJobs, Kinds
  <2>3. /\ jobs' \in [Senders -> Job] /\ server' \in {"starting", "running", "down"}
    BY <2>1, <2>2, ProceedIs DEF Steps
  <2> QED BY <1>3, <2>3 DEF RunCronJobs
<1>4. CASE EndJob
  <2>1. jobs["loop"].at \in Minutes
    BY SendersAreFinite DEF Job
  <2>2. \E n \in 0..3 : Proceed(n, jobs["loop"].at)
    <3>1. Nth(jobs["loop"].kind) \in 0..3
      <4>1. Len(Kinds) = 3 /\ Kinds[1] = "reminders" /\ Kinds[2] = "digest" /\ Kinds[3] = "schedule"
        BY DEF Kinds
      <4>2. \E n \in 1..3 : Kinds[n] = jobs["loop"].kind
        BY <1>4, <4>1 DEF EndJob
      <4>3. Nth(jobs["loop"].kind) \in 1..3
        BY <4>1, <4>2 DEF Nth
      <4> QED BY <4>3
    <3> QED BY <1>4, <3>1 DEF EndJob
  <2>3. /\ jobs' \in [Senders -> Job] /\ server' \in {"starting", "running", "down"}
    BY <2>1, <2>2, ProceedIs DEF Steps
  <2> QED BY <1>4, <2>3 DEF EndJob
<1>5. CASE SaveSettings
  <2>1. PICK race \in BOOLEAN : mailed' = [mailed EXCEPT !.raced = race]
    <3>1. PICK race : race = (mailed.raced \/ \E w \in Senders : jobs[w].step = "loading") /\ race \in BOOLEAN
      OBVIOUS
    <3>2. mailed' = [mailed EXCEPT !.raced = race]
      BY <1>5, <3>1, Zenon DEF SaveSettings
    <3> QED BY <3>1, <3>2
  <2>2. mailed' \in Mailed
    BY ONLY <1>1, <2>1, RacedIs
  <2>3. settings' \in Settings /\ saving' \in BOOLEAN
    BY <1>5 DEF SaveSettings
  <2> QED BY <1>5, <2>2, <2>3 DEF SaveSettings
<1>6. CASE InvalidateClient
  BY <1>6 DEF InvalidateClient
<1>7. CASE ToggleSchedule
  <2>1. PICK is \in {"active", "paused", "gone"} : schedule' = [schedule EXCEPT !.is = is]
    BY <1>7 DEF ToggleSchedule
  <2>3. schedule' \in Schedule
    BY ONLY <1>1, <2>1, ScheduleBecomes
  <2> QED BY <1>7, <2>3 DEF ToggleSchedule
<1>8. CASE DeleteSchedule
  <2>1. PICK is \in {"active", "paused", "gone"} : schedule' = [schedule EXCEPT !.is = is]
    BY <1>8 DEF DeleteSchedule
  <2>3. schedule' \in Schedule
    BY ONLY <1>1, <2>1, ScheduleBecomes
  <2> QED BY <1>8, <2>3 DEF DeleteSchedule
<1>9. CASE Stop
  <2>1. jobs["loop"].kind = "reminders" /\ jobs["loop"].sent => jobs["loop"].to \in Recipients
    <3>1. jobs["loop"].sent => Underway("loop")
      BY SendersAreFinite DEF SenderInv, Underway
    <3> QED BY <3>1, OnlyTheLoopReminds, SendersAreFinite
  <2>2. mailed' \in Mailed
    BY <1>9, <2>1, StopTold
  <2>3. jobs' \in [Senders -> Job]
    BY <1>9, NoJobIs DEF Stop
  <2> QED BY <1>9, <2>2, <2>3 DEF Stop
<1>10. CASE Start
  BY <1>10 DEF Start
<1>11. ASSUME NEW w \in Requests, TriggerSchedule(w) \/ QuickSend(w)
       PROVE  BroadcastTypeOK'
  <2>1. w \in Senders
    BY SendersAreFinite
  <2>2. \E kind \in {"schedule", "quick"}, to \in Recipients \cup {"nobody"}, todo \in SUBSET Recipients :
          Ask(w, kind, to, todo)
    BY <1>11 DEF TriggerSchedule, QuickSend
  <2>3. jobs' \in [Senders -> Job]
    BY <2>1, <2>2, AskIs DEF Steps
  <2> QED BY <2>2, <2>3 DEF Ask
<1>12. ASSUME NEW w \in Senders, HangUp(w)
       PROVE  BroadcastTypeOK'
  <2>1. jobs' \in [Senders -> Job]
    BY <1>12, HangUpIs DEF Steps
  <2> QED BY <1>12, <2>1 DEF HangUp
<1>13. ASSUME NEW w \in Senders, NextRecipient(w)
       PROVE  BroadcastTypeOK'
  <2>1. jobs' \in [Senders -> Job]
    BY <1>13, NextRecipientIs DEF Steps
  <2> QED BY <1>13, <2>1 DEF NextRecipient
<1>14. ASSUME NEW w \in Senders, GetClient(w)
       PROVE  BroadcastTypeOK'
  <2>1. jobs' \in [Senders -> Job]
    BY <1>14, GetClientIs DEF Steps
  <2> QED BY <1>14, <2>1 DEF GetClient
<1>15. ASSUME NEW w \in Senders, StoreClient(w)
       PROVE  BroadcastTypeOK'
  <2>1. jobs' \in [Senders -> Job] /\ cached' \in Settings
    BY <1>15, StoreClientIs DEF Steps, SenderInv, StoreClient
  <2> QED BY <1>15, <2>1 DEF StoreClient
<1>16. ASSUME NEW w \in Senders, EnsureDailyLimit(w)
       PROVE  BroadcastTypeOK'
  <2>1. jobs' \in [Senders -> Job]
    BY <1>16, EnsureDailyLimitIs DEF Steps
  <2> QED BY <1>16, <2>1 DEF EnsureDailyLimit
<1>17. ASSUME NEW w \in Senders, SendMessage(w)
       PROVE  BroadcastTypeOK'
  <2>1. jobs' \in [Senders -> Job]
    BY <1>17, SendMessageIs DEF Steps
  <2> QED BY <1>17, <2>1, SendTypes DEF SendMessage
<1>18. ASSUME NEW w \in Senders, CreateLog(w)
       PROVE  BroadcastTypeOK'
  <2>1. jobs' \in [Senders -> Job]
    BY <1>18, CreateLogIs DEF Steps
  <2> QED BY <1>18, <2>1, CreateLogTypes, CreateLogTold DEF CreateLog
<1>19. ASSUME NEW w \in Senders, EndRun(w)
       PROVE  BroadcastTypeOK'
  <2>1. jobs' \in [Senders -> Job]
    BY <1>19, EndRunIs DEF Steps
  <2>2. server' \in {"starting", "running", "down"}
    BY <1>19 DEF EndRun
  <2>3. mailed' \in Mailed /\ schedule' \in Schedule
    BY <1>19, EndRunTold
  <2> QED BY <1>19, <2>1, <2>2, <2>3 DEF EndRun
<1> QED BY <1>2, <1>3, <1>4, <1>5, <1>6, <1>7, <1>8, <1>9, <1>10, <1>11, <1>12, <1>13, <1>14,
           <1>15, <1>16, <1>17, <1>18, <1>19, SendersAreFinite DEF BroadcastNext
-----------------------------------------------------------------------------
(* The senders. *)

LEMMA LoopProceeds ==
  ASSUME BroadcastTypeOK, RunCronJobs \/ EndJob
  PROVE  \E m \in Minutes :
           /\ RunCronJobs => m = tick
           /\ EndJob => m = jobs["loop"].at
           /\ Steps("loop")
           /\ LET y == jobs'["loop"] IN
              \/ y = NoJob /\ server' = "running"
              \/ /\ server' = server
                 /\ y.kind \in {"reminders", "digest", "schedule"} /\ y.at = m /\ y.step = "next"
                 /\ y.sent = FALSE /\ y.hungUp = FALSE
                 /\ y.kind = "schedule" => schedule.is = "active" /\ schedule.lastRun # m
<1>1. Len(Kinds) = 3 /\ Kinds[1] = "reminders" /\ Kinds[2] = "digest" /\ Kinds[3] = "schedule"
  BY DEF Kinds
<1>2. CASE RunCronJobs
  <2>1. tick \in Minutes
    BY <1>2 DEF RunCronJobs, BroadcastTypeOK
  <2>2. \E n \in 0..3 : Proceed(n, tick)
    BY <1>1, <1>2 DEF RunCronJobs
  <2>3. EndJob => FALSE
    BY <1>2, NoJobIs DEF RunCronJobs, EndJob
  <2> QED BY <2>1, <2>2, <2>3, ProceedIs
<1>3. CASE EndJob
  <2>1. jobs["loop"].at \in Minutes
    BY SendersAreFinite DEF Job, BroadcastTypeOK
  <2>2. \E n \in 1..3 : Kinds[n] = jobs["loop"].kind
    BY <1>1, <1>3 DEF EndJob
  <2>3. Nth(jobs["loop"].kind) \in 0..3
    BY <1>1, <2>2 DEF Nth
  <2>4. \E n \in 0..3 : Proceed(n, jobs["loop"].at)
    BY <1>3, <2>3 DEF EndJob
  <2>5. RunCronJobs => FALSE
    BY <1>3, NoJobIs DEF RunCronJobs, EndJob
  <2> QED BY <2>1, <2>4, <2>5, ProceedIs
<1> QED BY <1>2, <1>3

LEMMA SenderSteps ==
  ASSUME SenderInv, NEW w \in Senders, Steps(w), server' # "down",
         w # "loop" => jobs'[w].kind \notin {"reminders", "digest"},
         w = "loop" =>
           /\ ~jobs'[w].hungUp
           /\ jobs'[w].kind = "none" <=> jobs'[w] = NoJob
           /\ jobs'[w].kind \in {"none", "reminders", "digest", "schedule"}
           /\ jobs'[w].step \in {"client", "loading", "count", "send", "log"} => jobs'[w].to \in jobs'[w].todo,
         jobs'[w].sent => jobs'[w].step = "log",
         jobs'[w].step = "loading" => jobs'[w].client # NoClient
  PROVE  SenderInv'
<1>1. \A v \in Requests : jobs'[v].kind \notin {"reminders", "digest"}
  BY SendersAssumption, SendersAreFinite DEF SenderInv, Steps
<1>2. /\ ~jobs'["loop"].hungUp
      /\ jobs'["loop"].kind = "none" <=> jobs'["loop"] = NoJob
      /\ jobs'["loop"].kind \in {"none", "reminders", "digest", "schedule"}
      /\ jobs'["loop"].step \in {"client", "loading", "count", "send", "log"}
           => jobs'["loop"].to \in jobs'["loop"].todo
  <2>1. CASE w = "loop"
    BY <2>1
  <2>2. CASE w # "loop"
    <3>1. jobs'["loop"] = jobs["loop"]
      BY <2>2, SendersAreFinite DEF Steps
    <3> QED BY <3>1 DEF SenderInv, Underway
  <2> QED BY <2>1, <2>2
<1>3. \A v \in Senders : (jobs'[v].sent => jobs'[v].step = "log")
                         /\ (jobs'[v].step = "loading" => jobs'[v].client # NoClient)
  BY DEF SenderInv, Steps
<1> QED BY <1>1, <1>2, <1>3 DEF SenderInv, Underway

LEMMA AtWorkIs ==
  ASSUME SenderInv, NEW w \in Senders, jobs[w].step # "idle"
  PROVE  /\ server # "down"
         /\ w = "loop" => jobs[w].kind \in {"reminders", "digest", "schedule"} /\ ~jobs[w].hungUp
         /\ w # "loop" => jobs[w].kind \notin {"reminders", "digest"}
  BY NoJobIs, SendersAreFinite DEF SenderInv, Senders

LEMMA ServedKeeps ==
  ASSUME BroadcastTypeOK, SenderInv, NEW w \in Senders, NEW client, Steps(w), server' = server,
         jobs[w].step \in {"client", "loading"}, Served(jobs[w], jobs'[w], client)
  PROVE  SenderInv'
<1>1. /\ server # "down"
      /\ w = "loop" => jobs[w].kind \in {"reminders", "digest", "schedule"} /\ ~jobs[w].hungUp
      /\ w # "loop" => jobs[w].kind \notin {"reminders", "digest"}
  BY AtWorkIs
<1>2. ~jobs[w].sent
  BY DEF SenderInv
<1>3. w = "loop" => jobs[w].to \in jobs[w].todo /\ jobs[w].to # "nobody"
  BY SendersAssumption, OnlyTheLoopReminds DEF SenderInv, Underway
<1>4. CASE /\ jobs'[w].step = "count" /\ SameRun(jobs[w], jobs'[w]) /\ jobs'[w].sent = jobs[w].sent
           /\ jobs'[w].to = jobs[w].to /\ jobs'[w].todo = jobs[w].todo
  BY <1>1, <1>2, <1>3, <1>4, SenderSteps, NoJobIs DEF SameRun
<1>5. CASE /\ jobs'[w].step = "next" /\ SameRun(jobs[w], jobs'[w]) /\ jobs'[w].sent = jobs[w].sent
           /\ jobs[w].to = "nobody"
  BY <1>1, <1>2, <1>3, <1>5, SenderSteps, NoJobIs DEF SameRun
<1>6. CASE jobs'[w] = NoJob /\ jobs[w].to = "nobody"
  BY <1>1, <1>3, <1>6, SenderSteps, NoJobIs
<1> QED BY <1>4, <1>5, <1>6 DEF Served

LEMMA SendersKept ==
  ASSUME BroadcastTypeOK, SenderInv, BroadcastNext
  PROVE  SenderInv'
<1>1. CASE PassMinute
  BY <1>1 DEF PassMinute, SenderInv, Underway
<1>2. CASE RunCronJobs \/ EndJob
  <2>1. server # "down"
    BY <1>2, NoJobIs, SendersAreFinite DEF RunCronJobs, EndJob, SenderInv
  <2>2. PICK m \in Minutes :
           /\ Steps("loop")
           /\ LET y == jobs'["loop"] IN
              \/ y = NoJob /\ server' = "running"
              \/ /\ server' = server
                 /\ y.kind \in {"reminders", "digest", "schedule"} /\ y.at = m /\ y.step = "next"
                 /\ y.sent = FALSE /\ y.hungUp = FALSE
    BY <1>2, LoopProceeds
  <2> QED BY <2>1, <2>2, SenderSteps, NoJobIs, SendersAreFinite
<1>3. CASE SaveSettings
  BY <1>3 DEF SaveSettings, SenderInv, Underway
<1>4. CASE InvalidateClient
  BY <1>4 DEF InvalidateClient, SenderInv, Underway
<1>5. CASE ToggleSchedule
  BY <1>5 DEF ToggleSchedule, SenderInv, Underway
<1>6. CASE DeleteSchedule
  BY <1>6 DEF DeleteSchedule, SenderInv, Underway
<1>7. CASE Stop
  <2>1. \A v \in Senders : jobs'[v] = NoJob
    BY <1>7 DEF Stop
  <2>2. tick' = Never
    BY <1>7 DEF Stop
  <2> QED BY <2>1, <2>2, NoJobIs, SendersAreFinite DEF SenderInv, Underway
<1>8. CASE Start
  BY <1>8 DEF Start, SenderInv, Underway
<1>9. ASSUME NEW w \in Requests, TriggerSchedule(w) \/ QuickSend(w)
      PROVE  SenderInv'
  <2>1. w \in Senders /\ w # "loop"
    BY SendersAreFinite, SendersAssumption
  <2>2. \E kind \in {"schedule", "quick"}, to \in Recipients \cup {"nobody"}, todo \in SUBSET Recipients :
          Ask(w, kind, to, todo)
    BY <1>9 DEF TriggerSchedule, QuickSend
  <2>3. server' = server
    BY <2>2 DEF Ask
  <2>4. /\ Steps(w) /\ jobs'[w].kind \in {"schedule", "quick"} /\ jobs'[w].step = "client"
        /\ jobs'[w].sent = FALSE /\ server # "down"
    BY <2>1, <2>2, AskIs
  <2> QED BY <2>1, <2>3, <2>4, SenderSteps
<1>10. ASSUME NEW w \in Requests, HangUp(w)
       PROVE  SenderInv'
  <2>1. w \in Senders /\ w # "loop"
    BY SendersAreFinite, SendersAssumption
  <2>2. server' = server
    BY <1>10 DEF HangUp
  <2>3. jobs[w].kind \notin {"reminders", "digest"} /\ server # "down"
    BY <1>10, <2>1, NoJobIs DEF SenderInv, HangUp
  <2>4. (jobs[w].sent => jobs[w].step = "log") /\ (jobs[w].step = "loading" => jobs[w].client # NoClient)
    BY <2>1 DEF SenderInv
  <2> QED BY <1>10, <2>1, <2>2, <2>3, <2>4, HangUpIs, SenderSteps
<1>11. ASSUME NEW w \in Senders, NextRecipient(w)
       PROVE  SenderInv'
  <2>1. server' = server /\ jobs[w].step = "next"
    BY <1>11 DEF NextRecipient
  <2>2. ~jobs[w].sent
    BY <2>1 DEF SenderInv
  <2>3. PICK j, y : j = jobs[w] /\ y = jobs'[w]
    OBVIOUS
  <2>4. /\ Steps(w) /\ SameRun(j, y) /\ y.sent = j.sent /\ y.step \in {"next", "client"}
        /\ y.step = "client" => y.to \in y.todo
    BY <1>11, <2>3, NextRecipientIs
  <2>5. /\ server' # "down" /\ (w # "loop" => j.kind \notin {"reminders", "digest"})
        /\ w = "loop" => j.kind \in {"reminders", "digest", "schedule"} /\ ~j.hungUp
    BY <2>1, <2>3, AtWorkIs
  <2>6. y.kind = j.kind /\ y.hungUp = j.hungUp
    BY <2>4 DEF SameRun
  <2>7. ~y.sent /\ (w # "loop" => y.kind \notin {"reminders", "digest"})
    BY <2>2, <2>3, <2>4, <2>5, <2>6
  <2>8. w = "loop" => /\ ~y.hungUp /\ (y.kind = "none" <=> y = NoJob)
                      /\ y.kind \in {"none", "reminders", "digest", "schedule"}
    BY <2>5, <2>6, NoJobIs
  <2> QED BY ONLY SenderInv, w \in Senders, <2>3, <2>4, <2>5, <2>7, <2>8, SenderSteps
<1>12. ASSUME NEW w \in Senders, GetClient(w)
       PROVE  SenderInv'
  <2>1. server' = server /\ jobs[w].step = "client"
    BY <1>12 DEF GetClient
  <2>2. ~jobs[w].sent
    BY <2>1 DEF SenderInv
  <2>3. settings # NoClient
    BY SettingsAre DEF BroadcastTypeOK
  <2>4. w = "loop" => jobs[w].to \in jobs[w].todo
    BY <2>1 DEF SenderInv, Underway
  <2>5. Steps(w)
    BY <1>12, GetClientIs
  <2>6. CASE Served(jobs[w], jobs'[w], cached)
    BY <2>1, <2>5, <2>6, ServedKeeps
  <2>7. CASE /\ SameRun(jobs[w], jobs'[w]) /\ jobs'[w].to = jobs[w].to /\ jobs'[w].todo = jobs[w].todo
             /\ \/ jobs'[w].step = "loading" /\ jobs'[w].client = settings /\ jobs'[w].sent = jobs[w].sent
                \/ jobs'[w].step = "log" /\ jobs'[w].sent = FALSE
    BY <2>1, <2>2, <2>3, <2>4, <2>5, <2>7, AtWorkIs, SenderSteps, NoJobIs DEF SameRun
  <2> QED BY <1>12, <2>6, <2>7, GetClientIs
<1>13. ASSUME NEW w \in Senders, StoreClient(w)
       PROVE  SenderInv'
  <2>1. server' = server /\ jobs[w].step = "loading"
    BY <1>13 DEF StoreClient
  <2>2. jobs[w].client # NoClient
    BY <2>1 DEF SenderInv
  <2> QED BY <1>13, <2>1, <2>2, StoreClientIs, ServedKeeps
<1>14. ASSUME NEW w \in Senders, EnsureDailyLimit(w)
       PROVE  SenderInv'
  <2>1. server' = server /\ jobs[w].step = "count"
    BY <1>14 DEF EnsureDailyLimit
  <2>2. w = "loop" => jobs[w].to \in jobs[w].todo
    BY <2>1 DEF SenderInv, Underway
  <2>3. jobs'[w].step \in {"send", "log"}
    BY <1>14, EnsureDailyLimitIs
  <2>4. /\ Steps(w) /\ SameRun(jobs[w], jobs'[w]) /\ jobs'[w].sent = FALSE
        /\ jobs'[w].to = jobs[w].to /\ jobs'[w].todo = jobs[w].todo
    BY <1>14, EnsureDailyLimitIs
  <2> QED BY <2>1, <2>2, <2>3, <2>4, AtWorkIs, SenderSteps, NoJobIs DEF SameRun
<1>15. ASSUME NEW w \in Senders, SendMessage(w)
       PROVE  SenderInv'
  <2>1. server' = server /\ jobs[w].step = "send"
    BY <1>15 DEF SendMessage
  <2>2. w = "loop" => jobs[w].to \in jobs[w].todo
    BY <2>1 DEF SenderInv, Underway
  <2>3. /\ Steps(w) /\ SameRun(jobs[w], jobs'[w]) /\ jobs'[w].step = "log"
        /\ jobs'[w].to = jobs[w].to /\ jobs'[w].todo = jobs[w].todo
    BY <1>15, SendMessageIs
  <2> QED BY <2>1, <2>2, <2>3, AtWorkIs, SenderSteps, NoJobIs DEF SameRun
<1>16. ASSUME NEW w \in Senders, CreateLog(w)
       PROVE  SenderInv'
  <2>1. server' = server /\ jobs[w].step = "log"
    BY <1>16 DEF CreateLog
  <2>2. jobs[w].kind = "quick" => w # "loop"
    BY <2>1, AtWorkIs
  <2>3. Steps(w)
    BY <1>16, CreateLogIs
  <2>4. CASE jobs[w].kind = "quick" /\ jobs'[w] = NoJob
    BY <2>1, <2>2, <2>3, <2>4, AtWorkIs, SenderSteps, NoJobIs
  <2>5. CASE SameRun(jobs[w], jobs'[w]) /\ jobs'[w].step = "next" /\ jobs'[w].sent = FALSE
    BY <2>1, <2>3, <2>5, AtWorkIs, SenderSteps, NoJobIs DEF SameRun
  <2> QED BY <1>16, <2>4, <2>5, CreateLogIs
<1>17. ASSUME NEW w \in Senders, EndRun(w)
       PROVE  SenderInv'
  <2>1. jobs[w].step = "next"
    BY <1>17 DEF EndRun
  <2>2. server' # "down"
    BY <1>17, <2>1, AtWorkIs DEF EndRun
  <2> QED BY <1>17, <2>2, EndRunIs, SenderSteps, NoJobIs
<1> QED BY <1>1, <1>2, <1>3, <1>4, <1>5, <1>6, <1>7, <1>8, <1>9, <1>10, <1>11, <1>12, <1>13, <1>14,
           <1>15, <1>16, <1>17 DEF BroadcastNext
-----------------------------------------------------------------------------
(* The daily limit. *)

LEMMA WithinIs ==
  ASSUME NEW t \in Int, NEW u \in Int, NEW n \in Int, NEW t2 \in Int, NEW u2 \in Int, NEW n2 \in Int,
         Within(t, u, n), t2 + n2 - u2 <= t + n - u
  PROVE  Within(t2, u2, n2)
<1> SUFFICES ASSUME \A s \in Settings : s.limit > 0
             PROVE  \E s \in Settings : t2 + n2 <= s.limit + Cardinality(Requests) + u2
  BY DEF Within
<1>1. PICK s \in Settings : t + n <= s.limit + Cardinality(Requests) + u
  BY DEF Within
<1>2. s.limit \in Nat /\ Cardinality(Requests) \in Nat
  BY SettingsAre, SendersAreFinite
<1>3. t2 + n2 <= s.limit + Cardinality(Requests) + u2
  BY <1>1, <1>2
<1> QED BY <1>3

LEMMA SetsAre ==
    /\ LetThrough \subseteq Senders /\ IsFiniteSet(LetThrough) /\ Cardinality(LetThrough) \in Nat
    /\ Unrecorded \subseteq Senders /\ IsFiniteSet(Unrecorded) /\ Cardinality(Unrecorded) \in Nat
<1>1. LetThrough \subseteq Senders /\ Unrecorded \subseteq Senders
  BY DEF LetThrough, Unrecorded
<1> QED BY <1>1, SendersAreFinite, FS_Subset, FS_CardinalityType

LEMMA SetsNext ==
  ASSUME NEW w \in Senders, Steps(w)
  PROVE  /\ LetThrough' = (LetThrough \ {w}) \cup (IF jobs'[w].step = "send" THEN {w} ELSE {})
         /\ Unrecorded' = (Unrecorded \ {w}) \cup (IF jobs'[w].step = "log" /\ jobs'[w].sent THEN {w} ELSE {})
<1>1. \A v \in Senders : v \in LetThrough' <=> jobs'[v].step = "send"
  BY DEF LetThrough
<1>2. \A v \in Senders : v \in Unrecorded' <=> (jobs'[v].step = "log" /\ jobs'[v].sent)
  BY DEF Unrecorded
<1>3. LetThrough' \subseteq Senders /\ Unrecorded' \subseteq Senders
  BY DEF LetThrough, Unrecorded
<1>4. \A v \in Senders : v \in LetThrough <=> jobs[v].step = "send"
  BY DEF LetThrough
<1>5. \A v \in Senders : v \in Unrecorded <=> (jobs[v].step = "log" /\ jobs[v].sent)
  BY DEF Unrecorded
<1>6. \A v \in Senders \ {w} : jobs'[v] = jobs[v]
  BY DEF Steps
<1>7. LetThrough \subseteq Senders /\ Unrecorded \subseteq Senders
  BY SetsAre
<1>8. LetThrough' = (LetThrough \ {w}) \cup (IF jobs'[w].step = "send" THEN {w} ELSE {})
  BY ONLY <1>1, <1>3, <1>4, <1>6, <1>7, w \in Senders
<1>9. \A v \in Senders \ {w} : v \in Unrecorded' <=> v \in Unrecorded
  BY <1>2, <1>5, <1>6
<1>10. CASE jobs'[w].step = "log" /\ jobs'[w].sent
  <2>1. w \in Unrecorded'
    BY <1>2, <1>10
  <2> QED BY <1>3, <1>7, <1>8, <1>9, <1>10, <2>1
<1>11. CASE ~(jobs'[w].step = "log" /\ jobs'[w].sent)
  <2>1. w \notin Unrecorded'
    BY <1>2, <1>11
  <2> QED BY <1>3, <1>7, <1>8, <1>9, <1>11, <2>1
<1> QED BY <1>10, <1>11

(* A step that neither lets a message through nor sends nor logs one. *)
LEMMA LimitUntouched ==
  ASSUME BroadcastTypeOK, LimitInv, minute' = minute, logged' = logged,
         mailed'.total = mailed.total, mailed'.unlogged = mailed.unlogged,
         LetThrough' \subseteq LetThrough, Unrecorded' = Unrecorded
  PROVE  LimitInv'
<1>1. Today' = Today /\ Today \in Days
  BY TodayIsADay DEF Today
<1>2. /\ mailed.total \in [Days -> Nat] /\ mailed.unlogged \in [Days -> Nat]
  BY MailedIs DEF BroadcastTypeOK
<1>3. PICK n \in Nat : n = Cardinality(LetThrough)
  BY SetsAre
<1>4. PICK m \in Nat : m = Cardinality(LetThrough') /\ m <= n
  BY <1>3, SetsAre, FS_Subset, FS_CardinalityType
<1>5. Within(mailed.total[Today], mailed.unlogged[Today], n)
  BY <1>3 DEF LimitInv
<1>6. Within(mailed.total[Today], mailed.unlogged[Today], m)
  BY <1>1, <1>2, <1>3, <1>4, <1>5, WithinIs
<1>7. Within(mailed'.total[Today'], mailed'.unlogged[Today'], Cardinality(LetThrough'))
  BY <1>1, <1>4, <1>6
<1>8. /\ mailed'.total[Today'] <= logged'[Today'] + mailed'.unlogged[Today'] + Cardinality(Unrecorded')
      /\ \A d \in Days : Within(mailed'.total[d], mailed'.unlogged[d], 0)
      /\ \A d \in Days : d > Today' => mailed'.total[d] = 0
  BY <1>1 DEF LimitInv
<1> QED BY <1>7, <1>8 DEF LimitInv

LEMMA LimitQuiet ==
  ASSUME BroadcastTypeOK, LimitInv, NEW w \in Senders, Steps(w), minute' = minute, logged' = logged,
         mailed'.total = mailed.total, mailed'.unlogged = mailed.unlogged,
         jobs[w].step # "log" \/ ~jobs[w].sent,
         jobs'[w].step # "send", jobs'[w].step # "log" \/ ~jobs'[w].sent
  PROVE  LimitInv'
<1>1. w \notin Unrecorded
  BY DEF Unrecorded
<1>2. LetThrough' \subseteq LetThrough
  BY SetsNext
<1>3. Unrecorded' = Unrecorded \ {w}
  BY SetsNext
<1> QED BY <1>1, <1>2, <1>3, LimitUntouched

LEMMA LimitPassMinute ==
  ASSUME BroadcastTypeOK, LimitInv, PassMinute
  PROVE  LimitInv'
<1>1. Today \in Days /\ Today' \in Days /\ Today \in Nat /\ Today' \in Nat /\ Today <= Today'
  BY DaysGoOn DEF PassMinute, Today, BroadcastTypeOK
<1>2. /\ mailed' = mailed /\ logged' = logged /\ LetThrough' = LetThrough /\ Unrecorded' = Unrecorded
  BY DEF PassMinute, LetThrough, Unrecorded
<1>3. CASE Today' = Today
  <2>1. mailed'.total[Today'] <= logged'[Today'] + mailed'.unlogged[Today'] + Cardinality(Unrecorded')
    BY <1>2, <1>3 DEF LimitInv
  <2>2. Within(mailed'.total[Today'], mailed'.unlogged[Today'], Cardinality(LetThrough'))
    BY <1>2, <1>3 DEF LimitInv
  <2>3. /\ \A d \in Days : Within(mailed'.total[d], mailed'.unlogged[d], 0)
        /\ \A d \in Days : d > Today' => mailed'.total[d] = 0
    BY <1>2, <1>3 DEF LimitInv
  <2> QED BY <2>1, <2>2, <2>3 DEF LimitInv
<1>4. CASE Today' # Today
  <2>1. mailed.total[Today'] = 0
    BY <1>1, <1>4 DEF LimitInv
  <2>2. logged[Today'] \in Nat /\ mailed.unlogged[Today'] \in Nat /\ Cardinality(Unrecorded) \in Nat
    BY <1>1, MailedIs, SetsAre DEF BroadcastTypeOK
  <2>3. mailed.total[Today'] <= logged[Today'] + mailed.unlogged[Today'] + Cardinality(Unrecorded)
    BY <2>1, <2>2
  <2>4. Cardinality(LetThrough) <= Cardinality(Requests) + 1
    BY SetsAre, SendersAreFinite, FS_Subset
  <2>5. Within(0, mailed.unlogged[Today'], Cardinality(LetThrough))
    <3>1. settings \in Settings
      BY DEF BroadcastTypeOK
    <3>2. settings.limit > 0 =>
            0 + Cardinality(LetThrough) <= settings.limit + Cardinality(Requests) + mailed.unlogged[Today']
      BY <2>2, <2>4, <3>1, SettingsAre, SetsAre, SendersAreFinite
    <3> QED BY <3>1, <3>2 DEF Within
  <2>6. Within(mailed.total[Today'], mailed.unlogged[Today'], Cardinality(LetThrough))
    BY <2>1, <2>5
  <2>7. \A d \in Days : Within(mailed.total[d], mailed.unlogged[d], 0)
    BY DEF LimitInv
  <2>8. \A d \in Days : d > Today' => d > Today
    BY <1>1 DEF Days
  <2>9. \A d \in Days : d > Today' => mailed.total[d] = 0
    BY <2>8 DEF LimitInv
  <2> QED BY <1>2, <2>3, <2>6, <2>7, <2>9 DEF LimitInv
<1> QED BY <1>3, <1>4

(* Between its count and its log a sender is among the others' |Requests|. *)
LEMMA OthersAre ==
  ASSUME NEW w \in Senders, w \notin LetThrough, w \notin Unrecorded
  PROVE  Cardinality(LetThrough) + Cardinality(Unrecorded) <= Cardinality(Requests)
<1>1. LetThrough \cap Unrecorded = {}
  BY DEF LetThrough, Unrecorded
<1>2. /\ IsFiniteSet(LetThrough \cup Unrecorded)
      /\ Cardinality(LetThrough \cup Unrecorded) = Cardinality(LetThrough) + Cardinality(Unrecorded)
  <2>1. Cardinality(LetThrough \cap Unrecorded) = 0
    BY <1>1, FS_EmptySet
  <2>2. /\ IsFiniteSet(LetThrough \cup Unrecorded)
        /\ Cardinality(LetThrough \cup Unrecorded)
             = Cardinality(LetThrough) + Cardinality(Unrecorded) - Cardinality(LetThrough \cap Unrecorded)
    BY SetsAre, FS_Union
  <2>3. Cardinality(LetThrough) \in Nat /\ Cardinality(Unrecorded) \in Nat
    BY SetsAre
  <2> QED BY ONLY <2>1, <2>2, <2>3
<1>3. LetThrough \cup Unrecorded \subseteq Senders \ {w}
  BY SetsAre
<1>4. IsFiniteSet(Senders \ {w}) /\ Cardinality(Senders \ {w}) = Cardinality(Requests)
  <2>1. PICK S : S = Senders
    OBVIOUS
  <2>2. IsFiniteSet(S) /\ w \in S /\ Cardinality(S) = Cardinality(Requests) + 1
    BY <2>1, SendersAreFinite
  <2>3. IsFiniteSet(S \ {w}) /\ Cardinality(S \ {w}) = Cardinality(S) - 1
    BY ONLY <2>2, FS_RemoveElement
  <2>4. Cardinality(S \ {w}) = Cardinality(Requests)
    BY <2>2, <2>3, SendersAreFinite
  <2> QED BY <2>1, <2>3, <2>4
<1> QED BY <1>2, <1>3, <1>4, FS_Subset

LEMMA LimitEnsure ==
  ASSUME BroadcastTypeOK, LimitInv, NEW w \in Senders, EnsureDailyLimit(w)
  PROVE  LimitInv'
<1>1. /\ minute' = minute /\ logged' = logged /\ mailed' = mailed /\ jobs[w].step = "count"
  BY DEF EnsureDailyLimit
<1>2. /\ Steps(w) /\ jobs'[w].sent = FALSE
      /\ jobs'[w].step = IF WithinLimit(jobs[w]) /\ jobs[w].client.on THEN "send" ELSE "log"
  BY EnsureDailyLimitIs
<1>3. w \notin LetThrough /\ w \notin Unrecorded
  BY <1>1 DEF LetThrough, Unrecorded
<1>4. CASE ~(WithinLimit(jobs[w]) /\ jobs[w].client.on)
  <2>1. jobs'[w].step = "log"
    BY <1>2, <1>4
  <2> QED BY <1>1, <1>2, <2>1, LimitQuiet
<1>5. CASE WithinLimit(jobs[w]) /\ jobs[w].client.on
  <2>1. jobs'[w].step = "send"
    BY <1>2, <1>5
  <2>2. LetThrough' = LetThrough \cup {w} /\ Unrecorded' = Unrecorded
    BY <1>2, <1>3, <2>1, SetsNext
  <2>3. Cardinality(LetThrough') = Cardinality(LetThrough) + 1
    BY <1>3, <2>2, SetsAre, FS_AddElement
  <2>4. jobs[w].client \in Settings
    <3>1. jobs[w].client \in Settings \cup {NoClient}
      BY DEF BroadcastTypeOK, Job
    <3> QED BY <1>5, <3>1, SettingsAre
  <2>5. /\ mailed.total[Today] \in Nat /\ mailed.unlogged[Today] \in Nat /\ logged[Today] \in Nat
    BY TodayIsADay, MailedIs DEF BroadcastTypeOK
  <2>6. Within(mailed.total[Today], mailed.unlogged[Today], Cardinality(LetThrough) + 1)
    <3>1. SUFFICES ASSUME \A s \in Settings : s.limit > 0
                   PROVE  mailed.total[Today] + (Cardinality(LetThrough) + 1)
                            <= jobs[w].client.limit + Cardinality(Requests) + mailed.unlogged[Today]
      BY <2>4 DEF Within
    <3>2. logged[Today] < jobs[w].client.limit /\ jobs[w].client.limit \in Nat
      BY <1>5, <2>4, <3>1, SettingsAre DEF WithinLimit
    <3>3. mailed.total[Today] <= logged[Today] + mailed.unlogged[Today] + Cardinality(Unrecorded)
      BY DEF LimitInv
    <3> QED BY <1>3, <2>5, <3>2, <3>3, OthersAre, SetsAre, SendersAreFinite
  <2>7. Today' = Today
    BY <1>1 DEF Today
  <2> QED BY <1>1, <2>2, <2>3, <2>6, <2>7 DEF LimitInv
<1> QED BY <1>4, <1>5

LEMMA LimitSend ==
  ASSUME BroadcastTypeOK, SenderInv, LimitInv, NEW w \in Senders, SendMessage(w)
  PROVE  LimitInv'
<1>1. /\ minute' = minute /\ logged' = logged /\ jobs[w].step = "send"
  BY DEF SendMessage
<1>2. /\ Steps(w) /\ jobs'[w].step = "log"
      /\ \/ jobs'[w].sent = TRUE /\ mailed' = Accepted(w)
         \/ jobs'[w].sent = FALSE /\ mailed' = mailed
         \/ jobs'[w].sent = FALSE /\ mailed' = Unlogged(w, Accepted(w))
  BY SendMessageIs
<1>3. w \in LetThrough /\ w \notin Unrecorded
  BY <1>1 DEF LetThrough, Unrecorded
<1>4. /\ LetThrough' = LetThrough \ {w}
      /\ jobs'[w].sent = TRUE => Unrecorded' = Unrecorded \cup {w}
      /\ jobs'[w].sent = FALSE => Unrecorded' = Unrecorded
  BY <1>2, <1>3, SetsNext
<1>5. CASE jobs'[w].sent = FALSE /\ mailed' = mailed
  BY <1>1, <1>4, <1>5, LimitUntouched
<1>6. CASE \/ (jobs'[w].sent = TRUE /\ mailed' = Accepted(w))
           \/ (jobs'[w].sent = FALSE /\ mailed' = Unlogged(w, Accepted(w)))
  <2>1. jobs[w].kind = "reminders" \/ w = "loop" => jobs[w].to \in Recipients
    BY <1>1, OnlyTheLoopReminds DEF Underway
  <2>2. PICK t : t = [mailed.total EXCEPT ![Today] = @ + 1]
    OBVIOUS
  <2>3. PICK u : u = [mailed.unlogged EXCEPT ![Today] = @ + 1]
    OBVIOUS
  <2>4. Accepted(w) \in Mailed /\ Accepted(w).total = t /\ Accepted(w).unlogged = mailed.unlogged
    BY <2>1, <2>2, AcceptedIs
  <2>5. Unlogged(w, Accepted(w)).total = t /\ Unlogged(w, Accepted(w)).unlogged = u
    BY <2>1, <2>3, <2>4, UnloggedIs
  <2>6. /\ mailed.total \in [Days -> Nat] /\ mailed.unlogged \in [Days -> Nat] /\ logged \in [Days -> Nat]
    BY MailedIs DEF BroadcastTypeOK
  <2>7. PICK d : d = Today /\ d = Today' /\ d \in Days
    BY <1>1, TodayIsADay DEF Today
  <2>8. /\ t[d] = mailed.total[d] + 1 /\ u[d] = mailed.unlogged[d] + 1
        /\ \A e \in Days : e # d => t[e] = mailed.total[e] /\ u[e] = mailed.unlogged[e]
    BY <2>2, <2>3, <2>6, <2>7
  <2>9. Cardinality(LetThrough') = Cardinality(LetThrough) - 1
    BY <1>3, <1>4, SetsAre, FS_RemoveElement
  <2>10. jobs'[w].sent = TRUE => Cardinality(Unrecorded') = Cardinality(Unrecorded) + 1
    BY <1>3, <1>4, SetsAre, FS_AddElement
  <2>11. PICK n \in Nat, m \in Nat : n = Cardinality(LetThrough) /\ m = Cardinality(Unrecorded)
    BY SetsAre
  <2>12. /\ mailed.total[d] <= logged[d] + mailed.unlogged[d] + m
         /\ Within(mailed.total[d], mailed.unlogged[d], n)
         /\ \A e \in Days : Within(mailed.total[e], mailed.unlogged[e], 0)
         /\ \A e \in Days : e > d => mailed.total[e] = 0
    BY <2>7, <2>11 DEF LimitInv
  <2>13. mailed.total[d] \in Nat /\ mailed.unlogged[d] \in Nat /\ logged[d] \in Nat /\ n - 1 \in Nat
    <3>1. Cardinality(LetThrough') \in Nat
      BY <1>4, SetsAre, FS_Subset, FS_CardinalityType
    <3> QED BY <2>6, <2>7, <2>9, <2>11, <3>1
  <2>14. /\ Within(t[d], mailed.unlogged[d], n - 1) /\ Within(t[d], mailed.unlogged[d], 0)
    BY <2>8, <2>12, <2>13, WithinIs
  <2>15. Within(t[d], u[d], n - 1) /\ Within(t[d], u[d], 0)
    BY <2>8, <2>13, <2>14, WithinIs
  <2>16. CASE jobs'[w].sent = TRUE /\ mailed' = Accepted(w)
    <3>1. mailed'.total = t /\ mailed'.unlogged = mailed.unlogged
      BY <2>4, <2>16
    <3>2. Cardinality(Unrecorded') = m + 1
      BY <2>10, <2>11, <2>16
    <3>3. mailed'.total[d] <= logged'[d] + mailed'.unlogged[d] + Cardinality(Unrecorded')
      BY <1>1, <2>8, <2>12, <2>13, <3>1, <3>2
    <3>4. Within(mailed'.total[d], mailed'.unlogged[d], Cardinality(LetThrough'))
      BY <2>9, <2>11, <2>14, <3>1
    <3>5. \A e \in Days : Within(mailed'.total[e], mailed'.unlogged[e], 0)
      BY <2>8, <2>12, <2>14, <3>1
    <3>6. \A e \in Days : e > d => mailed'.total[e] = 0
      BY <2>7, <2>8, <2>12, <3>1 DEF Days
    <3> QED BY <2>7, <3>3, <3>4, <3>5, <3>6 DEF LimitInv
  <2>17. CASE jobs'[w].sent = FALSE /\ mailed' = Unlogged(w, Accepted(w))
    <3>1. mailed'.total = t /\ mailed'.unlogged = u
      BY <2>5, <2>17
    <3>2. Cardinality(Unrecorded') = m
      BY <1>4, <2>11, <2>17
    <3>3. mailed'.total[d] <= logged'[d] + mailed'.unlogged[d] + Cardinality(Unrecorded')
      BY <1>1, <2>8, <2>12, <2>13, <3>1, <3>2
    <3>4. Within(mailed'.total[d], mailed'.unlogged[d], Cardinality(LetThrough'))
      BY <2>9, <2>11, <2>15, <3>1
    <3>5. \A e \in Days : Within(mailed'.total[e], mailed'.unlogged[e], 0)
      BY <2>8, <2>12, <2>15, <3>1
    <3>6. \A e \in Days : e > d => mailed'.total[e] = 0
      BY <2>7, <2>8, <2>12, <3>1 DEF Days
    <3> QED BY <2>7, <3>3, <3>4, <3>5, <3>6 DEF LimitInv
  <2> QED BY <1>6, <2>16, <2>17, Zenon
<1> QED BY <1>2, <1>5, <1>6, Zenon

LEMMA LimitCreateLog ==
  ASSUME BroadcastTypeOK, SenderInv, LimitInv, NEW w \in Senders, CreateLog(w)
  PROVE  LimitInv'
<1>1. /\ minute' = minute /\ jobs[w].step = "log"
  BY DEF CreateLog
<1>2. /\ Steps(w) /\ jobs'[w].step # "log" /\ jobs'[w].step # "send"
  BY CreateLogIs, NoJobIs
<1>3. w \notin LetThrough /\ (w \in Unrecorded <=> jobs[w].sent)
  BY <1>1 DEF LetThrough, Unrecorded
<1>4. LetThrough' = LetThrough /\ Unrecorded' = Unrecorded \ {w}
  BY <1>2, <1>3, SetsNext
<1>5. CASE ~jobs[w].sent
  <2>1. logged' = logged /\ mailed' = mailed
    BY <1>5, CreateLogTold
  <2> QED BY <1>1, <1>3, <1>4, <1>5, <2>1, LimitUntouched
<1>6. CASE jobs[w].sent
  <2>1. Cardinality(Unrecorded') = Cardinality(Unrecorded) - 1
    BY <1>3, <1>4, <1>6, SetsAre, FS_RemoveElement
  <2>2. jobs[w].kind = "reminders" => jobs[w].to \in Recipients
    BY <1>1, OnlyTheLoopReminds DEF Underway
  <2>3. PICK u : u = [mailed.unlogged EXCEPT ![Today] = @ + 1]
    OBVIOUS
  <2>4. PICK l : l = [logged EXCEPT ![Today] = @ + 1]
    OBVIOUS
  <2>5. Unlogged(w, mailed).total = mailed.total /\ Unlogged(w, mailed).unlogged = u
    BY <2>2, <2>3, UnloggedIs DEF BroadcastTypeOK
  <2>6. /\ mailed.total \in [Days -> Nat] /\ mailed.unlogged \in [Days -> Nat] /\ logged \in [Days -> Nat]
    BY MailedIs DEF BroadcastTypeOK
  <2>7. PICK d : d = Today /\ d = Today' /\ d \in Days
    BY <1>1, TodayIsADay DEF Today
  <2>8. /\ l[d] = logged[d] + 1 /\ u[d] = mailed.unlogged[d] + 1
        /\ \A e \in Days : e # d => u[e] = mailed.unlogged[e]
    BY <2>3, <2>4, <2>6, <2>7
  <2>9. PICK n \in Nat, m \in Nat : n = Cardinality(LetThrough) /\ m = Cardinality(Unrecorded)
    BY SetsAre
  <2>10. /\ mailed.total[d] <= logged[d] + mailed.unlogged[d] + m
         /\ Within(mailed.total[d], mailed.unlogged[d], n)
         /\ \A e \in Days : Within(mailed.total[e], mailed.unlogged[e], 0)
         /\ \A e \in Days : e > d => mailed.total[e] = 0
    BY <2>7, <2>9 DEF LimitInv
  <2>11. mailed.total[d] \in Nat /\ mailed.unlogged[d] \in Nat /\ logged[d] \in Nat
    BY <2>6, <2>7
  <2>12. Within(mailed.total[d], u[d], n) /\ Within(mailed.total[d], u[d], 0)
    BY <2>7, <2>8, <2>10, <2>11, WithinIs
  <2>13. Cardinality(LetThrough') = n /\ Cardinality(Unrecorded') = m - 1
    BY <1>4, <2>1, <2>9
  <2>14. CASE mailed' = mailed /\ logged' = l
    <3>1. mailed'.total[d] <= logged'[d] + mailed'.unlogged[d] + Cardinality(Unrecorded')
      BY <2>8, <2>10, <2>11, <2>13, <2>14
    <3> QED BY <2>7, <2>10, <2>13, <2>14, <3>1 DEF LimitInv
  <2>15. CASE mailed' = Unlogged(w, mailed) /\ logged' = logged
    <3>1. mailed'.total = mailed.total /\ mailed'.unlogged = u
      BY <2>5, <2>15
    <3>2. mailed'.total[d] <= logged'[d] + mailed'.unlogged[d] + Cardinality(Unrecorded')
      BY <2>8, <2>10, <2>11, <2>13, <2>15, <3>1
    <3>3. Within(mailed'.total[d], mailed'.unlogged[d], Cardinality(LetThrough'))
      BY <2>12, <2>13, <3>1
    <3>4. \A e \in Days : Within(mailed'.total[e], mailed'.unlogged[e], 0)
      BY <2>8, <2>10, <2>12, <3>1
    <3>5. \A e \in Days : e > d => mailed'.total[e] = 0
      BY <2>10, <3>1
    <3> QED BY <2>7, <3>2, <3>3, <3>4, <3>5 DEF LimitInv
  <2> QED BY <1>6, <2>4, <2>14, <2>15, CreateLogTold
<1> QED BY <1>5, <1>6

LEMMA LimitStop ==
  ASSUME BroadcastTypeOK, SenderInv, LimitInv, Stop
  PROVE  LimitInv'
<1>1. jobs["loop"].kind = "reminders" /\ jobs["loop"].sent => jobs["loop"].to \in Recipients
  <2>1. jobs["loop"].sent => Underway("loop")
    BY SendersAreFinite DEF SenderInv, Underway
  <2> QED BY <2>1, OnlyTheLoopReminds, SendersAreFinite
<1>2. \A v \in Senders : jobs'[v] = NoJob
  BY DEF Stop
<1>3. LetThrough' = {} /\ Unrecorded' = {}
  BY <1>2, NoJobIs DEF LetThrough, Unrecorded
<1>4. Cardinality(LetThrough') = 0 /\ Cardinality(Unrecorded') = 0
  BY <1>3, FS_EmptySet
<1>5. PICK n \in Nat, m \in Nat : n = Cardinality(LetThrough) /\ m = Cardinality(Unrecorded)
  BY SetsAre
<1>6. PICK u : u = [mailed.unlogged EXCEPT ![Today] = @ + m]
  OBVIOUS
<1>7. mailed'.total = mailed.total /\ mailed'.unlogged = u
  BY <1>1, <1>5, <1>6, StopTold
<1>8. PICK d : d = Today /\ d = Today' /\ d \in Days
  BY TodayIsADay DEF Today, Stop
<1>9. /\ mailed.total \in [Days -> Nat] /\ mailed.unlogged \in [Days -> Nat] /\ logged \in [Days -> Nat]
  BY MailedIs DEF BroadcastTypeOK
<1>10. /\ u[d] = mailed.unlogged[d] + m
       /\ \A e \in Days : e # d => u[e] = mailed.unlogged[e]
  BY <1>6, <1>8, <1>9
<1>11. /\ mailed.total[d] <= logged[d] + mailed.unlogged[d] + m
       /\ Within(mailed.total[d], mailed.unlogged[d], n)
       /\ \A e \in Days : Within(mailed.total[e], mailed.unlogged[e], 0)
       /\ \A e \in Days : e > d => mailed.total[e] = 0
  BY <1>5, <1>8 DEF LimitInv
<1>12. mailed.total[d] \in Nat /\ mailed.unlogged[d] \in Nat /\ logged[d] \in Nat
  BY <1>8, <1>9
<1>13. Within(mailed.total[d], u[d], 0)
  BY <1>8, <1>10, <1>11, <1>12, WithinIs
<1>14. logged' = logged
  BY DEF Stop
<1>15. mailed'.total[d] <= logged'[d] + mailed'.unlogged[d] + Cardinality(Unrecorded')
  BY <1>4, <1>7, <1>10, <1>11, <1>12, <1>14
<1>16. Within(mailed'.total[d], mailed'.unlogged[d], Cardinality(LetThrough'))
  BY <1>4, <1>7, <1>13
<1>17. \A e \in Days : Within(mailed'.total[e], mailed'.unlogged[e], 0)
  BY <1>7, <1>10, <1>11, <1>13
<1>18. \A e \in Days : e > d => mailed'.total[e] = 0
  BY <1>7, <1>11
<1> QED BY <1>8, <1>15, <1>16, <1>17, <1>18 DEF LimitInv

LEMMA LimitServed ==
  ASSUME BroadcastTypeOK, SenderInv, LimitInv, NEW w \in Senders, NEW client, Steps(w),
         minute' = minute, logged' = logged, mailed' = mailed, jobs[w].step # "log",
         Served(jobs[w], jobs'[w], client)
  PROVE  LimitInv'
<1>1. jobs'[w].step \in {"count", "next", "idle"}
  BY NoJobIs DEF Served
<1> QED BY <1>1, LimitQuiet

LEMMA LimitKept ==
  ASSUME BroadcastTypeOK, SenderInv, LimitInv, BroadcastNext
  PROVE  LimitInv'
<1>1. CASE RunCronJobs \/ EndJob
  <2>1. /\ Steps("loop")
        /\ \/ jobs'["loop"] = NoJob
           \/ jobs'["loop"].step = "next"
    BY <1>1, LoopProceeds
  <2>2. minute' = minute /\ logged' = logged /\ mailed' = mailed
    BY <1>1 DEF RunCronJobs, EndJob
  <2>3. jobs["loop"].step # "log"
    BY <1>1, NoJobIs DEF RunCronJobs, EndJob
  <2>4. jobs'["loop"].step \in {"idle", "next"}
    BY <2>1, NoJobIs
  <2> QED BY <2>1, <2>2, <2>3, <2>4, LimitQuiet, SendersAreFinite
<1>2. CASE SaveSettings
  <2>1. PICK race \in BOOLEAN : mailed' = [mailed EXCEPT !.raced = race]
    <3>1. PICK race : race = (mailed.raced \/ \E w \in Senders : jobs[w].step = "loading") /\ race \in BOOLEAN
      OBVIOUS
    <3>2. mailed' = [mailed EXCEPT !.raced = race]
      BY <1>2, <3>1, Zenon DEF SaveSettings
    <3> QED BY <3>1, <3>2
  <2>2. mailed \in Mailed
    BY DEF BroadcastTypeOK
  <2>3. SameMessages(mailed, mailed')
    BY ONLY <2>1, <2>2, RacedIs
  <2>4. minute' = minute /\ logged' = logged /\ LetThrough' = LetThrough /\ Unrecorded' = Unrecorded
    BY <1>2 DEF SaveSettings, LetThrough, Unrecorded
  <2> QED BY <2>3, <2>4, LimitUntouched DEF SameMessages
<1>3. CASE InvalidateClient \/ ToggleSchedule \/ DeleteSchedule \/ Start
  <2>1. minute' = minute /\ logged' = logged /\ mailed' = mailed /\ jobs' = jobs
    BY <1>3 DEF InvalidateClient, ToggleSchedule, DeleteSchedule, Start
  <2>2. LetThrough' = LetThrough /\ Unrecorded' = Unrecorded
    BY <2>1 DEF LetThrough, Unrecorded
  <2> QED BY <2>1, <2>2, LimitUntouched
<1>4. ASSUME NEW w \in Requests, TriggerSchedule(w) \/ QuickSend(w)
      PROVE  LimitInv'
  <2>1. w \in Senders
    BY SendersAreFinite
  <2>2. \E kind \in {"schedule", "quick"}, to \in Recipients \cup {"nobody"}, todo \in SUBSET Recipients :
          Ask(w, kind, to, todo)
    BY <1>4 DEF TriggerSchedule, QuickSend
  <2>3. /\ Steps(w) /\ jobs[w] = NoJob /\ jobs'[w].step = "client"
    BY <2>1, <2>2, AskIs
  <2>4. minute' = minute /\ logged' = logged /\ mailed' = mailed
    BY <2>2 DEF Ask
  <2> QED BY <2>1, <2>3, <2>4, LimitQuiet, NoJobIs
<1>5. ASSUME NEW w \in Senders, HangUp(w)
      PROVE  LimitInv'
  <2>1. minute' = minute /\ logged' = logged /\ mailed' = mailed
    BY <1>5 DEF HangUp
  <2>2. Steps(w) /\ jobs'[w].step = jobs[w].step /\ jobs'[w].sent = jobs[w].sent
    BY <1>5, HangUpIs
  <2>3. LetThrough' = LetThrough /\ Unrecorded' = Unrecorded
    <3>1. \A v \in Senders : jobs'[v].step = jobs[v].step /\ jobs'[v].sent = jobs[v].sent
      BY <2>2 DEF Steps
    <3> QED BY <3>1 DEF LetThrough, Unrecorded
  <2> QED BY <2>1, <2>3, LimitUntouched
<1>6. ASSUME NEW w \in Senders, NextRecipient(w)
      PROVE  LimitInv'
  <2>1. minute' = minute /\ logged' = logged /\ mailed' = mailed
    BY <1>6 DEF NextRecipient
  <2>2. Steps(w) /\ jobs[w].step = "next" /\ jobs'[w].step \in {"next", "client"}
    BY <1>6, NextRecipientIs
  <2> QED BY <2>1, <2>2, LimitQuiet
<1>7. ASSUME NEW w \in Senders, GetClient(w)
      PROVE  LimitInv'
  <2>1. minute' = minute /\ logged' = logged /\ mailed' = mailed /\ jobs[w].step = "client"
    BY <1>7 DEF GetClient
  <2>2. Steps(w)
    BY <1>7, GetClientIs
  <2>3. CASE Served(jobs[w], jobs'[w], cached)
    BY <2>1, <2>2, <2>3, LimitServed
  <2>4. CASE \/ jobs'[w].step = "loading"
             \/ jobs'[w].step = "log" /\ jobs'[w].sent = FALSE
    BY <2>1, <2>2, <2>4, LimitQuiet
  <2> QED BY <1>7, <2>3, <2>4, GetClientIs
<1>8. ASSUME NEW w \in Senders, StoreClient(w)
      PROVE  LimitInv'
  <2>1. minute' = minute /\ logged' = logged /\ mailed' = mailed /\ jobs[w].step = "loading"
    BY <1>8 DEF StoreClient
  <2>2. jobs[w].client # NoClient
    BY <2>1 DEF SenderInv
  <2> QED BY <1>8, <2>1, <2>2, StoreClientIs, LimitServed
<1>9. ASSUME NEW w \in Senders, EndRun(w)
      PROVE  LimitInv'
  <2>1. minute' = minute /\ logged' = logged
    BY <1>9 DEF EndRun
  <2>2. SameMessages(mailed, mailed')
    BY <1>9, EndRunTold
  <2>3. Steps(w) /\ jobs'[w] = NoJob /\ jobs[w].step = "next"
    BY <1>9, EndRunIs
  <2> QED BY <2>1, <2>2, <2>3, LimitQuiet, NoJobIs DEF SameMessages
<1> QED BY <1>1, <1>2, <1>3, <1>4, <1>5, <1>6, <1>7, <1>8, <1>9, SendersAreFinite, LimitPassMinute,
           LimitStop, LimitEnsure, LimitSend, LimitCreateLog DEF BroadcastNext
-----------------------------------------------------------------------------
(* Reminders. *)

LoggingReminder(r) ==
    LET job == jobs["loop"] IN
    job.kind = "reminders" /\ job.step = "log" /\ job.sent /\ job.to = r

ToRemind == jobs["loop"].kind = "reminders" /\ jobs["loop"].step \in {"client", "loading", "count", "send"}

LEMMA RemindersUntouched ==
  ASSUME ReminderInv, minute' = minute, mailed'.once = mailed.once, mailed'.twice = mailed.twice,
         mailed.loose \subseteq mailed'.loose, reminded \subseteq reminded',
         \A r \in Recipients : LoggingReminder(r) => LoggingReminder(r)',
         ToRemind' /\ <<jobs'["loop"].to, Today>> \in mailed.once => <<jobs'["loop"].to, Today>> \in mailed'.loose
  PROVE  ReminderInv'
<1>1. Today' = Today
  BY DEF Today
<1>2. \A x \in mailed'.once : x[2] <= Today'
  BY <1>1 DEF ReminderInv
<1>3. \A r \in Recipients : <<r, Today'>> \in mailed'.once =>
        <<r, Today'>> \in reminded' \cup mailed'.loose \/ LoggingReminder(r)'
  BY <1>1 DEF ReminderInv, LoggingReminder
<1>4. mailed'.twice \subseteq mailed'.loose
  BY DEF ReminderInv
<1> QED BY <1>1, <1>2, <1>3, <1>4 DEF ReminderInv, LoggingReminder, ToRemind

LEMMA RemindersOfOthers ==
  ASSUME ReminderInv, minute' = minute, mailed'.once = mailed.once, mailed'.twice = mailed.twice,
         mailed.loose \subseteq mailed'.loose, reminded \subseteq reminded',
         /\ jobs'["loop"].kind = jobs["loop"].kind /\ jobs'["loop"].step = jobs["loop"].step
         /\ jobs'["loop"].to = jobs["loop"].to /\ jobs'["loop"].sent = jobs["loop"].sent
  PROVE  ReminderInv'
<1>1. \A r \in Recipients : LoggingReminder(r) => LoggingReminder(r)'
  BY DEF LoggingReminder
<1>2. ToRemind' /\ <<jobs'["loop"].to, Today>> \in mailed.once => <<jobs'["loop"].to, Today>> \in mailed'.loose
  BY DEF ToRemind, ReminderInv
<1> QED BY <1>1, <1>2, RemindersUntouched

LEMMA RemindersPassMinute ==
  ASSUME BroadcastTypeOK, ReminderInv, PassMinute
  PROVE  ReminderInv'
<1>1. Today \in Nat /\ Today' \in Nat /\ Today <= Today'
  BY DaysGoOn DEF PassMinute, Today, BroadcastTypeOK
<1>2. mailed' = mailed /\ reminded' = reminded /\ jobs' = jobs
  BY DEF PassMinute
<1>3. \A x \in mailed.once : x[2] <= Today /\ x[2] \in Nat
  BY MailedIs DEF ReminderInv, BroadcastTypeOK, Days
<1>4. \A x \in mailed.once : x[2] <= Today'
  BY <1>1, <1>3
<1>5. CASE Today' = Today
  BY <1>2, <1>5 DEF ReminderInv
<1>6. CASE Today' # Today
  <2>1. \A r : <<r, Today'>> \notin mailed.once
    <3> SUFFICES ASSUME NEW r, <<r, Today'>> \in mailed.once
                 PROVE  FALSE
      OBVIOUS
    <3>1. <<r, Today'>>[2] <= Today
      BY <1>3
    <3> QED BY <1>1, <1>6, <3>1
  <2> QED BY <1>2, <1>4, <2>1 DEF ReminderInv
<1> QED BY <1>5, <1>6

LEMMA RemindersSend ==
  ASSUME BroadcastTypeOK, SenderInv, ReminderInv, NEW w \in Senders, SendMessage(w)
  PROVE  ReminderInv'
<1>1. /\ minute' = minute /\ reminded' = reminded /\ jobs[w].step = "send"
  BY DEF SendMessage
<1>2. /\ Steps(w) /\ SameRun(jobs[w], jobs'[w]) /\ jobs'[w].step = "log" /\ jobs'[w].to = jobs[w].to
      /\ \/ jobs'[w].sent = TRUE /\ mailed' = Accepted(w)
         \/ jobs'[w].sent = FALSE /\ mailed' = mailed
         \/ jobs'[w].sent = FALSE /\ mailed' = Unlogged(w, Accepted(w))
  BY SendMessageIs
<1>3. jobs[w].kind = "reminders" \/ w = "loop" => jobs[w].to \in Recipients
  BY <1>1, OnlyTheLoopReminds DEF Underway
<1>4. /\ Accepted(w) \in Mailed
      /\ Accepted(w).once = mailed.once \cup Reminds(w) /\ Accepted(w).loose = mailed.loose
      /\ Accepted(w).twice = mailed.twice \cup (mailed.once \cap Reminds(w))
  BY <1>3, AcceptedIs
<1>5. /\ Unlogged(w, Accepted(w)).once = mailed.once \cup Reminds(w)
      /\ Unlogged(w, Accepted(w)).loose = mailed.loose \cup Reminds(w)
      /\ Unlogged(w, Accepted(w)).twice = mailed.twice \cup (mailed.once \cap Reminds(w))
  <2>1. PICK h : h = Accepted(w)
    OBVIOUS
  <2>2. h \in Mailed /\ (jobs[w].kind = "reminders" => jobs[w].to \in Recipients)
    BY <1>3, <1>4, <2>1
  <2>3. Unlogged(w, h).once = h.once /\ Unlogged(w, h).twice = h.twice /\ Unlogged(w, h).loose = h.loose \cup Reminds(w)
    BY ONLY <2>2, BroadcastTypeOK, w \in Senders, UnloggedIs
  <2> QED BY <1>4, <2>1, <2>3
<1>6. CASE jobs[w].kind # "reminders"
  <2>1. Reminds(w) = {}
    BY <1>6 DEF Reminds
  <2>2. mailed'.once = mailed.once /\ mailed'.loose = mailed.loose /\ mailed'.twice = mailed.twice
    BY <1>2, <1>4, <1>5, <2>1, Zenon
  <2>3. \A r \in Recipients : LoggingReminder(r) => LoggingReminder(r)'
    BY <1>1, <1>2, SendersAreFinite DEF LoggingReminder, Steps
  <2>4. ToRemind' => ToRemind /\ jobs'["loop"].to = jobs["loop"].to
    BY <1>1, <1>2, <1>6, SendersAreFinite DEF ToRemind, Steps, SameRun
  <2>5. ToRemind' /\ <<jobs'["loop"].to, Today>> \in mailed.once => <<jobs'["loop"].to, Today>> \in mailed'.loose
    BY <2>2, <2>4 DEF ToRemind, ReminderInv
  <2> QED BY <1>1, <2>2, <2>3, <2>5, RemindersUntouched
<1>7. CASE jobs[w].kind = "reminders"
  <2>1. w = "loop"
    BY <1>7, OnlyTheLoopReminds
  <2>2. PICK t : t = jobs["loop"].to
    OBVIOUS
  <2>3. Reminds(w) = {<<t, Today>>}
    BY <1>7, <2>1, <2>2 DEF Reminds
  <2>4. <<t, Today>> \in mailed.once => <<t, Today>> \in mailed.loose
    BY <1>1, <1>7, <2>1, <2>2 DEF ReminderInv
  <2>5. Today' = Today /\ Today \in Days
    BY <1>1, TodayIsADay DEF Today
  <2>6. ~ToRemind' /\ ~(\E r \in Recipients : LoggingReminder(r))
    BY <1>1, <1>2, <2>1 DEF ToRemind, LoggingReminder
  <2>7. \A r \in Recipients : <<r, Today>> \in mailed.once => <<r, Today>> \in reminded \cup mailed.loose
    BY <2>6 DEF ReminderInv, LoggingReminder
  <2>8. mailed.twice \subseteq mailed.loose /\ \A x \in mailed.once : x[2] <= Today
    BY DEF ReminderInv
  <2>9. \A x \in mailed.once \cup {<<t, Today>>} : x[2] <= Today
    <3>1. Today <= Today
      BY TodayIsADay
    <3> QED BY <2>8, <3>1
  <2>10. jobs'["loop"].kind = "reminders" /\ jobs'["loop"].step = "log" /\ jobs'["loop"].to = t
    BY <1>2, <1>7, <2>1, <2>2 DEF SameRun
  <2>11. CASE jobs'[w].sent = TRUE /\ mailed' = Accepted(w)
    <3>1. mailed'.once = mailed.once \cup {<<t, Today>>} /\ mailed'.loose = mailed.loose
      BY <1>4, <2>3, <2>11
    <3>2. mailed'.twice \subseteq mailed'.loose
      BY <1>4, <2>3, <2>4, <2>8, <2>11, <3>1
    <3>3. LoggingReminder(t)'
      BY <2>1, <2>10, <2>11 DEF LoggingReminder
    <3>4. \A r \in Recipients : <<r, Today>> \in mailed'.once =>
            <<r, Today>> \in reminded' \cup mailed'.loose \/ LoggingReminder(r)'
      BY <1>1, <2>7, <3>1, <3>3
    <3> QED BY <2>5, <2>6, <2>9, <3>1, <3>2, <3>4 DEF ReminderInv, LoggingReminder, ToRemind
  <2>12. CASE jobs'[w].sent = FALSE /\ mailed' = mailed
    BY <1>1, <2>5, <2>6, <2>7, <2>8, <2>12 DEF ReminderInv, ToRemind
  <2>13. CASE jobs'[w].sent = FALSE /\ mailed' = Unlogged(w, Accepted(w))
    <3>1. mailed'.once = mailed.once \cup {<<t, Today>>} /\ mailed'.loose = mailed.loose \cup {<<t, Today>>}
      BY <1>5, <2>3, <2>13
    <3>2. mailed'.twice \subseteq mailed'.loose
      BY <1>5, <2>3, <2>4, <2>8, <2>13, <3>1
    <3>3. \A r \in Recipients : <<r, Today>> \in mailed'.once => <<r, Today>> \in reminded' \cup mailed'.loose
      BY <1>1, <2>7, <3>1
    <3> QED BY <2>5, <2>6, <2>9, <3>1, <3>2, <3>3 DEF ReminderInv, ToRemind
  <2> QED BY <1>2, <2>11, <2>12, <2>13, Zenon
<1> QED BY <1>6, <1>7

LEMMA RemindersCreateLog ==
  ASSUME BroadcastTypeOK, SenderInv, ReminderInv, NEW w \in Senders, CreateLog(w)
  PROVE  ReminderInv'
<1>1. /\ minute' = minute /\ jobs[w].step = "log"
  BY DEF CreateLog
<1>2. /\ Steps(w) /\ jobs'[w].step \in {"idle", "next"}
  BY CreateLogIs, NoJobIs
<1>3. jobs[w].kind = "reminders" => w = "loop" /\ jobs[w].to \in Recipients
  BY <1>1, OnlyTheLoopReminds DEF Underway
<1>4. mailed \in Mailed
  BY DEF BroadcastTypeOK
<1>5. /\ Unlogged(w, mailed).once = mailed.once /\ Unlogged(w, mailed).twice = mailed.twice
      /\ Unlogged(w, mailed).loose = mailed.loose \cup Reminds(w)
  BY <1>3, <1>4, UnloggedIs
<1>6. CASE jobs[w].sent
  <2>1. \/ mailed' = mailed /\ reminded' = reminded \cup Reminds(w)
        \/ mailed' = Unlogged(w, mailed) /\ reminded' = reminded
    BY <1>6, CreateLogTold
  <2>2. /\ mailed'.once = mailed.once /\ mailed'.twice = mailed.twice
        /\ mailed.loose \subseteq mailed'.loose /\ reminded \subseteq reminded'
        /\ Reminds(w) \subseteq reminded' \cup mailed'.loose
    BY <1>5, <2>1
  <2>3. CASE w # "loop"
    BY <1>1, <1>2, <2>2, <2>3, RemindersOfOthers, SendersAreFinite DEF Steps
  <2>4. CASE w = "loop"
    <3>1. ~ToRemind' /\ Today' = Today
      BY <1>1, <1>2, <2>4 DEF ToRemind, Today
    <3>2. \A r \in Recipients : LoggingReminder(r) => <<r, Today>> \in Reminds(w)
      BY <2>4 DEF LoggingReminder, Reminds
    <3>3. \A r \in Recipients : <<r, Today>> \in mailed.once =>
            <<r, Today>> \in reminded \cup mailed.loose \/ LoggingReminder(r)
      BY DEF ReminderInv, LoggingReminder
    <3>4. \A r \in Recipients : <<r, Today'>> \in mailed'.once => <<r, Today'>> \in reminded' \cup mailed'.loose
      BY <2>2, <3>1, <3>2, <3>3
    <3>5. (\A x \in mailed'.once : x[2] <= Today') /\ mailed'.twice \subseteq mailed'.loose
      BY <2>2, <3>1 DEF ReminderInv
    <3> QED BY <3>1, <3>4, <3>5 DEF ReminderInv, ToRemind
  <2> QED BY <2>3, <2>4
<1>7. CASE ~jobs[w].sent
  <2>1. mailed' = mailed /\ reminded' = reminded
    BY <1>7, CreateLogTold
  <2>2. CASE w # "loop"
    BY <1>1, <1>2, <2>1, <2>2, RemindersOfOthers, SendersAreFinite DEF Steps
  <2>3. CASE w = "loop"
    BY <1>1, <1>2, <1>7, <2>1, <2>3, RemindersUntouched DEF LoggingReminder, ToRemind
  <2> QED BY <2>2, <2>3
<1> QED BY <1>6, <1>7

LEMMA RemindersStop ==
  ASSUME BroadcastTypeOK, SenderInv, ReminderInv, Stop
  PROVE  ReminderInv'
<1>1. jobs["loop"].kind = "reminders" /\ jobs["loop"].sent => jobs["loop"].to \in Recipients
  <2>1. jobs["loop"].sent => Underway("loop")
    BY SendersAreFinite DEF SenderInv, Underway
  <2> QED BY <2>1, OnlyTheLoopReminds, SendersAreFinite
<1>2. PICK L : L = (IF "loop" \in Unrecorded /\ jobs["loop"].kind = "reminders"
                      THEN {<<jobs["loop"].to, Today>>} ELSE {})
  OBVIOUS
<1>3. /\ mailed'.once = mailed.once /\ mailed'.twice = mailed.twice /\ mailed'.loose = mailed.loose \cup L
  BY <1>1, <1>2, StopTold
<1>4. \A r \in Recipients : LoggingReminder(r) => <<r, Today>> \in L
  BY <1>2, SendersAreFinite DEF LoggingReminder, Unrecorded
<1>5. reminded' = reminded /\ Today' = Today /\ jobs'["loop"] = NoJob
  BY SendersAreFinite DEF Stop, Today
<1>6. ~ToRemind'
  BY <1>5, NoJobIs DEF ToRemind
<1>7. \A r \in Recipients : <<r, Today>> \in mailed.once =>
        <<r, Today>> \in reminded \cup mailed.loose \/ LoggingReminder(r)
  BY DEF ReminderInv, LoggingReminder
<1>8. \A r \in Recipients : <<r, Today'>> \in mailed'.once => <<r, Today'>> \in reminded' \cup mailed'.loose
  BY <1>3, <1>4, <1>5, <1>7
<1>9. (\A x \in mailed'.once : x[2] <= Today') /\ mailed'.twice \subseteq mailed'.loose
  BY <1>3, <1>5 DEF ReminderInv
<1> QED BY <1>6, <1>8, <1>9 DEF ReminderInv, ToRemind

LEMMA RemindersNotRepeated ==
  ASSUME BroadcastTypeOK, SenderInv, ReminderInv, BroadcastNext
  PROVE  ReminderInv'
<1>1. CASE RunCronJobs \/ EndJob
  <2>1. /\ Steps("loop")
        /\ \/ jobs'["loop"] = NoJob
           \/ jobs'["loop"].step = "next"
    BY <1>1, LoopProceeds
  <2>2. minute' = minute /\ reminded' = reminded /\ mailed' = mailed
    BY <1>1 DEF RunCronJobs, EndJob
  <2>3. jobs["loop"].step # "log"
    BY <1>1, NoJobIs DEF RunCronJobs, EndJob
  <2>4. jobs'["loop"].step \in {"idle", "next"}
    BY <2>1, NoJobIs
  <2> QED BY <2>2, <2>3, <2>4, RemindersUntouched DEF LoggingReminder, ToRemind
<1>2. CASE SaveSettings
  <2>1. PICK race \in BOOLEAN : mailed' = [mailed EXCEPT !.raced = race]
    <3>1. PICK race : race = (mailed.raced \/ \E w \in Senders : jobs[w].step = "loading") /\ race \in BOOLEAN
      OBVIOUS
    <3>2. mailed' = [mailed EXCEPT !.raced = race]
      BY <1>2, <3>1, Zenon DEF SaveSettings
    <3> QED BY <3>1, <3>2
  <2>2. mailed \in Mailed
    BY DEF BroadcastTypeOK
  <2>3. SameMessages(mailed, mailed')
    BY ONLY <2>1, <2>2, RacedIs
  <2>4. minute' = minute /\ reminded' = reminded /\ jobs' = jobs
    BY <1>2 DEF SaveSettings
  <2> QED BY <2>3, <2>4, RemindersOfOthers DEF SameMessages
<1>3. CASE InvalidateClient \/ ToggleSchedule \/ DeleteSchedule \/ Start
  <2>1. minute' = minute /\ reminded' = reminded /\ mailed' = mailed /\ jobs' = jobs
    BY <1>3 DEF InvalidateClient, ToggleSchedule, DeleteSchedule, Start
  <2> QED BY <2>1, RemindersOfOthers
<1>4. ASSUME NEW w \in Requests, TriggerSchedule(w) \/ QuickSend(w)
      PROVE  ReminderInv'
  <2>1. w \in Senders /\ w # "loop"
    BY SendersAreFinite, SendersAssumption
  <2>2. \E kind \in {"schedule", "quick"}, to \in Recipients \cup {"nobody"}, todo \in SUBSET Recipients :
          Ask(w, kind, to, todo)
    BY <1>4 DEF TriggerSchedule, QuickSend
  <2>3. Steps(w)
    BY <2>1, <2>2, AskIs
  <2>4. minute' = minute /\ reminded' = reminded /\ mailed' = mailed
    BY <2>2 DEF Ask
  <2> QED BY <2>1, <2>3, <2>4, RemindersOfOthers, SendersAreFinite DEF Steps
<1>5. ASSUME NEW w \in Requests, HangUp(w)
      PROVE  ReminderInv'
  <2>1. minute' = minute /\ reminded' = reminded /\ mailed' = mailed
    BY <1>5 DEF HangUp
  <2>2. Steps(w) /\ w # "loop"
    BY <1>5, HangUpIs, SendersAreFinite, SendersAssumption
  <2> QED BY <2>1, <2>2, RemindersOfOthers, SendersAreFinite DEF Steps
<1>6. ASSUME NEW w \in Senders, NextRecipient(w)
      PROVE  ReminderInv'
  <2>1. minute' = minute /\ reminded' = reminded /\ mailed' = mailed
    BY <1>6 DEF NextRecipient
  <2>2. Steps(w) /\ jobs[w].step = "next" /\ SameRun(jobs[w], jobs'[w])
    BY <1>6, NextRecipientIs
  <2>3. CASE w # "loop"
    BY <2>1, <2>2, <2>3, RemindersOfOthers, SendersAreFinite DEF Steps
  <2>4. CASE w = "loop"
    <3>1. \A r \in Recipients : ~LoggingReminder(r)
      BY <2>2, <2>4 DEF LoggingReminder
    <3>2. PICK r \in jobs[w].todo :
            \/ jobs'[w].step = "next"
            \/ /\ jobs'[w].step = "client" /\ jobs'[w].to = r
               /\ jobs[w].kind = "reminders" => <<r, Today>> \notin reminded
      BY <1>6, NextRecipientIs
    <3>3. r \in Recipients
      BY DEF BroadcastTypeOK, Job
    <3>4. <<r, Today>> \in mailed.once => <<r, Today>> \in reminded \cup mailed.loose
      BY <3>1, <3>3 DEF ReminderInv, LoggingReminder
    <3>5. ToRemind' /\ <<jobs'["loop"].to, Today>> \in mailed.once => <<jobs'["loop"].to, Today>> \in mailed'.loose
      BY <2>1, <2>2, <2>4, <3>2, <3>4 DEF ToRemind, SameRun
    <3> QED BY <2>1, <3>1, <3>5, RemindersUntouched
  <2> QED BY <2>3, <2>4
<1>7. ASSUME NEW w \in Senders, Steps(w), mailed' = mailed, minute' = minute, reminded' = reminded,
             jobs[w].step \in {"client", "loading", "count"},
             \/ SameRun(jobs[w], jobs'[w]) /\ jobs'[w].to = jobs[w].to
             \/ jobs'[w].step \in {"next", "idle"}
      PROVE  ReminderInv'
  <2>1. CASE w # "loop"
    BY <1>7, <2>1, RemindersOfOthers, SendersAreFinite DEF Steps
  <2>2. CASE w = "loop"
    <3>1. \A r \in Recipients : ~LoggingReminder(r)
      BY <1>7, <2>2 DEF LoggingReminder
    <3>2. ToRemind' => ToRemind /\ jobs'["loop"].to = jobs["loop"].to
      BY <1>7, <2>2 DEF ToRemind, SameRun
    <3>3. ToRemind' /\ <<jobs'["loop"].to, Today>> \in mailed.once => <<jobs'["loop"].to, Today>> \in mailed'.loose
      BY <1>7, <3>2 DEF ToRemind, ReminderInv
    <3> QED BY <1>7, <3>1, <3>3, RemindersUntouched
  <2> QED BY <2>1, <2>2
<1>8. ASSUME NEW w \in Senders, GetClient(w) \/ StoreClient(w) \/ EnsureDailyLimit(w)
      PROVE  ReminderInv'
  <2>1. minute' = minute /\ reminded' = reminded /\ mailed' = mailed /\ jobs[w].step \in {"client", "loading", "count"}
    BY <1>8 DEF GetClient, StoreClient, EnsureDailyLimit
  <2>2. jobs[w].step = "loading" => jobs[w].client # NoClient
    BY DEF SenderInv
  <2>3. CASE GetClient(w)
    BY <2>1, <2>3, GetClientIs, <1>7, NoJobIs DEF Served
  <2>4. CASE StoreClient(w)
    <3>1. jobs[w].client # NoClient
      BY <2>2, <2>4 DEF StoreClient
    <3> QED BY <2>1, <2>4, <3>1, StoreClientIs, <1>7, NoJobIs DEF Served
  <2>5. CASE EnsureDailyLimit(w)
    <3>1. Steps(w) /\ SameRun(jobs[w], jobs'[w]) /\ jobs'[w].to = jobs[w].to
      BY <2>5, EnsureDailyLimitIs
    <3> QED BY <2>1, <3>1, <1>7
  <2> QED BY <1>8, <2>3, <2>4, <2>5
<1>9. ASSUME NEW w \in Senders, EndRun(w)
      PROVE  ReminderInv'
  <2>1. minute' = minute /\ reminded' = reminded
    BY <1>9 DEF EndRun
  <2>2. SameMessages(mailed, mailed')
    BY <1>9, EndRunTold
  <2>3. Steps(w) /\ jobs'[w] = NoJob /\ jobs[w].step = "next"
    BY <1>9, EndRunIs
  <2>4. CASE w # "loop"
    BY <2>1, <2>2, <2>3, <2>4, RemindersOfOthers, SendersAreFinite DEF Steps, SameMessages
  <2>5. CASE w = "loop"
    BY <2>1, <2>2, <2>3, <2>5, RemindersUntouched, NoJobIs DEF LoggingReminder, ToRemind, SameMessages
  <2> QED BY <2>4, <2>5
<1> QED BY <1>1, <1>2, <1>3, <1>4, <1>5, <1>6, <1>8, <1>9, RemindersPassMinute, RemindersStop,
           RemindersSend, RemindersCreateLog DEF BroadcastNext
-----------------------------------------------------------------------------
(* Runs. *)

(* r has had its message of the run under way. *)
HasHad(r) == LET job == jobs["loop"] IN r \notin job.todo \/ (job.step = "log" /\ job.to = r)

HadRun ==
    \A x \in mailed.run :
      jobs["loop"].kind = "schedule" /\ x[2] = jobs["loop"].at /\ x[2] \notin mailed.forgot => HasHad(x[1])

LEMMA RunTypes ==
  ASSUME BroadcastTypeOK
  PROVE  /\ minute \in Nat /\ tick \in Int /\ Never = -1
         /\ jobs["loop"] \in Job /\ jobs["loop"].at \in Nat
         /\ \A x \in mailed.run : x[2] \in Nat /\ x[1] \in Recipients
  BY MailedIs, SendersAreFinite, BroadcastTimeAssumption DEF BroadcastTypeOK, Minutes, Job, Never

LEMMA RunsUntouched ==
  ASSUME RunInv, minute' = minute, tick' = tick, mailed'.run = mailed.run, mailed'.rerun = mailed.rerun,
         mailed.forgot \subseteq mailed'.forgot, schedule'.lastRun = schedule.lastRun,
         schedule.is = "gone" => schedule'.is = "gone",
         jobs'["loop"].kind = jobs["loop"].kind, jobs'["loop"].at = jobs["loop"].at,
         jobs["loop"].kind = "schedule" => \A x \in mailed.run : HasHad(x[1]) => HasHad(x[1])'
  PROVE  RunInv'
<1>1. /\ tick' # Never => tick' <= minute'
      /\ jobs'["loop"].kind # "none" =>
           jobs'["loop"].at <= minute' /\ (tick' # Never => tick' > jobs'["loop"].at)
  BY DEF RunInv
<1>2. \A m : NotAgain(m) => NotAgain(m)'
  BY DEF NotAgain, Past, RunningAt
<1>3. \A x \in mailed'.run : NotAgain(x[2])'
  BY <1>2 DEF RunInv
<1>4. HadRun
  BY DEF RunInv, HadRun, HasHad
<1>5. HadRun'
  BY <1>4 DEF HadRun
<1>6. \A x \in mailed'.rerun : x[2] \in mailed'.forgot
  BY DEF RunInv
<1> QED BY <1>1, <1>3, <1>5, <1>6 DEF RunInv, HadRun, HasHad

LEMMA RunsOfOthers ==
  ASSUME RunInv, minute' = minute, tick' = tick, mailed'.run = mailed.run, mailed'.rerun = mailed.rerun,
         mailed.forgot \subseteq mailed'.forgot, schedule'.lastRun = schedule.lastRun,
         schedule.is = "gone" => schedule'.is = "gone", jobs'["loop"] = jobs["loop"]
  PROVE  RunInv'
<1>1. \A x \in mailed.run : HasHad(x[1]) => HasHad(x[1])'
  BY DEF HasHad
<1> QED BY <1>1, RunsUntouched

LEMMA RunsPassMinute ==
  ASSUME BroadcastTypeOK, RunInv, PassMinute
  PROVE  RunInv'
<1>1. /\ minute' = minute + 1 /\ tick' = IF server = "running" /\ tick = Never THEN minute + 1 ELSE tick
      /\ mailed' = mailed /\ jobs' = jobs /\ schedule' = schedule
  BY DEF PassMinute
<1>2. tick # Never => tick <= minute
  BY DEF RunInv
<1>3. jobs["loop"].kind # "none" => jobs["loop"].at <= minute /\ (tick # Never => tick > jobs["loop"].at)
  BY DEF RunInv
<1>4. /\ tick' # Never => tick' <= minute'
      /\ jobs'["loop"].kind # "none" =>
           jobs'["loop"].at <= minute' /\ (tick' # Never => tick' > jobs'["loop"].at)
  BY <1>1, <1>2, <1>3, RunTypes
<1>5. ASSUME NEW m \in Nat, NotAgain(m)
      PROVE  NotAgain(m)'
  <2>1. Past(m) => Past(m)'
    BY <1>1, <1>2, RunTypes DEF Past
  <2> QED BY <1>1, <1>5, <2>1 DEF NotAgain, RunningAt
<1>6. \A x \in mailed'.run : NotAgain(x[2])'
  BY <1>1, <1>5, RunTypes DEF RunInv
<1>7. /\ \A x \in mailed'.run :
           jobs'["loop"].kind = "schedule" /\ x[2] = jobs'["loop"].at /\ x[2] \notin mailed'.forgot =>
             x[1] \notin jobs'["loop"].todo \/ (jobs'["loop"].step = "log" /\ jobs'["loop"].to = x[1])
      /\ \A x \in mailed'.rerun : x[2] \in mailed'.forgot
  BY <1>1 DEF RunInv
<1> QED BY <1>4, <1>6, <1>7 DEF RunInv

LEMMA RunsOfLoop ==
  ASSUME BroadcastTypeOK, SenderInv, RunInv, RunCronJobs \/ EndJob
  PROVE  RunInv'
<1>1. PICK m \in Minutes :
        /\ RunCronJobs => m = tick
        /\ EndJob => m = jobs["loop"].at
        /\ LET y == jobs'["loop"] IN
           \/ y = NoJob
           \/ /\ y.kind \in {"reminders", "digest", "schedule"} /\ y.at = m /\ y.step = "next"
              /\ y.kind = "schedule" => schedule.is = "active" /\ schedule.lastRun # m
  BY LoopProceeds
<1>2. minute' = minute /\ mailed' = mailed /\ schedule' = schedule
  BY DEF RunCronJobs, EndJob
<1>3. RunCronJobs => tick # Never /\ tick' = Never /\ jobs["loop"].kind = "none"
  BY NoJobIs DEF RunCronJobs
<1>4. EndJob => tick' = tick /\ jobs["loop"].kind \in {"reminders", "digest"}
  BY DEF EndJob
<1>5. jobs'["loop"].kind # "none" => jobs'["loop"].at = m
  BY <1>1, NoJobIs
<1>6. m \in Nat /\ m <= minute /\ (tick' # Never => tick' <= minute /\ tick' > m)
  BY <1>1, <1>3, <1>4, RunTypes, BroadcastTimeAssumption DEF RunInv, Minutes
<1>7. ASSUME NEW k \in Nat
      PROVE  /\ ~RunningAt(k) /\ (Past(k) => Past(k)' /\ k # m)
  <2>1. ~RunningAt(k)
    BY <1>3, <1>4 DEF RunningAt
  <2>2. Past(k) => k < m
    BY <1>1, <1>3, <1>4 DEF Past
  <2>3. Past(k) => Past(k)'
    <3>1. tick' \in Int
      BY <1>3, <1>4, RunTypes
    <3>2. ASSUME k < m
          PROVE  Past(k)'
      <4>1. k < minute'
        BY <1>2, <1>6, <3>2, RunTypes
      <4>2. tick' # Never => tick' > k
        BY <1>6, <3>1, <3>2
      <4>3. jobs'["loop"].kind # "none" => jobs'["loop"].at > k
        BY <1>5, <1>6, <3>2
      <4> QED BY <4>1, <4>2, <4>3 DEF Past
    <3> QED BY <2>2, <3>2
  <2> QED BY <1>6, <2>1, <2>2, <2>3
<1>8. \A x \in mailed'.run : NotAgain(x[2])'
  <2>1. \A k \in Nat : NotAgain(k) => NotAgain(k)'
    BY <1>2, <1>7 DEF NotAgain
  <2> QED BY <1>2, <2>1, RunTypes DEF RunInv
<1>9. \A x \in mailed'.run : jobs'["loop"].kind = "schedule" /\ x[2] = jobs'["loop"].at => x[2] \in mailed'.forgot
  <2> SUFFICES ASSUME NEW x \in mailed.run, jobs'["loop"].kind = "schedule", x[2] = jobs'["loop"].at
               PROVE  x[2] \in mailed.forgot
    BY <1>2
  <2>1. x[2] = m /\ schedule.is = "active" /\ schedule.lastRun # m
    BY <1>1, <1>5, NoJobIs
  <2>2. NotAgain(x[2])
    BY DEF RunInv
  <2> QED BY <1>6, <1>7, <2>1, <2>2 DEF NotAgain
<1>10. \A x \in mailed'.rerun : x[2] \in mailed'.forgot
  BY <1>2 DEF RunInv
<1>11. /\ tick' # Never => tick' <= minute'
       /\ jobs'["loop"].kind # "none" =>
            jobs'["loop"].at <= minute' /\ (tick' # Never => tick' > jobs'["loop"].at)
  BY <1>2, <1>5, <1>6
<1> QED BY <1>8, <1>9, <1>10, <1>11 DEF RunInv

LEMMA RunsEndRun ==
  ASSUME BroadcastTypeOK, SenderInv, RunInv, NEW w \in Senders, EndRun(w)
  PROVE  RunInv'
<1>1. minute' = minute /\ tick' = tick
  BY DEF EndRun
<1>2. Steps(w) /\ jobs'[w] = NoJob /\ jobs[w].kind = "schedule"
  BY EndRunIs
<1>3. mailed'.run = mailed.run /\ mailed'.rerun = mailed.rerun
  BY EndRunTold DEF SameMessages
<1>4. \/ /\ schedule'.is = schedule.is
         /\ schedule.is # "gone" => schedule'.lastRun = minute
         /\ mailed'.forgot = mailed.forgot \cup ({schedule.lastRun} \ {minute, Never})
      \/ /\ schedule' = schedule
         /\ mailed'.forgot = mailed.forgot \cup (IF w = "loop" THEN {jobs[w].at} ELSE {})
  BY EndRunTold
<1>5. mailed.forgot \subseteq mailed'.forgot
  BY <1>4
<1>6. \/ w = "loop" /\ jobs'["loop"] = NoJob
      \/ w # "loop" /\ jobs'["loop"] = jobs["loop"]
  BY <1>2, SendersAreFinite DEF Steps
<1>7. ASSUME NEW k \in Nat, NotAgain(k)
      PROVE  NotAgain(k)'
  <2>1. k # Never
    BY RunTypes
  <2>2. CASE k \in mailed.forgot
    BY <1>5, <2>2 DEF NotAgain
  <2>3. CASE schedule.is = "gone"
    BY <1>4, <2>3 DEF NotAgain
  <2>4. CASE schedule.lastRun = k /\ schedule.is # "gone"
    BY <1>4, <2>1, <2>4 DEF NotAgain
  <2>5. CASE Past(k)
    <3>1. Past(k)'
      BY <1>1, <1>6, <2>5, NoJobIs DEF Past
    <3> QED BY <3>1 DEF NotAgain
  <2>6. CASE RunningAt(k) /\ schedule.is # "gone"
    <3>1. CASE w # "loop"
      BY <1>6, <2>6, <3>1 DEF NotAgain, RunningAt
    <3>2. CASE w = "loop"
      <4>1. k = jobs["loop"].at /\ k <= minute /\ (tick # Never => tick > k)
        BY <2>6 DEF RunningAt, RunInv
      <4>2. CASE schedule'.lastRun = minute
        <5>1. CASE k = minute
          BY <4>2, <5>1 DEF NotAgain
        <5>2. CASE k # minute
          <6>1. Past(k)'
            BY <1>1, <1>6, <3>2, <4>1, <5>2, NoJobIs, RunTypes DEF Past
          <6> QED BY <6>1 DEF NotAgain
        <5> QED BY <5>1, <5>2
      <4>3. CASE mailed'.forgot = mailed.forgot \cup {jobs[w].at}
        BY <3>2, <4>1, <4>3 DEF NotAgain
      <4> QED BY <1>4, <2>6, <3>2, <4>2, <4>3
    <3> QED BY <3>1, <3>2
  <2> QED BY <1>7, <2>2, <2>3, <2>4, <2>5, <2>6 DEF NotAgain
<1>8. \A x \in mailed'.run : NotAgain(x[2])'
  BY <1>3, <1>7, RunTypes DEF RunInv
<1>9. HadRun'
  <2>1. HadRun
    BY DEF RunInv, HadRun, HasHad
  <2>2. CASE jobs'["loop"] = NoJob
    BY <2>2, NoJobIs DEF HadRun
  <2>3. CASE jobs'["loop"] = jobs["loop"]
    BY <1>3, <1>5, <2>1, <2>3 DEF HadRun, HasHad
  <2> QED BY <1>6, <2>2, <2>3
<1>10. /\ tick' # Never => tick' <= minute'
       /\ jobs'["loop"].kind # "none" =>
            jobs'["loop"].at <= minute' /\ (tick' # Never => tick' > jobs'["loop"].at)
  BY <1>1, <1>6, NoJobIs DEF RunInv
<1>11. \A x \in mailed'.rerun : x[2] \in mailed'.forgot
  BY <1>3, <1>5 DEF RunInv
<1> QED BY <1>8, <1>9, <1>10, <1>11 DEF RunInv, HadRun, HasHad

LEMMA RunsSend ==
  ASSUME BroadcastTypeOK, SenderInv, RunInv, NEW w \in Senders, SendMessage(w)
  PROVE  RunInv'
<1>1. minute' = minute /\ tick' = tick /\ schedule' = schedule /\ jobs[w].step = "send"
  BY DEF SendMessage
<1>2. /\ Steps(w) /\ SameRun(jobs[w], jobs'[w]) /\ jobs'[w].step = "log" /\ jobs'[w].to = jobs[w].to
      /\ jobs'[w].todo = jobs[w].todo
      /\ mailed' \in {mailed, Accepted(w), Unlogged(w, Accepted(w))}
  BY SendMessageIs
<1>3. jobs[w].kind = "reminders" \/ w = "loop" => jobs[w].to \in Recipients
  BY <1>1, OnlyTheLoopReminds DEF Underway
<1>4. /\ Accepted(w) \in Mailed /\ Accepted(w).forgot = mailed.forgot
      /\ Accepted(w).run = mailed.run \cup Runs(w)
      /\ Accepted(w).rerun = mailed.rerun \cup (mailed.run \cap Runs(w))
  BY <1>3, AcceptedIs
<1>5. /\ Unlogged(w, Accepted(w)).forgot = mailed.forgot
      /\ Unlogged(w, Accepted(w)).run = mailed.run \cup Runs(w)
      /\ Unlogged(w, Accepted(w)).rerun = mailed.rerun \cup (mailed.run \cap Runs(w))
  BY <1>3, <1>4, UnloggedIs
<1>6. CASE Runs(w) = {} \/ mailed' = mailed
  <2>1. mailed'.run = mailed.run /\ mailed'.rerun = mailed.rerun /\ mailed'.forgot = mailed.forgot
    BY <1>2, <1>4, <1>5, <1>6
  <2>2. CASE w # "loop"
    BY <1>1, <1>2, <2>1, <2>2, RunsOfOthers, SendersAreFinite DEF Steps
  <2>3. CASE w = "loop"
    <3>1. \A x \in mailed.run : HasHad(x[1]) => HasHad(x[1])'
      BY <1>1, <1>2, <2>3 DEF HasHad
    <3> QED BY <1>1, <1>2, <2>1, <2>3, <3>1, RunsUntouched DEF SameRun
  <2> QED BY <2>2, <2>3
<1>7. CASE Runs(w) # {} /\ mailed' # mailed
  <2>1. w = "loop" /\ jobs["loop"].kind = "schedule"
    BY <1>7 DEF Runs
  <2>2. PICK t, a : t = jobs["loop"].to /\ a = jobs["loop"].at
    OBVIOUS
  <2>3. Runs(w) = {<<t, a>>}
    BY <2>1, <2>2 DEF Runs
  <2>4. /\ mailed'.run = mailed.run \cup {<<t, a>>} /\ mailed'.forgot = mailed.forgot
        /\ mailed'.rerun = mailed.rerun \cup (mailed.run \cap {<<t, a>>})
    BY <1>2, <1>4, <1>5, <1>7, <2>3
  <2>5. jobs'["loop"].kind = "schedule" /\ jobs'["loop"].at = a /\ jobs'["loop"].to = t
        /\ jobs'["loop"].todo = jobs["loop"].todo /\ jobs'["loop"].step = "log"
    BY <1>2, <2>1, <2>2 DEF SameRun
  <2>6. t \in jobs["loop"].todo
    BY <1>1, <2>1, <2>2 DEF SenderInv, Underway
  <2>7. <<t, a>> \in mailed.run => a \in mailed.forgot
    <3>1. ASSUME <<t, a>> \in mailed.run, a \notin mailed.forgot
          PROVE  FALSE
      <4>1. <<t, a>>[1] = t /\ <<t, a>>[2] = a
        OBVIOUS
      <4> QED BY <1>1, <2>1, <2>2, <2>6, <3>1, <4>1 DEF RunInv
    <3> QED BY <3>1
  <2>8. \A m : NotAgain(m) => NotAgain(m)'
    BY <1>1, <2>1, <2>2, <2>4, <2>5 DEF NotAgain, Past, RunningAt
  <2>9. NotAgain(a)'
    BY <2>5 DEF NotAgain, RunningAt
  <2>10. \A x \in mailed'.run : NotAgain(x[2])'
    BY <2>4, <2>8, <2>9 DEF RunInv
  <2>11. HadRun'
    <3>1. HadRun
      BY DEF RunInv, HadRun, HasHad
    <3>2. \A r : HasHad(r) => HasHad(r)'
      BY <1>1, <2>1, <2>5 DEF HasHad
    <3>3. HasHad(t)'
      BY <2>5 DEF HasHad
    <3>4. \A x \in mailed.run : jobs'["loop"].kind = "schedule" /\ x[2] = jobs'["loop"].at /\ x[2] \notin mailed'.forgot
                                  => HasHad(x[1])'
      BY <2>1, <2>2, <2>4, <2>5, <3>1, <3>2 DEF HadRun
    <3> QED BY <2>4, <3>3, <3>4 DEF HadRun
  <2>12. \A x \in mailed'.rerun : x[2] \in mailed'.forgot
    BY <2>4, <2>7 DEF RunInv
  <2>13. /\ tick' # Never => tick' <= minute'
         /\ jobs'["loop"].kind # "none" =>
              jobs'["loop"].at <= minute' /\ (tick' # Never => tick' > jobs'["loop"].at)
    BY <1>1, <2>1, <2>2, <2>5 DEF RunInv
  <2> QED BY <2>10, <2>11, <2>12, <2>13 DEF RunInv, HadRun, HasHad
<1> QED BY <1>6, <1>7

LEMMA RunsServerDown ==
  ASSUME BroadcastTypeOK, SenderInv, RunInv, Stop
  PROVE  RunInv'
<1>1. /\ minute' = minute /\ tick' = Never /\ schedule' = schedule /\ jobs'["loop"] = NoJob
  BY SendersAreFinite DEF Stop
<1>2. jobs["loop"].kind = "reminders" /\ jobs["loop"].sent => jobs["loop"].to \in Recipients
  <2>1. jobs["loop"].sent => Underway("loop")
    BY SendersAreFinite DEF SenderInv, Underway
  <2> QED BY <2>1, OnlyTheLoopReminds, SendersAreFinite
<1>3. /\ mailed'.run = mailed.run /\ mailed'.rerun = mailed.rerun
      /\ mailed'.forgot = mailed.forgot \cup (IF jobs["loop"].kind = "schedule" THEN {jobs["loop"].at} ELSE {})
  BY <1>2, StopTold
<1>4. ASSUME NEW k, NotAgain(k)
      PROVE  NotAgain(k)'
  <2>1. CASE RunningAt(k)
    <3>1. k \in mailed'.forgot
      BY <1>3, <2>1 DEF RunningAt
    <3> QED BY <3>1 DEF NotAgain
  <2>2. CASE Past(k)
    <3>1. Past(k)'
      BY <1>1, <2>2, NoJobIs DEF Past
    <3> QED BY <3>1 DEF NotAgain
  <2>3. CASE k \in mailed.forgot \/ schedule.lastRun = k \/ schedule.is = "gone"
    BY <1>1, <1>3, <2>3 DEF NotAgain
  <2> QED BY <1>4, <2>1, <2>2, <2>3 DEF NotAgain
<1>5. \A x \in mailed'.run : NotAgain(x[2])'
  BY <1>3, <1>4 DEF RunInv
<1>6. \A x \in mailed'.rerun : x[2] \in mailed'.forgot
  BY <1>3 DEF RunInv
<1> QED BY <1>1, <1>5, <1>6, NoJobIs DEF RunInv

LEMMA RunsStart ==
  ASSUME BroadcastTypeOK, SenderInv, RunInv, Start
  PROVE  RunInv'
<1>1. /\ minute' = minute /\ tick' = minute /\ schedule' = schedule /\ jobs' = jobs /\ mailed' = mailed
      /\ jobs["loop"] = NoJob
  BY SendersAreFinite DEF Start, SenderInv
<1>2. ASSUME NEW k, NotAgain(k)
      PROVE  NotAgain(k)'
  <2>1. Past(k) => Past(k)'
    BY <1>1, NoJobIs DEF Past
  <2> QED BY <1>1, <1>2, <2>1 DEF NotAgain, RunningAt
<1>3. \A x \in mailed'.run : NotAgain(x[2])'
  BY <1>1, <1>2 DEF RunInv
<1>4. tick' # Never => tick' <= minute'
  BY <1>1, RunTypes
<1>5. \A x \in mailed'.rerun : x[2] \in mailed'.forgot
  BY <1>1 DEF RunInv
<1> QED BY <1>1, <1>3, <1>4, <1>5, NoJobIs DEF RunInv

LEMMA RunsKept ==
  ASSUME BroadcastTypeOK, SenderInv, RunInv, BroadcastNext
  PROVE  RunInv'
<1>1. CASE SaveSettings
  <2>1. PICK race \in BOOLEAN : mailed' = [mailed EXCEPT !.raced = race]
    <3>1. PICK race : race = (mailed.raced \/ \E w \in Senders : jobs[w].step = "loading") /\ race \in BOOLEAN
      OBVIOUS
    <3>2. mailed' = [mailed EXCEPT !.raced = race]
      BY <1>1, <3>1, Zenon DEF SaveSettings
    <3> QED BY <3>1, <3>2
  <2>2. mailed \in Mailed
    BY DEF BroadcastTypeOK
  <2>3. SameMessages(mailed, mailed') /\ mailed'.forgot = mailed.forgot
    BY ONLY <2>1, <2>2, RacedIs
  <2>4. minute' = minute /\ tick' = tick /\ schedule' = schedule /\ jobs' = jobs
    BY <1>1 DEF SaveSettings
  <2> QED BY <2>3, <2>4, RunsOfOthers DEF SameMessages
<1>2. CASE InvalidateClient
  BY <1>2, RunsOfOthers DEF InvalidateClient
<1>3. CASE ToggleSchedule \/ DeleteSchedule
  <2>1. schedule \in Schedule /\ minute \in Minutes
    BY DEF BroadcastTypeOK
  <2>2. PICK is \in {"active", "paused", "gone"} : schedule' = [schedule EXCEPT !.is = is]
    BY <1>3 DEF ToggleSchedule, DeleteSchedule
  <2>4. schedule'.lastRun = schedule.lastRun
    BY ONLY <2>1, <2>2, ScheduleBecomes
  <2>5. schedule.is # "gone" /\ minute' = minute /\ tick' = tick /\ mailed' = mailed /\ jobs' = jobs
    BY <1>3 DEF ToggleSchedule, DeleteSchedule
  <2> QED BY <2>4, <2>5, RunsOfOthers
<1>4. ASSUME NEW w \in Requests, TriggerSchedule(w) \/ QuickSend(w)
      PROVE  RunInv'
  <2>1. w \in Senders /\ w # "loop"
    BY SendersAreFinite, SendersAssumption
  <2>2. \E kind \in {"schedule", "quick"}, to \in Recipients \cup {"nobody"}, todo \in SUBSET Recipients :
          Ask(w, kind, to, todo)
    BY <1>4 DEF TriggerSchedule, QuickSend
  <2>3. Steps(w)
    BY <2>1, <2>2, AskIs
  <2>4. minute' = minute /\ tick' = tick /\ schedule' = schedule /\ mailed' = mailed
    BY <2>2 DEF Ask
  <2> QED BY <2>1, <2>3, <2>4, RunsOfOthers, SendersAreFinite DEF Steps
<1>5. ASSUME NEW w \in Requests, HangUp(w)
      PROVE  RunInv'
  <2>1. minute' = minute /\ tick' = tick /\ schedule' = schedule /\ mailed' = mailed
    BY <1>5 DEF HangUp
  <2>2. Steps(w) /\ w # "loop"
    BY <1>5, HangUpIs, SendersAreFinite, SendersAssumption
  <2> QED BY <2>1, <2>2, RunsOfOthers, SendersAreFinite DEF Steps
<1>6. ASSUME NEW w \in Senders, Steps(w), minute' = minute, tick' = tick, schedule' = schedule,
             mailed' = mailed, jobs[w].step # "log",
             w = "loop" => SameRun(jobs[w], jobs'[w]) /\ jobs'[w].todo \subseteq jobs[w].todo
      PROVE  RunInv'
  <2>1. CASE w # "loop"
    BY <1>6, <2>1, RunsOfOthers, SendersAreFinite DEF Steps
  <2>2. CASE w = "loop"
    <3>1. \A x \in mailed.run : HasHad(x[1]) => HasHad(x[1])'
      BY <1>6, <2>2 DEF HasHad
    <3> QED BY <1>6, <2>2, <3>1, RunsUntouched DEF SameRun
  <2> QED BY <2>1, <2>2
<1>7. ASSUME NEW w \in Senders, NextRecipient(w)
      PROVE  RunInv'
  <2>1. minute' = minute /\ tick' = tick /\ schedule' = schedule /\ mailed' = mailed
    BY <1>7 DEF NextRecipient
  <2>2. /\ Steps(w) /\ SameRun(jobs[w], jobs'[w]) /\ jobs[w].step = "next"
        /\ jobs'[w].todo \subseteq jobs[w].todo
    BY <1>7, NextRecipientIs
  <2> QED BY <2>1, <2>2, <1>6
<1>8. ASSUME NEW w \in Senders, NEW client, Steps(w), Served(jobs[w], jobs'[w], client),
             jobs[w].step \in {"client", "loading"}, w = "loop"
      PROVE  SameRun(jobs[w], jobs'[w]) /\ jobs'[w].todo = jobs[w].todo
  <2>1. jobs[w].to # "nobody"
    BY <1>8, OnlyTheLoopReminds, SendersAssumption DEF Underway
  <2> QED BY <1>8, <2>1 DEF Served
<1>9. ASSUME NEW w \in Senders, GetClient(w)
      PROVE  RunInv'
  <2>1. minute' = minute /\ tick' = tick /\ schedule' = schedule /\ mailed' = mailed /\ jobs[w].step = "client"
    BY <1>9 DEF GetClient
  <2>2. Steps(w)
    BY <1>9, GetClientIs
  <2>3. CASE Served(jobs[w], jobs'[w], cached)
    <3>1. w = "loop" => SameRun(jobs[w], jobs'[w]) /\ jobs'[w].todo = jobs[w].todo
      BY <2>1, <2>2, <2>3, <1>8
    <3> QED BY <2>1, <2>2, <3>1, <1>6
  <2>4. CASE SameRun(jobs[w], jobs'[w]) /\ jobs'[w].todo = jobs[w].todo
    BY <2>1, <2>2, <2>4, <1>6
  <2> QED BY <1>9, <2>3, <2>4, GetClientIs
<1>10. ASSUME NEW w \in Senders, StoreClient(w)
       PROVE  RunInv'
  <2>1. minute' = minute /\ tick' = tick /\ schedule' = schedule /\ mailed' = mailed /\ jobs[w].step = "loading"
    BY <1>10 DEF StoreClient
  <2>2. jobs[w].client # NoClient
    BY <2>1 DEF SenderInv
  <2>3. Steps(w) /\ Served(jobs[w], jobs'[w], cached')
    BY <1>10, <2>2, StoreClientIs
  <2>4. w = "loop" => SameRun(jobs[w], jobs'[w]) /\ jobs'[w].todo = jobs[w].todo
    BY <2>1, <2>3, <1>8
  <2> QED BY <2>1, <2>3, <2>4, <1>6
<1>11. ASSUME NEW w \in Senders, EnsureDailyLimit(w)
       PROVE  RunInv'
  <2>1. minute' = minute /\ tick' = tick /\ schedule' = schedule /\ mailed' = mailed /\ jobs[w].step = "count"
    BY <1>11 DEF EnsureDailyLimit
  <2>2. Steps(w) /\ SameRun(jobs[w], jobs'[w]) /\ jobs'[w].todo = jobs[w].todo
    BY <1>11, EnsureDailyLimitIs
  <2> QED BY <2>1, <2>2, <1>6
<1>12. ASSUME NEW w \in Senders, CreateLog(w)
       PROVE  RunInv'
  <2>1. minute' = minute /\ tick' = tick /\ jobs[w].step = "log"
    BY <1>12 DEF CreateLog
  <2>2. schedule'.lastRun = schedule.lastRun /\ schedule'.is = schedule.is
    BY <1>12, CreateLogTold
  <2>3. mailed'.run = mailed.run /\ mailed'.rerun = mailed.rerun /\ mailed'.forgot = mailed.forgot
    <3>1. jobs[w].kind = "reminders" => jobs[w].to \in Recipients
      BY <2>1, OnlyTheLoopReminds DEF Underway
    <3>2. mailed' \in {mailed, Unlogged(w, mailed)}
      BY <1>12, CreateLogTold
    <3>3. /\ Unlogged(w, mailed).run = mailed.run /\ Unlogged(w, mailed).rerun = mailed.rerun
          /\ Unlogged(w, mailed).forgot = mailed.forgot
      BY <3>1, UnloggedIs DEF BroadcastTypeOK
    <3> QED BY <3>2, <3>3
  <2>4. Steps(w)
    BY <1>12, CreateLogIs
  <2>5. CASE w # "loop"
    BY <2>1, <2>2, <2>3, <2>4, <2>5, RunsOfOthers, SendersAreFinite DEF Steps
  <2>6. CASE w = "loop"
    <3>1. jobs[w].kind # "quick"
      BY <2>1, <2>6, AtWorkIs
    <3>2. SameRun(jobs[w], jobs'[w]) /\ jobs'[w].todo = jobs[w].todo \ {jobs[w].to}
      BY <1>12, <3>1, CreateLogIs
    <3>3. \A x \in mailed.run : HasHad(x[1]) => HasHad(x[1])'
      BY <2>6, <3>2 DEF HasHad
    <3> QED BY <2>1, <2>2, <2>3, <2>6, <3>2, <3>3, RunsUntouched DEF SameRun
  <2> QED BY <2>5, <2>6
<1> QED BY <1>1, <1>2, <1>3, <1>4, <1>5, <1>7, <1>9, <1>10, <1>11, <1>12, SendersAreFinite,
           RunsPassMinute, RunsOfLoop, RunsEndRun, RunsSend, RunsServerDown, RunsStart DEF BroadcastNext

-----------------------------------------------------------------------------
(* The client. *)

NoneLoads == \A w \in Senders : jobs[w].step # "loading"

LEMMA ClientKept ==
  ASSUME BroadcastTypeOK, SenderInv, ClientInv, BroadcastNext
  PROVE  ClientInv'
<1>1. ASSUME settings' = settings, cached' \in {cached, NoClient}, saving => saving' \/ cached' = NoClient,
             mailed'.raced = mailed.raced,
             \A v \in Senders : jobs'[v].step = "loading" =>
               (jobs[v].step = "loading" /\ jobs'[v].client = jobs[v].client) \/ jobs'[v].client = settings
      PROVE  ClientInv'
  <2>1. ~mailed'.raced => \A v \in Senders : jobs'[v].step = "loading" => jobs'[v].client = settings'
    BY <1>1 DEF ClientInv
  <2>2. ClientFollowsSettings'
    BY <1>1 DEF ClientInv, ClientFollowsSettings
  <2> QED BY <2>1, <2>2 DEF ClientInv
<1>2. CASE PassMinute
  BY <1>1, <1>2 DEF PassMinute
<1>3. CASE RunCronJobs \/ EndJob
  <2>1. /\ Steps("loop")
        /\ \/ jobs'["loop"] = NoJob
           \/ jobs'["loop"].step = "next"
    BY <1>3, LoopProceeds
  <2>2. \A v \in Senders : jobs'[v].step = "loading" => jobs[v].step = "loading" /\ jobs'[v].client = jobs[v].client
    BY <2>1, NoJobIs DEF Steps
  <2>3. settings' = settings /\ cached' = cached /\ saving' = saving /\ mailed' = mailed
    BY <1>3 DEF RunCronJobs, EndJob
  <2> QED BY <1>1, <2>2, <2>3
<1>4. CASE SaveSettings
  <2>1. PICK race : race = (mailed.raced \/ \E w \in Senders : jobs[w].step = "loading") /\ race \in BOOLEAN
    OBVIOUS
  <2>2. mailed' = [mailed EXCEPT !.raced = race]
    BY <1>4, <2>1, Zenon DEF SaveSettings
  <2>3. mailed \in Mailed
    BY DEF BroadcastTypeOK
  <2>4. mailed'.raced = race
    BY ONLY <2>1, <2>2, <2>3, RacedIs
  <2>5. ~mailed'.raced => NoneLoads
    BY <2>1, <2>4, Zenon DEF NoneLoads
  <2>6. jobs' = jobs /\ saving' = TRUE
    BY <1>4 DEF SaveSettings
  <2> QED BY <2>5, <2>6 DEF ClientInv, ClientFollowsSettings, NoneLoads
<1>5. CASE InvalidateClient
  BY <1>1, <1>5 DEF InvalidateClient
<1>6. CASE ToggleSchedule \/ DeleteSchedule \/ Start
  BY <1>1, <1>6 DEF ToggleSchedule, DeleteSchedule, Start
<1>7. CASE Stop
  <2>1. \A v \in Senders : jobs'[v].step # "loading"
    BY <1>7, NoJobIs DEF Stop
  <2>2. cached' = NoClient
    BY <1>7 DEF Stop
  <2> QED BY <2>1, <2>2 DEF ClientInv, ClientFollowsSettings
<1>8. ASSUME NEW w \in Senders, Steps(w), settings' = settings, cached' = cached, saving' = saving,
             mailed'.raced = mailed.raced,
             jobs'[w].step = "loading" => (jobs[w].step = "loading" /\ jobs'[w].client = jobs[w].client)
                                          \/ jobs'[w].client = settings
      PROVE  ClientInv'
  <2>1. \A v \in Senders : jobs'[v].step = "loading" =>
          (jobs[v].step = "loading" /\ jobs'[v].client = jobs[v].client) \/ jobs'[v].client = settings
    BY <1>8 DEF Steps
  <2> QED BY <1>1, <1>8, <2>1
<1>9. ASSUME NEW w \in Requests, TriggerSchedule(w) \/ QuickSend(w)
      PROVE  ClientInv'
  <2>1. w \in Senders
    BY SendersAreFinite
  <2>2. \E kind \in {"schedule", "quick"}, to \in Recipients \cup {"nobody"}, todo \in SUBSET Recipients :
          Ask(w, kind, to, todo)
    BY <1>9 DEF TriggerSchedule, QuickSend
  <2>3. Steps(w) /\ jobs'[w].step = "client"
    BY <2>1, <2>2, AskIs
  <2>4. settings' = settings /\ cached' = cached /\ saving' = saving /\ mailed' = mailed
    BY <2>2 DEF Ask
  <2> QED BY <1>8, <2>1, <2>3, <2>4
<1>10. ASSUME NEW w \in Senders, HangUp(w)
       PROVE  ClientInv'
  <2>1. settings' = settings /\ cached' = cached /\ saving' = saving /\ mailed' = mailed
    BY <1>10 DEF HangUp
  <2> QED BY <1>8, <1>10, <2>1, HangUpIs
<1>11. ASSUME NEW w \in Senders, NextRecipient(w)
       PROVE  ClientInv'
  <2>1. settings' = settings /\ cached' = cached /\ saving' = saving /\ mailed' = mailed
    BY <1>11 DEF NextRecipient
  <2>2. Steps(w) /\ jobs'[w].step \in {"next", "client"}
    BY <1>11, NextRecipientIs
  <2> QED BY <1>8, <2>1, <2>2
<1>12. ASSUME NEW w \in Senders, GetClient(w)
       PROVE  ClientInv'
  <2>1. settings' = settings /\ cached' = cached /\ saving' = saving /\ mailed' = mailed
    BY <1>12 DEF GetClient
  <2>2. Steps(w)
    BY <1>12, GetClientIs
  <2>3. jobs'[w].step = "loading" => jobs'[w].client = settings
    BY <1>12, GetClientIs, NoJobIs DEF Served
  <2> QED BY <1>8, <2>1, <2>2, <2>3
<1>13. ASSUME NEW w \in Senders, StoreClient(w)
       PROVE  ClientInv'
  <2>1. settings' = settings /\ saving' = saving /\ mailed' = mailed /\ jobs[w].step = "loading"
    BY <1>13 DEF StoreClient
  <2>2. jobs[w].client # NoClient
    BY <2>1 DEF SenderInv
  <2>3. /\ Steps(w) /\ Served(jobs[w], jobs'[w], cached')
        /\ cached' = IF cached = NoClient THEN jobs[w].client ELSE cached
    BY <1>13, <2>2, StoreClientIs
  <2>4. \A v \in Senders : jobs'[v].step = "loading" => jobs[v].step = "loading" /\ jobs'[v].client = jobs[v].client
    BY <2>3, NoJobIs DEF Served, Steps
  <2>5. ~mailed'.raced => \A v \in Senders : jobs'[v].step = "loading" => jobs'[v].client = settings'
    BY <2>1, <2>4 DEF ClientInv
  <2>6. ClientFollowsSettings'
    BY <2>1, <2>3 DEF ClientInv, ClientFollowsSettings
  <2> QED BY <2>5, <2>6 DEF ClientInv
<1>14. ASSUME NEW w \in Senders, EnsureDailyLimit(w)
       PROVE  ClientInv'
  <2>1. settings' = settings /\ cached' = cached /\ saving' = saving /\ mailed' = mailed
    BY <1>14 DEF EnsureDailyLimit
  <2>2. Steps(w) /\ jobs'[w].step \in {"send", "log"}
    BY <1>14, EnsureDailyLimitIs
  <2> QED BY <1>8, <2>1, <2>2
<1>15. ASSUME NEW w \in Senders, SendMessage(w)
       PROVE  ClientInv'
  <2>1. settings' = settings /\ cached' = cached /\ saving' = saving /\ jobs[w].step = "send"
    BY <1>15 DEF SendMessage
  <2>2. Steps(w) /\ jobs'[w].step = "log" /\ mailed' \in {mailed, Accepted(w), Unlogged(w, Accepted(w))}
    BY <1>15, SendMessageIs
  <2>3. jobs[w].kind = "reminders" \/ w = "loop" => jobs[w].to \in Recipients
    BY <2>1, OnlyTheLoopReminds DEF Underway
  <2>4. Accepted(w) \in Mailed /\ Accepted(w).raced = mailed.raced
    BY <2>3, AcceptedIs, Zenon
  <2>5. Unlogged(w, Accepted(w)).raced = mailed.raced
    BY <2>3, <2>4, UnloggedIs, Zenon
  <2>6. mailed'.raced = mailed.raced
    BY <2>2, <2>4, <2>5
  <2> QED BY <1>8, <2>1, <2>2, <2>6
<1>16. ASSUME NEW w \in Senders, CreateLog(w)
       PROVE  ClientInv'
  <2>1. settings' = settings /\ cached' = cached /\ saving' = saving /\ jobs[w].step = "log"
    BY <1>16 DEF CreateLog
  <2>2. Steps(w) /\ jobs'[w].step \in {"idle", "next"}
    BY <1>16, CreateLogIs, NoJobIs
  <2>3. jobs[w].kind = "reminders" => jobs[w].to \in Recipients
    BY <2>1, OnlyTheLoopReminds DEF Underway
  <2>4. mailed' \in {mailed, Unlogged(w, mailed)}
    BY <1>16, CreateLogTold
  <2>5. Unlogged(w, mailed).raced = mailed.raced
    BY <2>3, UnloggedIs, Zenon DEF BroadcastTypeOK
  <2>6. mailed'.raced = mailed.raced
    BY <2>4, <2>5
  <2> QED BY <1>8, <2>1, <2>2, <2>6
<1>17. ASSUME NEW w \in Senders, EndRun(w)
       PROVE  ClientInv'
  <2>1. settings' = settings /\ cached' = cached /\ saving' = saving
    BY <1>17 DEF EndRun
  <2>2. mailed'.raced = mailed.raced
    BY <1>17, EndRunTold
  <2> QED BY <1>8, <1>17, <2>1, <2>2, EndRunIs, NoJobIs
<1> QED BY <1>2, <1>3, <1>4, <1>5, <1>6, <1>7, <1>9, <1>10, <1>11, <1>12, <1>13, <1>14, <1>15,
           <1>16, <1>17, SendersAreFinite DEF BroadcastNext

-----------------------------------------------------------------------------
(* The invariant, and what it says. *)

LEMMA BroadcastsStart ==
  ASSUME BroadcastInit
  PROVE  BroadcastInv
<1>1. minute = 0 /\ 0 \in Minutes /\ 0 \in Nat /\ Today \in Days /\ Today = 0
  <2>1. 0 \in Minutes /\ DayOfMinute(0) \in Days /\ DayOfMinute(0) = 0
    BY BroadcastTimeAssumption, DaysGoOn DEF Minutes, DayOfMinute
  <2> QED BY <2>1 DEF BroadcastInit, Today
<1>2. \A w \in Senders : jobs[w] = NoJob
  BY DEF BroadcastInit
<1>3. jobs["loop"] = NoJob /\ \A w \in Requests : jobs[w] = NoJob
  BY <1>2, SendersAreFinite
<1>4. /\ \A d \in Days : mailed.total[d] = 0 /\ mailed.unlogged[d] = 0 /\ logged[d] = 0
      /\ mailed.once = {} /\ mailed.twice = {} /\ mailed.run = {} /\ mailed.rerun = {}
  BY DEF BroadcastInit
<1>5. BroadcastTypeOK
  <2>1. mailed \in Mailed
    <3>1. PICK no : no = FALSE /\ no \in BOOLEAN
      OBVIOUS
    <3>2. PICK zero : zero = [d \in Days |-> 0] /\ zero \in [Days -> Nat]
      <4>1. [d \in Days |-> 0] \in [Days -> Nat]
        OBVIOUS
      <4> QED BY <4>1, Zenon
    <3>3. mailed = [total |-> zero, unlogged |-> zero, once |-> {}, twice |-> {}, loose |-> {},
                    run |-> {}, rerun |-> {}, forgot |-> {}, raced |-> no]
      BY <3>1, <3>2 DEF BroadcastInit
    <3> QED BY ONLY <3>1, <3>2, <3>3 DEF Mailed
  <2>2. schedule \in Schedule
    <3>1. PICK no : no = FALSE /\ no \in BOOLEAN
      OBVIOUS
    <3>2. schedule = [is |-> "active", lastRun |-> Never, has |-> no]
      BY <3>1 DEF BroadcastInit
    <3> QED BY ONLY <3>1, <3>2 DEF Schedule
  <2>3. jobs \in [Senders -> Job]
    BY NoJobIs DEF BroadcastInit
  <2>4. logged \in [Days -> Nat]
    BY DEF BroadcastInit
  <2> QED BY <1>1, <2>1, <2>2, <2>3, <2>4 DEF BroadcastInit, BroadcastTypeOK
<1>6. SenderInv
  BY <1>2, <1>3, NoJobIs DEF SenderInv, Underway, BroadcastInit
<1>7. LimitInv
  <2>1. LetThrough = {} /\ Unrecorded = {}
    BY <1>2, NoJobIs DEF LetThrough, Unrecorded
  <2>2. Cardinality(LetThrough) = 0 /\ Cardinality(Unrecorded) = 0
    BY <2>1, FS_EmptySet
  <2>3. Within(0, 0, 0)
    <3>1. settings \in Settings /\ settings.limit \in Nat
      BY SettingsAre DEF BroadcastInit
    <3>2. 0 + 0 <= settings.limit + Cardinality(Requests) + 0
      BY <3>1, SendersAreFinite
    <3>3. \E s \in Settings : 0 + 0 <= s.limit + Cardinality(Requests) + 0
      BY <3>1, <3>2, Zenon
    <3> QED BY <3>3 DEF Within
  <2>4. \A d \in Days : Within(mailed.total[d], mailed.unlogged[d], 0)
    BY <1>4, <2>3, Zenon
  <2>5. Within(mailed.total[Today], mailed.unlogged[Today], Cardinality(LetThrough))
    BY <1>1, <2>2, <2>4, Zenon
  <2>6. mailed.total[Today] <= logged[Today] + mailed.unlogged[Today] + Cardinality(Unrecorded)
    BY <1>1, <1>4, <2>2
  <2> QED BY <1>4, <2>4, <2>5, <2>6 DEF LimitInv
<1>8. ReminderInv
  BY <1>3, <1>4, NoJobIs DEF ReminderInv
<1>9. RunInv
  BY <1>1, <1>3, <1>4, NoJobIs DEF RunInv, BroadcastInit
<1>10. ClientInv
  BY <1>2, NoJobIs DEF ClientInv, ClientFollowsSettings, BroadcastInit
<1> QED BY <1>5, <1>6, <1>7, <1>8, <1>9, <1>10 DEF BroadcastInv

LEMMA BroadcastsStutter ==
  ASSUME BroadcastInv, UNCHANGED broadcastVars
  PROVE  BroadcastInv'
<1> USE DEF broadcastVars
<1>1. LetThrough' = LetThrough /\ Unrecorded' = Unrecorded /\ Today' = Today
  BY DEF LetThrough, Unrecorded, Today
<1>2. BroadcastTypeOK'
  BY DEF BroadcastInv, BroadcastTypeOK
<1>3. SenderInv'
  BY DEF BroadcastInv, SenderInv, Underway
<1>4. LimitInv'
  BY <1>1 DEF BroadcastInv, LimitInv
<1>5. ReminderInv'
  BY <1>1 DEF BroadcastInv, ReminderInv
<1>6. \A m : NotAgain(m)' = NotAgain(m)
  BY DEF NotAgain, Past, RunningAt
<1>7. RunInv'
  BY <1>6 DEF BroadcastInv, RunInv
<1>8. ClientInv'
  BY DEF BroadcastInv, ClientInv, ClientFollowsSettings
<1> QED BY <1>2, <1>3, <1>4, <1>5, <1>7, <1>8 DEF BroadcastInv

(* The invariant holds whatever the loop, the requests, the admin and the gateway *)
(* do, in any order, and however often the server stops in the middle of it.     *)
THEOREM BroadcastsAlwaysSound == BroadcastSpec => []BroadcastInv
<1>1. BroadcastInv /\ [BroadcastNext]_broadcastVars => BroadcastInv'
  BY BroadcastsStutter, TypesKept, SendersKept, LimitKept, RemindersNotRepeated, RunsKept, ClientKept
  DEF BroadcastInv
<1> QED BY <1>1, BroadcastsStart, PTL DEF BroadcastSpec

(* Every variable of the sender keeps its type: the tick that waits, what each of  *)
(* the jobs is doing, and the rows.                                              *)
THEOREM BroadcastTypesCorrect == BroadcastSpec => []BroadcastTypeOK
<1>1. BroadcastInv => BroadcastTypeOK
  BY DEF BroadcastInv
<1> QED BY <1>1, BroadcastsAlwaysSound, PTL

(* Nobody is reminded a second time on a day unless the first reminder is not in   *)
(* the log, and nobody gets a run of the schedule a second time unless that run    *)
(* never got to be recorded: wasReminderSentToday and the guard on last_run_at     *)
(* are enough, although each reads what another step has written.                *)
THEOREM RemindedAndRunOnce == BroadcastSpec => []JobsRunOnce
<1>1. BroadcastInv => JobsRunOnce
  BY DEF BroadcastInv, ReminderInv, RunInv, JobsRunOnce, ReminderOncePerDay, NoRunTwice
<1> QED BY <1>1, BroadcastsAlwaysSound, PTL

(* A day's messages exceed the largest limit that was set by no more than one for   *)
(* each request at work and one for each message without a row, and the cached     *)
(* client is that of the settings in force, unless it was being made when they      *)
(* were saved.                                                               *)
THEOREM LimitAndSettingsKept == BroadcastSpec => []SettingsRespected
<1>1. ASSUME BroadcastInv
      PROVE  SettingsRespected
  <2>1. \A d \in Days : mailed.total[d] \in Nat /\ Within(mailed.total[d], mailed.unlogged[d], 0)
    BY <1>1, MailedIs DEF BroadcastInv, BroadcastTypeOK, LimitInv
  <2>2. DailyLimitKept
    BY <2>1 DEF Within, DailyLimitKept
  <2>3. ClientFollowsSettings
    BY <1>1 DEF BroadcastInv, ClientInv
  <2> QED BY <2>2, <2>3 DEF SettingsRespected
<1> QED BY <1>1, BroadcastsAlwaysSound, PTL

-----------------------------------------------------------------------------
(* The reminders of a loop. *)

Active == round.step # "idle"
AtJob == round.step \in {"settings", "find", "notify", "send"}
HasClaimed == round.step \in {"find", "notify", "send"}

(* Where the loop is.                                                           *)
RoundInv ==
    /\ round.step = "idle" => round = NoRound
    /\ round.step = "tenant" => round.of = "nobody" /\ round.todo = <<>>
    /\ AtJob => /\ round.of \in Companies /\ round.todo # <<>>
                /\ \A n \in DOMAIN round.todo : round.todo[n] \in KindsOfLoop
    /\ round.step = "notify" => Kind \in {"tracker", "review", "payment"}
    /\ \A d \in tellings.owed : d[2] \in KindsOfLoop

(* Ticks come in order, and a run is never of a later minute than the next one.    *)
ClockInv ==
    /\ ticker.last <= now /\ (ticker.regular => ticker.last > 0)
    /\ ticker.tick # NoMinute => ticker.tick <= ticker.last
    /\ Active => round.at <= ticker.last /\ (ticker.tick # NoMinute => round.at <= ticker.tick)
    /\ ~ticker.alive => ticker.tick = NoMinute /\ ~Active
    /\ ~Immediate => (ticker.tick # NoMinute => ticker.tick > 0) /\ (Active => round.at > 0)
    /\ \A c \in Companies, k \in ReminderKind \ {"tracker"} : lastRuns[c][k] # NoMinute =>
         /\ lastRuns[c][k] <= ReminderSlot(k, ticker.last)
         /\ Active => lastRuns[c][k] <= ReminderSlot(k, round.at)
         /\ ticker.tick # NoMinute => lastRuns[c][k] <= ReminderSlot(k, ticker.tick)
         /\ ~Immediate => ticker.last > 0

(* No round of minute m comes any more: not even one that starts with the server, of *)
(* those that start at once.                                                     *)
Over(m) ==
    /\ ticker.last >= m /\ (ticker.regular => ticker.last > m)
    /\ Immediate => now > m
    /\ ticker.tick # NoMinute => ticker.tick > m
    /\ Active => round.at > m

(* The minutes of day d that the hour of c's digest gives.                        *)
DigestMinutes(c, d) == {m \in Clock : m \div MinutesOfDay = d /\ IsDueAt("digest", c, m)}

RestartedOn(d) == \E t \in tellings.started : t > 0 /\ t \div MinutesOfDay = d

(* Why what was told is not told again.                                          *)
DoneWith(c, k, slot) ==
    CASE k = "digest" ->
           \/ lastRuns[c][k] = slot
           \/ \A m \in Clock : m \div MinutesOfDay = slot => Over(m)
           \/ /\ RestartedOn(slot)
              /\ c \in tellings.rehoured \/ \A m \in DigestMinutes(c, slot) : Over(m)
      [] OTHER -> lastRuns[c][k] = slot \/ slot \in tellings.started \/ Over(slot)

NoticedAt(c, m) == \E n \in notices : n[1] = c /\ n[2] >= m

OnceInv ==
    /\ RemindedOnce
    /\ \A x \in tellings.once : x[2] \in KindsOfLoop
    /\ \A x \in tellings.once : x[2] # "tracker" => DoneWith(x[1], x[2], x[3])
    /\ \A x \in tellings.once : x[2] = "tracker" =>
         NoticedAt(x[1], x[3]) \/ (x[4] = "out" /\ <<x[1], x[3]>> \in tellings.bare)
    /\ \A c \in Companies : c \notin tellings.rehoured /\ lastRuns[c]["digest"] # NoMinute =>
         \A m \in DigestMinutes(c, lastRuns[c]["digest"]) : ticker.last >= m

(* What has been claimed has not been told for that minute or day, or may be again.  *)
ClaimedInv ==
    /\ HasClaimed /\ Kind # "tracker" =>
         \A ch \in {"inApp", "out"} :
           LET x == <<Company, Kind, ReminderSlot(Kind, round.at), ch>> IN
           x \in tellings.once => MayRepeat(x) \/ (ch = "inApp" /\ round.step = "send")
    /\ round.step \in {"notify", "send"} /\ Kind = "tracker" =>
         /\ <<Company, "tracker", round.at, "inApp">> \in tellings.once => round.step = "send"
         /\ <<Company, "tracker", round.at, "out">> \in tellings.once =>
              <<Company, round.at>> \in tellings.bare
         /\ round.step = "send" => <<Company, round.at>> \in tellings.bare \/ NoticedAt(Company, round.at)
    /\ HasClaimed /\ Kind # "tracker" => lastRuns[Company][Kind] = ReminderSlot(Kind, round.at)
    /\ HasClaimed => IsDueAt(Kind, Company, round.at)

(* A run that was claimed has told, was excused, or is under way.                   *)
Ran(c, k, m) ==
    /\ ReminderSlot(k, m) = lastRuns[c][k]
    /\ k = "digest" => c \notin tellings.rehoured /\ IsDueAt(k, c, m)

Accounted(d) == ToldOf(d) \/ d \in tellings.excused \/ (HasClaimed /\ d = This)

RanInv == \A c \in Companies, k \in ReminderKind \ {"tracker"}, m \in Clock :
            Ran(c, k, m) => Accounted(<<c, k, m>>)

RemindersInv ==
    /\ RemindersTypeOK /\ RoundInv /\ ClockInv /\ OnceInv /\ ClaimedInv /\ RanInv /\ NothingForgotten

(* What the loop goes through. *)

ToDo(k) == \E n \in DOMAIN round.todo : round.todo[n] = k

LEMMA LoopsAre == Loops = {"tracker", "discord", "reimbursement", "email"}
  BY DEF Loops, KindsOf

LEMMA KindsAre ==
  ASSUME loop \in Loops
  PROVE  /\ KindsOf[loop] \in {<<k>> : k \in ReminderKind} \cup {<<"review", "payment">>}
         /\ KindsOfLoop \subseteq ReminderKind
         /\ \A k \in KindsOfLoop : k \in {"tracker", "digest"} <=> ~Immediate
         /\ \A n \in DOMAIN KindsOf[loop] : KindsOf[loop][n] \in KindsOfLoop
         /\ \A k \in KindsOfLoop : \E n \in DOMAIN KindsOf[loop] : KindsOf[loop][n] = k
<1>1. /\ loop = "tracker" => KindsOf[loop] = <<"tracker">>
      /\ loop = "discord" => KindsOf[loop] = <<"digest">>
      /\ loop = "reimbursement" => KindsOf[loop] = <<"review", "payment">>
      /\ loop = "email" => KindsOf[loop] = <<"weekly">>
  BY DEF KindsOf
<1>2. loop \in {"tracker", "discord", "reimbursement", "email"}
  BY LoopsAre
<1>3. KindsOf[loop] \in {<<k>> : k \in ReminderKind} \cup {<<"review", "payment">>}
  BY <1>1, <1>2 DEF ReminderKind
<1>4. \A k \in KindsOfLoop : /\ loop = "tracker" => k = "tracker"
                             /\ loop = "discord" => k = "digest"
                             /\ loop = "reimbursement" => k \in {"review", "payment"}
                             /\ loop = "email" => k = "weekly"
  BY <1>1 DEF KindsOfLoop
<1>5. KindsOfLoop \subseteq ReminderKind
  BY <1>2, <1>4 DEF ReminderKind
<1>6. \A k \in KindsOfLoop : k \in {"tracker", "digest"} <=> ~Immediate
  BY <1>2, <1>4 DEF Immediate
<1>7. /\ \A n \in DOMAIN KindsOf[loop] : KindsOf[loop][n] \in KindsOfLoop
      /\ \A k \in KindsOfLoop : \E n \in DOMAIN KindsOf[loop] : KindsOf[loop][n] = k
  BY DEF KindsOfLoop
<1> QED BY <1>3, <1>5, <1>6, <1>7

LEMMA KindIs ==
  ASSUME round \in Round, round.todo # <<>>
  PROVE  /\ Kind \in ReminderKind /\ ToDo(Kind)
         /\ Len(round.todo) = 1 => \A k : ToDo(k) <=> k = Kind
         /\ Len(round.todo) # 1 => /\ Kind = "review" /\ Tail(round.todo) = <<"payment">>
                                   /\ \A k : ToDo(k) <=> k \in {"review", "payment"}
         /\ \A k : ToDo(k) => k \in ReminderKind
<1>1. CASE round.todo \in {<<k>> : k \in ReminderKind}
  <2>1. PICK k \in ReminderKind : round.todo = <<k>>
    BY <1>1
  <2>2. Len(round.todo) = 1 /\ Kind = k /\ DOMAIN round.todo = {1} /\ round.todo[1] = k
    BY <2>1 DEF Kind
  <2> QED BY <2>1, <2>2 DEF ToDo
<1>2. CASE round.todo = <<"review", "payment">>
  <2>1. /\ Len(round.todo) = 2 /\ Kind = "review" /\ Tail(round.todo) = <<"payment">>
        /\ DOMAIN round.todo = {1, 2} /\ round.todo[1] = "review" /\ round.todo[2] = "payment"
    BY <1>2 DEF Kind
  <2> QED BY <2>1 DEF ToDo, ReminderKind
<1> QED BY <1>1, <1>2 DEF Round

(* Days. *)

LEMMA SlotsAre ==
    /\ MinutesOfDay \in Nat \ {0} /\ LastReminder \in Nat /\ NoMinute = -1
    /\ \A m \in Nat : m \div MinutesOfDay \in Nat /\ m \div MinutesOfDay <= m
    /\ \A m, n \in Nat : m <= n => m \div MinutesOfDay <= n \div MinutesOfDay
    /\ \A m, n \in Nat : m \div MinutesOfDay = n \div MinutesOfDay
                         /\ m % MinutesOfDay = n % MinutesOfDay => m = n
<1>1. MinutesOfDay \in Nat \ {0}
  BY ReminderTimeAssumption DEF MinutesOfDay
<1>2. PICK n \in Nat \ {0} : n = MinutesOfDay
  BY <1>1
<1>3. \A m \in Nat : m = n * (m \div n) + (m % n) /\ m % n \in Nat /\ m \div n \in Nat
  BY <1>2
<1>4. \A m \in Nat : m \div n \in Nat /\ m \div n <= m
  BY <1>2, <1>3
<1>5. \A m, l \in Nat : m <= l => m \div n <= l \div n
  BY <1>2
<1>6. \A m, l \in Nat : m \div n = l \div n /\ m % n = l % n => m = l
  BY <1>3
<1> QED BY <1>1, <1>2, <1>4, <1>5, <1>6, ReminderTimeAssumption DEF NoMinute

(* What is told. *)

(* A record of the history as any of them. *)
LEMMA TellingsAre ==
  ASSUME tellings \in Tellings
  PROVE  /\ tellings.once \subseteq Message /\ tellings.twice \subseteq Message
         /\ tellings.owed \subseteq Due /\ tellings.excused \subseteq Due
         /\ tellings.bare \subseteq Companies \X Clock
         /\ tellings.rehoured \subseteq Companies /\ tellings.started \subseteq Clock
  BY DEF Tellings

(* What stays of the history, whatever is told and excused. *)
Grows ==
    /\ tellings.once \subseteq tellings'.once /\ tellings.twice \subseteq tellings'.twice
    /\ tellings.owed \subseteq tellings'.owed /\ tellings.excused \subseteq tellings'.excused
    /\ tellings.bare \subseteq tellings'.bare /\ tellings.rehoured \subseteq tellings'.rehoured
    /\ tellings.started \subseteq tellings'.started

SameTold == tellings'.once = tellings.once /\ tellings'.twice = tellings.twice
SameMarks == /\ tellings'.bare = tellings.bare /\ tellings'.rehoured = tellings.rehoured
             /\ tellings'.started = tellings.started

LEMMA ExcuseIs ==
  ASSUME tellings \in Tellings, NEW due, due \subseteq Due, tellings' = Excuse(due)
  PROVE  /\ tellings' \in Tellings /\ Grows /\ SameTold /\ SameMarks
         /\ tellings'.owed = tellings.owed /\ tellings'.excused = tellings.excused \cup due
<1>1. tellings' = [tellings EXCEPT !.excused = @ \cup due]
  BY DEF Excuse
<1>2. /\ tellings' \in Tellings
      /\ tellings'.once = tellings.once /\ tellings'.twice = tellings.twice
      /\ tellings'.bare = tellings.bare /\ tellings'.rehoured = tellings.rehoured
      /\ tellings'.started = tellings.started
      /\ tellings'.owed = tellings.owed /\ tellings'.excused = tellings.excused \cup due
  BY <1>1 DEF Tellings
<1> QED BY <1>2 DEF Grows, SameTold, SameMarks

LEMMA OwesIs ==
  ASSUME tellings \in Tellings, NEW due, due \subseteq Due,
         tellings' = [tellings EXCEPT !.owed = @ \cup due]
  PROVE  /\ tellings' \in Tellings /\ Grows /\ SameTold /\ SameMarks
         /\ tellings'.owed = tellings.owed \cup due /\ tellings'.excused = tellings.excused
<1>1. /\ tellings' \in Tellings
      /\ tellings'.once = tellings.once /\ tellings'.twice = tellings.twice
      /\ tellings'.bare = tellings.bare /\ tellings'.rehoured = tellings.rehoured
      /\ tellings'.started = tellings.started
      /\ tellings'.owed = tellings.owed \cup due /\ tellings'.excused = tellings.excused
  BY DEF Tellings
<1> QED BY <1>1 DEF Grows, SameTold, SameMarks

LEMMA BaresIs ==
  ASSUME tellings \in Tellings, NEW x \in Companies \X Clock,
         tellings' = [tellings EXCEPT !.bare = @ \cup {x}]
  PROVE  /\ tellings' \in Tellings /\ Grows /\ SameTold
         /\ tellings'.rehoured = tellings.rehoured /\ tellings'.started = tellings.started
         /\ tellings'.bare = tellings.bare \cup {x}
         /\ tellings'.owed = tellings.owed /\ tellings'.excused = tellings.excused
<1>1. /\ tellings' \in Tellings
      /\ tellings'.once = tellings.once /\ tellings'.twice = tellings.twice
      /\ tellings'.bare = tellings.bare \cup {x} /\ tellings'.rehoured = tellings.rehoured
      /\ tellings'.started = tellings.started
      /\ tellings'.owed = tellings.owed /\ tellings'.excused = tellings.excused
  BY DEF Tellings
<1> QED BY <1>1 DEF Grows, SameTold

LEMMA RehoursIs ==
  ASSUME tellings \in Tellings, NEW c \in Companies,
         tellings' = [tellings EXCEPT !.rehoured = @ \cup {c}]
  PROVE  /\ tellings' \in Tellings /\ Grows /\ SameTold
         /\ tellings'.rehoured = tellings.rehoured \cup {c} /\ tellings'.started = tellings.started
         /\ tellings'.bare = tellings.bare
         /\ tellings'.owed = tellings.owed /\ tellings'.excused = tellings.excused
<1>1. /\ tellings' \in Tellings
      /\ tellings'.once = tellings.once /\ tellings'.twice = tellings.twice
      /\ tellings'.bare = tellings.bare /\ tellings'.rehoured = tellings.rehoured \cup {c}
      /\ tellings'.started = tellings.started
      /\ tellings'.owed = tellings.owed /\ tellings'.excused = tellings.excused
  BY DEF Tellings
<1> QED BY <1>1 DEF Grows, SameTold

(* The message of the run under way. *)
Said(channel) == <<Company, Kind, ReminderSlot(Kind, round.at), channel>>

LEMMA TellIs ==
  ASSUME tellings \in Tellings, NEW channel, Said(channel) \in Message, tellings' = TellThis(channel)
  PROVE  /\ tellings' \in Tellings /\ Grows /\ SameMarks
         /\ tellings'.owed = tellings.owed /\ tellings'.excused = tellings.excused
         /\ tellings'.once = tellings.once \cup {Said(channel)}
         /\ tellings'.twice = tellings.twice
            \/ (tellings'.twice = tellings.twice \cup {Said(channel)} /\ Said(channel) \in tellings.once)
<1>1. PICK m : m = Said(channel) /\ m \in Message
  OBVIOUS
<1>2. tellings' = [tellings EXCEPT !.once = @ \cup {m}, !.twice = IF m \in tellings.once THEN @ \cup {m} ELSE @]
  BY <1>1 DEF TellThis, Said
<1>3. PICK again : /\ again = IF m \in tellings.once THEN tellings.twice \cup {m} ELSE tellings.twice
                   /\ again \subseteq Message
  BY <1>1, TellingsAre
<1>4. tellings' = [tellings EXCEPT !.once = @ \cup {m}, !.twice = again]
  BY <1>2, <1>3
<1>5. /\ tellings' \in Tellings
      /\ tellings'.once = tellings.once \cup {m} /\ tellings'.twice = again
      /\ tellings'.bare = tellings.bare /\ tellings'.rehoured = tellings.rehoured
      /\ tellings'.started = tellings.started
      /\ tellings'.owed = tellings.owed /\ tellings'.excused = tellings.excused
  <2>1. PICK once : once = tellings.once \cup {m} /\ once \subseteq Message
    BY <1>1, TellingsAre
  <2>2. tellings \in Tellings /\ again \subseteq Message
    BY <1>3
  <2>3. tellings' = [tellings EXCEPT !.once = once, !.twice = again]
    BY <1>4, <2>1
  <2> QED BY ONLY <2>1, <2>2, <2>3 DEF Tellings
<1>6. tellings.twice \subseteq tellings'.twice
  BY <1>3, <1>5
<1>7. tellings'.twice = tellings.twice \/ (tellings'.twice = tellings.twice \cup {m} /\ m \in tellings.once)
  BY <1>3, <1>5
<1> QED BY <1>1, <1>5, <1>6, <1>7 DEF Grows, SameMarks

(* The round under way. *)

LEMMA NoRoundIs ==
  ASSUME round' = NoRound
  PROVE  round' \in Round /\ ~Active' /\ ~AtJob' /\ ~HasClaimed' /\ round'.todo = <<>>
         /\ round'.left = {} /\ round'.of = "nobody" /\ round'.step = "idle"
<1>1. 0 \in Clock
  BY ReminderTimeAssumption DEF Clock
<1>2. round' \in Round
  BY <1>1 DEF NoRound, Round
<1> QED BY <1>2 DEF NoRound, Active, AtJob, HasClaimed

SameJob == round'.at = round.at /\ round'.left = round.left /\ round'.of = round.of /\ round'.todo = round.todo

LEMMA StepIs ==
  ASSUME round \in Round, NEW step \in {"idle", "tenant", "settings", "find", "notify", "send"},
         round' = [round EXCEPT !.step = step]
  PROVE  round' \in Round /\ SameJob /\ round'.step = step
  BY DEF Round, SameJob

(* The next kind of the tenant, or the end of its job. *)
GoesOn ==
    /\ round'.at = round.at /\ round'.left = round.left /\ Active' /\ ~HasClaimed'
    /\ \/ round'.step = "tenant" /\ round'.of = "nobody" /\ round'.todo = <<>>
       \/ round'.step = "settings" /\ round'.of = round.of /\ round'.todo # <<>>
    /\ \A k : ToDo(k) => k = Kind \/ (round'.of = round.of /\ ToDo(k)')
    /\ \A k : ToDo(k)' => ToDo(k)

LEMMA AfterKindIs ==
  ASSUME round \in Round, round.todo # <<>>, AfterKind
  PROVE  round' \in Round /\ GoesOn
<1>1. CASE Len(round.todo) = 1
  <2>1. round' = [round EXCEPT !.step = "tenant", !.of = "nobody", !.todo = <<>>]
    BY <1>1 DEF AfterKind
  <2>2. /\ round' \in Round /\ round'.at = round.at /\ round'.left = round.left
        /\ round'.step = "tenant" /\ round'.of = "nobody" /\ round'.todo = <<>>
    BY <2>1 DEF Round
  <2>3. \A k : ToDo(k) => k = Kind
    BY <1>1, KindIs
  <2>4. \A k : ~ToDo(k)'
    BY <2>2 DEF ToDo
  <2> QED BY <2>2, <2>3, <2>4 DEF GoesOn, Active, HasClaimed
<1>2. CASE Len(round.todo) # 1
  <2>1. /\ round' = [round EXCEPT !.step = "settings", !.todo = <<"payment">>] /\ Kind = "review"
        /\ \A k : ToDo(k) <=> k \in {"review", "payment"}
    <3>1. Tail(round.todo) = <<"payment">>
      BY <1>2, KindIs
    <3>2. round' = [round EXCEPT !.step = "settings", !.todo = Tail(round.todo)]
      BY <1>2 DEF AfterKind
    <3> QED BY <1>2, <3>1, <3>2, KindIs
  <2>2. <<"payment">> \in {<<k>> : k \in ReminderKind}
    BY DEF ReminderKind
  <2>3. /\ round' \in Round /\ round'.at = round.at /\ round'.left = round.left
        /\ round'.step = "settings" /\ round'.of = round.of /\ round'.todo = <<"payment">>
    BY <2>1, <2>2 DEF Round
  <2>4. DOMAIN round'.todo = {1} /\ round'.todo[1] = "payment" /\ round'.todo # <<>>
    BY <2>3
  <2>5. \A k : ToDo(k)' <=> k = "payment"
    BY <2>4 DEF ToDo
  <2> QED BY <2>1, <2>3, <2>4, <2>5 DEF GoesOn, Active, HasClaimed
<1> QED BY <1>1, <1>2

LEMMA UnreachedIs ==
  ASSUME NEW d
  PROVE  d \in Unreached <=> \/ \E c \in round.left, k \in KindsOfLoop : d = <<c, k, round.at>>
                             \/ \E k : ToDo(k) /\ d = <<Company, k, round.at>>
  BY DEF Unreached, ToDo

(* The run under way, and what of its tick is left, may be due. *)
LEMMA DuesAre ==
  ASSUME RemindersTypeOK, RoundInv
  PROVE  /\ AtJob => /\ Company \in Companies /\ Kind \in ReminderKind /\ Kind \in KindsOfLoop
                     /\ round.at \in Clock /\ This \in Due /\ round.todo # <<>>
                     /\ \A k : ToDo(k) => k \in KindsOfLoop
         /\ (tellings.owed \cap Unreached) \cup Waiting \cup ClaimedRun \subseteq Due
         /\ HasClaimed => ClaimedRun = {This} /\ AtJob
<1>1. round \in Round /\ round.at \in Clock
  BY DEF RemindersTypeOK, Round
<1>2. AtJob => /\ Company \in Companies /\ round.todo # <<>> /\ Kind \in ReminderKind /\ ToDo(Kind)
               /\ \A k : ToDo(k) => k \in KindsOfLoop
  BY <1>1, KindIs DEF RoundInv, Company, ToDo
<1>3. AtJob => This \in Due
  BY <1>1, <1>2 DEF This, Due
<1>4. tellings.owed \subseteq Due
  BY TellingsAre DEF RemindersTypeOK
<1>5. ClaimedRun \subseteq Due
  BY <1>3 DEF ClaimedRun, AtJob
<1>6. HasClaimed => ClaimedRun = {This} /\ AtJob
  BY DEF HasClaimed, ClaimedRun, AtJob
<1> QED BY <1>1, <1>2, <1>3, <1>4, <1>5, <1>6 DEF Waiting

LEMMA SaidIs ==
  ASSUME RemindersTypeOK, RoundInv, AtJob, NEW channel \in {"inApp", "out"}
  PROVE  Said(channel) \in Message /\ ReminderSlot(Kind, round.at) \in Clock
<1>1. Company \in Companies /\ Kind \in ReminderKind /\ round.at \in Clock
  BY DuesAre
<1>2. \A m \in Clock : m \div MinutesOfDay \in Clock
  BY SlotsAre DEF Clock
<1>3. ReminderSlot(Kind, round.at) \in Clock
  BY <1>1, <1>2 DEF ReminderSlot
<1> QED BY <1>1, <1>3 DEF Said, Message

(* The ticker. *)

LEMMA TickerAtIs ==
  ASSUME NEW m \in Clock, ticker' = TickerAt(m)
  PROVE  /\ ticker' \in Ticker /\ ticker'.last = m /\ ticker'.alive = TRUE /\ ticker'.regular = FALSE
         /\ ticker'.tick = IF Immediate THEN m ELSE NoMinute
<1>1. PICK yes : yes = TRUE /\ yes \in BOOLEAN
  OBVIOUS
<1>2. PICK no : no = FALSE /\ no \in BOOLEAN
  OBVIOUS
<1>3. PICK queued : queued = (IF Immediate THEN m ELSE NoMinute) /\ queued \in Clock \cup {NoMinute}
  OBVIOUS
<1>4. ticker' = [alive |-> yes, tick |-> queued, last |-> m, regular |-> no]
  BY <1>1, <1>2, <1>3 DEF TickerAt
<1>5. m \in Clock
  OBVIOUS
<1>6. /\ ticker' \in Ticker /\ ticker'.last = m /\ ticker'.alive = yes /\ ticker'.regular = no
      /\ ticker'.tick = queued
  BY ONLY <1>1, <1>2, <1>3, <1>4, <1>5 DEF Ticker
<1> QED BY <1>1, <1>2, <1>3, <1>6

LEMMA TickComesIs ==
  ASSUME RemindersTypeOK, TickComes
  PROVE  /\ ticker' \in Ticker /\ ticker'.last = now /\ ticker'.alive = ticker.alive
         /\ ticker'.regular = TRUE
         /\ ticker.tick = NoMinute => ticker'.tick = now
         /\ ticker.tick # NoMinute => ticker'.tick = ticker.tick
<1>1. PICK yes : yes = TRUE /\ yes \in BOOLEAN
  OBVIOUS
<1>2. PICK queued : queued = (IF ticker.tick = NoMinute THEN now ELSE ticker.tick) /\ queued \in Clock \cup {NoMinute}
  BY DEF RemindersTypeOK, Ticker
<1>3. PICK n \in Clock : n = now
  BY DEF RemindersTypeOK
<1>4. ticker' = [ticker EXCEPT !.tick = queued, !.last = n, !.regular = yes]
  BY <1>1, <1>2, <1>3 DEF TickComes
<1>5. ticker \in Ticker
  BY DEF RemindersTypeOK
<1>6. /\ ticker' \in Ticker /\ ticker'.last = n /\ ticker'.alive = ticker.alive
      /\ ticker'.regular = yes /\ ticker'.tick = queued
  BY ONLY <1>1, <1>2, <1>3, <1>4, <1>5 DEF Ticker
<1> QED BY <1>1, <1>2, <1>3, <1>6

LEMMA TickIs ==
  ASSUME ticker \in Ticker, NEW queued \in Clock \cup {NoMinute}, ticker' = [ticker EXCEPT !.tick = queued]
  PROVE  /\ ticker' \in Ticker /\ ticker'.tick = queued /\ ticker'.last = ticker.last
         /\ ticker'.alive = ticker.alive /\ ticker'.regular = ticker.regular
  BY DEF Ticker

LEMMA PanicIs ==
  ASSUME ticker \in Ticker, JobPanics
  PROVE  /\ ticker' \in Ticker /\ ticker'.tick = NoMinute /\ ticker'.last = ticker.last
         /\ ticker'.alive = FALSE /\ ticker'.regular = ticker.regular
<1>1. PICK no : no = FALSE /\ no \in BOOLEAN
  OBVIOUS
<1>2. ticker' = [ticker EXCEPT !.alive = no, !.tick = NoMinute]
  BY <1>1 DEF JobPanics
<1>3. ticker \in Ticker
  OBVIOUS
<1>4. /\ ticker' \in Ticker /\ ticker'.tick = NoMinute /\ ticker'.last = ticker.last
      /\ ticker'.alive = no /\ ticker'.regular = ticker.regular
  BY ONLY <1>1, <1>2, <1>3 DEF Ticker
<1> QED BY <1>1, <1>4

LEMMA OwedIs ==
  ASSUME loop \in Loops, NEW m
  PROVE  OwedAt(m) \subseteq Due /\ \A d \in OwedAt(m) : d[3] = m /\ d[2] \in KindsOfLoop
  BY DEF OwedAt

(* What a tick adds to what is owed, and a restart. *)

LEMMA TicksOwe ==
  ASSUME RemindersTypeOK, TickComes \/ TickComesAgain
  PROVE  /\ tellings' \in Tellings /\ Grows /\ SameTold /\ SameMarks
         /\ tellings'.excused = tellings.excused
         /\ tellings'.owed = IF ticker.tick = NoMinute THEN tellings.owed \cup OwedAt(now) ELSE tellings.owed
<1>1. tellings \in Tellings /\ OwedAt(now) \subseteq Due
  BY OwedIs DEF RemindersTypeOK
<1>2. CASE ticker.tick = NoMinute
  <2>1. tellings' = [tellings EXCEPT !.owed = @ \cup OwedAt(now)]
    BY <1>2 DEF TickComes, TickComesAgain
  <2> QED BY <1>1, <1>2, <2>1, OwesIs
<1>3. CASE ticker.tick # NoMinute
  <2>1. tellings' = tellings
    BY <1>3 DEF TickComes, TickComesAgain
  <2> QED BY <1>1, <1>3, <2>1 DEF Grows, SameTold, SameMarks
<1> QED BY <1>2, <1>3

LEMMA RestartsOwe ==
  ASSUME RemindersTypeOK, RoundInv, RestartReminders
  PROVE  /\ tellings' \in Tellings /\ Grows /\ SameTold
         /\ tellings'.bare = tellings.bare /\ tellings'.rehoured = tellings.rehoured
         /\ tellings'.started = tellings.started \cup {now}
         /\ tellings'.excused = tellings.excused \cup (tellings.owed \cap Unreached) \cup Waiting
         /\ tellings'.owed = IF Immediate THEN tellings.owed \cup OwedAt(now) ELSE tellings.owed
<1>1. PICK n \in Clock : n = now
  BY DEF RemindersTypeOK
<1>2. PICK due : due = (tellings.owed \cap Unreached) \cup Waiting /\ due \subseteq Due
  BY DuesAre
<1>3. PICK owed : /\ owed = IF Immediate THEN tellings.owed \cup OwedAt(now) ELSE tellings.owed
                  /\ owed \subseteq Due /\ tellings.owed \subseteq owed
  <2>1. PICK old, new : old = tellings.owed /\ new = OwedAt(now)
    OBVIOUS
  <2>2. old \subseteq Due /\ new \subseteq Due
    BY <2>1, OwedIs, TellingsAre DEF RemindersTypeOK
  <2>3. PICK owed : owed = IF Immediate THEN old \cup new ELSE old
    OBVIOUS
  <2>4. owed \subseteq Due /\ old \subseteq owed
    BY ONLY <2>2, <2>3
  <2> QED BY <2>1, <2>3, <2>4
<1>4. tellings' = [tellings EXCEPT !.excused = tellings.excused \cup due, !.owed = owed,
                                   !.started = tellings.started \cup {n}]
  <2>1. tellings' = [tellings EXCEPT !.excused = tellings.excused \cup (tellings.owed \cap Unreached) \cup Waiting,
                                     !.owed = IF Immediate THEN tellings.owed \cup OwedAt(now) ELSE tellings.owed,
                                     !.started = tellings.started \cup {now}]
    BY DEF RestartReminders
  <2>2. tellings.excused \cup (tellings.owed \cap Unreached) \cup Waiting = tellings.excused \cup due
    BY <1>2
  <2> QED BY <1>1, <1>3, <2>1, <2>2
<1>5. PICK excused : excused = tellings.excused \cup due /\ excused \subseteq Due
  BY <1>2, TellingsAre DEF RemindersTypeOK
<1>6. PICK started : started = tellings.started \cup {n} /\ started \subseteq Clock
  BY <1>1, TellingsAre DEF RemindersTypeOK
<1>7. tellings \in Tellings
  BY DEF RemindersTypeOK
<1>8. tellings' = [tellings EXCEPT !.excused = excused, !.owed = owed, !.started = started]
  BY <1>4, <1>5, <1>6
<1>9. owed \subseteq Due
  BY <1>3
<1>10. /\ tellings' \in Tellings
       /\ tellings'.once = tellings.once /\ tellings'.twice = tellings.twice
       /\ tellings'.bare = tellings.bare /\ tellings'.rehoured = tellings.rehoured
       /\ tellings'.excused = excused /\ tellings'.owed = owed /\ tellings'.started = started
  BY ONLY <1>5, <1>6, <1>7, <1>8, <1>9 DEF Tellings
<1>11. tellings'.excused = tellings.excused \cup (tellings.owed \cap Unreached) \cup Waiting
  BY <1>2, <1>5, <1>10
<1>12. Grows
  BY <1>3, <1>5, <1>6, <1>10 DEF Grows
<1> QED BY <1>1, <1>3, <1>6, <1>10, <1>11, <1>12 DEF SameTold

(* What the steps of a tenant's job do. *)

Claims ==
    /\ wanted[Company].on /\ IsDueAt(Kind, Company, round.at) /\ ~HasRun(Company, Kind, round.at)
    /\ SameJob /\ round'.step = "find" /\ tellings' = tellings
    /\ lastRuns'[Company][Kind] = ReminderSlot(Kind, round.at)
    /\ \A d \in Companies, j \in ReminderKind : d # Company \/ j # Kind => lastRuns'[d][j] = lastRuns[d][j]

Passes ==
    /\ IsDueAt(Kind, Company, round.at) /\ HasRun(Company, Kind, round.at)
    /\ GoesOn /\ tellings' = tellings /\ lastRuns' = lastRuns

(* It tells nothing, and that is excused. *)
Excuses ==
    /\ GoesOn /\ Grows /\ SameTold /\ SameMarks
    /\ tellings'.owed = tellings.owed /\ tellings'.excused = tellings.excused \cup {This}

LEMMA ReadSettingsIs ==
  ASSUME RemindersTypeOK, RoundInv, ReadSettings
  PROVE  /\ AtJob /\ round' \in Round /\ tellings' \in Tellings
         /\ lastRuns' \in [Companies -> [ReminderKind -> Clock \cup {NoMinute}]]
         /\ Claims \/ Passes \/ (Excuses /\ lastRuns' = lastRuns)
<1>1. AtJob /\ round \in Round /\ tellings \in Tellings
  BY DEF ReadSettings, AtJob, RemindersTypeOK
<1>2. /\ Company \in Companies /\ Kind \in ReminderKind /\ This \in Due /\ round.todo # <<>>
      /\ ReminderSlot(Kind, round.at) \in Clock
  BY <1>1, DuesAre, SaidIs
<1>3. lastRuns \in [Companies -> [ReminderKind -> Clock \cup {NoMinute}]]
  BY DEF RemindersTypeOK
<1>4. CASE /\ wanted[Company].on /\ IsDueAt(Kind, Company, round.at) /\ ~HasRun(Company, Kind, round.at)
           /\ round' = [round EXCEPT !.step = "find"]
           /\ lastRuns' = [lastRuns EXCEPT ![Company][RunKey(Kind)] = ReminderSlot(Kind, round.at)]
           /\ UNCHANGED tellings
  <2>1. lastRuns' = [lastRuns EXCEPT ![Company][Kind] = ReminderSlot(Kind, round.at)]
    BY <1>4 DEF RunKey
  <2>2. /\ lastRuns' \in [Companies -> [ReminderKind -> Clock \cup {NoMinute}]]
        /\ lastRuns'[Company][Kind] = ReminderSlot(Kind, round.at)
        /\ \A d \in Companies, j \in ReminderKind : d # Company \/ j # Kind => lastRuns'[d][j] = lastRuns[d][j]
    <3>1. PICK c, k, m : c = Company /\ k = Kind /\ m = ReminderSlot(Kind, round.at)
      OBVIOUS
    <3>2. c \in Companies /\ k \in ReminderKind /\ m \in Clock /\ lastRuns' = [lastRuns EXCEPT ![c][k] = m]
      BY <1>2, <2>1, <3>1
    <3>3. PICK of : of = [lastRuns[c] EXCEPT ![k] = m]
      OBVIOUS
    <3>4. of \in [ReminderKind -> Clock \cup {NoMinute}]
      BY ONLY <1>3, <3>2, <3>3
    <3>5. of[k] = m /\ \A j \in ReminderKind \ {k} : of[j] = lastRuns[c][j]
      BY ONLY <1>3, <3>2, <3>3
    <3>6. lastRuns' = [lastRuns EXCEPT ![c] = of]
      BY ONLY <3>2, <3>3
    <3>7. lastRuns' \in [Companies -> [ReminderKind -> Clock \cup {NoMinute}]]
      BY ONLY <1>3, <3>2, <3>4, <3>6
    <3>8. lastRuns'[c] = of /\ \A d \in Companies \ {c} : lastRuns'[d] = lastRuns[d]
      BY ONLY <1>3, <3>2, <3>6
    <3>9. /\ lastRuns'[c][k] = m
          /\ \A d \in Companies, j \in ReminderKind : d # c \/ j # k => lastRuns'[d][j] = lastRuns[d][j]
      BY ONLY <3>5, <3>8
    <3> QED BY <3>1, <3>7, <3>9
  <2>3. round' \in Round /\ SameJob /\ round'.step = "find"
    BY <1>1, <1>4, StepIs
  <2> QED BY <1>1, <1>4, <2>2, <2>3 DEF Claims
<1>5. CASE /\ wanted[Company].on /\ IsDueAt(Kind, Company, round.at) /\ HasRun(Company, Kind, round.at)
           /\ AfterKind /\ UNCHANGED <<lastRuns, tellings>>
  <2>1. round' \in Round /\ GoesOn
    BY <1>1, <1>2, <1>5, AfterKindIs
  <2> QED BY <1>1, <1>3, <1>5, <2>1 DEF Passes
<1>6. CASE AfterKind /\ tellings' = Excuse({This}) /\ UNCHANGED lastRuns
  <2>1. round' \in Round /\ GoesOn
    BY <1>1, <1>2, <1>6, AfterKindIs
  <2>2. {This} \subseteq Due
    BY <1>2
  <2> QED BY <1>1, <1>3, <1>6, <2>1, <2>2, ExcuseIs DEF Excuses
<1> QED BY <1>4, <1>5, <1>6 DEF ReadSettings

(* There is somebody to remind. *)
Finds ==
    /\ Kind = "tracker" => ~Recent(Company)
    /\ SameJob /\ round'.step \in {"notify", "send"}
    /\ round'.step = "notify" => Kind \in {"tracker", "review", "payment"}
    /\ round'.step = "send" /\ Kind = "tracker" => <<Company, round.at>> \in tellings'.bare
    /\ Grows /\ SameTold /\ tellings'.owed = tellings.owed /\ tellings'.excused = tellings.excused

LEMMA FindRecipientsIs ==
  ASSUME RemindersTypeOK, RoundInv, FindRecipients
  PROVE  HasClaimed /\ round.step = "find" /\ round' \in Round /\ tellings' \in Tellings /\ (Excuses \/ Finds)
<1>1. AtJob /\ HasClaimed /\ round.step = "find" /\ round \in Round /\ tellings \in Tellings
  BY DEF FindRecipients, AtJob, HasClaimed, RemindersTypeOK
<1>2. /\ Company \in Companies /\ round.at \in Clock /\ This \in Due /\ round.todo # <<>>
  BY <1>1, DuesAre
<1>3. CASE AfterKind /\ tellings' = Excuse({This})
  <2>1. round' \in Round /\ GoesOn
    BY <1>1, <1>2, <1>3, AfterKindIs
  <2>2. {This} \subseteq Due
    BY <1>2
  <2> QED BY <1>1, <1>3, <2>1, <2>2, ExcuseIs DEF Excuses
<1>4. CASE /\ Kind = "tracker" => ~Recent(Company)
           /\ round' = [round EXCEPT !.step =
                IF Kind \in {"tracker", "review", "payment"} /\ wanted[Company].inApp THEN "notify" ELSE "send"]
           /\ tellings' = IF Kind = "tracker" /\ ~wanted[Company].inApp
                            THEN [tellings EXCEPT !.bare = @ \cup {<<Company, round.at>>}] ELSE tellings
  <2>1. PICK step \in {"notify", "send"} :
          step = IF Kind \in {"tracker", "review", "payment"} /\ wanted[Company].inApp THEN "notify" ELSE "send"
    OBVIOUS
  <2>2. round' \in Round /\ SameJob /\ round'.step = step
    BY <1>1, <1>4, <2>1, StepIs
  <2>3. <<Company, round.at>> \in Companies \X Clock
    BY <1>2
  <2>4. CASE Kind = "tracker" /\ ~wanted[Company].inApp
    <3>1. tellings' = [tellings EXCEPT !.bare = @ \cup {<<Company, round.at>>}]
      BY <1>4, <2>4
    <3>2. /\ tellings' \in Tellings /\ Grows /\ SameTold /\ tellings'.owed = tellings.owed
          /\ tellings'.excused = tellings.excused /\ <<Company, round.at>> \in tellings'.bare
      BY <1>1, <2>3, <3>1, BaresIs
    <3> QED BY <1>1, <1>4, <2>1, <2>2, <2>4, <3>2 DEF Finds
  <2>5. CASE ~(Kind = "tracker" /\ ~wanted[Company].inApp)
    <3>1. tellings' = tellings
      BY <1>4, <2>5
    <3>2. Kind = "tracker" => step = "notify"
      BY <2>1, <2>5
    <3> QED BY <1>1, <1>4, <2>1, <2>2, <3>1, <3>2 DEF Finds, Grows, SameTold
  <2> QED BY <2>4, <2>5
<1> QED BY <1>1, <1>3, <1>4 DEF FindRecipients

Tells(channel) ==
    /\ Grows /\ SameMarks /\ tellings'.owed = tellings.owed /\ tellings'.excused = tellings.excused
    /\ tellings'.once = tellings.once \cup {Said(channel)}
    /\ tellings'.twice = tellings.twice
       \/ (tellings'.twice = tellings.twice \cup {Said(channel)} /\ Said(channel) \in tellings.once)

LEMMA NotifyInAppIs ==
  ASSUME RemindersTypeOK, RoundInv, NotifyInApp
  PROVE  /\ HasClaimed /\ round.step = "notify" /\ round' \in Round /\ tellings' \in Tellings
         /\ SameJob /\ round'.step = "send" /\ Tells("inApp")
         /\ notices' \subseteq Companies \X Clock
         /\ Kind # "tracker" => notices' = notices
         /\ Kind = "tracker" => notices' = notices \cup {<<Company, now>>}
<1>1. AtJob /\ HasClaimed /\ round.step = "notify" /\ round \in Round /\ tellings \in Tellings /\ now \in Clock
  BY DEF NotifyInApp, AtJob, HasClaimed, RemindersTypeOK
<1>2. Company \in Companies /\ Said("inApp") \in Message
  BY <1>1, DuesAre, SaidIs
<1>3. tellings' \in Tellings /\ Tells("inApp")
  <2>1. tellings' = TellThis("inApp")
    BY DEF NotifyInApp
  <2> QED BY <1>1, <1>2, <2>1, TellIs DEF Tells
<1>4. round' \in Round /\ SameJob /\ round'.step = "send"
  BY <1>1, StepIs DEF NotifyInApp
<1>5. /\ Kind # "tracker" => notices' = notices
      /\ Kind = "tracker" => notices' = notices \cup {<<Company, now>>}
  BY DEF NotifyInApp, Noticed
<1>6. notices' \subseteq Companies \X Clock
  BY <1>1, <1>2, <1>5 DEF RemindersTypeOK
<1> QED BY <1>1, <1>3, <1>4, <1>5, <1>6

LEMMA NoticeFailsIs ==
  ASSUME RemindersTypeOK, RoundInv, NoticeFails
  PROVE  /\ HasClaimed /\ round.step = "notify" /\ Kind = "tracker" /\ round' \in Round /\ tellings' \in Tellings
         /\ SameJob /\ round'.step = "send" /\ Grows /\ SameTold /\ <<Company, round.at>> \in tellings'.bare
         /\ tellings'.owed = tellings.owed /\ tellings'.excused = tellings.excused
<1>1. /\ AtJob /\ HasClaimed /\ round.step = "notify" /\ Kind = "tracker"
      /\ round \in Round /\ tellings \in Tellings
  BY DEF NoticeFails, AtJob, HasClaimed, RemindersTypeOK
<1>2. <<Company, round.at>> \in Companies \X Clock
  BY <1>1, DuesAre
<1>3. tellings' = [tellings EXCEPT !.bare = @ \cup {<<Company, round.at>>}]
  BY DEF NoticeFails
<1>4. round' \in Round /\ SameJob /\ round'.step = "send"
  BY <1>1, StepIs DEF NoticeFails
<1> QED BY <1>1, <1>2, <1>3, <1>4, BaresIs

LEMMA SendOutIs ==
  ASSUME RemindersTypeOK, RoundInv, SendOut
  PROVE  /\ HasClaimed /\ round.step = "send" /\ round' \in Round /\ tellings' \in Tellings
         /\ GoesOn /\ Tells("out")
<1>1. AtJob /\ HasClaimed /\ round.step = "send" /\ round \in Round /\ tellings \in Tellings
  BY DEF SendOut, AtJob, HasClaimed, RemindersTypeOK
<1>2. round.todo # <<>> /\ Said("out") \in Message
  BY <1>1, DuesAre, SaidIs
<1>3. tellings' = TellThis("out") /\ AfterKind
  BY DEF SendOut
<1> QED BY <1>1, <1>2, <1>3, TellIs, AfterKindIs DEF Tells

LEMMA DispatchFailsIs ==
  ASSUME RemindersTypeOK, RoundInv, DispatchFails
  PROVE  HasClaimed /\ round' \in Round /\ tellings' \in Tellings /\ Excuses
<1>1. AtJob /\ HasClaimed /\ round \in Round /\ tellings \in Tellings
  BY DEF DispatchFails, AtJob, HasClaimed, RemindersTypeOK
<1>2. round.todo # <<>> /\ {This} \subseteq Due
  BY <1>1, DuesAre
<1>3. tellings' = Excuse({This}) /\ AfterKind
  BY DEF DispatchFails
<1>4. round' \in Round /\ GoesOn
  BY <1>1, <1>2, <1>3, AfterKindIs
<1>5. PICK due : due = {This} /\ due \subseteq Due
  BY <1>2
<1>6. /\ tellings' \in Tellings /\ Grows /\ SameTold /\ SameMarks
      /\ tellings'.owed = tellings.owed /\ tellings'.excused = tellings.excused \cup due
  BY <1>1, <1>3, <1>5, ExcuseIs
<1> QED BY <1>1, <1>4, <1>5, <1>6 DEF Excuses

(* The round ends before its end. *)
GivesUp ==
    /\ round' = NoRound /\ Grows /\ SameTold /\ SameMarks /\ tellings'.owed = tellings.owed
    /\ (tellings.owed \cap Unreached) \cup ClaimedRun \subseteq tellings'.excused

LEMMA JobFailsIs ==
  ASSUME RemindersTypeOK, RoundInv, JobFails
  PROVE  round' \in Round /\ tellings' \in Tellings /\ GivesUp
<1>1. tellings \in Tellings /\ (tellings.owed \cap Unreached) \cup ClaimedRun \subseteq Due
  BY DuesAre DEF RemindersTypeOK
<1>2. round' = NoRound /\ tellings' = Excuse((tellings.owed \cap Unreached) \cup ClaimedRun)
  BY DEF JobFails
<1> QED BY <1>1, <1>2, ExcuseIs, NoRoundIs DEF GivesUp

LEMMA JobPanicsIs ==
  ASSUME RemindersTypeOK, RoundInv, JobPanics
  PROVE  round' \in Round /\ tellings' \in Tellings /\ GivesUp /\ Waiting \subseteq tellings'.excused
<1>1. tellings \in Tellings /\ (tellings.owed \cap Unreached) \cup Waiting \cup ClaimedRun \subseteq Due
  BY DuesAre DEF RemindersTypeOK
<1>2. PICK due : due = (tellings.owed \cap Unreached) \cup Waiting \cup ClaimedRun
  OBVIOUS
<1>3. round' = NoRound /\ tellings' = Excuse(due)
  BY <1>2 DEF JobPanics
<1>4. /\ tellings' \in Tellings /\ Grows /\ SameTold /\ SameMarks
      /\ tellings'.owed = tellings.owed /\ tellings'.excused = tellings.excused \cup due
  BY <1>1, <1>2, <1>3, ExcuseIs
<1>5. (tellings.owed \cap Unreached) \cup ClaimedRun \subseteq tellings'.excused /\ Waiting \subseteq tellings'.excused
  BY <1>2, <1>4
<1> QED BY <1>3, <1>4, <1>5, NoRoundIs DEF GivesUp

LEMMA ChangeRemindersIs ==
  ASSUME RemindersTypeOK, NEW c \in Companies, ChangeReminders(c)
  PROVE  /\ round.of # c /\ wanted' \in [Companies -> Wanted] /\ \A d \in Companies \ {c} : wanted'[d] = wanted[d]
         /\ tellings' \in Tellings /\ Grows /\ SameTold
         /\ tellings'.bare = tellings.bare /\ tellings'.started = tellings.started
         /\ tellings'.owed = tellings.owed /\ tellings'.excused = tellings.excused
         /\ wanted'[c].hour = wanted[c].hour \/ c \in tellings'.rehoured
<1>1. PICK w \in Wanted : /\ wanted' = [wanted EXCEPT ![c] = w]
                          /\ tellings' = IF w.hour # wanted[c].hour
                               THEN [tellings EXCEPT !.rehoured = @ \cup {c}] ELSE tellings
  BY DEF ChangeReminders
<1>2. /\ wanted' \in [Companies -> Wanted] /\ \A d \in Companies \ {c} : wanted'[d] = wanted[d]
      /\ wanted'[c] = w
  BY <1>1 DEF RemindersTypeOK
<1>3. tellings \in Tellings /\ round.of # c
  BY DEF RemindersTypeOK, ChangeReminders
<1>4. CASE w.hour # wanted[c].hour
  <2>1. tellings' = [tellings EXCEPT !.rehoured = @ \cup {c}]
    BY <1>1, <1>4
  <2> QED BY <1>2, <1>3, <2>1, RehoursIs
<1>5. CASE w.hour = wanted[c].hour
  <2>1. tellings' = tellings
    BY <1>1, <1>5
  <2> QED BY <1>2, <1>3, <1>5, <2>1 DEF Grows, SameTold
<1> QED BY <1>4, <1>5

LEMMA StartRoundIs ==
  ASSUME RemindersTypeOK, StartRound
  PROVE  /\ ticker' \in Ticker /\ ticker'.tick = NoMinute /\ ticker'.last = ticker.last
         /\ ticker'.alive = ticker.alive /\ ticker'.regular = ticker.regular
         /\ round' \in Round /\ round'.step = "tenant" /\ round'.at = ticker.tick
         /\ round'.left = Companies /\ round'.of = "nobody" /\ round'.todo = <<>>
<1>1. ticker.tick \in Clock /\ ticker \in Ticker
  BY DEF StartRound, RemindersTypeOK, Ticker
<1>2. ticker' = [ticker EXCEPT !.tick = NoMinute]
  BY DEF StartRound
<1>3. round' = [step |-> "tenant", at |-> ticker.tick, left |-> Companies, of |-> "nobody", todo |-> <<>>]
  BY DEF StartRound, NoRound
<1>4. round' \in Round
  BY <1>1, <1>3 DEF Round
<1> QED BY <1>1, <1>2, <1>3, <1>4, TickIs

LEMMA NextTenantIs ==
  ASSUME RemindersTypeOK, NextTenant
  PROVE  /\ round' \in Round /\ round.step = "tenant"
         /\ \/ round.left = {} /\ round' = NoRound
            \/ \E c \in round.left :
                 /\ c \in Companies /\ round'.step = "settings" /\ round'.of = c /\ round'.at = round.at
                 /\ round'.left = round.left \ {c} /\ round'.todo = KindsOf[loop]
<1>1. CASE round.left = {}
  <2>1. round' = NoRound /\ round.step = "tenant"
    BY <1>1 DEF NextTenant
  <2> QED BY <1>1, <2>1, NoRoundIs
<1>2. CASE round.left # {}
  <2>1. PICK c \in round.left : round' = [round EXCEPT !.step = "settings", !.of = c, !.left = round.left \ {c},
                                                       !.todo = KindsOf[loop]]
    BY <1>2 DEF NextTenant
  <2>2. KindsOf[loop] \in {<<>>} \cup {<<k>> : k \in ReminderKind} \cup {<<"review", "payment">>}
    BY KindsAre DEF RemindersTypeOK
  <2>3. round \in Round /\ round.step = "tenant"
    BY DEF NextTenant, RemindersTypeOK
  <2>4. PICK todo : todo = KindsOf[loop]
    OBVIOUS
  <2>5. PICK rest : rest = round.left \ {c}
    OBVIOUS
  <2>6. c \in Companies /\ rest \subseteq Companies
    BY <2>3, <2>5 DEF Round
  <2>7. /\ round' \in Round /\ round'.step = "settings" /\ round'.of = c /\ round'.at = round.at
        /\ round'.left = rest /\ round'.todo = todo
    <3>1. round' = [round EXCEPT !.step = "settings", !.of = c, !.left = rest, !.todo = todo]
      BY <2>1, <2>4, <2>5
    <3>2. todo \in {<<>>} \cup {<<k>> : k \in ReminderKind} \cup {<<"review", "payment">>}
      BY <2>2, <2>4
    <3> QED BY ONLY <2>3, <2>6, <3>1, <3>2 DEF Round
  <2> QED BY <2>3, <2>4, <2>5, <2>6, <2>7
<1> QED BY <1>1, <1>2

-----------------------------------------------------------------------------
(* Types, and where the loop is. *)

LEMMA ReminderTypesKept ==
  ASSUME RemindersTypeOK, RoundInv, RemindersNext
  PROVE  RemindersTypeOK'
<1>1. /\ loop \in Loops /\ now \in Clock /\ ticker \in Ticker /\ round \in Round
      /\ wanted \in [Companies -> Wanted] /\ lastRuns \in [Companies -> [ReminderKind -> Clock \cup {NoMinute}]]
      /\ notices \subseteq Companies \X Clock /\ tellings \in Tellings
  BY DEF RemindersTypeOK
<1>2. CASE MinutePasses
  <2>1. now' \in Clock
    BY <1>1, <1>2, SlotsAre DEF MinutePasses, Clock
  <2> QED BY <1>1, <1>2, <2>1 DEF MinutePasses, RemindersTypeOK
<1>3. CASE TickComes
  BY <1>1, <1>3, TickComesIs, TicksOwe DEF TickComes, RemindersTypeOK
<1>4. CASE TickComesAgain
  <2>1. ticker' \in Ticker
    BY <1>1, <1>4, TickIs DEF TickComesAgain
  <2> QED BY <1>1, <1>4, <2>1, TicksOwe DEF TickComesAgain, RemindersTypeOK
<1>5. CASE StartRound
  BY <1>1, <1>5, StartRoundIs DEF StartRound, RemindersTypeOK
<1>6. CASE NextTenant
  BY <1>1, <1>6, NextTenantIs DEF NextTenant, RemindersTypeOK
<1>7. CASE ReadSettings
  BY <1>1, <1>7, ReadSettingsIs DEF ReadSettings, RemindersTypeOK
<1>8. CASE FindRecipients
  BY <1>1, <1>8, FindRecipientsIs DEF FindRecipients, RemindersTypeOK
<1>9. CASE NotifyInApp
  BY <1>1, <1>9, NotifyInAppIs DEF NotifyInApp, RemindersTypeOK
<1>10. CASE NoticeFails
  BY <1>1, <1>10, NoticeFailsIs DEF NoticeFails, RemindersTypeOK
<1>11. CASE SendOut
  BY <1>1, <1>11, SendOutIs DEF SendOut, RemindersTypeOK
<1>12. CASE DispatchFails
  BY <1>1, <1>12, DispatchFailsIs DEF DispatchFails, RemindersTypeOK
<1>13. CASE JobFails
  BY <1>1, <1>13, JobFailsIs DEF JobFails, RemindersTypeOK
<1>14. CASE JobPanics
  BY <1>1, <1>14, JobPanicsIs, PanicIs DEF JobPanics, RemindersTypeOK
<1>15. CASE RestartReminders
  <2>1. NoRuns \in [Companies -> [ReminderKind -> Clock \cup {NoMinute}]]
    BY DEF NoRuns
  <2>2. ticker' \in Ticker
    BY <1>1, <1>15, TickerAtIs DEF RestartReminders
  <2>3. round' \in Round /\ tellings' \in Tellings
    BY <1>15, NoRoundIs, RestartsOwe DEF RestartReminders
  <2> QED BY <1>1, <1>15, <2>1, <2>2, <2>3 DEF RestartReminders, RemindersTypeOK
<1>16. ASSUME NEW c \in Companies, ChangeReminders(c)
       PROVE  RemindersTypeOK'
  BY <1>1, <1>16, ChangeRemindersIs DEF ChangeReminders, RemindersTypeOK
<1>17. ASSUME NEW c \in Companies, SendTestReminder(c)
       PROVE  RemindersTypeOK'
  BY <1>1, <1>17 DEF SendTestReminder, RemindersTypeOK
<1> QED BY <1>2, <1>3, <1>4, <1>5, <1>6, <1>7, <1>8, <1>9, <1>10, <1>11, <1>12, <1>13, <1>14, <1>15,
           <1>16, <1>17 DEF RemindersNext

LEMMA KindsStay == loop' = loop => KindsOfLoop' = KindsOfLoop /\ Immediate' = Immediate
  BY DEF KindsOfLoop, Immediate

LEMMA RoundKept ==
  ASSUME RemindersTypeOK, RoundInv, RemindersNext
  PROVE  RoundInv'
<1>1. loop' = loop /\ KindsOfLoop' = KindsOfLoop
  <2>1. loop' = loop
    BY DEF RemindersNext, MinutePasses, TickComes, TickComesAgain, StartRound, NextTenant, ReadSettings,
           FindRecipients, NotifyInApp, NoticeFails, SendOut, DispatchFails, JobFails, JobPanics,
           RestartReminders, ChangeReminders, SendTestReminder
  <2> QED BY <2>1, KindsStay
<1>2. \A d \in tellings.owed : d[2] \in KindsOfLoop
  BY DEF RoundInv
<1>3. loop \in Loops
  BY DEF RemindersTypeOK
(* The run that goes on keeps its kinds. *)
<1>4. ASSUME GoesOn, AtJob, tellings'.owed = tellings.owed
      PROVE  RoundInv'
  <2>1. round'.step # "idle" /\ round'.step # "notify"
    BY <1>4 DEF GoesOn
  <2>2. round'.step = "tenant" => round'.of = "nobody" /\ round'.todo = <<>>
    BY <1>4 DEF GoesOn
  <2>3. AtJob' => round'.of \in Companies /\ round'.todo # <<>>
    BY <1>4 DEF GoesOn, AtJob, RoundInv
  <2>4. \A k : ToDo(k)' => k \in KindsOfLoop'
    BY <1>1, <1>4, DuesAre DEF GoesOn
  <2>5. \A n \in DOMAIN round'.todo : round'.todo[n] \in KindsOfLoop'
    BY <2>4 DEF ToDo
  <2> QED BY <1>1, <1>2, <1>4, <2>1, <2>2, <2>3, <2>5 DEF RoundInv
<1>5. ASSUME SameJob, AtJob, round'.step \in {"find", "notify", "send"}, tellings'.owed = tellings.owed,
             round'.step = "notify" => Kind \in {"tracker", "review", "payment"}
      PROVE  RoundInv'
  <2>1. Kind' = Kind
    BY <1>5 DEF SameJob, Kind
  <2> QED BY <1>1, <1>2, <1>5, <2>1 DEF SameJob, RoundInv, AtJob
<1>6. ASSUME round' = NoRound, \A d \in tellings'.owed : d[2] \in KindsOfLoop
      PROVE  RoundInv'
  BY <1>1, <1>6, NoRoundIs DEF RoundInv
<1>7. ASSUME UNCHANGED round, \A d \in tellings'.owed : d[2] \in KindsOfLoop
      PROVE  RoundInv'
  BY <1>1, <1>7 DEF RoundInv, AtJob, Kind
<1>8. CASE MinutePasses
  BY <1>2, <1>7, <1>8 DEF MinutePasses
<1>9. CASE TickComes \/ TickComesAgain
  <2>1. UNCHANGED round
    BY <1>9 DEF TickComes, TickComesAgain
  <2>2. \A d \in tellings'.owed : d[2] \in KindsOfLoop
    BY <1>2, <1>3, <1>9, TicksOwe, OwedIs
  <2> QED BY <1>7, <2>1, <2>2
<1>10. CASE StartRound
  <2>1. tellings' = tellings
    BY <1>10 DEF StartRound
  <2> QED BY <1>1, <1>2, <1>10, <2>1, StartRoundIs DEF RoundInv, AtJob
<1>11. CASE NextTenant
  <2>1. tellings' = tellings
    BY <1>11 DEF NextTenant
  <2>2. CASE round' = NoRound
    BY <1>2, <1>6, <2>1, <2>2
  <2>3. CASE round' # NoRound
    <3>1. round'.step = "settings" /\ round'.of \in Companies /\ round'.todo = KindsOf[loop]
      BY <1>11, <2>3, NextTenantIs
    <3>2. \A n \in DOMAIN KindsOf[loop] : KindsOf[loop][n] \in KindsOfLoop
      BY <1>3, KindsAre
    <3>3. KindsOf[loop] # <<>>
      BY <1>3, KindsAre
    <3> QED BY <1>1, <1>2, <2>1, <3>1, <3>2, <3>3 DEF RoundInv
  <2> QED BY <2>2, <2>3
<1>12. CASE ReadSettings
  BY <1>4, <1>5, <1>12, ReadSettingsIs DEF Claims, Passes, Excuses
<1>13. CASE FindRecipients
  BY <1>4, <1>5, <1>13, FindRecipientsIs DEF Finds, Excuses, HasClaimed, AtJob
<1>14. CASE NotifyInApp
  BY <1>5, <1>14, NotifyInAppIs DEF Tells, HasClaimed, AtJob
<1>15. CASE NoticeFails
  BY <1>5, <1>15, NoticeFailsIs DEF HasClaimed, AtJob
<1>16. CASE SendOut
  BY <1>4, <1>16, SendOutIs DEF Tells, HasClaimed, AtJob
<1>17. CASE DispatchFails
  BY <1>4, <1>17, DispatchFailsIs DEF Excuses, HasClaimed, AtJob
<1>18. CASE JobFails
  BY <1>2, <1>6, <1>18, JobFailsIs DEF GivesUp
<1>19. CASE JobPanics
  BY <1>2, <1>6, <1>19, JobPanicsIs DEF GivesUp
<1>20. CASE RestartReminders
  <2>1. round' = NoRound
    BY <1>20 DEF RestartReminders
  <2>2. \A d \in tellings'.owed : d[2] \in KindsOfLoop
    BY <1>2, <1>3, <1>20, RestartsOwe, OwedIs
  <2> QED BY <1>6, <2>1, <2>2
<1>21. ASSUME NEW c \in Companies, ChangeReminders(c)
       PROVE  RoundInv'
  <2>1. UNCHANGED round
    BY <1>21 DEF ChangeReminders
  <2> QED BY <1>2, <1>7, <1>21, <2>1, ChangeRemindersIs
<1>22. ASSUME NEW c \in Companies, SendTestReminder(c)
       PROVE  RoundInv'
  BY <1>2, <1>7, <1>22 DEF SendTestReminder
<1> QED BY <1>8, <1>9, <1>10, <1>11, <1>12, <1>13, <1>14, <1>15, <1>16, <1>17, <1>18, <1>19, <1>20,
           <1>21, <1>22 DEF RemindersNext

(* Ticks in order. *)

LEMMA SlotsGrow ==
  ASSUME NEW k, NEW m \in Nat, NEW n \in Nat, m <= n
  PROVE  ReminderSlot(k, m) \in Nat /\ ReminderSlot(k, n) \in Nat /\ ReminderSlot(k, m) <= ReminderSlot(k, n)
  BY SlotsAre DEF ReminderSlot

LEMMA ClockTypes ==
  ASSUME RemindersTypeOK
  PROVE  /\ now \in Nat /\ ticker.last \in Nat /\ round.at \in Nat /\ NoMinute = -1
         /\ ticker.tick \in Nat \cup {NoMinute} /\ (ticker.tick # NoMinute => ticker.tick \in Nat)
         /\ \A c \in Companies, k \in ReminderKind : lastRuns[c][k] \in Nat \cup {NoMinute}
<1>1. Clock \subseteq Nat
  BY DEF Clock
<1>2. now \in Clock /\ ticker.last \in Clock /\ round.at \in Clock /\ ticker.tick \in Clock \cup {NoMinute}
  BY DEF RemindersTypeOK, Ticker, Round
<1>3. \A c \in Companies, k \in ReminderKind : lastRuns[c][k] \in Clock \cup {NoMinute}
  BY DEF RemindersTypeOK
<1> QED BY <1>1, <1>2, <1>3, SlotsAre

(* What a run of the past comes before. *)
Behind(run, k) ==
    /\ run <= ReminderSlot(k, ticker.last)
    /\ Active => run <= ReminderSlot(k, round.at)
    /\ ticker.tick # NoMinute => run <= ReminderSlot(k, ticker.tick)
    /\ ~Immediate => ticker.last > 0

RunsBehind ==
    \A c \in Companies, k \in ReminderKind \ {"tracker"} :
      lastRuns[c][k] # NoMinute => Behind(lastRuns[c][k], k)

TicksInOrder ==
    /\ ticker.last <= now /\ (ticker.regular => ticker.last > 0)
    /\ ticker.tick # NoMinute => ticker.tick <= ticker.last
    /\ Active => round.at <= ticker.last /\ (ticker.tick # NoMinute => round.at <= ticker.tick)
    /\ ~ticker.alive => ticker.tick = NoMinute /\ ~Active
    /\ ~Immediate => (ticker.tick # NoMinute => ticker.tick > 0) /\ (Active => round.at > 0)

LEMMA ClockInvIs == ClockInv <=> TicksInOrder /\ RunsBehind
  BY DEF ClockInv, TicksInOrder, RunsBehind, Behind

(* The steps of the job leave the ticker alone, and what they go on with is of the   *)
(* same minute.                                                                 *)
AsideTicker == UNCHANGED <<loop, now, ticker>> /\ (Active' => Active /\ round'.at = round.at)

LEMMA TicksAside ==
  ASSUME TicksInOrder, AsideTicker
  PROVE  TicksInOrder' /\ \A run, k : Behind(run, k) => Behind(run, k)'
<1>1. Immediate' = Immediate
  BY KindsStay DEF AsideTicker
<1> QED BY <1>1 DEF TicksInOrder, AsideTicker, Behind

LEMMA JobsAside ==
  ASSUME RemindersTypeOK, RoundInv,
         ReadSettings \/ FindRecipients \/ NotifyInApp \/ NoticeFails \/ SendOut \/ DispatchFails
  PROVE  /\ AsideTicker /\ UNCHANGED wanted /\ round'.at = round.at /\ Active /\ AtJob
         /\ ~ReadSettings => lastRuns' = lastRuns /\ HasClaimed
<1>1. UNCHANGED <<loop, now, ticker, wanted>> /\ (~ReadSettings => lastRuns' = lastRuns)
  BY DEF ReadSettings, FindRecipients, NotifyInApp, NoticeFails, SendOut, DispatchFails
<1>2. round'.at = round.at
  BY ReadSettingsIs, FindRecipientsIs, NotifyInAppIs, NoticeFailsIs, SendOutIs, DispatchFailsIs
  DEF Claims, Passes, Excuses, Finds, SameJob, GoesOn
<1>3. Active /\ AtJob /\ (~ReadSettings => HasClaimed)
  BY DEF ReadSettings, FindRecipients, NotifyInApp, NoticeFails, SendOut, DispatchFails, Active, AtJob, HasClaimed
<1> QED BY <1>1, <1>2, <1>3 DEF AsideTicker

LEMMA TicksKept ==
  ASSUME RemindersTypeOK, RoundInv, TicksInOrder, RemindersNext
  PROVE  TicksInOrder'
<1> USE ClockTypes
<1>1. CASE MinutePasses
  <2>1. Immediate' = Immediate
    BY <1>1, KindsStay DEF MinutePasses
  <2> QED BY <1>1, <2>1 DEF MinutePasses, TicksInOrder, Active
<1>2. CASE TickComes
  <2>1. Immediate' = Immediate /\ now' = now /\ round' = round /\ ticker.alive
    BY <1>2, KindsStay DEF TickComes
  <2>2. now # ticker.last
    BY <1>2 DEF TickComes
  <2>3. /\ ticker'.last = now /\ ticker'.alive /\ now > 0 /\ ticker.last < now
        /\ ticker.tick = NoMinute => ticker'.tick = now
        /\ ticker.tick # NoMinute => ticker'.tick = ticker.tick
    <3>1. now > 0 /\ ticker.last < now
      BY <2>2 DEF TicksInOrder
    <3>2. ticker'.alive
      BY <1>2, <2>1, TickComesIs, Zenon
    <3> QED BY <1>2, <3>1, <3>2, TickComesIs
  <2>4. CASE ticker.tick = NoMinute
    BY <2>1, <2>3, <2>4 DEF TicksInOrder, Active
  <2>5. CASE ticker.tick # NoMinute
    BY <2>1, <2>3, <2>5 DEF TicksInOrder, Active
  <2> QED BY <2>4, <2>5
<1>3. CASE TickComesAgain
  <2>1. Immediate' = Immediate /\ now' = now /\ round' = round /\ ticker.alive /\ ticker.last = now
    BY <1>3, KindsStay DEF TickComesAgain
  <2>2. /\ ticker'.tick = now /\ ticker'.last = ticker.last /\ ticker'.alive = ticker.alive
        /\ ticker'.regular = ticker.regular
    BY <1>3, TickIs DEF TickComesAgain, RemindersTypeOK
  <2>3. ~Immediate => now > 0
    BY <1>3 DEF TickComesAgain, TicksInOrder
  <2> QED BY <1>3, <2>1, <2>2, <2>3 DEF TicksInOrder, Active
<1>4. CASE StartRound
  <2>1. Immediate' = Immediate /\ now' = now /\ ticker.alive /\ ticker.tick # NoMinute
    BY <1>4, KindsStay DEF StartRound
  <2> QED BY <1>4, <2>1, StartRoundIs DEF TicksInOrder, Active
<1>5. CASE NextTenant
  <2>1. AsideTicker
    BY <1>5, NextTenantIs, NoRoundIs DEF NextTenant, AsideTicker, Active
  <2> QED BY <2>1, TicksAside
<1>6. CASE ReadSettings \/ FindRecipients \/ NotifyInApp \/ NoticeFails \/ SendOut \/ DispatchFails
  BY <1>6, JobsAside, TicksAside
<1>7. CASE JobFails
  <2>1. AsideTicker
    BY <1>7, JobFailsIs, NoRoundIs DEF JobFails, AsideTicker, GivesUp
  <2> QED BY <2>1, TicksAside
<1>8. CASE JobPanics
  <2>1. Immediate' = Immediate /\ now' = now /\ ~Active'
    BY <1>8, KindsStay, JobPanicsIs, NoRoundIs DEF JobPanics, GivesUp
  <2> QED BY <1>8, <2>1, PanicIs DEF TicksInOrder, RemindersTypeOK
<1>9. CASE RestartReminders
  <2>1. Immediate' = Immediate /\ now' = now /\ ~Active' /\ ticker' = TickerAt(now)
    BY <1>9, KindsStay, NoRoundIs DEF RestartReminders
  <2>2. now \in Clock
    BY DEF RemindersTypeOK
  <2>3. ticker'.last = now /\ ticker'.alive /\ ~ticker'.regular /\ (Immediate => ticker'.tick = now) /\ (~Immediate => ticker'.tick = NoMinute)
    BY <2>1, <2>2, TickerAtIs
  <2> QED BY <2>1, <2>3 DEF TicksInOrder
<1>10. ASSUME NEW c \in Companies, ChangeReminders(c) \/ SendTestReminder(c)
       PROVE  TicksInOrder'
  <2>1. AsideTicker
    BY <1>10 DEF ChangeReminders, SendTestReminder, AsideTicker, Active
  <2> QED BY <2>1, TicksAside
<1> QED BY <1>1, <1>2, <1>3, <1>4, <1>5, <1>6, <1>7, <1>8, <1>9, <1>10 DEF RemindersNext

LEMMA RunsStayBehind ==
  ASSUME RemindersTypeOK, RoundInv, ClockInv, RemindersNext
  PROVE  RunsBehind'
<1> USE ClockTypes
<1>1. TicksInOrder /\ RunsBehind
  BY ClockInvIs
(* Runs that are as they were stay behind. *)
<1>2. ASSUME lastRuns' = lastRuns, \A run \in Nat, k \in ReminderKind : Behind(run, k) => Behind(run, k)'
      PROVE  RunsBehind'
  BY <1>1, <1>2 DEF RunsBehind
<1>3. CASE MinutePasses
  <2>1. Immediate' = Immediate
    BY <1>3, KindsStay DEF MinutePasses
  <2> QED BY <1>2, <1>3, <2>1 DEF MinutePasses, Behind, Active
<1>4. CASE TickComes \/ TickComesAgain
  <2>1. Immediate' = Immediate /\ now' = now /\ round' = round /\ lastRuns' = lastRuns
    BY <1>4, KindsStay DEF TickComes, TickComesAgain
  <2>2. ticker'.last = now \/ ticker'.last = ticker.last
    BY <1>4, TickComesIs, TickIs DEF TickComesAgain, RemindersTypeOK
  <2>3. ticker'.tick = now \/ ticker'.tick = ticker.tick
    <3>1. CASE TickComes
      BY <3>1, TickComesIs, Zenon
    <3>2. CASE TickComesAgain
      BY <3>2, TickIs DEF TickComesAgain, RemindersTypeOK
    <3> QED BY <1>4, <3>1, <3>2
  <2>4. ticker.last <= now /\ ticker'.last >= ticker.last /\ ticker'.last \in Nat
    BY <1>1, <2>2 DEF TicksInOrder
  <2>5. \A k : ReminderSlot(k, ticker.last) <= ReminderSlot(k, ticker'.last)
               /\ ReminderSlot(k, ticker.last) <= ReminderSlot(k, now)
               /\ ReminderSlot(k, ticker.last) \in Nat /\ ReminderSlot(k, ticker'.last) \in Nat
               /\ ReminderSlot(k, now) \in Nat
    BY <2>4, SlotsGrow
  <2>6. ASSUME NEW run \in Nat, NEW k \in ReminderKind, Behind(run, k)
        PROVE  Behind(run, k)'
    <3>1. run <= ReminderSlot(k, ticker'.last) /\ run <= ReminderSlot(k, now)
      BY <2>5, <2>6 DEF Behind
    <3>2. ~Immediate' => ticker'.last > 0
      BY <2>1, <2>4, <2>6 DEF Behind
    <3>3. ticker'.tick # NoMinute => run <= ReminderSlot(k, ticker'.tick)
      <4>1. CASE ticker'.tick = now
        BY <3>1, <4>1
      <4>2. CASE ticker'.tick = ticker.tick
        BY <2>6, <4>2 DEF Behind
      <4> QED BY <2>3, <4>1, <4>2
    <3>4. Active' => run <= ReminderSlot(k, round'.at)
      BY <2>1, <2>6 DEF Behind, Active
    <3> QED BY <3>1, <3>2, <3>3, <3>4 DEF Behind, ReminderSlot, MinutesOfDay
  <2> QED BY <1>2, <2>1, <2>6
<1>5. CASE StartRound
  <2>1. Immediate' = Immediate /\ lastRuns' = lastRuns
    BY <1>5, KindsStay DEF StartRound
  <2>2. ticker.tick # NoMinute
    BY <1>5 DEF StartRound
  <2> QED BY <1>2, <1>5, <2>1, <2>2, StartRoundIs DEF Behind, ReminderSlot, MinutesOfDay
<1>6. CASE AsideTicker /\ lastRuns' = lastRuns
  BY <1>1, <1>2, <1>6, TicksAside
<1>7. CASE NextTenant
  <2>1. AsideTicker /\ lastRuns' = lastRuns
    BY <1>7, NextTenantIs, NoRoundIs DEF NextTenant, AsideTicker, Active
  <2> QED BY <1>6, <2>1
<1>8. CASE ReadSettings
  <2>1. AsideTicker /\ Active /\ AtJob
    BY <1>8, JobsAside
  <2>2. CASE lastRuns' = lastRuns
    BY <1>6, <2>1, <2>2
  <2>3. CASE Claims
    <3>1. Behind(ReminderSlot(Kind, round.at), Kind)
      <4>1. /\ round.at <= ticker.last /\ (ticker.tick # NoMinute => round.at <= ticker.tick)
            /\ ~Immediate => round.at > 0
        BY <1>1, <2>1 DEF TicksInOrder
      <4>2. ReminderSlot(Kind, round.at) \in Nat
        BY SlotsGrow
      <4>3. ReminderSlot(Kind, round.at) <= ReminderSlot(Kind, ticker.last)
        BY <4>1, SlotsGrow
      <4>4. ticker.tick # NoMinute => ReminderSlot(Kind, round.at) <= ReminderSlot(Kind, ticker.tick)
        BY <4>1, SlotsGrow
      <4>5. ~Immediate => ticker.last > 0
        BY <4>1
      <4> QED BY <4>2, <4>3, <4>4, <4>5 DEF Behind
    <3>2. \A run, k : Behind(run, k) => Behind(run, k)'
      BY <1>1, <2>1, TicksAside
    <3>3. \A c \in Companies, k \in ReminderKind : c # Company \/ k # Kind => lastRuns'[c][k] = lastRuns[c][k]
      BY <2>3 DEF Claims
    <3>4. lastRuns'[Company][Kind] = ReminderSlot(Kind, round.at)
      BY <2>3 DEF Claims
    <3> QED BY <1>1, <3>1, <3>2, <3>3, <3>4 DEF RunsBehind
  <2> QED BY <1>8, <2>2, <2>3, ReadSettingsIs DEF Passes
<1>9. CASE FindRecipients \/ NotifyInApp \/ NoticeFails \/ SendOut \/ DispatchFails
  <2>1. AsideTicker
    BY <1>9, JobsAside
  <2>2. lastRuns' = lastRuns
    BY <1>9 DEF FindRecipients, NotifyInApp, NoticeFails, SendOut, DispatchFails
  <2> QED BY <1>6, <2>1, <2>2
<1>10. CASE JobFails
  <2>1. AsideTicker /\ lastRuns' = lastRuns
    BY <1>10, JobFailsIs, NoRoundIs DEF JobFails, AsideTicker, GivesUp
  <2> QED BY <1>6, <2>1
<1>11. CASE JobPanics
  <2>1. Immediate' = Immediate /\ ~Active' /\ lastRuns' = lastRuns
    BY <1>11, KindsStay, JobPanicsIs, NoRoundIs DEF JobPanics, GivesUp
  <2>2. ticker'.tick = NoMinute /\ ticker'.last = ticker.last
    BY <1>11, PanicIs DEF RemindersTypeOK
  <2> QED BY <1>2, <2>1, <2>2 DEF Behind, ReminderSlot, MinutesOfDay
<1>12. CASE RestartReminders
  <2>1. \A c \in Companies, k \in ReminderKind : lastRuns'[c][k] = NoMinute
    BY <1>12 DEF RestartReminders, NoRuns
  <2> QED BY <2>1 DEF RunsBehind
<1>13. ASSUME NEW c \in Companies, ChangeReminders(c) \/ SendTestReminder(c)
       PROVE  RunsBehind'
  <2>1. AsideTicker /\ lastRuns' = lastRuns
    BY <1>13 DEF ChangeReminders, SendTestReminder, AsideTicker, Active
  <2> QED BY <1>6, <2>1
<1> QED BY <1>3, <1>4, <1>5, <1>7, <1>8, <1>9, <1>10, <1>11, <1>12, <1>13 DEF RemindersNext

LEMMA ClockKept ==
  ASSUME RemindersTypeOK, RoundInv, ClockInv, RemindersNext
  PROVE  ClockInv'
<1>1. TicksInOrder'
  BY ClockInvIs, TicksKept
<1>2. RunsBehind'
  BY RunsStayBehind
<1> QED BY <1>1, <1>2 DEF ClockInv, TicksInOrder, RunsBehind, Behind

(* What is over stays over: no step brings a tick of an earlier minute.             *)
LEMMA OverStays ==
  ASSUME RemindersTypeOK, RoundInv, ClockInv, RemindersNext, NEW m \in Nat, Over(m)
  PROVE  Over(m)'
<1> USE ClockTypes
<1>1. TicksInOrder /\ Immediate' = Immediate
  <2>1. loop' = loop
    BY DEF RemindersNext, MinutePasses, TickComes, TickComesAgain, StartRound, NextTenant, ReadSettings,
           FindRecipients, NotifyInApp, NoticeFails, SendOut, DispatchFails, JobFails, JobPanics,
           RestartReminders, ChangeReminders, SendTestReminder
  <2> QED BY <2>1, KindsStay, ClockInvIs
<1>2. CASE MinutePasses
  BY <1>1, <1>2 DEF MinutePasses, Over, Active
<1>3. CASE TickComes
  <2>1. now' = now /\ round' = round /\ now # ticker.last
    BY <1>3 DEF TickComes
  <2>2. now > m
    BY <1>1, <2>1 DEF Over, TicksInOrder
  <2>3. /\ ticker'.last = now
        /\ ticker.tick = NoMinute => ticker'.tick = now
        /\ ticker.tick # NoMinute => ticker'.tick = ticker.tick
    BY <1>3, TickComesIs
  <2>4. CASE ticker.tick = NoMinute
    BY <1>1, <2>1, <2>2, <2>3, <2>4 DEF Over, Active
  <2>5. CASE ticker.tick # NoMinute
    BY <1>1, <2>1, <2>2, <2>3, <2>5 DEF Over, Active
  <2> QED BY <2>4, <2>5
<1>4. CASE TickComesAgain
  <2>1. now' = now /\ round' = round /\ now = ticker.last /\ ticker.regular
    BY <1>4 DEF TickComesAgain
  <2>2. now > m
    BY <2>1 DEF Over
  <2>3. ticker'.last = now /\ ticker'.tick = now
    BY <1>4, <2>1, TickIs DEF TickComesAgain, RemindersTypeOK
  <2> QED BY <1>1, <2>1, <2>2, <2>3 DEF Over, Active
<1>5. CASE StartRound
  <2>1. now' = now /\ ticker.tick # NoMinute
    BY <1>5 DEF StartRound
  <2>2. /\ ticker'.tick = NoMinute /\ ticker'.last = ticker.last /\ round'.at = ticker.tick
        /\ ticker'.regular = ticker.regular
    BY <1>5, StartRoundIs
  <2> QED BY <1>1, <2>1, <2>2 DEF Over
<1>6. CASE AsideTicker
  BY <1>1, <1>6 DEF Over, AsideTicker
<1>7. CASE NextTenant
  <2>1. AsideTicker
    BY <1>7, NextTenantIs, NoRoundIs DEF NextTenant, AsideTicker, Active
  <2> QED BY <1>6, <2>1
<1>8. CASE ReadSettings \/ FindRecipients \/ NotifyInApp \/ NoticeFails \/ SendOut \/ DispatchFails
  BY <1>6, <1>8, JobsAside
<1>9. CASE JobFails
  <2>1. AsideTicker
    BY <1>9, JobFailsIs, NoRoundIs DEF JobFails, AsideTicker, GivesUp
  <2> QED BY <1>6, <2>1
<1>10. CASE JobPanics
  <2>1. now' = now /\ ~Active'
    BY <1>10, JobPanicsIs, NoRoundIs DEF JobPanics, GivesUp
  <2>2. ticker'.tick = NoMinute /\ ticker'.last = ticker.last /\ ticker'.regular = ticker.regular
    BY <1>10, PanicIs DEF RemindersTypeOK
  <2> QED BY <1>1, <2>1, <2>2 DEF Over
<1>11. CASE RestartReminders
  <2>1. now' = now /\ ~Active' /\ ticker' = TickerAt(now)
    BY <1>11, NoRoundIs DEF RestartReminders
  <2>2. now \in Clock
    BY DEF RemindersTypeOK
  <2>3. /\ ticker'.last = now /\ ~ticker'.regular
        /\ (Immediate => ticker'.tick = now) /\ (~Immediate => ticker'.tick = NoMinute)
    BY <2>1, <2>2, TickerAtIs
  <2> QED BY <1>1, <2>1, <2>3 DEF Over, TicksInOrder
<1>12. ASSUME NEW c \in Companies, ChangeReminders(c) \/ SendTestReminder(c)
       PROVE  Over(m)'
  <2>1. AsideTicker
    BY <1>12 DEF ChangeReminders, SendTestReminder, AsideTicker, Active
  <2> QED BY <1>6, <2>1
<1> QED BY <1>2, <1>3, <1>4, <1>5, <1>7, <1>8, <1>9, <1>10, <1>11, <1>12 DEF RemindersNext

-----------------------------------------------------------------------------
(* What was told. *)

LEMMA MessageIs ==
  ASSUME NEW x \in Message
  PROVE  /\ x[1] \in Companies /\ x[2] \in ReminderKind /\ x[3] \in Clock /\ x[3] \in Nat
         /\ x[4] \in {"inApp", "out"} /\ x = <<x[1], x[2], x[3], x[4]>>
  BY DEF Message, Clock

LEMMA MayRepeatStays ==
  ASSUME Grows, NEW x, MayRepeat(x)
  PROVE  MayRepeat(x)'
<1>1. CASE x[2] = "tracker"
  BY <1>1 DEF MayRepeat, Grows
<1>2. CASE x[2] = "digest"
  BY <1>2 DEF MayRepeat, Grows, MinutesOfDay
<1>3. CASE x[2] \notin {"tracker", "digest"}
  BY <1>3 DEF MayRepeat, Grows
<1> QED BY <1>1, <1>2, <1>3

LEMMA DigestDue ==
  ASSUME NEW c, NEW m
  PROVE  /\ IsDueAt("digest", c, m) <=> m % MinutesOfDay = wanted[c].hour * HourLength
         /\ \A k : ReminderSlot(k, m) = IF k = "digest" THEN m \div MinutesOfDay ELSE m
  BY DEF IsDueAt, ReminderSlot

LEMMA DoneStays ==
  ASSUME RemindersTypeOK, RoundInv, ClockInv, RemindersNext, Grows,
         NEW c \in Companies, NEW k \in ReminderKind \ {"tracker"}, NEW slot \in Nat,
         lastRuns[c][k] = slot => lastRuns'[c][k] = slot,
         k = "digest" => c \in tellings'.rehoured \/ wanted'[c].hour = wanted[c].hour,
         DoneWith(c, k, slot)
  PROVE  DoneWith(c, k, slot)'
<1>1. \A m \in Nat : Over(m) => Over(m)'
  BY OverStays
<1>2. CASE k = "digest"
  <2>1. Clock \subseteq Nat
    BY DEF Clock
  <2>2. RestartedOn(slot) => RestartedOn(slot)'
    BY DEF RestartedOn, Grows, MinutesOfDay
  <2>3. CASE lastRuns[c][k] = slot
    BY <1>2, <2>3 DEF DoneWith
  <2>4. CASE \A m \in Clock : m \div MinutesOfDay = slot => Over(m)
    <3>1. \A m \in Clock : m \div MinutesOfDay' = slot => Over(m)'
      BY <1>1, <2>1, <2>4 DEF MinutesOfDay
    <3> QED BY <1>2, <3>1 DEF DoneWith
  <2>5. CASE RestartedOn(slot) /\ (c \in tellings.rehoured \/ \A m \in DigestMinutes(c, slot) : Over(m))
    <3>1. c \notin tellings'.rehoured => \A m \in DigestMinutes(c, slot)' : m \in DigestMinutes(c, slot)
      BY <1>2 DEF DigestMinutes, IsDueAt, MinutesOfDay
    <3>2. c \notin tellings'.rehoured => \A m \in DigestMinutes(c, slot)' : Over(m)'
      BY <1>1, <2>1, <2>5, <3>1 DEF DigestMinutes, Grows
    <3> QED BY <1>2, <2>2, <2>5, <3>2 DEF DoneWith
  <2> QED BY <1>2, <2>3, <2>4, <2>5 DEF DoneWith
<1>3. CASE k # "digest"
  BY <1>1, <1>3 DEF DoneWith, Grows
<1> QED BY <1>2, <1>3

LEMMA EarlierIsOver ==
  ASSUME RemindersTypeOK, ClockInv, Active, NEW m \in Nat, m < round.at
  PROVE  Over(m)
  BY ClockTypes, ClockInvIs DEF TicksInOrder, Over

(* The minute or day that a run claims is the last that can be told again.           *)
LEMMA ClaimIsNew ==
  ASSUME RemindersTypeOK, RoundInv, ClockInv, AtJob, Kind # "tracker",
         IsDueAt(Kind, Company, round.at), ~HasRun(Company, Kind, round.at),
         NEW ch, DoneWith(Company, Kind, ReminderSlot(Kind, round.at))
  PROVE  MayRepeat(<<Company, Kind, ReminderSlot(Kind, round.at), ch>>)
<1>1. Active /\ round.at \in Clock /\ ~Over(round.at)
  BY DuesAre, ClockTypes DEF AtJob, Active, Over
<1>2. lastRuns[Company][Kind] # ReminderSlot(Kind, round.at)
  BY DEF HasRun, RunKey
<1>3. CASE Kind = "digest"
  <2>1. PICK d : d = ReminderSlot("digest", round.at) /\ d = round.at \div MinutesOfDay
    BY DEF ReminderSlot
  <2>2. round.at \in DigestMinutes(Company, d)
    BY <1>1, <1>3, <2>1 DEF DigestMinutes
  <2>3. ~(\A m \in Clock : m \div MinutesOfDay = d => Over(m))
    BY <1>1, <2>1
  <2>4. RestartedOn(d) /\ Company \in tellings.rehoured
    BY <1>1, <1>2, <1>3, <2>1, <2>2, <2>3 DEF DoneWith
  <2> QED BY <1>3, <2>1, <2>4 DEF MayRepeat, RestartedOn
<1>4. CASE Kind # "digest"
  <2>1. ReminderSlot(Kind, round.at) = round.at
    BY <1>4 DEF ReminderSlot
  <2>2. round.at \in tellings.started
    BY <1>1, <1>2, <1>4, <2>1 DEF DoneWith
  <2> QED BY <1>4, <2>1, <2>2 DEF MayRepeat
<1> QED BY <1>3, <1>4

(* What was told before a later run claims is over.                              *)
LEMMA ClaimEndsOthers ==
  ASSUME RemindersTypeOK, RoundInv, ClockInv, ReadSettings, AtJob, Kind # "tracker", Claims,
         NEW slot \in Nat, DoneWith(Company, Kind, slot)
  PROVE  DoneWith(Company, Kind, slot)'
<1>1. Active /\ Company \in Companies /\ Kind \in ReminderKind \ {"tracker"} /\ round.at \in Nat
  BY DuesAre, ClockTypes DEF AtJob, Active
<1>2. \A m \in Nat : Over(m) => Over(m)'
  BY OverStays DEF RemindersNext
<1>3. tellings' = tellings /\ wanted' = wanted /\ Grows
  BY DEF Claims, ReadSettings, Grows
<1>4. Company' = Company /\ Kind' = Kind
  BY DEF Claims, SameJob, Company, Kind
<1>5. PICK s \in Nat : s = ReminderSlot(Kind, round.at)
  BY <1>1, SlotsGrow
<1>6. CASE lastRuns[Company][Kind] = slot
  <2>1. slot < s
    <3>1. slot <= s
      <4>1. RunsBehind
        BY ClockInvIs
      <4>2. slot # NoMinute
        BY SlotsAre
      <4>3. Behind(slot, Kind)
        BY <1>1, <1>6, <4>1, <4>2 DEF RunsBehind
      <4> QED BY <1>1, <1>5, <4>3 DEF Behind
    <3>2. slot # s
      <4>1. ~HasRun(Company, Kind, round.at)
        BY DEF Claims
      <4> QED BY <1>5, <1>6, <4>1 DEF HasRun, RunKey
    <3> QED BY <3>1, <3>2
  <2>2. CASE Kind = "digest"
    <3>1. s = round.at \div MinutesOfDay
      BY <1>5, <2>2 DEF ReminderSlot
    <3>2. \A m \in Nat : m \div MinutesOfDay = slot => m < round.at
      BY <1>1, <2>1, <3>1, SlotsAre
    <3>3. \A m \in Nat : m \div MinutesOfDay = slot => Over(m)'
      BY <1>1, <1>2, <3>2, EarlierIsOver
    <3>4. \A m \in Clock : m \div MinutesOfDay' = slot => Over(m)'
      BY <3>3 DEF Clock, MinutesOfDay
    <3> QED BY <1>4, <2>2, <3>4 DEF DoneWith
  <2>3. CASE Kind # "digest"
    <3>1. slot < round.at
      BY <1>5, <2>1, <2>3 DEF ReminderSlot
    <3>2. Over(slot)'
      BY <1>1, <1>2, <3>1, EarlierIsOver
    <3> QED BY <1>4, <2>3, <3>2 DEF DoneWith
  <2> QED BY <2>2, <2>3
<1>7. CASE lastRuns[Company][Kind] # slot
  <2>1. PICK c \in Companies : c = Company
    BY <1>1
  <2>2. PICK k \in ReminderKind \ {"tracker"} : k = Kind
    BY <1>1
  <2>3. DoneWith(c, k, slot) /\ lastRuns[c][k] # slot /\ RemindersNext
    BY <1>7, <2>1, <2>2 DEF RemindersNext
  <2>4. DoneWith(c, k, slot)'
    BY <1>3, <2>3, DoneStays
  <2> QED BY <1>4, <2>1, <2>2, <2>4 DEF DoneWith
<1> QED BY <1>6, <1>7

(* A restart forgets the runs, of which the last may be of its minute or day.         *)
LEMMA RestartForgets ==
  ASSUME RemindersTypeOK, RoundInv, ClockInv, OnceInv, RestartReminders,
         NEW c \in Companies, NEW k \in KindsOfLoop \ {"tracker"}, NEW slot \in Nat, lastRuns[c][k] = slot
  PROVE  DoneWith(c, k, slot)'
<1> USE ClockTypes
<1>1. /\ now' = now /\ ~Active' /\ wanted' = wanted /\ Immediate' = Immediate
  BY NoRoundIs, KindsStay DEF RestartReminders
<1>2. /\ ticker'.last = now /\ ~ticker'.regular
      /\ (Immediate => ticker'.tick = now) /\ (~Immediate => ticker'.tick = NoMinute)
  <2>1. now \in Clock /\ ticker' = TickerAt(now)
    BY DEF RestartReminders, RemindersTypeOK
  <2> QED BY <2>1, TickerAtIs
<1>3. \A m \in Nat : m < now => Over(m)'
  BY <1>1, <1>2 DEF Over
<1>4. k \in ReminderKind /\ (k = "digest" <=> ~Immediate)
  BY KindsAre DEF RemindersTypeOK
<1>5. Behind(slot, k) /\ ticker.last <= now
  <2>1. RunsBehind /\ TicksInOrder
    BY ClockInvIs
  <2>2. slot # NoMinute
    BY SlotsAre
  <2> QED BY <1>4, <2>1, <2>2 DEF RunsBehind, TicksInOrder
<1>6. tellings'.started = tellings.started \cup {now} /\ Grows
  BY RestartsOwe
<1>7. CASE k = "digest"
  <2>1. ~Immediate /\ ticker.last > 0 /\ now > 0
    BY <1>4, <1>5, <1>7 DEF Behind
  <2>2. slot <= ReminderSlot("digest", now)
    BY <1>5, <1>7, SlotsGrow DEF Behind
  <2>3. PICK d \in Nat : d = now \div MinutesOfDay
    BY SlotsAre
  <2>4. slot <= d
    BY <2>2, <2>3 DEF ReminderSlot
  <2>5. CASE slot < d
    <3>1. \A m \in Nat : m \div MinutesOfDay = slot => m < now
      <4>1. \A m \in Nat : now <= m => d <= m \div MinutesOfDay
        BY <2>3, SlotsAre
      <4> QED BY <2>5, <4>1
    <3>2. \A m \in Clock : m \div MinutesOfDay' = slot => Over(m)'
      BY <1>3, <3>1 DEF Clock, MinutesOfDay
    <3> QED BY <1>7, <3>2 DEF DoneWith
  <2>6. CASE slot = d
    <3>1. RestartedOn(slot)'
      BY <1>6, <2>1, <2>3, <2>6 DEF RestartedOn, MinutesOfDay
    <3>2. DigestMinutes(c, slot)' = DigestMinutes(c, slot)
      BY <1>1 DEF DigestMinutes, IsDueAt, MinutesOfDay
    <3>3. ASSUME c \notin tellings'.rehoured, NEW m \in DigestMinutes(c, slot)
          PROVE  Over(m)'
      <4>1. slot # NoMinute /\ c \notin tellings.rehoured
        BY <1>6, <3>3, SlotsAre DEF Grows
      <4>2. ticker.last >= m /\ m \in Nat
        BY <1>7, <3>3, <4>1 DEF OnceInv, DigestMinutes, Clock
      <4> QED BY <1>1, <1>2, <1>5, <2>1, <4>2 DEF Over
    <3> QED BY <1>7, <3>1, <3>2, <3>3 DEF DoneWith
  <2> QED BY <2>4, <2>5, <2>6
<1>8. CASE k # "digest"
  <2>1. slot <= now
    BY <1>5, <1>8 DEF Behind, ReminderSlot
  <2> QED BY <1>3, <1>6, <1>8, <2>1 DEF DoneWith
<1> QED BY <1>7, <1>8

(* Of every step: the history grows, and only a message of the run adds to what was told; *)
(* an hour changes on record.                                                    *)
LEMMA StepsAre ==
  ASSUME RemindersTypeOK, RoundInv, RemindersNext
  PROVE  /\ Grows /\ (SameTold \/ NotifyInApp \/ SendOut)
         /\ \A c \in Companies : c \in tellings'.rehoured \/ wanted'[c].hour = wanted[c].hour
         /\ lastRuns' = lastRuns \/ (ReadSettings /\ Claims) \/ RestartReminders
         /\ notices \subseteq notices'
<1>1. CASE UNCHANGED <<wanted, notices, lastRuns, tellings>>
  BY <1>1 DEF Grows, SameTold
<1>2. CASE MinutePasses \/ StartRound \/ NextTenant
  BY <1>1, <1>2 DEF MinutePasses, StartRound, NextTenant
<1>3. CASE TickComes \/ TickComesAgain
  <2>1. UNCHANGED <<wanted, notices, lastRuns>>
    BY <1>3 DEF TickComes, TickComesAgain
  <2> QED BY <1>3, <2>1, TicksOwe
<1>4. CASE ReadSettings
  <2>1. UNCHANGED <<wanted, notices>>
    BY <1>4 DEF ReadSettings
  <2>2. (lastRuns' = lastRuns \/ Claims) /\ Grows /\ SameTold
    BY <1>4, ReadSettingsIs DEF Claims, Passes, Excuses, Grows, SameTold
  <2> QED BY <1>4, <2>1, <2>2
<1>5. CASE FindRecipients
  <2>1. UNCHANGED <<wanted, notices, lastRuns>>
    BY <1>5 DEF FindRecipients
  <2> QED BY <1>5, <2>1, FindRecipientsIs DEF Finds, Excuses
<1>6. CASE NotifyInApp
  <2>1. UNCHANGED <<wanted, lastRuns>>
    BY <1>6 DEF NotifyInApp
  <2> QED BY <1>6, <2>1, NotifyInAppIs DEF Tells
<1>7. CASE NoticeFails
  <2>1. UNCHANGED <<wanted, notices, lastRuns>>
    BY <1>7 DEF NoticeFails
  <2> QED BY <1>7, <2>1, NoticeFailsIs
<1>8. CASE SendOut
  <2>1. UNCHANGED <<wanted, notices, lastRuns>>
    BY <1>8 DEF SendOut
  <2> QED BY <1>8, <2>1, SendOutIs DEF Tells
<1>9. CASE DispatchFails
  <2>1. UNCHANGED <<wanted, notices, lastRuns>>
    BY <1>9 DEF DispatchFails
  <2> QED BY <1>9, <2>1, DispatchFailsIs DEF Excuses
<1>10. CASE JobFails
  <2>1. UNCHANGED <<wanted, notices, lastRuns>>
    BY <1>10 DEF JobFails
  <2> QED BY <1>10, <2>1, JobFailsIs DEF GivesUp
<1>11. CASE JobPanics
  <2>1. UNCHANGED <<wanted, notices, lastRuns>>
    BY <1>11 DEF JobPanics
  <2> QED BY <1>11, <2>1, JobPanicsIs DEF GivesUp
<1>12. CASE RestartReminders
  <2>1. UNCHANGED <<wanted, notices>>
    BY <1>12 DEF RestartReminders
  <2> QED BY <1>12, <2>1, RestartsOwe
<1>13. ASSUME NEW c \in Companies, ChangeReminders(c)
       PROVE  /\ Grows /\ SameTold /\ UNCHANGED <<notices, lastRuns>>
              /\ \A d \in Companies : d \in tellings'.rehoured \/ wanted'[d].hour = wanted[d].hour
  <2>1. UNCHANGED <<notices, lastRuns>>
    BY <1>13 DEF ChangeReminders
  <2> QED BY <1>13, <2>1, ChangeRemindersIs
<1>14. ASSUME NEW c \in Companies, SendTestReminder(c)
       PROVE  UNCHANGED <<wanted, tellings, lastRuns>> /\ notices \subseteq notices' /\ Grows /\ SameTold
  BY <1>14 DEF SendTestReminder, Grows, SameTold
<1> QED BY <1>2, <1>3, <1>4, <1>5, <1>6, <1>7, <1>8, <1>9, <1>10, <1>11, <1>12, <1>13, <1>14 DEF RemindersNext

LEMMA NewMessages ==
  ASSUME RemindersTypeOK, RoundInv, RemindersNext, NEW x \in tellings'.once, x \notin tellings.once
  PROVE  /\ HasClaimed /\ AtJob /\ lastRuns' = lastRuns /\ ~RestartReminders
         /\ \/ NotifyInApp /\ x = Said("inApp") /\ round.step = "notify"
            \/ SendOut /\ x = Said("out") /\ round.step = "send"
<1>1. NotifyInApp \/ SendOut
  BY StepsAre DEF SameTold
<1>2. CASE NotifyInApp
  <2>1. HasClaimed /\ round.step = "notify" /\ Tells("inApp")
    BY <1>2, NotifyInAppIs
  <2>2. lastRuns' = lastRuns /\ round'.step = "send"
    BY <1>2, NotifyInAppIs DEF NotifyInApp
  <2>3. ~RestartReminders
    BY <2>2 DEF RestartReminders, NoRound
  <2> QED BY <1>2, <2>1, <2>2, <2>3 DEF Tells, HasClaimed, AtJob
<1>3. CASE SendOut
  <2>1. HasClaimed /\ round.step = "send" /\ Tells("out") /\ GoesOn
    BY <1>3, SendOutIs
  <2>2. lastRuns' = lastRuns /\ round'.step # "idle"
    BY <1>3, <2>1 DEF SendOut, GoesOn
  <2>3. ~RestartReminders
    BY <2>2 DEF RestartReminders, NoRound
  <2> QED BY <1>3, <2>1, <2>2, <2>3 DEF Tells, HasClaimed, AtJob
<1> QED BY <1>1, <1>2, <1>3

(* A message that is told again may be. *)
LEMMA RepeatsAreAllowed ==
  ASSUME RemindersTypeOK, RoundInv, RemindedOnce, ClaimedInv, RemindersNext
  PROVE  RemindedOnce'
<1>1. Grows /\ (SameTold \/ NotifyInApp \/ SendOut)
  BY StepsAre
<1>2. \A x \in tellings.twice : MayRepeat(x)'
  BY <1>1, MayRepeatStays DEF RemindedOnce
<1>3. CASE SameTold
  BY <1>2, <1>3 DEF SameTold, RemindedOnce
<1>4. CASE NotifyInApp
  <2>1. HasClaimed /\ AtJob /\ round.step = "notify" /\ Tells("inApp")
    BY <1>4, NotifyInAppIs DEF HasClaimed, AtJob
  <2>2. PICK x : x = Said("inApp")
    OBVIOUS
  <2>3. x \in tellings.once => MayRepeat(x)'
    <3>1. ASSUME x \in tellings.once
          PROVE  MayRepeat(x)
      <4>1. Kind # "tracker"
        BY <2>1, <2>2, <3>1 DEF ClaimedInv, Said, ReminderSlot
      <4> QED BY <2>1, <2>2, <3>1, <4>1 DEF ClaimedInv, Said
    <3> QED BY <1>1, <3>1, MayRepeatStays
  <2>4. \A y \in tellings'.twice : y \in tellings.twice \/ (y = x /\ x \in tellings.once)
    BY <2>1, <2>2 DEF Tells
  <2> QED BY <1>2, <2>3, <2>4 DEF RemindedOnce
<1>5. CASE SendOut
  <2>1. HasClaimed /\ AtJob /\ round.step = "send" /\ Tells("out")
    BY <1>5, SendOutIs DEF HasClaimed, AtJob
  <2>2. PICK x : x = Said("out")
    OBVIOUS
  <2>3. x \in tellings.once => MayRepeat(x)'
    <3>1. ASSUME x \in tellings.once
          PROVE  MayRepeat(x)
      <4>1. CASE Kind = "tracker"
        <5>1. x = <<Company, "tracker", round.at, "out">>
          BY <2>2, <4>1 DEF Said, ReminderSlot
        <5>2. <<Company, round.at>> \in tellings.bare
          BY <2>1, <3>1, <4>1, <5>1 DEF ClaimedInv
        <5> QED BY <5>1, <5>2 DEF MayRepeat
      <4>2. CASE Kind # "tracker"
        BY <2>1, <2>2, <3>1, <4>2 DEF ClaimedInv, Said
      <4> QED BY <4>1, <4>2
    <3> QED BY <1>1, <3>1, MayRepeatStays
  <2>4. \A y \in tellings'.twice : y \in tellings.twice \/ (y = x /\ x \in tellings.once)
    BY <2>1, <2>2 DEF Tells
  <2> QED BY <1>2, <2>3, <2>4 DEF RemindedOnce
<1> QED BY <1>1, <1>3, <1>4, <1>5

(* Whatever was told is done with. *)
LEMMA ToldIsDone ==
  ASSUME RemindersTypeOK, RoundInv, ClockInv, OnceInv, ClaimedInv, RemindersNext,
         NEW x \in tellings'.once
  PROVE  x[2] \in KindsOfLoop /\ (x[2] # "tracker" => DoneWith(x[1], x[2], x[3])')
<1>1. Grows
  BY StepsAre
<1>2. CASE x \in tellings.once
  <2>1. x \in Message
    BY <1>2, TellingsAre DEF RemindersTypeOK
  <2>2. x[2] \in KindsOfLoop
    BY <1>2 DEF OnceInv
  <2>3. ASSUME x[2] # "tracker"
        PROVE  DoneWith(x[1], x[2], x[3])'
    <3>1. PICK c \in Companies : c = x[1]
      BY <2>1, MessageIs
    <3>2. PICK k \in KindsOfLoop \ {"tracker"} : k = x[2] /\ k \in ReminderKind \ {"tracker"}
      BY <2>1, <2>2, <2>3, MessageIs
    <3>3. PICK slot \in Nat : slot = x[3]
      BY <2>1, MessageIs
    <3>4. DoneWith(c, k, slot)
      BY <1>2, <2>3, <3>1, <3>2, <3>3 DEF OnceInv
    <3>5. CASE lastRuns[c][k] = slot => lastRuns'[c][k] = slot
      <4>1. DoneWith(c, k, slot)'
        BY <1>1, <3>2, <3>4, <3>5, StepsAre, DoneStays
      <4> QED BY <3>1, <3>2, <3>3, <4>1
    <3>6. CASE lastRuns[c][k] = slot /\ lastRuns'[c][k] # slot
      <4>1. CASE RestartReminders
        <5>1. DoneWith(c, k, slot)'
          BY <3>6, <4>1, RestartForgets
        <5> QED BY <3>1, <3>2, <3>3, <5>1
      <4>2. CASE ReadSettings /\ Claims
        <5>1. c = Company /\ k = Kind /\ AtJob
          BY <3>2, <3>6, <4>2 DEF Claims, ReadSettings, AtJob
        <5>2. DoneWith(Company, Kind, slot)'
          BY <3>2, <3>4, <4>2, <5>1, ClaimEndsOthers
        <5>3. Company' = Company /\ Kind' = Kind
          BY <4>2 DEF Claims, SameJob, Company, Kind
        <5>4. DoneWith(c, k, slot)'
          BY <5>1, <5>2, <5>3 DEF DoneWith
        <5> QED BY <3>1, <3>2, <3>3, <5>4
      <4> QED BY <3>6, <4>1, <4>2, StepsAre
    <3> QED BY <3>5, <3>6
  <2> QED BY <2>2, <2>3
<1>3. CASE x \notin tellings.once
  <2>1. PICK channel \in {"inApp", "out"} : x = Said(channel)
    BY <1>3, NewMessages
  <2>2. x[1] = Company /\ x[2] = Kind /\ x[3] = ReminderSlot(Kind, round.at)
    BY <2>1 DEF Said
  <2>3. HasClaimed /\ AtJob /\ lastRuns' = lastRuns
    BY <1>3, NewMessages
  <2>4. Kind # "tracker" => lastRuns[Company][Kind] = ReminderSlot(Kind, round.at)
    BY <2>3 DEF ClaimedInv
  <2>5. x[2] # "tracker" => lastRuns'[x[1]][x[2]] = x[3]
    BY <2>2, <2>3, <2>4
  <2> QED BY <2>2, <2>3, <2>5, DuesAre DEF DoneWith
<1> QED BY <1>2, <1>3

(* A tracker's reminder leaves its notice. *)
LEMMA NoticesAreLeft ==
  ASSUME RemindersTypeOK, RoundInv, ClockInv, OnceInv, ClaimedInv, RemindersNext,
         NEW x \in tellings'.once, x[2] = "tracker"
  PROVE  NoticedAt(x[1], x[3])' \/ (x[4] = "out" /\ <<x[1], x[3]>> \in tellings'.bare)
<1>1. Grows /\ notices \subseteq notices'
  BY StepsAre
<1>2. \A c, m : NoticedAt(c, m) => NoticedAt(c, m)'
  BY <1>1 DEF NoticedAt
<1>3. CASE x \in tellings.once
  <2>1. NoticedAt(x[1], x[3]) \/ (x[4] = "out" /\ <<x[1], x[3]>> \in tellings.bare)
    BY <1>3 DEF OnceInv
  <2> QED BY <1>1, <1>2, <2>1 DEF Grows
<1>4. CASE x \notin tellings.once
  <2>1. PICK channel \in {"inApp", "out"} : x = Said(channel)
    BY <1>4, NewMessages
  <2>2. x[1] = Company /\ Kind = "tracker" /\ x[3] = round.at /\ x[4] = channel
    BY <2>1 DEF Said, ReminderSlot
  <2>3. HasClaimed /\ AtJob /\ Active
    BY <1>4, NewMessages DEF AtJob, Active
  <2>4. CASE NotifyInApp
    <3>1. <<Company, now>> \in notices'
      BY <2>2, <2>4, NotifyInAppIs
    <3>2. now >= round.at
      BY <2>3, ClockInvIs, ClockTypes DEF TicksInOrder
    <3> QED BY <2>2, <3>1, <3>2 DEF NoticedAt
  <2>5. CASE x = Said("out") /\ round.step = "send"
    <3>1. <<Company, round.at>> \in tellings.bare \/ NoticedAt(Company, round.at)
      BY <2>2, <2>5 DEF ClaimedInv
    <3>2. x[4] = "out"
      BY <2>5 DEF Said
    <3> QED BY <1>1, <1>2, <2>2, <3>1, <3>2 DEF Grows
  <2> QED BY <1>4, <2>4, <2>5, NewMessages
<1> QED BY <1>3, <1>4

LEMMA LastGrows ==
  ASSUME RemindersTypeOK, RoundInv, ClockInv, RemindersNext
  PROVE  ticker'.last \in Nat /\ ticker'.last >= ticker.last
<1> USE ClockTypes
<1>1. ticker.last <= now /\ now \in Clock /\ ticker \in Ticker
  BY ClockInvIs DEF TicksInOrder, RemindersTypeOK
<1>2. CASE UNCHANGED ticker
  BY <1>2
<1>3. CASE TickComes
  BY <1>1, <1>3, TickComesIs
<1>4. CASE TickComesAgain
  BY <1>1, <1>4, TickIs DEF TickComesAgain
<1>5. CASE StartRound
  BY <1>5, StartRoundIs
<1>6. CASE JobPanics
  BY <1>1, <1>6, PanicIs
<1>7. CASE RestartReminders
  BY <1>1, <1>7, TickerAtIs DEF RestartReminders
<1>8. \/ UNCHANGED ticker \/ TickComes \/ TickComesAgain \/ StartRound \/ JobPanics \/ RestartReminders
  BY DEF RemindersNext, MinutePasses, NextTenant, ReadSettings, FindRecipients, NotifyInApp, NoticeFails, SendOut,
         DispatchFails, JobFails, ChangeReminders, SendTestReminder
<1> QED BY <1>2, <1>3, <1>4, <1>5, <1>6, <1>7, <1>8

(* The minute that the digest's hour gives has passed when the digest has run. *)
DigestsPassed(c) ==
    lastRuns[c]["digest"] # NoMinute =>
      \A m \in DigestMinutes(c, lastRuns[c]["digest"]) : ticker.last >= m

LEMMA DigestMinutesPass ==
  ASSUME RemindersTypeOK, RoundInv, ClockInv, OnceInv, RemindersNext,
         NEW c \in Companies, c \notin tellings'.rehoured
  PROVE  DigestsPassed(c)'
<1> USE ClockTypes
<1> SUFFICES ASSUME lastRuns'[c]["digest"] # NoMinute, NEW m \in Clock,
                    m \div MinutesOfDay = lastRuns'[c]["digest"],
                    m % MinutesOfDay = wanted'[c].hour * HourLength
             PROVE  ticker'.last >= m
  BY DEF DigestsPassed, DigestMinutes, IsDueAt, MinutesOfDay
<1>1. Grows /\ wanted'[c].hour = wanted[c].hour /\ ticker'.last >= ticker.last /\ ticker'.last \in Nat
  BY StepsAre, LastGrows
<1>2. PICK d : d = lastRuns'[c]["digest"]
  OBVIOUS
<1>3. m \in DigestMinutes(c, d) /\ m \in Nat /\ "digest" \in ReminderKind
  BY <1>1, <1>2, DigestDue DEF DigestMinutes, Clock, ReminderKind
<1>4. CASE lastRuns'[c]["digest"] = lastRuns[c]["digest"]
  <2>1. ticker.last >= m
    BY <1>1, <1>2, <1>3, <1>4 DEF OnceInv, Grows
  <2> QED BY <1>1, <1>3, <2>1
<1>5. CASE RestartReminders
  BY <1>3, <1>5 DEF RestartReminders, NoRuns
<1>6. CASE ReadSettings /\ Claims /\ lastRuns'[c]["digest"] # lastRuns[c]["digest"]
  <2>1. c = Company /\ Kind = "digest" /\ d = ReminderSlot("digest", round.at)
    BY <1>2, <1>3, <1>6 DEF Claims
  <2>2. IsDueAt("digest", c, round.at)
    BY <1>6, <2>1 DEF Claims
  <2>3. m \div MinutesOfDay = round.at \div MinutesOfDay /\ m % MinutesOfDay = round.at % MinutesOfDay
    BY <1>3, <2>1, <2>2, DigestDue DEF DigestMinutes
  <2>4. m = round.at
    BY <1>3, <2>3, SlotsAre
  <2>5. round.at <= ticker.last
    BY <1>6, ClockInvIs DEF TicksInOrder, ReadSettings, Active
  <2> QED BY <1>1, <2>4, <2>5
<1> QED BY <1>4, <1>5, <1>6, StepsAre

LEMMA OnceKept ==
  ASSUME RemindersTypeOK, RoundInv, ClockInv, OnceInv, ClaimedInv, RemindersNext
  PROVE  OnceInv'
<1>1. RemindedOnce'
  BY RepeatsAreAllowed DEF OnceInv
<1>2. loop' = loop /\ KindsOfLoop' = KindsOfLoop
  <2>1. loop' = loop
    BY DEF RemindersNext, MinutePasses, TickComes, TickComesAgain, StartRound, NextTenant, ReadSettings,
           FindRecipients, NotifyInApp, NoticeFails, SendOut, DispatchFails, JobFails, JobPanics,
           RestartReminders, ChangeReminders, SendTestReminder
  <2> QED BY <2>1, KindsStay
<1>3. \A x \in tellings'.once : x[2] \in KindsOfLoop' /\ (x[2] # "tracker" => DoneWith(x[1], x[2], x[3])')
  BY <1>2, ToldIsDone
<1>4. \A x \in tellings'.once : x[2] = "tracker" =>
        NoticedAt(x[1], x[3])' \/ (x[4] = "out" /\ <<x[1], x[3]>> \in tellings'.bare)
  BY NoticesAreLeft
<1>5. \A c \in Companies : c \notin tellings'.rehoured => DigestsPassed(c)'
  BY DigestMinutesPass
<1> QED BY <1>1, <1>3, <1>4, <1>5 DEF OnceInv, DigestsPassed

(* What has been claimed. *)

ClaimedAs(c, k, m) ==
    /\ k # "tracker" =>
         \A ch \in {"inApp", "out"} :
           <<c, k, ReminderSlot(k, m), ch>> \in tellings.once =>
             MayRepeat(<<c, k, ReminderSlot(k, m), ch>>) \/ (ch = "inApp" /\ round.step = "send")
    /\ round.step \in {"notify", "send"} /\ k = "tracker" =>
         /\ <<c, "tracker", m, "inApp">> \in tellings.once => round.step = "send"
         /\ <<c, "tracker", m, "out">> \in tellings.once => <<c, m>> \in tellings.bare
         /\ round.step = "send" => <<c, m>> \in tellings.bare \/ NoticedAt(c, m)
    /\ k # "tracker" => lastRuns[c][k] = ReminderSlot(k, m)
    /\ IsDueAt(k, c, m)

LEMMA ClaimedInvIs == ClaimedInv <=> (HasClaimed => ClaimedAs(Company, Kind, round.at))
  BY DEF ClaimedInv, ClaimedAs, HasClaimed

LEMMA DueStays ==
  ASSUME NEW c, wanted'[c] = wanted[c], NEW k, NEW m
  PROVE  (IsDueAt(k, c, m)' <=> IsDueAt(k, c, m)) /\ ReminderSlot(k, m)' = ReminderSlot(k, m)
  BY DEF IsDueAt, ReminderSlot, MinutesOfDay

(* A run that is left as it is. *)
LEMMA ClaimStays ==
  ASSUME Grows, SameTold, notices \subseteq notices', lastRuns' = lastRuns, round' = round,
         wanted'[round.of] = wanted[round.of], ClaimedInv
  PROVE  ClaimedInv'
<1>1. PICK c : c = Company
  OBVIOUS
<1>2. PICK k : k = Kind
  OBVIOUS
<1>3. PICK m : m = round.at
  OBVIOUS
<1>4. Company' = c /\ Kind' = k /\ round'.at = m /\ HasClaimed' = HasClaimed
  BY <1>1, <1>2, <1>3 DEF Company, Kind, HasClaimed
<1>5. ASSUME ClaimedAs(c, k, m)
      PROVE  ClaimedAs(c, k, m)'
  <2>1. (IsDueAt(k, c, m)' <=> IsDueAt(k, c, m)) /\ ReminderSlot(k, m)' = ReminderSlot(k, m)
    BY <1>1, DueStays DEF Company
  <2>2. PICK slot : slot = ReminderSlot(k, m)
    OBVIOUS
  <2>3. \A x : MayRepeat(x) => MayRepeat(x)'
    BY MayRepeatStays
  <2>4. NoticedAt(c, m) => NoticedAt(c, m)'
    BY DEF NoticedAt
  <2>5. k # "tracker" => \A ch \in {"inApp", "out"} :
           <<c, k, slot, ch>> \in tellings'.once =>
             MayRepeat(<<c, k, slot, ch>>)' \/ (ch = "inApp" /\ round'.step = "send")
    BY <1>5, <2>2, <2>3 DEF ClaimedAs, SameTold
  <2>6. k # "tracker" => lastRuns'[c][k] = slot
    BY <1>5, <2>2 DEF ClaimedAs
  <2>7. round'.step \in {"notify", "send"} /\ k = "tracker" =>
         /\ <<c, "tracker", m, "inApp">> \in tellings'.once => round'.step = "send"
         /\ <<c, "tracker", m, "out">> \in tellings'.once => <<c, m>> \in tellings'.bare
         /\ round'.step = "send" => <<c, m>> \in tellings'.bare \/ NoticedAt(c, m)'
    BY <1>5, <2>4 DEF ClaimedAs, SameTold, Grows
  <2>8. IsDueAt(k, c, m)'
    BY <1>5, <2>1 DEF ClaimedAs
  <2>9. slot = ReminderSlot(k, m)'
    BY <2>1, <2>2
  <2> QED BY <2>5, <2>6, <2>7, <2>8, <2>9 DEF ClaimedAs
<1>6. HasClaimed => ClaimedAs(c, k, m)
  BY <1>1, <1>2, <1>3, ClaimedInvIs
<1>7. HasClaimed' => ClaimedAs(Company, Kind, round.at)'
  BY <1>4, <1>5, <1>6 DEF ClaimedAs, ReminderSlot, MayRepeat, IsDueAt, NoticedAt
<1> QED BY <1>7, ClaimedInvIs, PTL

(* A run of the same job that goes from one step to the next. *)
LEMMA ClaimGoesOn ==
  ASSUME SameJob, NEW c, NEW k, NEW m, c = Company, k = Kind, m = round.at, ClaimedAs(c, k, m)'
  PROVE  ClaimedInv'
<1>1. Company' = c /\ Kind' = k /\ round'.at = m
  BY DEF SameJob, Company, Kind
<1>2. ClaimedAs(Company, Kind, round.at)'
  BY <1>1 DEF ClaimedAs, ReminderSlot, MayRepeat, IsDueAt, NoticedAt
<1> QED BY <1>2, ClaimedInvIs, PTL

LEMMA ClaimMade ==
  ASSUME RemindersTypeOK, RoundInv, ClockInv, OnceInv, ReadSettings, Claims
  PROVE  ClaimedInv'
<1>1. AtJob /\ Grows /\ UNCHANGED <<wanted, tellings>>
  BY DEF ReadSettings, AtJob, Claims, Grows
<1>2. PICK c \in Companies : c = Company
  BY <1>1, DuesAre
<1>3. PICK k \in ReminderKind : k = Kind
  BY <1>1, DuesAre
<1>4. PICK m \in Nat : m = round.at
  BY ClockTypes
<1>5. PICK slot \in Nat : slot = ReminderSlot(k, m)
  BY SlotsGrow
<1>6. IsDueAt(k, c, m)' /\ slot = ReminderSlot(k, m)'
  <2>1. IsDueAt(k, c, m)
    BY <1>2, <1>3, <1>4 DEF Claims
  <2> QED BY <1>1, <1>5, <2>1, DueStays
<1>7. SameJob /\ round'.step = "find" /\ lastRuns'[c][k] = slot
  BY <1>2, <1>3, <1>4, <1>5 DEF Claims
<1>8. ASSUME k # "tracker", NEW ch \in {"inApp", "out"}, <<c, k, slot, ch>> \in tellings'.once
      PROVE  MayRepeat(<<c, k, slot, ch>>)'
  <2>1. PICK x : x = <<c, k, slot, ch>>
    OBVIOUS
  <2>2. x \in tellings.once /\ x[1] = c /\ x[2] = k /\ x[3] = slot
    BY <1>1, <1>8, <2>1
  <2>3. DoneWith(c, k, slot)
    BY <1>8, <2>2 DEF OnceInv
  <2>4. DoneWith(Company, Kind, ReminderSlot(Kind, round.at))
    BY <1>2, <1>3, <1>4, <1>5, <2>3
  <2>5. Kind # "tracker" /\ IsDueAt(Kind, Company, round.at) /\ ~HasRun(Company, Kind, round.at)
    BY <1>3, <1>8 DEF Claims
  <2>6. MayRepeat(<<Company, Kind, ReminderSlot(Kind, round.at), ch>>)
    BY <1>1, <2>4, <2>5, ClaimIsNew
  <2>7. MayRepeat(x)
    BY <1>2, <1>3, <1>4, <1>5, <2>1, <2>6
  <2> QED BY <1>1, <2>1, <2>7, MayRepeatStays
<1>9. ClaimedAs(c, k, m)'
  BY <1>6, <1>7, <1>8 DEF ClaimedAs
<1> QED BY <1>2, <1>3, <1>4, <1>7, <1>9, ClaimGoesOn

LEMMA FoundIsClaimed ==
  ASSUME RemindersTypeOK, RoundInv, ClockInv, OnceInv, ClaimedInv, FindRecipients, Finds
  PROVE  ClaimedInv'
<1>1. /\ AtJob /\ HasClaimed /\ round.step = "find" /\ UNCHANGED <<wanted, lastRuns, notices>>
      /\ Grows /\ SameTold /\ SameJob
  BY DEF FindRecipients, AtJob, HasClaimed, Finds
<1>2. PICK c \in Companies : c = Company
  BY <1>1, DuesAre
<1>3. PICK k \in ReminderKind : k = Kind
  BY <1>1, DuesAre
<1>4. PICK m \in Nat : m = round.at
  BY ClockTypes
<1>5. PICK slot \in Nat : slot = ReminderSlot(k, m)
  BY SlotsGrow
<1>6. ClaimedAs(c, k, m)
  BY <1>1, <1>2, <1>3, <1>4, ClaimedInvIs
<1>7. IsDueAt(k, c, m)' /\ slot = ReminderSlot(k, m)' /\ (k # "tracker" => lastRuns'[c][k] = slot)
  BY <1>1, <1>5, <1>6, DueStays DEF ClaimedAs
<1>8. ASSUME k # "tracker", NEW ch \in {"inApp", "out"}, <<c, k, slot, ch>> \in tellings'.once
      PROVE  MayRepeat(<<c, k, slot, ch>>)'
  <2>1. <<c, k, slot, ch>> \in tellings.once
    BY <1>1, <1>8 DEF SameTold
  <2>2. MayRepeat(<<c, k, slot, ch>>)
    BY <1>1, <1>5, <1>6, <1>8, <2>1 DEF ClaimedAs
  <2> QED BY <1>1, <2>2, MayRepeatStays
<1>9. ASSUME k = "tracker"
      PROVE  /\ <<c, k, m, "inApp">> \notin tellings'.once
             /\ <<c, k, m, "out">> \in tellings'.once => <<c, m>> \in tellings'.bare
             /\ round'.step = "send" => <<c, m>> \in tellings'.bare
  <2>1. ~NoticedAt(c, m)
    <3>1. ~Recent(c)
      BY <1>2, <1>3, <1>9 DEF Finds
    <3>2. m - DedupWindow <= m
      BY ReminderTimeAssumption
    <3>3. \A n \in notices : n[2] \in Nat
      BY DEF RemindersTypeOK, Clock
    <3> QED BY <1>4, <3>1, <3>2, <3>3, ReminderTimeAssumption DEF Recent, NoticedAt
  <2>2. ASSUME NEW ch \in {"inApp", "out"}, <<c, k, m, ch>> \in tellings'.once
        PROVE  ch = "out" /\ <<c, m>> \in tellings.bare
    <3>1. PICK x : x = <<c, k, m, ch>>
      OBVIOUS
    <3>2. x \in tellings.once /\ x[1] = c /\ x[2] = "tracker" /\ x[3] = m /\ x[4] = ch
      BY <1>1, <1>9, <2>2, <3>1 DEF SameTold
    <3> QED BY <2>1, <3>2 DEF OnceInv
  <2>3. round'.step = "send" => <<c, m>> \in tellings'.bare
    BY <1>2, <1>3, <1>4, <1>9 DEF Finds
  <2> QED BY <1>1, <2>2, <2>3 DEF Grows
<1>10. ClaimedAs(c, k, m)'
  BY <1>7, <1>8, <1>9 DEF ClaimedAs
<1> QED BY <1>1, <1>2, <1>3, <1>4, <1>10, ClaimGoesOn

LEMMA NoticedIsClaimed ==
  ASSUME RemindersTypeOK, RoundInv, ClockInv, ClaimedInv, NotifyInApp
  PROVE  ClaimedInv'
<1>1. /\ AtJob /\ HasClaimed /\ round.step = "notify" /\ UNCHANGED <<wanted, lastRuns>>
      /\ Tells("inApp") /\ Grows /\ SameJob /\ round'.step = "send" /\ Active
  BY NotifyInAppIs DEF NotifyInApp, AtJob, HasClaimed, Tells, Active
<1>2. PICK c \in Companies : c = Company
  BY <1>1, DuesAre
<1>3. PICK k \in ReminderKind : k = Kind
  BY <1>1, DuesAre
<1>4. PICK m \in Nat : m = round.at
  BY ClockTypes
<1>5. PICK slot \in Nat : slot = ReminderSlot(k, m)
  BY SlotsGrow
<1>6. ClaimedAs(c, k, m)
  BY <1>1, <1>2, <1>3, <1>4, ClaimedInvIs
<1>7. IsDueAt(k, c, m)' /\ slot = ReminderSlot(k, m)' /\ (k # "tracker" => lastRuns'[c][k] = slot)
  BY <1>1, <1>5, <1>6, DueStays DEF ClaimedAs
<1>8. tellings'.once = tellings.once \cup {<<c, k, slot, "inApp">>}
  BY <1>1, <1>2, <1>3, <1>4, <1>5 DEF Tells, Said
<1>9. ASSUME k # "tracker", NEW ch \in {"inApp", "out"}, <<c, k, slot, ch>> \in tellings'.once
      PROVE  MayRepeat(<<c, k, slot, ch>>)' \/ ch = "inApp"
  <2>1. CASE ch # "inApp"
    <3>1. <<c, k, slot, ch>> \in tellings.once
      BY <1>8, <1>9, <2>1
    <3>2. MayRepeat(<<c, k, slot, ch>>)
      BY <1>5, <1>6, <1>9, <2>1, <3>1 DEF ClaimedAs
    <3> QED BY <1>1, <3>2, MayRepeatStays
  <2> QED BY <2>1
<1>10. ASSUME k = "tracker"
       PROVE  /\ <<c, k, m, "out">> \in tellings'.once => <<c, m>> \in tellings'.bare
              /\ NoticedAt(c, m)'
  <2>1. <<c, k, m, "out">> \in tellings'.once => <<c, m>> \in tellings'.bare
    BY <1>1, <1>6, <1>8, <1>10 DEF ClaimedAs, Grows
  <2>2. <<c, now>> \in notices'
    BY <1>2, <1>3, <1>10, NotifyInAppIs
  <2>3. now >= m
    BY <1>1, <1>4, ClockInvIs, ClockTypes DEF TicksInOrder
  <2> QED BY <2>1, <2>2, <2>3 DEF NoticedAt
<1>11. ClaimedAs(c, k, m)'
  BY <1>1, <1>7, <1>9, <1>10 DEF ClaimedAs
<1> QED BY <1>1, <1>2, <1>3, <1>4, <1>11, ClaimGoesOn

LEMMA UnnoticedIsClaimed ==
  ASSUME RemindersTypeOK, RoundInv, ClaimedInv, NoticeFails
  PROVE  ClaimedInv'
<1>1. /\ AtJob /\ HasClaimed /\ round.step = "notify" /\ UNCHANGED <<wanted, lastRuns>>
      /\ Grows /\ SameTold /\ SameJob /\ round'.step = "send" /\ Kind = "tracker"
      /\ <<Company, round.at>> \in tellings'.bare
  BY NoticeFailsIs DEF NoticeFails, AtJob, HasClaimed
<1>2. PICK c \in Companies : c = Company
  BY <1>1, DuesAre
<1>3. PICK k \in ReminderKind : k = Kind
  BY <1>1, DuesAre
<1>4. PICK m \in Nat : m = round.at
  BY ClockTypes
<1>5. ClaimedAs(c, k, m)
  BY <1>1, <1>2, <1>3, <1>4, ClaimedInvIs
<1>6. IsDueAt(k, c, m)' /\ k = "tracker" /\ <<c, m>> \in tellings'.bare
  BY <1>1, <1>2, <1>3, <1>4, <1>5, DueStays DEF ClaimedAs
<1>7. ClaimedAs(c, k, m)'
  BY <1>1, <1>6 DEF ClaimedAs
<1> QED BY <1>1, <1>2, <1>3, <1>4, <1>7, ClaimGoesOn

LEMMA ClaimedKept ==
  ASSUME RemindersTypeOK, RoundInv, ClockInv, OnceInv, ClaimedInv, RemindersNext
  PROVE  ClaimedInv'
<1>1. ASSUME ~HasClaimed'
      PROVE  ClaimedInv'
  BY <1>1 DEF ClaimedInv, HasClaimed
<1>2. Grows /\ notices \subseteq notices'
  BY StepsAre
<1>3. CASE MinutePasses
  BY <1>2, <1>3, ClaimStays DEF MinutePasses, SameTold
<1>4. CASE TickComes \/ TickComesAgain
  <2>1. lastRuns' = lastRuns /\ round' = round /\ wanted' = wanted
    BY <1>4 DEF TickComes, TickComesAgain
  <2> QED BY <1>2, <1>4, <2>1, TicksOwe, ClaimStays
<1>5. CASE StartRound
  BY <1>1, <1>5, StartRoundIs DEF HasClaimed
<1>6. CASE NextTenant
  BY <1>1, <1>6, NextTenantIs, NoRoundIs DEF HasClaimed
<1>7. CASE ReadSettings
  <2>1. CASE Claims
    BY <1>7, <2>1, ClaimMade
  <2> QED BY <1>1, <1>7, <2>1, ReadSettingsIs DEF Passes, Excuses, GoesOn
<1>8. CASE FindRecipients
  <2>1. CASE Finds
    BY <1>8, <2>1, FoundIsClaimed
  <2> QED BY <1>1, <1>8, <2>1, FindRecipientsIs DEF Excuses, GoesOn
<1>9. CASE NotifyInApp
  BY <1>9, NoticedIsClaimed
<1>10. CASE NoticeFails
  BY <1>10, UnnoticedIsClaimed
<1>11. CASE SendOut
  BY <1>1, <1>11, SendOutIs DEF GoesOn
<1>12. CASE DispatchFails
  BY <1>1, <1>12, DispatchFailsIs DEF Excuses, GoesOn
<1>13. CASE JobFails
  BY <1>1, <1>13, JobFailsIs, NoRoundIs DEF GivesUp
<1>14. CASE JobPanics
  BY <1>1, <1>14, JobPanicsIs, NoRoundIs DEF GivesUp
<1>15. CASE RestartReminders
  BY <1>1, <1>15, NoRoundIs DEF RestartReminders
<1>16. ASSUME NEW c \in Companies, ChangeReminders(c)
       PROVE  ClaimedInv'
  <2>1. lastRuns' = lastRuns /\ round' = round /\ round.of # c
    BY <1>16 DEF ChangeReminders
  <2>2. SameTold /\ \A d \in Companies \ {c} : wanted'[d] = wanted[d]
    BY <1>16, ChangeRemindersIs
  <2>3. CASE round.of \in Companies
    <3>1. wanted'[round.of] = wanted[round.of]
      BY <2>1, <2>2, <2>3
    <3> QED BY <1>2, <2>1, <2>2, <3>1, ClaimStays
  <2>4. CASE round.of \notin Companies
    <3>1. ~HasClaimed
      BY <2>4 DEF RoundInv, AtJob, HasClaimed
    <3> QED BY <1>1, <2>1, <3>1 DEF HasClaimed
  <2> QED BY <2>3, <2>4
<1>17. ASSUME NEW c \in Companies, SendTestReminder(c)
       PROVE  ClaimedInv'
  BY <1>2, <1>17, ClaimStays DEF SendTestReminder, SameTold
<1> QED BY <1>3, <1>4, <1>5, <1>6, <1>7, <1>8, <1>9, <1>10, <1>11, <1>12, <1>13, <1>14, <1>15,
           <1>16, <1>17 DEF RemindersNext

(* What has run. *)

LEMMA ToldStays ==
  ASSUME Grows, NEW d, ToldOf(d)
  PROVE  ToldOf(d)'
  BY DEF ToldOf, Grows, ReminderSlot, MinutesOfDay

LEMMA TellsThis ==
  ASSUME NEW channel \in {"inApp", "out"}, Tells(channel)
  PROVE  \A d : d = This => ToldOf(d)'
<1>1. PICK slot : slot = ReminderSlot(Kind, round.at)
  OBVIOUS
<1>2. ASSUME NEW d, d = This
      PROVE  ToldOf(d)'
  <2>1. d[1] = Company /\ d[2] = Kind /\ d[3] = round.at
    BY <1>2 DEF This
  <2>2. ReminderSlot(d[2], d[3])' = slot
    BY <1>1, <2>1 DEF ReminderSlot, MinutesOfDay
  <2>3. <<d[1], d[2], slot, channel>> \in tellings'.once
    BY <1>1, <2>1 DEF Tells, Said
  <2> QED BY <2>2, <2>3 DEF ToldOf
<1> QED BY <1>2

(* What becomes of the run that has claimed. *)
LEMMA RunEnds ==
  ASSUME RemindersTypeOK, RoundInv, RemindersNext, HasClaimed, ~RestartReminders, NEW d, d = This
  PROVE  (HasClaimed' /\ This' = d) \/ ToldOf(d)' \/ d \in tellings'.excused
<1>1. ASSUME SameJob, round'.step \in {"find", "notify", "send"}
      PROVE  HasClaimed' /\ This' = d
  BY <1>1 DEF SameJob, HasClaimed, This, Company, Kind
<1>2. ASSUME round' = round
      PROVE  HasClaimed' /\ This' = d
  BY <1>2 DEF HasClaimed, This, Company, Kind
<1>3. AtJob /\ ClaimedRun = {d}
  BY DuesAre
<1>4. CASE MinutePasses \/ TickComes \/ TickComesAgain
  BY <1>2, <1>4 DEF MinutePasses, TickComes, TickComesAgain
<1>5. CASE StartRound \/ NextTenant \/ ReadSettings
  BY <1>5 DEF StartRound, NextTenant, ReadSettings, HasClaimed
<1>6. CASE FindRecipients
  BY <1>1, <1>6, FindRecipientsIs DEF Finds, Excuses
<1>7. CASE NotifyInApp
  BY <1>1, <1>7, NotifyInAppIs
<1>8. CASE NoticeFails
  BY <1>1, <1>8, NoticeFailsIs
<1>9. CASE SendOut
  <2>1. Tells("out")
    BY <1>9, SendOutIs
  <2> QED BY <2>1, TellsThis
<1>10. CASE DispatchFails
  BY <1>10, DispatchFailsIs DEF Excuses
<1>11. CASE JobFails
  BY <1>3, <1>11, JobFailsIs DEF GivesUp
<1>12. CASE JobPanics
  BY <1>3, <1>12, JobPanicsIs DEF GivesUp
<1>13. ASSUME NEW c \in Companies, ChangeReminders(c) \/ SendTestReminder(c)
       PROVE  HasClaimed' /\ This' = d
  BY <1>2, <1>13 DEF ChangeReminders, SendTestReminder
<1> QED BY <1>4, <1>5, <1>6, <1>7, <1>8, <1>9, <1>10, <1>11, <1>12, <1>13 DEF RemindersNext

LEMMA RanKept ==
  ASSUME RemindersTypeOK, RoundInv, RanInv, RemindersNext
  PROVE  RanInv'
<1> SUFFICES ASSUME NEW c \in Companies, NEW k \in ReminderKind \ {"tracker"}, NEW m \in Clock, Ran(c, k, m)'
             PROVE  Accounted(<<c, k, m>>)'
  BY DEF RanInv
<1>1. PICK d : d = <<c, k, m>>
  OBVIOUS
<1>2. PICK slot \in Nat : slot = ReminderSlot(k, m) /\ slot = ReminderSlot(k, m)'
  <2>1. ReminderSlot(k, m) \in Nat /\ ReminderSlot(k, m)' = ReminderSlot(k, m)
    BY SlotsGrow DEF ReminderSlot, MinutesOfDay, Clock
  <2> QED BY <2>1
<1>3. lastRuns'[c][k] = slot
  BY <1>2 DEF Ran
<1>4. Grows
  BY StepsAre
(* The settings of a digest that has kept its hour. *)
<1>5. k = "digest" => c \notin tellings.rehoured /\ IsDueAt(k, c, m)
  <2>1. ASSUME k = "digest"
        PROVE  c \notin tellings'.rehoured /\ wanted'[c].hour = wanted[c].hour
    BY <2>1, StepsAre DEF Ran
  <2> QED BY <1>4, <2>1 DEF Ran, Grows, IsDueAt, MinutesOfDay
<1>6. ~RestartReminders
  BY <1>3, SlotsAre DEF RestartReminders, NoRuns
<1>7. CASE lastRuns[c][k] = slot
  <2>1. Accounted(d)
    BY <1>1, <1>2, <1>5, <1>7 DEF RanInv, Ran
  <2>2. CASE ToldOf(d)
    BY <1>1, <1>4, <2>2, ToldStays DEF Accounted
  <2>3. CASE d \in tellings.excused
    BY <1>1, <1>4, <2>3 DEF Accounted, Grows
  <2>4. CASE HasClaimed /\ d = This
    <3>1. (HasClaimed' /\ This' = d) \/ ToldOf(d)' \/ d \in tellings'.excused
      BY <1>6, <2>4, RunEnds
    <3> QED BY <1>1, <3>1 DEF Accounted
  <2> QED BY <2>1, <2>2, <2>3, <2>4 DEF Accounted
<1>8. CASE lastRuns[c][k] # slot
  <2>1. ReadSettings /\ Claims
    BY <1>3, <1>6, <1>8, StepsAre
  <2>2. c = Company /\ k = Kind /\ slot = ReminderSlot(Kind, round.at) /\ IsDueAt(Kind, Company, round.at)
    BY <1>3, <1>8, <2>1 DEF Claims
  <2>3. m = round.at
    <3>1. CASE k = "digest"
      <4>1. m % MinutesOfDay = round.at % MinutesOfDay
        BY <1>5, <2>2, <3>1, DigestDue
      <4>2. m \div MinutesOfDay = round.at \div MinutesOfDay
        BY <1>2, <2>2, <3>1, DigestDue
      <4>3. m \in Nat /\ round.at \in Nat
        BY ClockTypes DEF Clock
      <4> QED BY <4>1, <4>2, <4>3, SlotsAre
    <3>2. CASE k # "digest"
      BY <1>2, <2>2, <3>2 DEF ReminderSlot
    <3> QED BY <3>1, <3>2
  <2>4. HasClaimed' /\ This' = d
    BY <1>1, <2>1, <2>2, <2>3 DEF Claims, SameJob, HasClaimed, This, Company, Kind
  <2> QED BY <1>1, <2>4 DEF Accounted
<1> QED BY <1>7, <1>8

(* What is owed. *)

Safe(d) ==
    \/ d \in tellings.excused \/ d \in Waiting \/ d \in Unreached
    \/ ToldOf(d) \/ (d[2] = "digest" /\ d[1] \in tellings.rehoured)

LEMMA ForgottenIs == NothingForgotten <=> \A d \in tellings.owed : Safe(d)
  BY DEF NothingForgotten, Safe

LEMMA UnreachedAfter ==
  ASSUME NEW d
  PROVE  d \in Unreached' <=> \/ \E c \in round'.left, k \in KindsOfLoop' : d = <<c, k, round'.at>>
                              \/ \E k : ToDo(k)' /\ d = <<round'.of, k, round'.at>>
  BY DEF Unreached, ToDo, Company

(* What the round goes on without is the run it has done with. *)
LEMMA LeavesThis ==
  ASSUME GoesOn, loop' = loop, NEW d \in Unreached, d # This
  PROVE  d \in Unreached'
<1>1. KindsOfLoop' = KindsOfLoop
  BY KindsStay
<1>2. CASE \E c \in round.left, k \in KindsOfLoop : d = <<c, k, round.at>>
  BY <1>1, <1>2, UnreachedAfter DEF GoesOn
<1>3. CASE \E k : ToDo(k) /\ d = <<Company, k, round.at>>
  <2>1. PICK k : ToDo(k) /\ d = <<Company, k, round.at>>
    BY <1>3
  <2>2. k # Kind
    BY <2>1 DEF This
  <2>3. round'.of = round.of /\ ToDo(k)' /\ round'.at = round.at
    BY <2>1, <2>2 DEF GoesOn
  <2> QED BY <2>1, <2>3, UnreachedAfter DEF Company
<1> QED BY <1>2, <1>3, UnreachedIs

LEMMA LeavesNone ==
  ASSUME SameJob, loop' = loop, NEW d \in Unreached
  PROVE  d \in Unreached'
  BY KindsStay DEF SameJob, Unreached, Company

LEMMA TenantIsReached ==
  ASSUME RemindersTypeOK, RoundInv, NextTenant, NEW d \in Unreached
  PROVE  d \in Unreached'
<1>1. KindsOfLoop' = KindsOfLoop
  BY KindsStay DEF NextTenant
<1>2. \A k : ~ToDo(k)
  <2>1. round.todo = <<>>
    BY DEF NextTenant, RoundInv
  <2>2. DOMAIN round.todo = {}
    BY <2>1
  <2> QED BY <2>2 DEF ToDo
<1>3. PICK c \in round.left, k \in KindsOfLoop : d = <<c, k, round.at>>
  BY <1>2, UnreachedIs
<1>4. PICK e \in round.left : /\ round'.of = e /\ round'.at = round.at /\ round'.left = round.left \ {e}
                              /\ round'.todo = KindsOf[loop]
  BY <1>3, NextTenantIs
<1>5. CASE c # e
  BY <1>1, <1>3, <1>4, <1>5, UnreachedAfter
<1>6. CASE c = e
  <2>1. \E n \in DOMAIN KindsOf[loop] : KindsOf[loop][n] = k
    BY KindsAre DEF RemindersTypeOK
  <2>2. ToDo(k)'
    BY <1>4, <2>1 DEF ToDo
  <2> QED BY <1>3, <1>4, <1>6, <2>2, UnreachedAfter
<1> QED BY <1>5, <1>6

(* A tick that starts its round is waited for no more, and all it brings is to come. *)
LEMMA RoundBrings ==
  ASSUME RemindersTypeOK, RoundInv, StartRound, NEW d \in tellings.owed, d \in Waiting
  PROVE  d \in Unreached'
<1>1. KindsOfLoop' = KindsOfLoop
  BY KindsStay DEF StartRound
<1>2. round'.left = Companies /\ round'.at = ticker.tick
  BY StartRoundIs
<1>3. d \in Due /\ d[2] \in KindsOfLoop /\ d[3] = ticker.tick
  BY TellingsAre DEF RemindersTypeOK, RoundInv, Waiting
<1>4. d = <<d[1], d[2], d[3]>> /\ d[1] \in Companies
  BY <1>3 DEF Due
<1> QED BY <1>1, <1>2, <1>3, <1>4, UnreachedAfter

(* What was safe stays safe. *)
LEMMA SafeStays ==
  ASSUME RemindersTypeOK, RoundInv, RanInv, RemindersNext, NEW d \in tellings.owed, Safe(d)
  PROVE  Safe(d)'
<1>1. Grows /\ d \in Due
  BY StepsAre, TellingsAre DEF RemindersTypeOK
<1>2. loop' = loop
  BY DEF RemindersNext, MinutePasses, TickComes, TickComesAgain, StartRound, NextTenant, ReadSettings,
         FindRecipients, NotifyInApp, NoticeFails, SendOut, DispatchFails, JobFails, JobPanics,
         RestartReminders, ChangeReminders, SendTestReminder
<1>3. CASE d \in tellings.excused \/ ToldOf(d) \/ (d[2] = "digest" /\ d[1] \in tellings.rehoured)
  <2>1. ToldOf(d) => ToldOf(d)'
    BY <1>1, ToldStays
  <2> QED BY <1>1, <1>3, <2>1 DEF Safe, Grows
<1>4. CASE d \in Waiting
  <2>1. d[3] = ticker.tick /\ ticker.tick # NoMinute
    <3>1. d[3] \in Nat
      BY <1>1 DEF Due, Clock
    <3> QED BY <1>4, <3>1, SlotsAre DEF Waiting
  <2>2. ASSUME ticker'.tick = ticker.tick
        PROVE  Safe(d)'
    BY <1>1, <2>1, <2>2 DEF Safe, Waiting, Grows
  <2>3. CASE UNCHANGED ticker
    BY <2>2, <2>3
  <2>4. CASE TickComes
    BY <2>1, <2>2, <2>4, TickComesIs
  <2>5. CASE TickComesAgain
    BY <2>1, <2>5 DEF TickComesAgain
  <2>6. CASE StartRound
    <3>1. d \in Unreached'
      BY <1>4, <2>6, RoundBrings
    <3> QED BY <3>1 DEF Safe
  <2>7. CASE JobPanics
    <3>1. d \in tellings'.excused
      BY <1>4, <2>7, JobPanicsIs
    <3> QED BY <3>1 DEF Safe
  <2>8. CASE RestartReminders
    <3>1. d \in tellings'.excused
      BY <1>4, <2>8, RestartsOwe
    <3> QED BY <3>1 DEF Safe
  <2>9. UNCHANGED ticker \/ TickComes \/ TickComesAgain \/ StartRound \/ JobPanics \/ RestartReminders
    BY DEF RemindersNext, MinutePasses, NextTenant, ReadSettings, FindRecipients, NotifyInApp, NoticeFails, SendOut,
           DispatchFails, JobFails, ChangeReminders, SendTestReminder
  <2> QED BY <2>3, <2>4, <2>5, <2>6, <2>7, <2>8, <2>9
<1>5. CASE d \in Unreached
  <2>1. ASSUME d \in Unreached' \/ d \in tellings'.excused \/ ToldOf(d)'
        PROVE  Safe(d)'
    BY <2>1 DEF Safe
  <2>2. ASSUME SameJob \/ round' = round
        PROVE  Safe(d)'
    <3>1. SameJob
      BY <2>2 DEF SameJob
    <3> QED BY <1>2, <1>5, <2>1, <3>1, LeavesNone
  <2>3. ASSUME GoesOn, d = This => d \in tellings'.excused \/ ToldOf(d)'
        PROVE  Safe(d)'
    BY <1>2, <1>5, <2>1, <2>3, LeavesThis
  <2>4. CASE \/ MinutePasses \/ TickComes \/ TickComesAgain \/ \E c \in Companies : ChangeReminders(c) \/ SendTestReminder(c)
    BY <2>2, <2>4 DEF MinutePasses, TickComes, TickComesAgain, ChangeReminders, SendTestReminder
  <2>5. CASE StartRound
    <3>1. round = NoRound
      BY <2>5 DEF StartRound, RoundInv
    <3>2. round.left = {} /\ DOMAIN round.todo = {}
      BY <3>1 DEF NoRound
    <3> QED BY <1>5, <3>2 DEF Unreached
  <2>6. CASE NextTenant
    BY <1>5, <2>1, <2>6, TenantIsReached
  <2>7. CASE ReadSettings
    <3>1. CASE Claims
      BY <2>2, <3>1 DEF Claims
    <3>2. CASE Excuses
      BY <2>3, <3>2 DEF Excuses
    <3>3. CASE Passes /\ d = This
      <4>1. AtJob /\ ~HasClaimed
        BY <2>7 DEF ReadSettings, AtJob, HasClaimed
      <4>2. /\ Company \in Companies /\ Kind \in ReminderKind \ {"tracker"} /\ round.at \in Clock
            /\ ReminderSlot(Kind, round.at) = lastRuns[Company][Kind] /\ IsDueAt(Kind, Company, round.at)
        BY <3>3, <4>1, DuesAre DEF Passes, HasRun, RunKey
      <4>3. d[1] = Company /\ d[2] = Kind /\ d = <<Company, Kind, round.at>>
        BY <3>3 DEF This
      <4>4. CASE Kind = "digest" /\ Company \in tellings.rehoured
        BY <1>1, <4>3, <4>4 DEF Safe, Grows
      <4>5. CASE ~(Kind = "digest" /\ Company \in tellings.rehoured)
        <5>1. Ran(Company, Kind, round.at)
          BY <4>2, <4>5 DEF Ran
        <5>2. Accounted(d)
          BY <4>2, <4>3, <5>1 DEF RanInv
        <5>3. ToldOf(d) \/ d \in tellings.excused
          BY <4>1, <5>2 DEF Accounted
        <5> QED BY <1>1, <2>1, <5>3, ToldStays DEF Grows
      <4> QED BY <4>4, <4>5
    <3>4. CASE Passes /\ d # This
      BY <2>3, <3>4 DEF Passes
    <3> QED BY <2>7, <3>1, <3>2, <3>3, <3>4, ReadSettingsIs
  <2>8. CASE FindRecipients
    BY <2>2, <2>3, <2>8, FindRecipientsIs DEF Finds, Excuses
  <2>9. CASE NotifyInApp
    BY <2>2, <2>9, NotifyInAppIs
  <2>10. CASE NoticeFails
    BY <2>2, <2>10, NoticeFailsIs
  <2>11. CASE SendOut
    BY <2>3, <2>11, SendOutIs, TellsThis
  <2>12. CASE DispatchFails
    BY <2>3, <2>12, DispatchFailsIs DEF Excuses
  <2>13. CASE JobFails
    BY <1>5, <2>1, <2>13, JobFailsIs DEF GivesUp
  <2>14. CASE JobPanics
    BY <1>5, <2>1, <2>14, JobPanicsIs DEF GivesUp
  <2>15. CASE RestartReminders
    BY <1>5, <2>1, <2>15, RestartsOwe
  <2> QED BY <2>4, <2>5, <2>6, <2>7, <2>8, <2>9, <2>10, <2>11, <2>12, <2>13, <2>14, <2>15 DEF RemindersNext
<1> QED BY <1>3, <1>4, <1>5 DEF Safe

(* What a tick comes to owe is waited for. *)
LEMMA OwedIsWaited ==
  ASSUME RemindersTypeOK, RoundInv, RemindersNext, NEW d \in tellings'.owed, d \notin tellings.owed
  PROVE  Safe(d)'
<1>1. loop \in Loops /\ ticker \in Ticker /\ now \in Clock
  BY DEF RemindersTypeOK
<1>2. tellings'.owed = tellings.owed \/ TickComes \/ TickComesAgain \/ RestartReminders
  <2>1. CASE MinutePasses \/ StartRound \/ NextTenant
    BY <2>1 DEF MinutePasses, StartRound, NextTenant
  <2>2. CASE ReadSettings \/ FindRecipients \/ NotifyInApp \/ NoticeFails \/ SendOut \/ DispatchFails
    BY <2>2, ReadSettingsIs, FindRecipientsIs, NotifyInAppIs, NoticeFailsIs, SendOutIs, DispatchFailsIs
    DEF Claims, Passes, Excuses, Finds, Tells
  <2>3. CASE JobFails \/ JobPanics
    BY <2>3, JobFailsIs, JobPanicsIs DEF GivesUp
  <2>4. CASE \E c \in Companies : ChangeReminders(c) \/ SendTestReminder(c)
    BY <2>4, ChangeRemindersIs DEF SendTestReminder
  <2> QED BY <2>1, <2>2, <2>3, <2>4 DEF RemindersNext
<1>3. CASE TickComes \/ TickComesAgain
  <2>1. ticker.tick = NoMinute /\ d \in OwedAt(now)
    BY <1>3, TicksOwe
  <2>2. d[3] = now
    BY <1>1, <2>1, OwedIs
  <2>3. ticker'.tick = now
    <3>1. CASE TickComes
      BY <2>1, <3>1, TickComesIs
    <3>2. CASE TickComesAgain
      BY <1>1, <3>2, TickIs DEF TickComesAgain
    <3> QED BY <1>3, <3>1, <3>2
  <2> QED BY <2>2, <2>3 DEF Safe, Waiting
<1>4. CASE RestartReminders
  <2>1. Immediate /\ d \in OwedAt(now)
    BY <1>4, RestartsOwe
  <2>2. d[3] = now
    BY <1>1, <2>1, OwedIs
  <2>3. ticker'.tick = now
    BY <1>1, <1>4, <2>1, TickerAtIs DEF RestartReminders
  <2> QED BY <2>2, <2>3 DEF Safe, Waiting
<1> QED BY <1>2, <1>3, <1>4

LEMMA NothingForgottenKept ==
  ASSUME RemindersTypeOK, RoundInv, RanInv, NothingForgotten, RemindersNext
  PROVE  NothingForgotten'
<1>1. \A d \in tellings'.owed : Safe(d)'
  <2>1. ASSUME NEW d \in tellings'.owed
        PROVE  Safe(d)'
    <3>1. CASE d \in tellings.owed
      BY <3>1, SafeStays, ForgottenIs
    <3>2. CASE d \notin tellings.owed
      BY <3>2, OwedIsWaited
    <3> QED BY <3>1, <3>2
  <2> QED BY <2>1
<1> QED BY <1>1 DEF NothingForgotten, Safe

-----------------------------------------------------------------------------
(* The loop as a whole. *)

LEMMA RemindersStart == RemindersInit => RemindersInv
<1> SUFFICES ASSUME RemindersInit
             PROVE  RemindersInv
  OBVIOUS
<1>1. 0 \in Clock /\ 0 \in Nat /\ loop \in Loops /\ now = 0 /\ round = NoRound /\ notices = {}
  BY ReminderTimeAssumption DEF Clock, RemindersInit
<1>2. PICK owed : owed = (IF Immediate THEN OwedAt(0) ELSE {}) /\ owed \subseteq Due
  BY <1>1, OwedIs
<1>3. tellings = [once |-> {}, twice |-> {}, owed |-> owed, excused |-> {}, bare |-> {}, rehoured |-> {}, started |-> {0}]
  BY <1>2 DEF RemindersInit
<1>4. /\ tellings \in Tellings /\ tellings.once = {} /\ tellings.twice = {} /\ tellings.owed = owed
      /\ tellings.bare = {} /\ tellings.rehoured = {}
  BY <1>1, <1>2, <1>3 DEF Tellings
<1>5. /\ ticker \in Ticker /\ ticker.last = 0 /\ ticker.alive /\ ~ticker.regular
      /\ ticker.tick = IF Immediate THEN 0 ELSE NoMinute
  <2>1. PICK yes : yes = TRUE /\ yes \in BOOLEAN
    OBVIOUS
  <2>2. PICK no : no = FALSE /\ no \in BOOLEAN
    OBVIOUS
  <2>3. PICK queued : queued = (IF Immediate THEN 0 ELSE NoMinute) /\ queued \in Clock \cup {NoMinute}
    BY <1>1
  <2>4. ticker = [alive |-> yes, tick |-> queued, last |-> 0, regular |-> no]
    BY <2>1, <2>2, <2>3 DEF RemindersInit, TickerAt
  <2>5. 0 \in Clock
    BY <1>1
  <2>6. ticker \in Ticker /\ ticker.last = 0 /\ ticker.alive = yes /\ ticker.regular = no /\ ticker.tick = queued
    BY ONLY <2>1, <2>2, <2>3, <2>4, <2>5 DEF Ticker
  <2> QED BY <2>1, <2>2, <2>3, <2>6
<1>6. /\ round \in Round /\ ~Active /\ ~AtJob /\ ~HasClaimed /\ round.step = "idle"
  BY <1>1 DEF NoRound, Round, Active, AtJob, HasClaimed
<1>7. /\ lastRuns \in [Companies -> [ReminderKind -> Clock \cup {NoMinute}]]
      /\ \A c \in Companies, k \in ReminderKind : lastRuns[c][k] = NoMinute
  BY DEF RemindersInit, NoRuns
<1>8. wanted \in [Companies -> Wanted]
  BY DEF RemindersInit
<1>9. RemindersTypeOK
  BY <1>1, <1>4, <1>5, <1>6, <1>7, <1>8 DEF RemindersTypeOK
<1>10. RoundInv
  <2>1. \A d \in tellings.owed : d[2] \in KindsOfLoop
    BY <1>1, <1>2, <1>4, OwedIs
  <2> QED BY <1>1, <1>6, <2>1 DEF RoundInv, AtJob
<1>11. ClockInv
  BY <1>1, <1>5, <1>6, <1>7, SlotsAre DEF ClockInv
<1>12. OnceInv
  <2>1. "digest" \in ReminderKind
    BY DEF ReminderKind
  <2> QED BY <1>4, <1>7, <2>1 DEF OnceInv, RemindedOnce
<1>13. ClaimedInv
  BY <1>6 DEF ClaimedInv, HasClaimed
<1>14. RanInv
  <2>1. \A k \in ReminderKind, m \in Clock : ReminderSlot(k, m) \in Nat
    BY SlotsGrow DEF Clock
  <2> QED BY <1>7, <2>1, SlotsAre DEF RanInv, Ran
<1>15. NothingForgotten
  <2>1. \A d \in tellings.owed : d \in Waiting
    BY <1>1, <1>2, <1>4, <1>5, OwedIs DEF Waiting
  <2> QED BY <2>1 DEF NothingForgotten
<1> QED BY <1>9, <1>10, <1>11, <1>12, <1>13, <1>14, <1>15 DEF RemindersInv

LEMMA RemindersStutter ==
  ASSUME RemindersInv, UNCHANGED reminderVars
  PROVE  RemindersInv'
<1>1. /\ UNCHANGED <<loop, now, ticker, round, wanted, lastRuns, notices, tellings>>
      /\ KindsOfLoop' = KindsOfLoop /\ (Immediate' <=> Immediate)
  BY KindsStay DEF reminderVars
<1>2. RemindersTypeOK'
  BY <1>1 DEF RemindersInv, RemindersTypeOK
<1>3. RoundInv'
  BY <1>1 DEF RemindersInv, RoundInv, AtJob, Kind
<1>4. Active' = Active /\ HasClaimed' = HasClaimed /\ Company' = Company /\ Kind' = Kind
  BY <1>1 DEF Active, HasClaimed, Company, Kind
<1>5. \A k, m : ReminderSlot(k, m)' = ReminderSlot(k, m)
  BY DEF ReminderSlot, MinutesOfDay
<1>6. ClockInv'
  BY <1>1, <1>4, <1>5 DEF RemindersInv, ClockInv
<1>7. Grows /\ SameTold
  BY <1>1 DEF Grows, SameTold
<1>8. ClaimedInv'
  BY <1>1, <1>7, ClaimStays DEF RemindersInv
<1>9. OnceInv'
  <2>1. \A m : Over(m)' <=> Over(m)
    BY <1>1, <1>4 DEF Over
  <2>2. \A c, d : DigestMinutes(c, d)' = DigestMinutes(c, d)
    BY <1>1 DEF DigestMinutes, IsDueAt, MinutesOfDay
  <2>3. \A d : RestartedOn(d)' <=> RestartedOn(d)
    BY <1>1 DEF RestartedOn, MinutesOfDay
  <2>4. \A c, k, slot : DoneWith(c, k, slot)' <=> DoneWith(c, k, slot)
    BY <1>1, <2>1, <2>2, <2>3 DEF DoneWith, MinutesOfDay
  <2>5. \A x : MayRepeat(x)' <=> MayRepeat(x)
    BY <1>1 DEF MayRepeat, MinutesOfDay
  <2>6. \A c, m : NoticedAt(c, m)' <=> NoticedAt(c, m)
    BY <1>1 DEF NoticedAt
  <2> QED BY <1>1, <2>2, <2>4, <2>5, <2>6 DEF RemindersInv, OnceInv, RemindedOnce
<1>10. This' = This /\ \A d : ToldOf(d)' <=> ToldOf(d)
  BY <1>1, <1>4, <1>5 DEF This, ToldOf
<1>11. RanInv'
  BY <1>1, <1>4, <1>5, <1>10 DEF RemindersInv, RanInv, Ran, Accounted, IsDueAt, MinutesOfDay
<1>12. NothingForgotten'
  <2>1. Waiting' = Waiting /\ Unreached' = Unreached
    BY <1>1, <1>4 DEF Waiting, Unreached
  <2> QED BY <1>1, <1>10, <2>1 DEF RemindersInv, NothingForgotten
<1> QED BY <1>2, <1>3, <1>6, <1>8, <1>9, <1>11, <1>12 DEF RemindersInv

LEMMA RemindersStep ==
  ASSUME RemindersInv, [RemindersNext]_reminderVars
  PROVE  RemindersInv'
<1>1. CASE RemindersNext
  BY <1>1, ReminderTypesKept, RoundKept, ClockKept, OnceKept, ClaimedKept, RanKept, NothingForgottenKept
  DEF RemindersInv
<1>2. CASE UNCHANGED reminderVars
  BY <1>2, RemindersStutter
<1> QED BY <1>1, <1>2

(* Whatever ticks, failures, restarts and changes of settings there are: what a loop of   *)
(* reminders remembers of its runs, what it has told, what it has claimed and what it is  *)
(* to tell agree (app/app.go, runPerTenantTicker, and the four services' RunDue...).       *)
THEOREM RemindersAlwaysSound == RemindersSpec => []RemindersInv
<1>1. RemindersInit => RemindersInv
  BY RemindersStart
<1>2. RemindersInv /\ [RemindersNext]_reminderVars => RemindersInv'
  BY RemindersStep
<1> QED BY <1>1, <1>2, PTL DEF RemindersSpec

(* The ticker, the round, the settings and the history have their types.               *)
THEOREM ReminderTypesCorrect == RemindersSpec => []RemindersTypeOK
<1>1. RemindersInv => RemindersTypeOK
  BY DEF RemindersInv
<1> QED BY <1>1, RemindersAlwaysSound, PTL

(* A reminder is told once, again only after a restart in its minute or day or for want  *)
(* of its notice, and what a tick should have brought is told, still to come or excused   *)
(* (RunReminders and RunDueReminders of the services; HasRecentReminder).                *)
THEOREM RemindersComeOnce == RemindersSpec => []RemindersKept
<1>1. RemindersInv => RemindersKept
  BY DEF RemindersInv, OnceInv, RemindersKept
<1> QED BY <1>1, RemindersAlwaysSound, PTL
=============================================================================
