-------------------------------- MODULE Monitors --------------------------------
(***************************************************************************)
(* Uptime checks of servers and DNS checks of domains                        *)
(* (service/operational/vps_monitor.go, domain_monitor.go and their           *)
(* repositories).                                                           *)
(*                                                                         *)
(* A loop lists what is due and gives it to workers; it waits for all of them  *)
(* before the next round.  A worker probes, records the result, rolls the      *)
(* server's status up, and tells people of an outage or of its end; each of      *)
(* these is a statement of its own that may fail, an error is only logged, and   *)
(* the process may stop between any two.                                       *)
(*                                                                         *)
(* Times are ages, counted in intervals of a check up to where they stop to     *)
(* matter; timeouts keep a worker's job under MaxAge of them.  A count of        *)
(* failures stops at the threshold it is compared with.  All checks are of one    *)
(* server.                                                                  *)
(***************************************************************************)
EXTENDS Integers, FiniteSets

CONSTANTS
    Checks,              \* health checks of the server
    Domains,
    ProbeWorkers,
    DownBeforeAlert, DownBeforeDomainAlert,
    AlertCooldown, DomainAlertCooldown,
    MaxAge               \* bound: intervals a job takes

ASSUME MonitorAssumption ==
    /\ DownBeforeAlert \in Nat \ {0} /\ DownBeforeDomainAlert \in Nat \ {0}
    /\ AlertCooldown \in Nat \ {0} /\ DomainAlertCooldown \in Nat \ {0} /\ MaxAge \in Nat

VARIABLES
    probes,      \* rows of vps_health_checks and domains
    lastStatus,  \* last_status of the server
    due,         \* what the round still has to give to a worker
    workers,        \* what each worker is doing
    told,        \* history: the last message about each that reached people, and its age
    gap,         \* history: least time between two messages of one outage
    untold,      \* history: those of whose outage a message, a mark or a check was lost
    torn         \* history: the status may be behind the checks

monitorVars == <<probes, lastStatus, due, workers, told, gap, untold, torn>>

-----------------------------------------------------------------------------

Probed == Checks \cup Domains

Threshold(c) == IF c \in Domains THEN DownBeforeDomainAlert ELSE DownBeforeAlert
Cooldown(c) == IF c \in Domains THEN DomainAlertCooldown ELSE AlertCooldown

(* The age of what never was, or was so long ago that it does not matter. *)
LongAgo(c) == Cooldown(c) + MaxAge

AgesOf(c) == 0..LongAgo(c)

Statuses == {"unknown", "up", "down", "degraded"}

Row(c) == [is : {"absent", "on", "off"}, last : {"unknown", "up", "down"}, fails : 0..Threshold(c),
           alertActive : BOOLEAN, sent : AgesOf(c), checked : BOOLEAN]
NewRow(c) == [is |-> "on", last |-> "unknown", fails |-> 0, alertActive |-> FALSE,
              sent |-> LongAgo(c), checked |-> FALSE]

(* of is what the worker checks, age how long ago it began, row what it recorded,       *)
(* rolled the status it computed, whole that nothing made this old since, reached that  *)
(* its message came through.                                                      *)
Work(c) == [step : {"probe", "read", "write", "decide", "mark", "clear"}, of : {c},
            age : 0..MaxAge, row : Row(c), rolled : Statuses, whole : BOOLEAN, reached : BOOLEAN]
NewWork(c) == [step |-> "probe", of |-> c, age |-> 0, row |-> NewRow(c), rolled |-> "unknown",
               whole |-> TRUE, reached |-> FALSE]
NoWork == [step |-> "idle"]

MonitorInit ==
    /\ probes = [c \in Probed |-> [NewRow(c) EXCEPT !.is = "absent"]]
    /\ lastStatus = "unknown"
    /\ due = {}
    /\ workers = [w \in ProbeWorkers |-> NoWork]
    /\ told = [c \in Probed |-> [what |-> "nothing", age |-> LongAgo(c)]]
    /\ gap = [c \in Probed |-> Cooldown(c)]
    /\ untold = {}
    /\ torn = FALSE

Busy == {w \in ProbeWorkers : workers[w].step # "idle"}

WorkersOf(c) == {w \in Busy : workers[w].of = c}

(* What is written after this was read before it. *)
Torn(running) == [w \in ProbeWorkers |->
    IF running[w].step = "write" THEN [running[w] EXCEPT !.whole = FALSE] ELSE running[w]]

-----------------------------------------------------------------------------
(* Rows that people edit *)

Edit(c, row) ==
    /\ probes' = [probes EXCEPT ![c] = row]
    /\ IF c \in Checks THEN torn' = TRUE /\ workers' = Torn(workers) ELSE UNCHANGED <<torn, workers>>
    /\ UNCHANGED <<lastStatus, due>>

(* A new row has an id of its own. *)
CreateCheck(c) ==
    /\ probes[c].is = "absent" /\ c \notin due /\ WorkersOf(c) = {}
    /\ Edit(c, NewRow(c))
    /\ told' = [told EXCEPT ![c] = [what |-> "nothing", age |-> LongAgo(c)]]
    /\ untold' = untold \ {c}
    /\ UNCHANGED gap

DeleteCheck(c) ==
    /\ probes[c].is # "absent"
    /\ Edit(c, [NewRow(c) EXCEPT !.is = "absent"])
    /\ UNCHANGED <<told, gap, untold>>

(* UpdateCheck keeps the counters and the alert. *)
SetEnabled(c, is) ==
    /\ probes[c].is # "absent" /\ is # probes[c].is
    /\ Edit(c, [probes[c] EXCEPT !.is = is])
    /\ UNCHANGED <<told, gap, untold>>

-----------------------------------------------------------------------------
(* The loop and its workers *)

ListDueChecks ==
    /\ due = {} /\ Busy = {}
    /\ due' = {c \in Probed : probes[c].is = "on" /\ ~probes[c].checked}
    /\ UNCHANGED <<probes, lastStatus, workers, told, gap, untold, torn>>

(* runWorker; without a connection the check waits for the next round. *)
RunWorker(w, c) ==
    /\ w \notin Busy /\ c \in due
    /\ due' = due \ {c}
    /\ workers' = [workers EXCEPT ![w] = NewWork(c)] \/ UNCHANGED workers
    /\ UNCHANGED <<probes, lastStatus, told, gap, untold, torn>>

Counted(c, found) ==
    IF found = "up" THEN 0
    ELSE IF probes[c].fails = Threshold(c) THEN Threshold(c) ELSE probes[c].fails + 1

(* RecordCheckResult and RecordDNSCheckResult, in a transaction that locks the row; *)
(* the worker decides on the row it wrote.                                      *)
RecordCheckResult(w, found) ==
    LET c == workers[w].of
        row == [probes[c] EXCEPT !.last = found, !.fails = Counted(c, found),
                                 !.checked = workers[w].age = 0]
        next == IF c \in Checks THEN "read" ELSE "decide" IN
    /\ workers[w].step = "probe" /\ probes[c].is # "absent"
    /\ probes' = [probes EXCEPT ![c] = row]
    /\ workers' = [workers EXCEPT ![w].step = next, ![w].row = row]
    /\ UNCHANGED <<lastStatus, due, told, gap, untold, torn>>

(* The probe panics, or its result cannot be recorded or has no row any more. *)
LoseResult(w) ==
    /\ workers[w].step = "probe"
    /\ workers' = [workers EXCEPT ![w] = NoWork]
    /\ UNCHANGED <<probes, lastStatus, due, told, gap, untold, torn>>

RolledUp ==
    LET of(status) == {c \in Checks : probes[c].is = "on" /\ probes[c].last = status} IN
    IF of("down") # {} /\ of("up") \cup of("unknown") = {} THEN "down"
    ELSE IF of("up") # {} /\ of("down") \cup of("unknown") = {} THEN "up"
    ELSE IF of("down") # {} /\ of("up") # {} THEN "degraded"
    ELSE IF of("down") # {} THEN "down"
    ELSE "unknown"

(* refreshVPSStatusSnapshot reads the checks *)
ReadStatuses(w) ==
    /\ workers[w].step = "read"
    /\ \/ workers' = [Torn(workers) EXCEPT ![w].step = "write", ![w].rolled = RolledUp] /\ UNCHANGED torn
       \/ workers' = [Torn(workers) EXCEPT ![w].step = "decide"] /\ torn' = TRUE
    /\ UNCHANGED <<probes, lastStatus, due, told, gap, untold>>

Refreshed(w, running) ==
    [running EXCEPT ![w].step = "decide", ![w].rolled = "unknown", ![w].whole = TRUE]

(* and writes the status of the server, from what it read. *)
UpdateVPSStatusSnapshot(w) ==
    /\ workers[w].step = "write"
    /\ \/ /\ lastStatus' = workers[w].rolled
          /\ torn' = ~workers[w].whole
          /\ workers' = Refreshed(w, workers)
       \/ workers' = Refreshed(w, Torn(workers)) /\ torn' = TRUE /\ UNCHANGED lastStatus
    /\ UNCHANGED <<probes, due, told, gap, untold>>

-----------------------------------------------------------------------------
(* Messages *)

IsDown(c, row) == row.last = "down" /\ row.fails >= Threshold(c)

CooldownExpired(c, row, age) == row.sent - age >= Cooldown(c)

AlertDue_Always(c, row, age) == IsDown(c, row)

AlertDue(c, row, age) ==
    /\ IsDown(c, row)
    /\ ~row.alertActive \/ CooldownExpired(c, row, age)

RecoveryDue(row) == row.last = "up" /\ row.alertActive

Least(a, b) == IF a < b THEN a ELSE b

(* dispatchDownAlert, dispatchRecoveryAlert: the message reaches people, or a lookup or *)
(* the insert fails, nobody is told and nobody knows.                             *)
Dispatch(w, c, what, next) ==
    /\ \E reached \in BOOLEAN :
         /\ workers' = [workers EXCEPT ![w].step = next, ![w].reached = reached]
         /\ told' = IF reached THEN [told EXCEPT ![c] = [what |-> what, age |-> workers[w].age]] ELSE told
         /\ untold' = IF reached THEN untold ELSE untold \cup {c}
    /\ gap' = [gap EXCEPT ![c] = IF what = "down" /\ told[c].what = "down" /\ c \notin untold
                                   THEN Least(@, told[c].age - workers[w].age) ELSE @]
    /\ UNCHANGED <<probes, lastStatus, due, torn>>

DecideAlert(w) ==
    LET c == workers[w].of  row == workers[w].row IN
    /\ workers[w].step = "decide"
    /\ \/ AlertDue(c, row, workers[w].age) /\ Dispatch(w, c, "down", "mark")
       \/ RecoveryDue(row) /\ Dispatch(w, c, "up", "clear")
       \/ /\ ~AlertDue(c, row, workers[w].age) /\ ~RecoveryDue(row)
          /\ workers' = [workers EXCEPT ![w] = NoWork]
          /\ UNCHANGED <<probes, lastStatus, due, told, gap, untold, torn>>

(* MarkCheckAlertActive, MarkDNSAlertActive *)
AlertMarked(row, age) == [row EXCEPT !.alertActive = TRUE, !.sent = age]

(* ClearCheckAlert keeps the time of the last alert, ClearDNSAlert forgets it. *)
AlertCleared(c, row) ==
    [row EXCEPT !.alertActive = FALSE, !.sent = IF c \in Domains THEN LongAgo(c) ELSE @]

(* The row may be gone. *)
StoreAlert(w) ==
    LET c == workers[w].of
        row == IF workers[w].step = "mark" THEN AlertMarked(probes[c], workers[w].age)
               ELSE AlertCleared(c, probes[c]) IN
    /\ workers[w].step \in {"mark", "clear"}
    /\ \/ /\ probes' = [probes EXCEPT ![c] = IF @.is = "absent" THEN @ ELSE row]
          /\ untold' = IF workers[w].reached THEN untold \ {c} ELSE untold
       \/ untold' = untold \cup {c} /\ UNCHANGED probes
    /\ workers' = [workers EXCEPT ![w] = NoWork]
    /\ UNCHANGED <<lastStatus, due, told, gap, torn>>

-----------------------------------------------------------------------------

(* A worker that has something to tell, or has told it and not stored that. *)
Telling(w) ==
    \/ workers[w].step \in {"mark", "clear"}
    \/ /\ workers[w].step \in {"read", "write", "decide"}
       /\ AlertDue(workers[w].of, workers[w].row, workers[w].age) \/ RecoveryDue(workers[w].row)

(* The result is committed and its reply is lost: processCheck returns there. *)
LoseReply(w) ==
    LET c == workers[w].of IN
    /\ w \in Busy /\ workers[w].step = IF c \in Checks THEN "read" ELSE "decide"
    /\ workers' = [IF c \in Checks THEN Torn(workers) ELSE workers EXCEPT ![w] = NoWork]
    /\ torn' = (torn \/ c \in Checks)
    /\ untold' = IF Telling(w) THEN untold \cup {c} ELSE untold
    /\ UNCHANGED <<probes, lastStatus, due, told, gap>>

(* The server is stopped or panics: what was read and not yet written is lost. *)
StopMonitors ==
    /\ due # {} \/ Busy # {}
    /\ due' = {}
    /\ workers' = [w \in ProbeWorkers |-> NoWork]
    /\ untold' = untold \cup {workers[w].of : w \in {v \in Busy : Telling(v)}}
    /\ torn' = (torn \/ \E w \in Busy : workers[w].step \in {"read", "write"})
    /\ UNCHANGED <<probes, lastStatus, told, gap>>

Older(c, age) == Least(age + 1, LongAgo(c))

IntervalPasses ==
    /\ \A w \in Busy : workers[w].age < MaxAge
    /\ probes' = [c \in Probed |-> [probes[c] EXCEPT !.sent = Older(c, @), !.checked = FALSE]]
    /\ workers' = [w \in ProbeWorkers |->
           IF w \notin Busy THEN workers[w]
           ELSE [workers[w] EXCEPT !.age = @ + 1, !.row.sent = Older(workers[w].of, @)]]
    /\ told' = [c \in Probed |-> [told[c] EXCEPT !.age = Older(c, @)]]
    /\ UNCHANGED <<lastStatus, due, gap, untold, torn>>

MonitorNext ==
    \/ ListDueChecks
    \/ \E c \in Probed :
         \/ CreateCheck(c) \/ DeleteCheck(c)
         \/ \E is \in {"on", "off"} : SetEnabled(c, is)
         \/ \E w \in ProbeWorkers : RunWorker(w, c)
    \/ \E w \in ProbeWorkers :
         \/ \E found \in {"up", "down"} : RecordCheckResult(w, found)
         \/ LoseResult(w) \/ LoseReply(w) \/ ReadStatuses(w) \/ UpdateVPSStatusSnapshot(w)
         \/ DecideAlert(w) \/ StoreAlert(w)
    \/ StopMonitors
    \/ IntervalPasses

MonitorSpec == MonitorInit /\ [][MonitorNext]_monitorVars

-----------------------------------------------------------------------------
(* Properties *)

(* Types of the rows, the workers and what was told.                             *)
MonitorTypeOK ==
    /\ \A c \in Probed : /\ probes[c] \in Row(c)
                         /\ told[c] \in [what : {"nothing", "down", "up"}, age : AgesOf(c)]
                         /\ gap[c] \in 0..Cooldown(c)
    /\ lastStatus \in Statuses
    /\ due \subseteq Probed /\ untold \subseteq Probed /\ torn \in BOOLEAN
    /\ \A w \in Busy : workers[w].of \in Probed /\ workers[w] \in Work(workers[w].of)

(* Between two checks the alert is active exactly during an outage (that many      *)
(* failures in a row), and people's last word is that it is down; a message or a    *)
(* mark that failed or was cut off is made good by the next one.                  *)
AlertsMatchOutages ==
    \A c \in Probed \ untold :
      probes[c].is # "absent" /\ WorkersOf(c) = {} =>
        /\ probes[c].alertActive <=> probes[c].fails >= Threshold(c)
        /\ probes[c].alertActive <=> told[c].what = "down"

(* "alertCooldown is the minimum gap between repeat 'still down' alerts", from the  *)
(* start of one job to that of the other, which is the time both are given: the messages  *)
(* themselves may be nearer by the length of a job.                                *)
CooldownIsKept == \A c \in Probed : gap[c] >= Cooldown(c)

(* The server's status is that of its enabled checks, once the workers are through  *)
(* and unless one wrote it after another had read the checks again, a refresh failed, *)
(* or somebody switched, added or deleted a check since.                          *)
StatusIsRolledUp ==
    torn \/ (\E w \in Busy : workers[w].step \in {"read", "write"}) \/ lastStatus = RolledUp

(* What people are told of an outage, what the rows remember and what the list of    *)
(* servers shows fit together, although each is written by a statement of its own.    *)
MonitorsAgree == AlertsMatchOutages /\ CooldownIsKept /\ StatusIsRolledUp
=============================================================================
