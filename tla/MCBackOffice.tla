------------------------------ MODULE MCBackOffice ------------------------------
(***************************************************************************)
(* Eleven parts of the back office that share no row and no memory: the      *)
(* activity tracker, the contracts, the legal letters, the marketing board, the *)
(* WhatsApp messages, the other reminders, the reimbursements, the monitors, a *)
(* project's board of tasks, the users' permissions and the browser extension.  *)
(* A behaviour is of one of them (scene, picked in Init), with the others at rest, *)
(* so the instances add up instead of multiplying.                            *)
(***************************************************************************)
EXTENDS ActivityTracker, EmploymentContracts, CampaignBoard, Broadcasts,
        Reimbursements, Monitors, TaskBoard, RolePermissions,
        OfflineQueue, LegalLetters, ReminderJobs, TLC

CONSTANTS c1, k1, k2, k3, e1, s1, s2, g1, g2, b1, b2, r1, q1,
          f1, f2, n1, n2, m1, w1, w2, p1, p2, d1, o1, o2, x1, x2, x3, y1, y2, y3, t1, t2, v1, v2,
          u1, h1, h2, l1, i1, i2, z1, z2, a1, a2, j1, j2, j3, j4

OneCall == {c1}
ThreeContracts == {k1, k2, k3}
OneMonth == {1}
OneEditor == {e1}
ContractMailers == {s1, s2}
TwoCampaigns == {g1, g2}
TwoBoarders == {b1, b2}
SecondLaneNamed == <<"none", "live", "none">>
OneRecipient == {r1}
OneRequest == {q1}
OnOrOff == {[on |-> TRUE, limit |-> 2], [on |-> FALSE, limit |-> 1]}
TwoClaims == {f1, f2}
OneEntry == {m1}
TwoReceipts == {n1, n2}
TwoClerks == {w1, w2}
TwoChecks == {p1, p2}
OneDomain == {d1}
TwoWorkers == {o1, o2}
ThreeTasks == {x1, x2, x3}
ThreeColumns == {y1, y2, y3}
FirstColumns == <<y1, y2>>
TwoTeammates == {t1, t2}
TwoMovers == {v1, v2}
OneAccount == {u1}
TwoRoles == {h1, h2}
OneLoader == {l1}
TwoAdmins == {i1, i2}
TwoChores == {z1, z2}
TwoCompanies == {a1, a2}
TwoLetters == {j1, j2}
TwoLegalClerks == {j3, j4}
OneLetterSender == {c1}

VARIABLE scene

(* Of the contracts: one and everything that happens to it, three in a race for *)
(* the numbers of a month, three that renew each other.                         *)
ContractScenes == {"document", "numbers", "renewals"}

(* Of the board: two campaigns that are placed in two lanes, one among three lanes *)
(* that are added, dropped and ordered.                                          *)
BoardScenes == {"cards", "lanes"}
LaneOps == {"add", "drop", "reorder", "ensure"}

(* Of the reimbursements: everything that happens to one claim, two that are reviewed  *)
(* and paid together, and a finance record entered by hand.                      *)
ClaimScenes == {"claim", "bulk", "entry"}

(* Of the monitors: the alerts of one check, the status of a server with two, the      *)
(* alerts of a domain.                                                          *)
MonitorScenes == {"alerts", "servers", "dns"}

(* Of a project's board: its tasks, its columns, who is next, and whose a task is.     *)
TaskScenes == {"places", "columns", "turns", "hands"}

(* Of the extension: a queue that fills, ticks that overlap, ticks while a message of  *)
(* the pop-up is handled.                                                      *)
QueueScenes == {"full", "flushes", "popup"}

(* Of the letters: one that is mailed while it is edited or signed, one that two requests *)
(* change, two that are numbered.                                              *)
LetterScenes == {"mails", "letter", "letterNumbers"}

(* Of the reminders: one of the four loops.                                      *)
ReminderScenes == {"trackerReminders", "digests", "reviews", "weeklies"}
LoopIn == [trackerReminders |-> "tracker", digests |-> "discord", reviews |-> "reimbursement",
           weeklies |-> "email"]

(* Of the WhatsApp messages: a day, and past midnight with one event.               *)
BroadcastScenes == {"broadcasts", "midnight"}

Scenes == {"tracker", "roles"} \cup BroadcastScenes \cup ContractScenes \cup BoardScenes
              \cup ClaimScenes \cup MonitorScenes \cup TaskScenes \cup QueueScenes
              \cup LetterScenes \cup ReminderScenes

ModeIn == [places |-> "off", columns |-> "off", turns |-> "round_robin", hands |-> "least_busy"]

BackOfficeInit ==
    /\ scene \in Scenes
    /\ loop = IF scene \in ReminderScenes THEN LoopIn[scene] ELSE "tracker"
    /\ \E w \in Wanted :
         /\ w.on /\ w.hour = 0 /\ (scene \notin ReminderScenes => w.inApp)
         /\ wanted = [a \in Companies |-> [w EXCEPT !.inApp = @ \/ a = a2]]
    /\ TrackerInit /\ ContractInit /\ BoardInit /\ BroadcastInit
    /\ ClaimInit /\ MonitorInit /\ TaskBoardInit /\ RolesInit /\ QueueInit
    /\ LettersInit /\ RemindersInit
    /\ mode = IF scene \in TaskScenes THEN ModeIn[scene] ELSE "off"
    /\ scene = "cards" => On(lanes) = 1..(LastLane - 1) /\ lanes[1].stage = "plan" /\ lanes[1].position = 1
    /\ scene = "lanes" => /\ On(lanes) = 1..(LastLane - 1)
                          /\ \A l \in On(lanes) : lanes[l].position = l
                          /\ lanes[1].stage = "plan" /\ lanes[2].stage = "none"
    /\ scene \notin BoardScenes => \A l \in On(lanes) : l = 1 /\ lanes[l].stage = "none"
    /\ settings.on
    /\ scene # "popup" => kept.consented
    /\ roles[h1].is = "live" /\ people[u1].role = h1
    /\ scene # "roles" => roles[h2].is = "live"

InTracker ==
    /\ scene = "tracker" /\ ~slipped /\ TrackerNext
    /\ Cardinality(denied') <= 1
    /\ \A c \in Calls : Len(calls'[c].todo) > 1 => clock = MaxClock
    /\ UNCHANGED <<contractVars, boardVars, broadcastVars, claimVars, monitorVars, taskBoardVars, roleVars, queueVars, legalVars, reminderVars>>

InContracts ==
    /\ scene \in ContractScenes /\ ContractNext
    /\ scene = "document" =>
         generations' <= 2 /\ \A c \in Contracts \ {k1} : contracts'[c] = Absent
    /\ scene = "numbers"  => editing' = editing /\ mailing' = mailing /\ contracts'[k3] = Absent
    /\ scene = "renewals" => generations' = 0 /\ editing' = editing
    /\ UNCHANGED <<trackerVars, boardVars, broadcastVars, claimVars, monitorVars, taskBoardVars, roleVars, queueVars, legalVars, reminderVars>>

InBoard ==
    /\ scene \in BoardScenes /\ BoardNext
    /\ scene = "cards" =>
         /\ lanes'[LastLane].is = "unused" /\ \A w \in Boarders : tx'[w].op \notin LaneOps
         /\ lanes[2].stage = "none" => cards'[g2] = NoCard
    /\ scene = "lanes" =>
         /\ \A c \in Campaigns \ {g1} : cards'[c] = NoCard
         /\ tx'[b1].op \in {"none", "create", "update", "ensure"}
         /\ tx'[b2].op \in {"none", "move", "add", "drop", "reorder"} /\ tx'[b2].at < 2
    /\ UNCHANGED <<trackerVars, contractVars, broadcastVars, claimVars, monitorVars, taskBoardVars, roleVars, queueVars, legalVars, reminderVars>>

InBroadcasts ==
    /\ scene \in BroadcastScenes /\ BroadcastNext
    /\ scene = "broadcasts" => minute' < 2 /\ (events' # events => minute = 0)
    /\ scene = "midnight"   => events' <= 1
    /\ UNCHANGED <<trackerVars, contractVars, boardVars, claimVars, monitorVars, taskBoardVars, roleVars, queueVars, legalVars, reminderVars>>

InClaims ==
    /\ scene \in ClaimScenes /\ ClaimNext
    /\ scene = "claim" => claims'[f2] = NoClaim /\ claims'[f1].amount # 2 /\ entries' = entries
    /\ scene = "bulk"  => /\ files' = files /\ entries' = entries
                          /\ claims'[f2].amount # 1
    /\ scene = "entry" => claims' = claims
    /\ UNCHANGED <<trackerVars, contractVars, boardVars, broadcastVars, monitorVars, taskBoardVars, roleVars, queueVars, legalVars, reminderVars>>

InMonitors ==
    /\ scene \in MonitorScenes /\ MonitorNext
    /\ scene = "alerts"  => probes'[p2].is = "absent" /\ probes'[d1].is = "absent"
    /\ scene = "dns"     => \A c \in Checks : probes'[c].is = "absent"
    /\ scene = "servers" => /\ probes'[d1].is = "absent" /\ probes'[p2].is # "off" /\ \A c \in Checks : probes'[c].fails < 2
                            /\ \A w \in Busy' : workers'[w].age = 0
    /\ UNCHANGED <<trackerVars, contractVars, boardVars, broadcastVars, claimVars, taskBoardVars, roleVars, queueVars, legalVars, reminderVars>>

(* Of the board of tasks, until two requests tangled the tasks of a column.          *)
OnlyThere(S) == \A t \in KanbanTasks \ S : tasks'[t] = NoTask
Doing(ops) == \A v \in AtWork' : movers'[v].op \in ops

InPlaces ==
    /\ UNCHANGED <<columns, team>> /\ Doing({"create", "move"})
    /\ There(x3)' => There(x1) /\ There(x2)
    /\ There(x2)' => There(x1)
    /\ There(x3) => There(x3)'
    /\ v2 \in AtWork' => There(x2)'
    /\ \A v \in AtWork' : movers'[v].by \subseteq {t1} /\ movers'[v].assignee = {}
    /\ v2 \in AtWork' => movers'[v2].op = "move" /\ movers'[v2].dest = 1 /\ movers'[v2].column = {y1}

InColumns ==
    /\ UNCHANGED team /\ OnlyThere({x1}) /\ Doing({"create", "column"})
    /\ \A v \in AtWork' : movers'[v].by \subseteq {t1} /\ movers'[v].assignee = {}
    /\ v2 \in AtWork' => movers'[v2].op = "column" /\ movers'[v2].dest # 2

InTeam ==
    /\ UNCHANGED columns
    /\ Len(team') >= Len(team) /\ (Len(team) = 2 \/ UNCHANGED movers)
    /\ \A v \in AtWork' : movers'[v].by = {t1} /\ movers'[v].column \subseteq {y1}
    /\ scene = "turns" =>
         /\ OnlyThere({x1, x2}) /\ Doing({"create"})
         /\ \A v \in AtWork' \ AtWork : movers'[v].assignee = {} /\ movers'[v].task = IF v = v1 THEN {x1} ELSE {x2}
    /\ scene = "hands" => /\ OnlyThere({x1}) /\ Doing({"create", "update"})
                          /\ v2 \in AtWork' => movers'[v2].op = "update" /\ There(x1)'

InTaskBoard ==
    /\ scene \in TaskScenes /\ tangled = {} /\ TaskBoardNext
    /\ scene = "places"  => InPlaces
    /\ scene = "columns" => InColumns
    /\ scene \in {"turns", "hands"} => InTeam
    /\ UNCHANGED <<trackerVars, contractVars, boardVars, broadcastVars, claimVars, monitorVars, roleVars, queueVars, legalVars, reminderVars>>

InRoles ==
    /\ scene = "roles" /\ RolesNext
    /\ admins'[i1].whose \in {NoRole, u1, h2} /\ admins'[i2].whose \in {NoRole, h1}
    /\ UNCHANGED <<trackerVars, contractVars, boardVars, broadcastVars, claimVars, monitorVars, taskBoardVars, queueVars, legalVars, reminderVars>>

Messages(c) == chores'[c].at # "free" /\ chores'[c].beat = None

InQueue ==
    /\ scene \in QueueScenes /\ QueueNext
    /\ scene # "popup" => ~kept'.paused /\ \A c \in Chores : ~Messages(c)
    /\ scene = "full"    => chores'[z2] = NoChore
    /\ scene = "flushes" => beats'.taken <= 2
    /\ scene = "popup"   => beats'.taken <= 1 /\ chores'[z1].beat = None /\ ~Messages(z2)
                            /\ activity'.opened < MaxOpened
    /\ UNCHANGED <<trackerVars, contractVars, boardVars, broadcastVars, claimVars, monitorVars, taskBoardVars, roleVars, legalVars, reminderVars>>

InLetters ==
    /\ scene \in LetterScenes /\ LettersNext
    /\ scene # "letterNumbers" => letters'[j2] = NoLetter
    /\ scene = "mails"  => legalClerks'[j4] = NoLegalClerk
    /\ scene = "letter" =>
         posting' = posting /\ legalClerks'[j4].op \notin {"generate", "cancel", "update"}
    /\ scene = "letterNumbers" =>
         drawn' = drawn /\ posting' = posting
             /\ \A j \in LegalClerks : legalClerks'[j].op \in {"none", "generate"}
    /\ UNCHANGED <<trackerVars, contractVars, boardVars, broadcastVars, claimVars, monitorVars, taskBoardVars, roleVars, queueVars, reminderVars>>

(* The settings of one tenant change, and it comes first.                        *)
InReminders ==
    /\ scene \in ReminderScenes /\ RemindersNext
    /\ wanted'[a2] = wanted[a2]
    /\ round'.left # {a1}
    /\ scene # "digests" => now' <= 1
    /\ UNCHANGED <<trackerVars, contractVars, boardVars, broadcastVars, claimVars, monitorVars, taskBoardVars, roleVars, queueVars, legalVars>>

BackOfficeNext ==
    /\ \/ InTracker \/ InContracts \/ InBoard \/ InBroadcasts
       \/ InClaims \/ InMonitors \/ InTaskBoard \/ InRoles \/ InQueue
       \/ InLetters \/ InReminders
    /\ UNCHANGED scene

BackOfficeSpec ==
    BackOfficeInit /\ [][BackOfficeNext]_<<trackerVars, contractVars, boardVars, broadcastVars,
                                           claimVars, monitorVars, taskBoardVars, roleVars, queueVars,
                                           legalVars, reminderVars, scene>>

(* What tells two states apart: the parts at rest stay as Init leaves them.          *)
Moving ==
    CASE scene = "tracker"          -> <<scene, trackerVars>>
      [] scene \in BroadcastScenes  -> <<scene, broadcastVars>>
      [] scene = "roles"            -> <<scene, roleVars>>
      [] scene \in QueueScenes      -> <<scene, queueVars, legalVars, reminderVars>>
      [] scene \in LetterScenes     -> <<scene, legalVars>>
      [] scene \in ReminderScenes   -> <<scene, reminderVars>>
      [] scene \in ContractScenes   -> <<scene, contractVars>>
      [] scene \in BoardScenes      -> <<scene, boardVars>>
      [] scene \in ClaimScenes      -> <<scene, claimVars>>
      [] scene \in MonitorScenes    -> <<scene, monitorVars>>
      [] scene \in TaskScenes       -> <<scene, taskBoardVars>>

(* Types of the rows and the requests of the part that is not at rest.          *)
BackOfficeTypeOK ==
    /\ scene = "tracker" => TrackerTypeOK
    /\ scene \in ContractScenes => ContractTypeOK
    /\ scene \in BoardScenes => BoardTypeOK
    /\ scene \in BroadcastScenes => BroadcastTypeOK
    /\ scene \in ClaimScenes => ClaimTypeOK
    /\ scene \in MonitorScenes => MonitorTypeOK
    /\ scene \in TaskScenes => TaskBoardTypeOK
    /\ scene = "roles" => RolesTypeOK
    /\ scene \in QueueScenes => QueueTypeOK
    /\ scene \in LetterScenes => LettersTypeOK
    /\ scene \in ReminderScenes => RemindersTypeOK
=============================================================================
