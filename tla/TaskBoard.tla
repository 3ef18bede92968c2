-------------------------------- MODULE TaskBoard --------------------------------
(***************************************************************************)
(* The board of a project: its columns, the tasks in them and whom they are   *)
(* assigned to (service/operational/kanban.go, repository/operational/         *)
(* kanban.go and projects.go).                                              *)
(*                                                                         *)
(* A request reads what it needs and then writes; nothing it has read is       *)
(* locked.  Its writes are one step here: they lock the rows they change, and   *)
(* what two requests on one column still miss of each other between two         *)
(* statements concerns columns for which nothing is claimed.  Any request may   *)
(* fail before it commits: positions of columns are unique after every row, so   *)
(* a shift that takes the rows in a bad order fails, too.  Titles, labels, due    *)
(* dates and custom fields are left out; a project's mode stays as it is.        *)
(***************************************************************************)
EXTENDS Integers, FiniteSets, Sequences, Functions, FiniteSetsExt

CONSTANTS
    KanbanTasks,
    KanbanColumns,
    DefaultColumns,   \* those the project begins with, in order
    Teammates,
    Movers,           \* requests, reused one after another
    MaxPosition       \* bound: positions of tasks in a column, and of columns

ASSUME TaskBoardAssumption ==
    /\ IsFiniteSet(KanbanTasks) /\ IsFiniteSet(KanbanColumns) /\ IsFiniteSet(Teammates)
    /\ DefaultColumns \in Seq(KanbanColumns) /\ IsInjective(DefaultColumns)
    /\ MaxPosition \in Nat /\ Len(DefaultColumns) <= MaxPosition

VARIABLES
    columns,   \* kanban_columns: the position of each, 0 of one that is not there
    tasks,     \* kanban_tasks
    team,      \* project_members, ORDER BY assigned_at
    mode,      \* auto_assign_mode of the project
    cursor,    \* auto_assign_cursor
    movers,    \* what each request has read and still has to do
    notified,  \* history: who was told of each task since it is theirs
    hushed,    \* history: tasks with a message lost or two changes of hands at once
    turns,     \* history: how often each was picked in turn, beyond the least
    tangled,   \* history: columns whose tasks two requests placed at once
    skewed     \* history: two requests changed the columns at once

taskBoardVars == <<columns, tasks, team, mode, cursor, movers, notified, hushed, turns, tangled, skewed>>

-----------------------------------------------------------------------------

(* An assignee is a set of at most one. *)
Assignee == {S \in SUBSET Teammates : Cardinality(S) <= 1}

NoTask == [is |-> "absent"]
Task == [is : {"there"}, column : KanbanColumns, position : 1..MaxPosition, assignee : Assignee]

(* A request reads the task at position in from and takes it to dest in column; max is the   *)
(* last position there (of a new column, the last column's), was the assignee it read,       *)
(* turn the cursor, by who asks.  stale: one of the columns changed since; raced: the       *)
(* assignee did; outrun: somebody else was picked.                                     *)
NoRequest == [op |-> "none"]
NewRequest(op, step, by) ==
    [op |-> op, step |-> step, task |-> {}, column |-> {}, from |-> {}, position |-> 0, dest |-> 0,
     max |-> 0, assignee |-> {}, was |-> {}, turn |-> 0, by |-> by,
     stale |-> FALSE, raced |-> FALSE, outrun |-> FALSE]

There(t) == tasks[t].is = "there"

OnBoard == {c \in KanbanColumns : columns[c] # 0}

TasksOf(c) == {t \in KanbanTasks : There(t) /\ tasks[t].column = c}

MaxTaskPosition(c) == Max({0} \cup {tasks[t].position : t \in TasksOf(c)})

MaxColumnPosition == Max({0} \cup Range(columns))

IsMember(m) == m \in Range(team)

NobodysTurn == [m \in Teammates |-> 0]

TaskBoardInit ==
    /\ columns = [c \in KanbanColumns |->
           IF c \in Range(DefaultColumns) THEN CHOOSE i \in DOMAIN DefaultColumns : DefaultColumns[i] = c
           ELSE 0]
    /\ tasks = [t \in KanbanTasks |-> NoTask]
    /\ team = <<>> /\ cursor = 0
    /\ mode \in {"off", "round_robin", "least_busy"}
    /\ movers = [w \in Movers |-> NoRequest]
    /\ notified = [t \in KanbanTasks |-> {}]
    /\ hushed = {} /\ tangled = {} /\ skewed = FALSE
    /\ turns = NobodysTurn

AtWork == {w \in Movers : movers[w].op # "none"}

Reaches(w, ops, step) == movers[w].op \in ops /\ movers[w].step = step

(* The id of a row that is gone is not used again. *)
NewTaskId(t) == ~There(t) /\ \A w \in AtWork : movers[w].task # {t}
NewColumnId(c) == c \notin OnBoard /\ \A w \in AtWork : c \notin movers[w].column \cup movers[w].from

Finished(w) == [movers EXCEPT ![w] = NoRequest]

(* v has read one of these columns to place a task. *)
ReadBefore(v, touched) ==
    /\ movers[v].op \in {"create", "move"} /\ movers[v].step = "write"
    /\ touched \cap (movers[v].column \cup movers[v].from) # {}

(* The requests of rest, for which these columns have changed since. *)
Outdated(requests, rest, touched) ==
    [v \in Movers |->
       IF v \in rest /\ ReadBefore(v, touched) THEN [requests[v] EXCEPT !.stale = TRUE] ELSE requests[v]]

FailRequest(w) ==
    /\ w \in AtWork /\ movers[w].step # "tell"
    /\ movers' = Finished(w)
    /\ UNCHANGED <<columns, tasks, team, mode, cursor, notified, hushed, turns, tangled, skewed>>

-----------------------------------------------------------------------------
(* Whom a task goes to *)

StartCreate(w, t, c, assignee, by) ==
    /\ movers[w] = NoRequest /\ NewTaskId(t)
    /\ movers' = [movers EXCEPT ![w] =
           [NewRequest("create", IF assignee = {} THEN "project" ELSE "check", {by})
              EXCEPT !.task = {t}, !.column = {c}, !.assignee = assignee]]
    /\ UNCHANGED <<columns, tasks, team, mode, cursor, notified, hushed, turns, tangled, skewed>>

(* When UpdateTask cannot read the task it goes on as if that had had no assignee. *)
StartUpdate(w, t, assignee, by) ==
    /\ movers[w] = NoRequest /\ There(t)
    /\ \E was \in {tasks[t].assignee, {}} :
         movers' = [movers EXCEPT ![w] =
           [NewRequest("update", IF assignee = {} /\ was # {} THEN "project" ELSE "check", {by})
              EXCEPT !.task = {t}, !.assignee = assignee, !.was = was]]
    /\ UNCHANGED <<columns, tasks, team, mode, cursor, notified, hushed, turns, tangled, skewed>>

(* resolveAutoAssign; without an answer nobody is assigned. *)
ReadProject(w) ==
    /\ Reaches(w, {"create", "update"}, "project")
    /\ \E next \in {"check"} \cup (IF mode = "off" THEN {} ELSE {"pick"}) :
         movers' = [movers EXCEPT ![w].step = next, ![w].turn = IF next = "pick" THEN cursor ELSE 0]
    /\ UNCHANGED <<columns, tasks, team, mode, cursor, notified, hushed, turns, tangled, skewed>>

Workload(m) == Cardinality({t \in KanbanTasks : There(t) /\ m \in tasks[t].assignee})

(* GetMemberWorkloads: the first of those with the fewest tasks. *)
LeastBusy ==
    LET fewest == {i \in DOMAIN team : \A j \in DOMAIN team : Workload(team[i]) <= Workload(team[j])} IN
    team[CHOOSE i \in fewest : \A j \in fewest : i <= j]

(* One more for m; what all of the team have had is taken off. *)
TurnOf(m) ==
    LET more == [turns EXCEPT ![m] = @ + 1] IN
    IF \A n \in Range(team) : more[n] > 0 THEN [n \in Teammates |-> IF IsMember(n) THEN more[n] - 1 ELSE 0]
    ELSE more

Picked(w, assignee) ==
    [v \in Movers |->
       IF v = w THEN [movers[w] EXCEPT !.step = "check", !.assignee = assignee, !.turn = 0, !.outrun = FALSE]
       ELSE IF movers[v].op # "none" /\ movers[v].step = "pick" THEN [movers[v] EXCEPT !.outrun = TRUE]
       ELSE movers[v]]

NextCursor_Same(i) == i

NextCursor(i) == i + 1

PickInTurn(w) ==
    LET i == movers[w].turn % Len(team) IN
    /\ mode = "round_robin" /\ team # <<>>
    /\ movers' = Picked(w, {team[i + 1]})
    /\ \/ cursor' = NextCursor(i) /\ turns' = IF movers[w].outrun THEN NobodysTurn ELSE TurnOf(team[i + 1])
       \/ UNCHANGED cursor /\ turns' = NobodysTurn   \* the error of AdvanceCursor is dropped

PickMember(w) ==
    /\ Reaches(w, {"create", "update"}, "pick")
    /\ \/ PickInTurn(w)
       \/ /\ IF mode = "least_busy" /\ team # <<>> THEN movers' = Picked(w, {LeastBusy})
             ELSE team = <<>> /\ movers' = Picked(w, {})
          /\ UNCHANGED <<cursor, turns>>
    /\ UNCHANGED <<columns, tasks, team, mode, notified, hushed, tangled, skewed>>

(* ensureTaskAssigneeIsProjectMember; then CreateTask reads the column. *)
CheckAssignee(w) ==
    /\ Reaches(w, {"create", "update"}, "check")
    /\ movers[w].assignee \subseteq Range(team) /\ movers[w].column \subseteq OnBoard
    /\ movers' = [movers EXCEPT ![w].step = "write",
           ![w].max = IF movers[w].op = "create" THEN Max({MaxTaskPosition(c) : c \in movers[w].column}) ELSE 0]
    /\ UNCHANGED <<columns, tasks, team, mode, cursor, notified, hushed, turns, tangled, skewed>>

(* Who assigns a task to himself, or leaves it with whom it was, causes no message. *)
NeedsNotice(w) == movers[w].assignee \notin {{}, movers[w].was, movers[w].by}

(* w goes on with the message; others have read an assignee that t has no more.      *)
HandedOver(w, t) ==
    [v \in Movers |->
       IF v = w THEN IF NeedsNotice(w) THEN [movers[w] EXCEPT !.step = "tell", !.max = 0, !.stale = FALSE]
                     ELSE NoRequest
       ELSE IF /\ movers[v].op = "update" /\ movers[v].task = {t} /\ movers[v].step # "tell"
               /\ tasks[t].assignee # movers[w].assignee
         THEN [movers[v] EXCEPT !.raced = TRUE]
       ELSE movers[v]]

ToldAfter(w, t) ==
    IF There(t) /\ tasks[t].assignee = movers[w].assignee THEN notified[t]
    ELSE movers[w].assignee \cap movers[w].by

CreateTask(w) ==
    /\ Reaches(w, {"create"}, "write")
    /\ \E t \in movers[w].task, c \in movers[w].column \cap OnBoard :
         /\ movers[w].max < MaxPosition
         /\ tasks' = [tasks EXCEPT ![t] = [is |-> "there", column |-> c, position |-> movers[w].max + 1,
                                           assignee |-> movers[w].assignee]]
         /\ movers' = Outdated(HandedOver(w, t), Movers \ {w}, {c})
         /\ tangled' = IF movers[w].stale THEN tangled \cup {c} ELSE tangled
         /\ notified' = [notified EXCEPT ![t] = ToldAfter(w, t)] /\ hushed' = hushed \ {t}
    /\ UNCHANGED <<columns, team, mode, cursor, turns, skewed>>

UpdateTask(w) ==
    /\ Reaches(w, {"update"}, "write")
    /\ \E t \in movers[w].task :
         /\ There(t)
         /\ tasks' = [tasks EXCEPT ![t].assignee = movers[w].assignee]
         /\ movers' = HandedOver(w, t)
         /\ hushed' = IF movers[w].raced THEN hushed \cup {t} ELSE hushed
         /\ notified' = [notified EXCEPT ![t] = ToldAfter(w, t)]
    /\ UNCHANGED <<columns, team, mode, cursor, turns, tangled, skewed>>

(* Each notifier is a goroutine of its own. *)
SendTaskAssignedNotification(w) ==
    /\ movers[w].op # "none" /\ movers[w].step = "tell"
    /\ \E t \in movers[w].task :
         \/ /\ notified' = [notified EXCEPT ![t] = @ \cup movers[w].assignee]
            /\ hushed' = IF There(t) /\ tasks[t].assignee = movers[w].assignee THEN hushed \ {t} ELSE hushed
         \/ hushed' = hushed \cup {t} /\ UNCHANGED notified
    /\ movers' = Finished(w)
    /\ UNCHANGED <<columns, tasks, team, mode, cursor, turns, tangled, skewed>>

(* The team without m. *)
Others(m) ==
    LET at == CHOOSE i \in DOMAIN team : team[i] = m IN
    IF IsMember(m) THEN [i \in 1..(Len(team) - 1) |-> team[IF i < at THEN i ELSE i + 1]] ELSE team

(* Whoever is assigned again comes last; tasks stay with whom they are. *)
MutateProjectMember(m, operation) ==
    /\ operation = "remove" => IsMember(m)
    /\ team' = IF operation = "assign" THEN Append(Others(m), m) ELSE Others(m)
    /\ turns' = NobodysTurn
    /\ UNCHANGED <<columns, tasks, mode, cursor, movers, notified, hushed, tangled, skewed>>

-----------------------------------------------------------------------------
(* Where a task is *)

(* A row of column c whose position is in range moves by d. *)
Shifted(rows, c, range, d) ==
    [t \in KanbanTasks |->
       IF rows[t].is = "there" /\ rows[t].column = c /\ rows[t].position \in range
         THEN [rows[t] EXCEPT !.position = @ + d] ELSE rows[t]]

DeleteTask(t) ==
    LET c == tasks[t].column  p == tasks[t].position IN
    /\ There(t)
    /\ tasks' = Shifted([tasks EXCEPT ![t] = NoTask], c, (p + 1)..MaxPosition, -1)
    /\ movers' = Outdated(movers, Movers, {c})
    /\ notified' = [notified EXCEPT ![t] = {}]
    /\ UNCHANGED <<columns, team, mode, cursor, hushed, turns, tangled, skewed>>

StartMove(w, t, c, dest) ==
    /\ movers[w] = NoRequest /\ There(t) /\ columns[c] # 0
    /\ movers' = [movers EXCEPT ![w] =
           [NewRequest("move", "write", {})
              EXCEPT !.task = {t}, !.column = {c}, !.from = {tasks[t].column},
                     !.position = tasks[t].position, !.dest = dest, !.max = MaxTaskPosition(c)]]
    /\ UNCHANGED <<columns, tasks, team, mode, cursor, notified, hushed, turns, tangled, skewed>>

(* The rows between where it was and where it is to be make room. *)
MovedWithin(c, p, q) ==
    IF q < p THEN Shifted(tasks, c, q..(p - 1), 1) ELSE Shifted(tasks, c, (p + 1)..q, -1)

MovedAcross(a, p, c, q) == Shifted(Shifted(tasks, a, (p + 1)..MaxPosition, -1), c, q..MaxPosition, 1)

(* The task is put there if it still exists, the others have moved in any case. *)
MoveTask(w) ==
    LET r == movers[w] IN
    /\ Reaches(w, {"move"}, "write")
    /\ \E t \in r.task, a \in r.from, c \in r.column :
         LET within == a = c
             q == IF within THEN (IF r.max = 0 THEN 1 ELSE Min({r.dest, r.max})) ELSE Min({r.dest, r.max + 1})
             rows == IF within THEN MovedWithin(c, r.position, q) ELSE MovedAcross(a, r.position, c, q)
             touched == r.from \cup r.column \cup (IF There(t) THEN {tasks[t].column} ELSE {}) IN
         IF within /\ q = r.position
           THEN movers' = Finished(w) /\ UNCHANGED <<tasks, tangled>>
           ELSE /\ There(t) => c \in OnBoard
                /\ tasks' = [rows EXCEPT ![t] = IF @.is = "absent" THEN @
                                                ELSE [@ EXCEPT !.column = c, !.position = q]]
                /\ \A s \in KanbanTasks : tasks'[s].is = "there" => tasks'[s].position <= MaxPosition
                /\ movers' = Outdated(Finished(w), Movers \ {w}, touched)
                /\ tangled' = IF r.stale THEN tangled \cup touched ELSE tangled
    /\ UNCHANGED <<columns, team, mode, cursor, notified, hushed, turns, skewed>>

-----------------------------------------------------------------------------
(* Columns *)

ReadColumns(w, c, dest) ==
    /\ w \notin AtWork /\ NewColumnId(c)
    /\ movers' = [movers EXCEPT ![w] =
           [NewRequest("column", "write", {}) EXCEPT !.column = {c}, !.dest = dest, !.max = MaxColumnPosition]]
    /\ UNCHANGED <<columns, tasks, team, mode, cursor, notified, hushed, turns, tangled, skewed>>

(* CreateColumn *)
InsertColumn(w) ==
    LET r == movers[w]  p == Min({r.dest, r.max + 1}) IN
    /\ Reaches(w, {"column"}, "write")
    /\ columns' = [c \in KanbanColumns |->
           IF {c} = r.column THEN p ELSE IF columns[c] >= p THEN columns[c] + 1 ELSE columns[c]]
    /\ MaxColumnPosition < MaxPosition
    /\ movers' = Finished(w)
    /\ skewed' = (skewed \/ r.stale)
    /\ tangled' = tangled \ r.column
    /\ UNCHANGED <<tasks, team, mode, cursor, notified, hushed, turns>>

(* DeleteColumn, with the tasks in it. *)
RemoveColumn(c) ==
    /\ c \in OnBoard
    /\ columns' = [d \in KanbanColumns |->
           IF d = c THEN 0 ELSE IF columns[d] > columns[c] THEN columns[d] - 1 ELSE columns[d]]
    /\ tasks' = [t \in KanbanTasks |-> IF t \in TasksOf(c) THEN NoTask ELSE tasks[t]]
    /\ notified' = [t \in KanbanTasks |-> IF t \in TasksOf(c) THEN {} ELSE notified[t]]
    /\ movers' = [v \in Movers |->
           IF movers[v].op = "column" \/ ReadBefore(v, {c}) THEN [movers[v] EXCEPT !.stale = TRUE] ELSE movers[v]]
    /\ UNCHANGED <<team, mode, cursor, hushed, turns, tangled, skewed>>

(* ReorderColumns; the request names all there are. *)
OrderColumns(order) ==
    /\ columns' = [c \in KanbanColumns |-> IF c \in OnBoard THEN order[c] ELSE 0]
    /\ movers' = [v \in Movers |->
           IF movers[v].op = "column" /\ skewed THEN [movers[v] EXCEPT !.stale = TRUE] ELSE movers[v]]
    /\ skewed' = FALSE
    /\ UNCHANGED <<tasks, team, mode, cursor, notified, hushed, turns, tangled>>

Orders == LET n == Cardinality(OnBoard) IN
    {order \in [OnBoard -> 1..n] : IsInjective(order)}

TaskBoardNext ==
    \/ \E w \in Movers :
         \/ FailRequest(w) \/ ReadProject(w) \/ PickMember(w) \/ CheckAssignee(w)
         \/ CreateTask(w) \/ UpdateTask(w) \/ MoveTask(w) \/ InsertColumn(w)
         \/ SendTaskAssignedNotification(w)
    \/ \E w \in Movers \ AtWork :
         \/ \E t \in KanbanTasks, assignee \in Assignee, by \in Teammates :
              \/ StartUpdate(w, t, assignee, by)
              \/ \E c \in OnBoard : StartCreate(w, t, c, assignee, by)
         \/ \E c \in KanbanColumns, dest \in 1..MaxPosition :
              \/ ReadColumns(w, c, dest)
              \/ \E t \in KanbanTasks : StartMove(w, t, c, dest)
    \/ \E t \in KanbanTasks : DeleteTask(t)
    \/ \E c \in KanbanColumns : RemoveColumn(c)
    \/ \E order \in Orders : OrderColumns(order)
    \/ \E m \in Teammates, operation \in {"assign", "remove"} : MutateProjectMember(m, operation)

TaskBoardSpec == TaskBoardInit /\ [][TaskBoardNext]_taskBoardVars

-----------------------------------------------------------------------------
(* Properties *)

(* Types of the rows, the requests and the histories.                            *)
TaskBoardTypeOK ==
    /\ columns \in [KanbanColumns -> 0..MaxPosition]
    /\ \A t \in KanbanTasks : tasks[t] \in Task \cup {NoTask}
    /\ team \in Seq(Teammates) /\ mode \in {"off", "round_robin", "least_busy"}
    /\ cursor \in 0..Cardinality(Teammates)
    /\ \A w \in AtWork : movers[w].step \in {"project", "pick", "check", "write", "tell"}
                        /\ movers[w].assignee \in Assignee
    /\ notified \in [KanbanTasks -> SUBSET Teammates] /\ turns \in [Teammates -> Nat]
    /\ hushed \subseteq KanbanTasks /\ tangled \subseteq KanbanColumns /\ skewed \in BOOLEAN

Numbered(S, position) ==
    {position[x] : x \in S} = 1..Cardinality(S)

(* The columns are 1 to n, unless one was deleted while another was being added.    *)
ColumnsInOrder == skewed \/ Numbered(OnBoard, columns)

(* The tasks of a column are 1 to n, however they were moved, added and deleted, as   *)
(* long as no request placed one there, or took one from there, after another         *)
(* request had changed what it had read.                                         *)
TasksInOrder ==
    \A c \in KanbanColumns \ tangled :
      Numbered(TasksOf(c), [t \in TasksOf(c) |-> tasks[t].position])

(* Whose task it is was told so, or took it himself, unless the message failed or two  *)
(* requests changed its assignee at once.                                        *)
AssigneesAreTold ==
    \A t \in KanbanTasks \ hushed :
      There(t) /\ (\A w \in AtWork : movers[w].task = {t} => movers[w].step # "tell")
        => tasks[t].assignee \subseteq notified[t]

(* By turns nobody is picked twice more than another, counted from the last change of   *)
(* the team, two picks at once or a cursor that could not be stored.                *)
TurnsAreFair == \A m, n \in Range(team) : turns[m] <= turns[n] + 1

(* What the requests on one board leave behind them.                              *)
BoardIsKept == ColumnsInOrder /\ TasksInOrder /\ AssigneesAreTold /\ TurnsAreFair
=============================================================================
