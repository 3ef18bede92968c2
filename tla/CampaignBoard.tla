----------------------------- MODULE CampaignBoard -----------------------------
(***************************************************************************)
(* The marketing board of one tenant (repository/marketing/campaigns.go and  *)
(* campaign_stages.go): lanes, the six stages some of them carry, and the     *)
(* campaigns placed in them.                                                 *)
(*                                                                         *)
(* A request is one transaction at READ COMMITTED: it waits for row locks     *)
(* one at a time, sees the others' writes only after they commit, and         *)
(* releases everything at its end.  A lane is locked by a placement (FOR NO   *)
(* KEY UPDATE) or by a change of its row (position is in a unique index, so   *)
(* that is FOR UPDATE); the two exclude each other.  The layout lock is the   *)
(* advisory lock of lockCampaignColumnLayout.  Names of lanes do not change   *)
(* (a rename matters to nothing but a later adoption), attachments and the    *)
(* activity log are left out, and every campaign has a placement: CreateCampaign *)
(* inserts both and nothing deletes a placement alone.                        *)
(***************************************************************************)
EXTENDS Integers, FiniteSets

CONSTANTS
    Campaigns,
    LastLane,      \* lanes are 1..LastLane, in the order of their ids
    Stages,
    NamedFor,      \* the stage the name of each lane stands for, or "none"
    Boarders       \* requests, reused one after another

ASSUME LanesAssumption == LastLane \in Nat /\ NamedFor \in [1..LastLane -> Stages \cup {"none"}]
ASSUME BoardAssumption == IsFiniteSet(Campaigns) /\ "none" \notin Campaigns /\ "none" \notin Stages

VARIABLES
    lanes,   \* campaign_columns
    cards,   \* campaigns with their campaign_column_assignments
    tx,      \* what each transaction has read and what it will write
    holds,   \* the lanes, and the layout, each transaction has locked
    adopted  \* history: lanes that were given their stage later

boardVars == <<lanes, cards, tx, holds, adopted>>

-----------------------------------------------------------------------------

Lanes == 1..LastLane
Layout == 0

(* A lane that was deleted does not come back under its id. *)
Lane == [is : {"unused", "on", "gone"}, position : Nat, stage : Stages \cup {"none"}]

(* A campaign in lane 0 does not exist. *)
Card == [lane : 0..LastLane, position : Nat, status : Stages \cup {"none"}]
NoCard == [lane |-> 0, position |-> 0, status |-> "none"]

(* at is the requested position (0: the end); board and plan are the lanes and *)
(* the placements the transaction will commit.                                *)
NoTx == [op |-> "none", step |-> "idle", card |-> "none", lane |-> 0, at |-> 0,
         status |-> "none", board |-> <<>>, plan |-> <<>>]

On(board) == {l \in Lanes : board[l].is = "on"}

InLane(l) == {c \in Campaigns : cards[c].lane = l}

(* The board as migrations and earlier versions left it: some stages may have   *)
(* no lane yet.                                                              *)
BoardInit ==
    /\ \E n \in 1..LastLane : \E order \in [1..n -> 1..n], stage \in [1..n -> Stages \cup {"none"}] :
         /\ \A l, k \in 1..n : l # k => /\ order[l] # order[k]
                                        /\ stage[l] = "none" \/ stage[l] # stage[k]
         /\ lanes = [l \in Lanes |->
                IF l <= n THEN [is |-> "on", position |-> order[l], stage |-> stage[l]]
                ELSE [is |-> "unused", position |-> 0, stage |-> "none"]]
    /\ cards = [c \in Campaigns |-> NoCard]
    /\ tx = [w \in Boarders |-> NoTx]
    /\ holds = [w \in Boarders |-> {}]
    /\ adopted = {}

-----------------------------------------------------------------------------
(* Transactions and locks *)

FreeFor(w, l) == \A v \in Boarders \ {w} : l \notin holds[v]

(* The board as the transaction sees it. *)
Seen(w) == IF tx[w].board = <<>> THEN lanes ELSE tx[w].board

LaneOf(board, s) == {l \in On(board) : board[l].stage = s}

Begin(w, op, step, card, lane, at, status) ==
    /\ tx[w] = NoTx
    /\ tx' = [tx EXCEPT ![w] = [NoTx EXCEPT !.op = op, !.step = step, !.card = card,
                                            !.lane = lane, !.at = at, !.status = status]]
    /\ UNCHANGED <<lanes, cards, holds, adopted>>

(* The transaction ends without a change: an error, or nothing to write; the    *)
(* five seconds of QueryContext, a deadlock Postgres resolved, a stop.          *)
RollBackBoard(w) ==
    /\ tx[w] # NoTx
    /\ tx' = [tx EXCEPT ![w] = NoTx]
    /\ holds' = [holds EXCEPT ![w] = {}]
    /\ UNCHANGED <<lanes, cards, adopted>>

CommitBoard(w) ==
    LET t == tx[w] IN
    /\ t.step = "written"
    /\ lanes' = Seen(w)
    /\ cards' = [c \in Campaigns |->
           [lane |-> IF c \in DOMAIN t.plan THEN t.plan[c].lane ELSE cards[c].lane,
            position |-> IF c \in DOMAIN t.plan THEN t.plan[c].position ELSE cards[c].position,
            status |-> IF c = t.card /\ t.status # "none" THEN t.status ELSE cards[c].status]]
    /\ adopted' = adopted \cup {l \in On(lanes) : lanes[l].stage # Seen(w)[l].stage}
    /\ tx' = [tx EXCEPT ![w] = NoTx]
    /\ holds' = [holds EXCEPT ![w] = {}]

-----------------------------------------------------------------------------
(* Campaigns *)

CreateCampaign(w, c, s) ==
    /\ cards[c] = NoCard /\ \A v \in Boarders : tx[v].card # c
    /\ Begin(w, "create", "stage", c, 0, 0, s)

UpdateCampaign(w, c, s) == cards[c] # NoCard /\ Begin(w, "update", "campaign", c, 0, 0, s)

(* stageForColumnID: no stage keeps the status. *)
MoveCampaign(w, c, l, p) ==
    /\ cards[c] # NoCard /\ l \in On(lanes)
    /\ Begin(w, "move", "campaign", c, l, p, lanes[l].stage)

(* It waits for a transaction that has the campaign, and no one else then does. *)
DeleteCampaign(c) ==
    /\ cards[c] # NoCard
    /\ \A w \in Boarders : tx[w].card = c => tx[w].step = "campaign"
    /\ cards' = [cards EXCEPT ![c] = NoCard]
    /\ tx' = [w \in Boarders |-> [tx[w] EXCEPT
           !.plan = [d \in DOMAIN tx[w].plan \ {c} |-> tx[w].plan[d]]]]
    /\ UNCHANGED <<lanes, holds, adopted>>

LockCampaign_Unlocked(w) ==
    LET t == tx[w] IN
    /\ t.step = "campaign"
    /\ cards[t.card] # NoCard
    /\ tx' = [tx EXCEPT ![w].step =
           CASE t.op = "move" -> "lanes"
             [] t.op = "update" /\ cards[t.card].status # t.status -> "stage"
             [] OTHER -> "written"]
    /\ UNCHANGED <<lanes, cards, holds, adopted>>

(* The row of the campaign FOR UPDATE; an edit that keeps the stage is done.     *)
LockCampaign(w) ==
    LET t == tx[w]
        c == t.card IN
    /\ t.step = "campaign"
    /\ cards[c] # NoCard
    /\ \A v \in Boarders \ {w} : tx[v].card = c => tx[v].step = "campaign"
    /\ tx' = [tx EXCEPT ![w].step =
           CASE t.op = "move" -> "lanes"
             [] t.op = "update" /\ cards[c].status # t.status -> "stage"
             [] OTHER -> "written"]
    /\ UNCHANGED <<lanes, cards, holds, adopted>>

(* findStageColumn: the lane of the stage, or else ensureStageColumnsTx first.   *)
FindStage(w) ==
    /\ tx[w].step = "stage"
    /\ \/ \E l \in LaneOf(Seen(w), tx[w].status) :
            tx' = [tx EXCEPT ![w].lane = l, ![w].step = "lanes"]
       \/ /\ LaneOf(Seen(w), tx[w].status) = {}
          /\ tx' = [tx EXCEPT ![w].step = "layout"]
    /\ UNCHANGED <<lanes, cards, holds, adopted>>

LanesToLock_None(w) == {}

(* lockColumnsForPlacement: the lanes it goes to and comes from, in id order.    *)
LanesToLock(w) == {tx[w].lane, cards[tx[w].card].lane} \ ({0} \cup holds[w])

NextLane_TargetFirst(w) ==
    IF tx[w].lane \in LanesToLock(w) THEN tx[w].lane ELSE cards[tx[w].card].lane

NextLane(w) == CHOOSE l \in LanesToLock(w) : \A k \in LanesToLock(w) : l <= k

LockLane(w) ==
    /\ tx[w].step = "lanes" /\ LanesToLock(w) # {}
    /\ NextLane(w) \in On(Seen(w))
    /\ FreeFor(w, NextLane(w))
    /\ holds' = [holds EXCEPT ![w] = @ \cup {NextLane(w)}]
    /\ UNCHANGED <<lanes, cards, tx, adopted>>

(* compactLanePositions numbers the cards of a lane 1..n in their order.         *)
Rank(c) == 1 + Cardinality({d \in InLane(cards[c].lane) : cards[d].position < cards[c].position})

(* The positions of the cards of both lanes once c stands at its own.            *)
Placement(c, to, at) ==
    LET from == cards[c].lane
        others == InLane(to) \ {c}
        last == Cardinality(others) + 1
        place == IF at = 0 \/ at > last THEN last ELSE at
        behind == IF from = 0 THEN {} ELSE InLane(from) \ {c}
        left == [d \in behind \cup others |->
            IF d \in behind /\ Rank(d) > Rank(c) THEN Rank(d) - 1 ELSE Rank(d)]
    IN [d \in (DOMAIN left) \cup {c} |->
          IF d = c THEN [lane |-> to, position |-> place]
          ELSE [lane |-> cards[d].lane,
                position |-> IF d \in others /\ left[d] >= place THEN left[d] + 1 ELSE left[d]]]

(* From here to the commit only a campaign can be deleted: it leaves a gap.      *)
Place(w) ==
    /\ tx[w].step = "lanes" /\ LanesToLock(w) = {}
    /\ tx' = [tx EXCEPT ![w].plan = Placement(tx[w].card, tx[w].lane, tx[w].at),
                        ![w].step = "written"]
    /\ UNCHANGED <<lanes, cards, holds, adopted>>

-----------------------------------------------------------------------------
(* Lanes *)

CreateColumn(w, l, p) == lanes[l].is = "unused" /\ Begin(w, "add", "layout", "none", l, p, "none")
DeleteColumn(w, l) == lanes[l].is = "on" /\ Begin(w, "drop", "layout", "none", l, 0, "none")
ReorderColumns(w) == Begin(w, "reorder", "layout", "none", 0, 0, "none")
EnsureStageColumns(w) == Begin(w, "ensure", "layout", "none", 0, 0, "none")

LockLayout(w) ==
    /\ tx[w].step = "layout"
    /\ FreeFor(w, Layout)
    /\ holds' = [holds EXCEPT ![w] = @ \cup {Layout}]
    /\ tx' = [tx EXCEPT ![w].step = "layoutLocked"]
    /\ UNCHANGED <<lanes, cards, adopted>>

(* Its board is decided; the rows that change are locked one by one.             *)
Lay(w, board) == tx' = [tx EXCEPT ![w].board = board, ![w].step = "rows"]

MakeRoom(l, p) ==
    LET last == Cardinality(On(lanes)) + 1
        place == IF p = 0 \/ p > last THEN last ELSE p
    IN [k \in Lanes |->
          IF k = l THEN [is |-> "on", position |-> place, stage |-> "none"]
          ELSE IF k \in On(lanes) /\ lanes[k].position >= place
            THEN [lanes[k] EXCEPT !.position = @ + 1] ELSE lanes[k]]

CloseGap_Open(l) ==
    [lanes EXCEPT ![l] = [is |-> "gone", position |-> 0, stage |-> "none"]]

CloseGap(l) ==
    [k \in Lanes |->
       IF k = l THEN [is |-> "gone", position |-> 0, stage |-> "none"]
       ELSE IF k \in On(lanes) /\ lanes[k].position > lanes[l].position
         THEN [lanes[k] EXCEPT !.position = @ - 1] ELSE lanes[k]]

AddLane(w) ==
    /\ tx[w].step = "layoutLocked" /\ tx[w].op = "add"
    /\ lanes[tx[w].lane].is = "unused"
    /\ Lay(w, MakeRoom(tx[w].lane, tx[w].at))
    /\ UNCHANGED <<lanes, cards, holds, adopted>>

(* Only an empty lane without a stage, which is locked before it is counted.     *)
DropLane(w) ==
    LET l == tx[w].lane IN
    /\ tx[w].step = "layoutLocked" /\ tx[w].op = "drop"
    /\ l \in On(lanes) /\ FreeFor(w, l)
    /\ lanes[l].stage = "none" /\ InLane(l) = {}
    /\ Lay(w, CloseGap(l))
    /\ holds' = [holds EXCEPT ![w] = @ \cup {l}]
    /\ UNCHANGED <<lanes, cards, adopted>>

OrderLanes(w) ==
    /\ tx[w].step = "layoutLocked" /\ tx[w].op = "reorder"
    /\ \E order \in [On(lanes) -> 1..Cardinality(On(lanes))] :
         /\ \A l, k \in On(lanes) : l # k => order[l] # order[k]
         /\ Lay(w, [l \in Lanes |-> IF l \in On(lanes) THEN [lanes[l] EXCEPT !.position = order[l]]
                                    ELSE lanes[l]])
    /\ UNCHANGED <<lanes, cards, holds, adopted>>

(* ensureStageColumnsTx, one stage after the other: the first lane without a     *)
(* stage that is named for it, or a new one at the end.                          *)
Missing(board) == {s \in Stages : LaneOf(board, s) = {}}

Adoptable(board, s) == {l \in On(board) : board[l].stage = "none" /\ NamedFor[l] = s}

FirstOf(board, S) == CHOOSE l \in S : \A k \in S : board[l].position <= board[k].position

AdoptStage(w, s) ==
    LET board == Seen(w) IN
    /\ tx[w].step = "layoutLocked" /\ tx[w].op \in {"ensure", "create", "update"}
    /\ s \in Missing(board) /\ Adoptable(board, s) # {}
    /\ LET l == FirstOf(board, Adoptable(board, s)) IN
         /\ FreeFor(w, l)
         /\ tx' = [tx EXCEPT ![w].board = [board EXCEPT ![l].stage = s]]
         /\ holds' = [holds EXCEPT ![w] = @ \cup {l}]
    /\ UNCHANGED <<lanes, cards, adopted>>

AppendStage(w, s) ==
    LET board == Seen(w) IN
    /\ tx[w].step = "layoutLocked" /\ tx[w].op \in {"ensure", "create", "update"}
    /\ s \in Missing(board) /\ Adoptable(board, s) = {}
    /\ \E l \in Lanes :
         /\ board[l].is = "unused"
         /\ tx' = [tx EXCEPT ![w].board = [board EXCEPT
                ![l] = [is |-> "on", position |-> Cardinality(On(board)) + 1, stage |-> s]]]
    /\ UNCHANGED <<lanes, cards, holds, adopted>>

StagesEnsured(w) ==
    /\ tx[w].step = "layoutLocked" /\ tx[w].op \in {"ensure", "create", "update"}
    /\ Missing(Seen(w)) = {}
    /\ tx' = [tx EXCEPT ![w].step = IF tx[w].op = "ensure" THEN "written" ELSE "stage"]
    /\ UNCHANGED <<lanes, cards, holds, adopted>>

(* Nothing says in which order an UPDATE of several lanes, or a reorder, meets    *)
(* their rows.                                                               *)
RowsToLock(w) == {l \in On(lanes) : tx[w].board[l] # lanes[l]} \ holds[w]

LockRow(w) ==
    /\ tx[w].step = "rows"
    /\ \/ \E l \in RowsToLock(w) :
            /\ FreeFor(w, l)
            /\ holds' = [holds EXCEPT ![w] = @ \cup {l}]
            /\ UNCHANGED tx
       \/ /\ RowsToLock(w) = {}
          /\ tx' = [tx EXCEPT ![w].step = "written"]
          /\ UNCHANGED holds
    /\ UNCHANGED <<lanes, cards, adopted>>

-----------------------------------------------------------------------------

BoardNext ==
    \/ \E c \in Campaigns : DeleteCampaign(c)
    \/ \E w \in Boarders :
         \/ RollBackBoard(w) \/ CommitBoard(w)
         \/ LockCampaign(w) \/ FindStage(w) \/ LockLane(w) \/ Place(w)
         \/ LockLayout(w) \/ AddLane(w) \/ DropLane(w) \/ OrderLanes(w)
         \/ StagesEnsured(w) \/ LockRow(w)
         \/ \E s \in Stages : AdoptStage(w, s) \/ AppendStage(w, s)
         \/ ReorderColumns(w) \/ EnsureStageColumns(w)
         \/ \E l \in Lanes : DeleteColumn(w, l) \/ \E p \in 0..LastLane : CreateColumn(w, l, p)
         \/ \E c \in Campaigns :
              \/ \E s \in Stages : CreateCampaign(w, c, s) \/ UpdateCampaign(w, c, s)
              \/ \E l \in Lanes, p \in 1..Cardinality(Campaigns) : MoveCampaign(w, c, l, p)

BoardSpec == BoardInit /\ [][BoardNext]_boardVars

-----------------------------------------------------------------------------
(* Properties *)

(* Types of the lanes, the cards and the transactions.                        *)
BoardTypeOK ==
    /\ lanes \in [Lanes -> Lane] /\ cards \in [Campaigns -> Card]
    /\ \A w \in Boarders : holds[w] \subseteq Lanes \cup {Layout}
    /\ adopted \subseteq Lanes

(* No two cards of a lane share a position, however creations, edits, moves and *)
(* deletions interleave ("both read the same last position and end up sharing   *)
(* it", lockColumnsForPlacement), and no card is in a lane that is gone.        *)
NoSharedPosition ==
    \A c, d \in Campaigns : c # d /\ cards[c].lane # 0 =>
        /\ cards[c].lane \in On(lanes)
        /\ cards[d].lane = cards[c].lane => cards[d].position # cards[c].position

(* The lanes are numbered 1..n without a gap, and a stage has one lane at most.  *)
LanesInOrder ==
    /\ {lanes[l].position : l \in On(lanes)} = 1..Cardinality(On(lanes))
    /\ \A s \in Stages : Cardinality(LaneOf(lanes, s)) <= 1

(* A card in a lane that carries a stage has that status (MoveCampaign and       *)
(* UpdateCampaign race each other), unless the lane was given its stage when it   *)
(* already had cards, which are then left alone.                                *)
StatusMatchesLane ==
    \A c \in Campaigns : cards[c].lane # 0 =>
        LET l == cards[c].lane IN
        lanes[l].stage # "none" /\ l \notin adopted => cards[c].status = lanes[l].stage

(* All three, with every placement and every change of the lanes in each other's *)
(* way.                                                                        *)
BoardInOrder == NoSharedPosition /\ LanesInOrder /\ StatusMatchesLane

(* Requests that place a campaign and have not had to make a lane first.         *)
Placing == {w \in Boarders : tx[w].op \in {"create", "update", "move"} /\ tx[w].board = <<>>}

WaitsFor(w, v) ==
    \/ /\ tx[w].step = "lanes" /\ LanesToLock(w) # {} /\ NextLane(w) \in holds[v]
    \/ /\ tx[w].step = "layout" /\ Layout \in holds[v]
    \/ /\ tx[w].step = "campaign" /\ tx[v].card = tx[w].card /\ tx[v].step # "campaign"

(* Placements do not wait for each other in a circle ("two moves between the     *)
(* same pair of lanes in opposite directions cannot deadlock").                  *)
PlacementsNeverDeadlock ==
    \A S \in SUBSET Placing : S # {} =>
        \E w \in S : \A v \in S : ~WaitsFor(w, v)
=============================================================================
