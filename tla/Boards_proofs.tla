------------------------------ MODULE Boards_proofs ------------------------------
(***************************************************************************)
(* The marketing board and a project's board of tasks, for any campaigns, lanes, *)
(* tasks, columns, team and requests at once.                                  *)
(*                                                                         *)
(* BoardInOrder and PlacementsNeverDeadlock: what a transaction has read and      *)
(* drafted stays true of the lanes and of the campaign it has locked, so a commit  *)
(* finds the board it planned for; and a placement waits only for one that has     *)
(* come further than itself (BoardInv).                                        *)
(*                                                                         *)
(* BoardIsKept: a request of the task board locks nothing it reads, so the        *)
(* invariant (TaskBoardInv) says what a request that nobody has overtaken still    *)
(* knows, and that whatever changes a column overtakes all who have read it.      *)
(***************************************************************************)
EXTENDS CampaignBoard, TaskBoard, TLAPS, FiniteSetTheorems, FunctionTheorems, WellFoundedInduction

(* What a transaction can be, and what it has drafted.                         *)
Placements == {"create", "update", "move"}
LayoutChanges == {"add", "drop", "reorder", "ensure"}

Spot == [lane : Lanes, position : Nat]
Boards == {<<>>} \cup [Lanes -> Lane]
Plans == {<<>>} \cup UNION {[D -> Spot] : D \in SUBSET Campaigns}

Tx == [op : Placements \cup LayoutChanges \cup {"none"},
       step : {"idle", "campaign", "stage", "lanes", "layout", "layoutLocked", "rows", "written"},
       card : Campaigns \cup {"none"}, lane : 0..LastLane, at : Nat,
       status : Stages \cup {"none"}, board : Boards, plan : Plans]

BoardTypes ==
    /\ lanes \in [Lanes -> Lane] /\ cards \in [Campaigns -> Card]
    /\ tx \in [Boarders -> Tx]
    /\ holds \in [Boarders -> SUBSET (Lanes \cup {Layout})]
    /\ adopted \subseteq Lanes

(* Past "campaign" a placement is the only one that has its campaign.           *)
HasCampaign(w) == tx[w].op \in Placements /\ tx[w].step # "campaign"

GoodBoard(b) ==
    /\ \A l \in On(b) : b[l].position \in 1..Cardinality(On(b))
    /\ \A l, k \in On(b) : l # k =>
         b[l].position # b[k].position /\ (b[l].stage = "none" \/ b[l].stage # b[k].stage)

CardsPlaced ==
    \A c \in Campaigns :
        /\ cards[c].lane = 0 => cards[c] = NoCard
        /\ cards[c].lane # 0 => cards[c].lane \in On(lanes)
        /\ \A d \in Campaigns : c # d /\ cards[c].lane # 0 /\ cards[d].lane = cards[c].lane =>
             cards[d].position # cards[c].position

(* Which steps each request goes through, and what it holds in them.            *)
Control(w) ==
    LET t == tx[w] IN
    /\ (t.op = "none") <=> (t.step = "idle")
    /\ t.step \in {"idle", "campaign"} => holds[w] = {}
    /\ t.op \in Placements =>
         t.card \in Campaigns /\ t.step \in {"campaign", "stage", "lanes", "layout", "layoutLocked", "written"}
    /\ t.op = "create" => t.step # "campaign"
    /\ t.op \in {"create", "update"} => t.status \in Stages
    /\ t.op = "move" => t.step \in {"campaign", "lanes", "written"}
    /\ t.op = "add" => t.lane \in Lanes
    /\ t.op = "move" \/ t.step = "campaign" => t.board = <<>>
    /\ t.op \in LayoutChanges =>
         /\ t.card = "none" /\ t.status = "none" /\ DOMAIN t.plan = {}
         /\ t.step \in {"layout", "layoutLocked", "rows", "written"}
    /\ t.op \in {"add", "drop", "reorder"} /\ t.step \in {"layout", "layoutLocked"} => t.board = <<>>
    /\ DOMAIN t.plan # {} => t.step = "written"
    /\ t.step \in {"layoutLocked", "rows"} \/ t.board # <<>> => Layout \in holds[w]
    /\ t.step = "layout" => Layout \notin holds[w]
    /\ t.step = "stage" /\ Layout \in holds[w] => LaneOf(Seen(w), t.status) # {}

(* The locks a placement has when it has made no lane: in the order of the ids.   *)
Ordered(w) ==
    /\ tx[w].op \in Placements /\ tx[w].board = <<>> /\ tx[w].step \notin {"lanes", "written"} =>
         holds[w] \subseteq {Layout}
    /\ tx[w].board = <<>> /\ tx[w].step = "lanes" =>
         \A h \in holds[w], k \in LanesToLock(w) : h # Layout => h < k

(* The board it has drafted is the committed one, but for the lanes it has locked  *)
(* to give them a stage or to drop them, and new ones.                           *)
Draft(w) ==
    tx[w].board # <<>> =>
        /\ GoodBoard(tx[w].board)
        /\ \A l \in Lanes :
             LET old == lanes[l]
                 new == tx[w].board[l] IN
             /\ old.is = "on" =>
                  \/ new.is = "on" /\ (new.stage # old.stage => old.stage = "none" /\ l \in holds[w])
                  \/ new.is = "gone" /\ l \in holds[w] /\ InLane(l) = {} /\ old.stage = "none"
             /\ old.is = "gone" => new.is = "gone"

(* The lane it goes to is there and has its status, or has been adopted since.    *)
Aim(w) ==
    LET t == tx[w] IN
    /\ t.op \in {"create", "update"} /\ t.step = "lanes" =>
         t.lane \in On(Seen(w)) /\ Seen(w)[t.lane].stage = t.status
    /\ t.op = "move" =>
         /\ t.lane \in Lanes /\ lanes[t.lane].is # "unused"
         /\ t.lane \in On(lanes) /\ lanes[t.lane].stage # "none" /\ t.lane \notin adopted =>
              t.status = lanes[t.lane].stage
    /\ t.op \in Placements => \A l \in holds[w] : l # Layout => l \in On(Seen(w))

Owns(w) == HasCampaign(w) => ((tx[w].op = "create") <=> (cards[tx[w].card].lane = 0))

(* What a placement will write: all the cards of the two lanes it holds.          *)
Filed(w) ==
    LET t == tx[w]
        p == tx[w].plan
        from == cards[t.card].lane IN
    /\ DOMAIN p # {} =>
         /\ t.op \in Placements
         /\ t.lane \in holds[w] \cap On(Seen(w)) /\ t.lane # 0 /\ from \in holds[w] \cup {0}
         /\ DOMAIN p = {t.card} \cup InLane(t.lane) \cup {d \in Campaigns : from # 0 /\ cards[d].lane = from}
         /\ p[t.card].lane = t.lane
         /\ \A d \in DOMAIN p : d # t.card => p[d].lane = cards[d].lane
         /\ \A d, e \in DOMAIN p : d # e /\ p[d].lane = p[e].lane => p[d].position # p[e].position
         /\ t.op # "move" => Seen(w)[t.lane].stage = t.status
    /\ t.op \in Placements /\ t.step = "written" /\ DOMAIN p = {} =>
         t.op = "update" /\ t.board = <<>> /\ t.status = cards[t.card].status

Sound(w) == Control(w) /\ Ordered(w) /\ Draft(w) /\ Aim(w) /\ Owns(w) /\ Filed(w)

Apart ==
    \A w, v \in Boarders : w # v =>
        /\ holds[w] \cap holds[v] = {}
        /\ HasCampaign(w) /\ HasCampaign(v) => tx[w].card # tx[v].card

BoardInv ==
    /\ BoardTypes /\ GoodBoard(lanes) /\ CardsPlaced /\ StatusMatchesLane
    /\ \A w \in Boarders : Sound(w)
    /\ Apart

-------------------------------------------------------------------------------
(* Lanes and their numbers *)

LEMMA OnIsFinite ==
  ASSUME NEW b
  PROVE  IsFiniteSet(On(b)) /\ Cardinality(On(b)) \in Nat
  <1>1. On(b) \subseteq 1..LastLane
    BY DEF On, Lanes
  <1>2. IsFiniteSet(1..LastLane)
    BY FS_Interval, LanesAssumption
  <1>3. IsFiniteSet(On(b))
    BY <1>1, <1>2, FS_Subset
  <1> QED
    BY <1>3, FS_CardinalityType

LEMMA InLaneIsFinite ==
  ASSUME NEW S \in SUBSET Campaigns
  PROVE  IsFiniteSet(S) /\ Cardinality(S) \in Nat
  <1>1. IsFiniteSet(S)
    BY BoardAssumption, FS_Subset
  <1> QED
    BY <1>1, FS_CardinalityType

(* A board has entries, unless there are no lanes at all.                       *)
LEMMA BoardIsSomething ==
  ASSUME NEW b \in [Lanes -> Lane], NEW l \in Lanes
  PROVE  b # <<>>
  <1>1. DOMAIN b = Lanes
    OBVIOUS
  <1>2. DOMAIN <<>> = {}
    OBVIOUS
  <1> QED
    BY <1>1, <1>2

LEMMA LaneFields ==
  ASSUME NEW b \in [Lanes -> Lane], NEW l \in Lanes
  PROVE  /\ b[l].is \in {"unused", "on", "gone"} /\ b[l].position \in Nat
         /\ b[l].stage \in Stages \cup {"none"}
         /\ b[l] = [is |-> b[l].is, position |-> b[l].position, stage |-> b[l].stage]
  BY DEF Lane

LEMMA LaneRow ==
  ASSUME NEW i \in {"unused", "on", "gone"}, NEW p \in Nat, NEW s \in Stages \cup {"none"}
  PROVE  /\ [is |-> i, position |-> p, stage |-> s] \in Lane
         /\ [is |-> i, position |-> p, stage |-> s].is = i
         /\ [is |-> i, position |-> p, stage |-> s].position = p
         /\ [is |-> i, position |-> p, stage |-> s].stage = s
  BY DEF Lane

(* What a board is that has the same lanes on, or one more, or one less.          *)
LEMMA GoodWithOneMore ==
  ASSUME NEW b, NEW d, NEW l \in Lanes, l \notin On(b), On(d) = On(b) \cup {l}, GoodBoard(b),
         d[l].position \in 1..(Cardinality(On(b)) + 1),
         \A k \in On(b) : d[k].stage = b[k].stage
                          /\ d[k].position = IF b[k].position >= d[l].position THEN b[k].position + 1
                                             ELSE b[k].position,
         d[l].stage = "none" \/ LaneOf(b, d[l].stage) = {}
  PROVE  GoodBoard(d)
  <1>1. IsFiniteSet(On(b)) /\ Cardinality(On(b)) \in Nat
    BY OnIsFinite
  <1>2. Cardinality(On(d)) = Cardinality(On(b)) + 1
    BY <1>1, FS_AddElement
  <1> DEFINE n == Cardinality(On(b))
  <1>3. n \in Nat /\ Cardinality(On(d)) = n + 1
    BY <1>1, <1>2
  <1>4. \A k \in On(b) : b[k].position \in 1..n
    BY DEF GoodBoard
  <1>5. \A k \in On(d) : d[k].position \in 1..(n + 1)
    BY <1>3, <1>4
  <1>6. \A k, j \in On(b) : k # j => b[k].position # b[j].position /\ (b[k].stage = "none" \/ b[k].stage # b[j].stage)
    BY DEF GoodBoard
  <1>7. \A k \in On(b) : d[k].position # d[l].position /\ (d[k].stage = "none" \/ d[k].stage # d[l].stage)
                         /\ (d[l].stage = "none" \/ d[l].stage # d[k].stage)
    BY <1>3, <1>4 DEF LaneOf
  <1>8. \A k, j \in On(b) : k # j => d[k].position # d[j].position /\ (d[k].stage = "none" \/ d[k].stage # d[j].stage)
    BY <1>3, <1>4, <1>6
  <1> QED
    BY <1>3, <1>5, <1>7, <1>8 DEF GoodBoard

LEMMA GoodWithOneLess ==
  ASSUME NEW b, NEW d, NEW l \in On(b), On(d) = On(b) \ {l}, GoodBoard(b),
         \A k \in On(d) : d[k].stage = b[k].stage
                          /\ d[k].position = IF b[k].position > b[l].position THEN b[k].position - 1
                                             ELSE b[k].position
  PROVE  GoodBoard(d)
  <1>1. IsFiniteSet(On(b)) /\ Cardinality(On(b)) \in Nat
    BY OnIsFinite
  <1>2. Cardinality(On(d)) = Cardinality(On(b)) - 1
    BY <1>1, FS_RemoveElement
  <1> DEFINE n == Cardinality(On(b))
  <1>3. n \in Nat /\ Cardinality(On(d)) = n - 1
    BY <1>1, <1>2
  <1>4. \A k \in On(b) : b[k].position \in 1..n
    BY DEF GoodBoard
  <1>6. \A k, j \in On(b) : k # j => b[k].position # b[j].position /\ (b[k].stage = "none" \/ b[k].stage # b[j].stage)
    BY DEF GoodBoard
  <1>5. \A k \in On(d) : d[k].position \in 1..(n - 1)
    BY <1>3, <1>4, <1>6
  <1>8. \A k, j \in On(d) : k # j => d[k].position # d[j].position /\ (d[k].stage = "none" \/ d[k].stage # d[j].stage)
    BY <1>3, <1>4, <1>6
  <1> QED
    BY <1>3, <1>5, <1>8 DEF GoodBoard

LEMMA GoodInAnyOrder ==
  ASSUME NEW b, NEW d, On(d) = On(b), GoodBoard(b),
         \A k \in On(b) : d[k].stage = b[k].stage /\ d[k].position \in 1..Cardinality(On(b)),
         \A k, j \in On(b) : k # j => d[k].position # d[j].position
  PROVE  GoodBoard(d)
  BY DEF GoodBoard

LEMMA GoodWithAStage ==
  ASSUME NEW b, NEW d, NEW s, NEW l \in On(b), On(d) = On(b), GoodBoard(b), LaneOf(b, s) = {},
         \A k \in On(b) : d[k].position = b[k].position /\ d[k].stage = IF k = l THEN s ELSE b[k].stage
  PROVE  GoodBoard(d)
  BY DEF GoodBoard, LaneOf

(* 1..n without a gap, and one lane of a stage.                                 *)
LEMMA NumbersAreAllTaken ==
  ASSUME NEW S, NEW f, IsFiniteSet(S), Cardinality(S) \in Nat, f \in [S -> 1..Cardinality(S)],
         \A x, y \in S : x # y => f[x] # f[y]
  PROVE  {f[x] : x \in S} = 1..Cardinality(S)
  <1> DEFINE n == Cardinality(S)
  <1>1. f \in Injection(S, 1..n)
    BY DEF Injection, IsInjective
  <1>2. IsFiniteSet(1..n) /\ Cardinality(1..n) = n
    BY FS_Interval
  <1>3. f \in Surjection(S, 1..n)
    BY <1>1, <1>2, FS_Injection
  <1> QED
    BY <1>3 DEF Surjection

LEMMA GoodIsInOrder ==
  ASSUME GoodBoard(lanes)
  PROVE  LanesInOrder
  <1> DEFINE S == On(lanes)
             f == [l \in S |-> lanes[l].position]
  <1>1. IsFiniteSet(S) /\ Cardinality(S) \in Nat
    BY OnIsFinite
  <1>2. f \in [S -> 1..Cardinality(S)] /\ \A x, y \in S : x # y => f[x] # f[y]
    BY DEF GoodBoard
  <1> HIDE DEF f
  <1>3. {f[x] : x \in S} = 1..Cardinality(S)
    BY <1>1, <1>2, NumbersAreAllTaken
  <1>4. {lanes[l].position : l \in On(lanes)} = 1..Cardinality(On(lanes))
    BY <1>3 DEF f
  <1>5. ASSUME NEW s \in Stages
        PROVE  Cardinality(LaneOf(lanes, s)) <= 1
    <2> DEFINE T == LaneOf(lanes, s)
    <2>1. \A l, k \in T : l = k
      BY BoardAssumption DEF LaneOf, GoodBoard
    <2>2. CASE T = {}
      BY <2>2, FS_EmptySet
    <2>3. CASE T # {}
      <3>1. PICK l \in T : T = {l}
        BY <2>1, <2>3
      <3>2. Cardinality({l}) = 1
        BY FS_Singleton
      <3> QED
        BY <3>1, <3>2
    <2> QED
      BY <2>2, <2>3
  <1> QED
    BY <1>4, <1>5 DEF LanesInOrder

-------------------------------------------------------------------------------
(* Cards and their places *)

(* The rank of a card is its own among those of its lane.                       *)
LEMMA RankIsOwn ==
  ASSUME BoardTypes, CardsPlaced, NEW c \in Campaigns, NEW d \in Campaigns,
         c # d, cards[c].lane # 0, cards[d].lane = cards[c].lane
  PROVE  /\ Rank(c) \in Nat \ {0} /\ Rank(d) \in Nat \ {0}
         /\ Rank(c) # Rank(d)
  <1> DEFINE Below(x) == {e \in InLane(cards[x].lane) : cards[e].position < cards[x].position}
  <1>1. \A e \in Campaigns : cards[e].position \in Nat
    BY DEF BoardTypes, Card
  <1>2. Below(c) \in SUBSET Campaigns /\ Below(d) \in SUBSET Campaigns
    BY DEF InLane
  <1>3. IsFiniteSet(Below(c)) /\ Cardinality(Below(c)) \in Nat
    BY <1>2, InLaneIsFinite
  <1>4. IsFiniteSet(Below(d)) /\ Cardinality(Below(d)) \in Nat
    BY <1>2, InLaneIsFinite
  <1>5. cards[c].position # cards[d].position
    BY DEF CardsPlaced
  <1>6. c \notin Below(c) /\ d \notin Below(d)
    BY <1>1
  <1>7. CASE cards[c].position < cards[d].position
    <2>1. Below(c) \subseteq Below(d) /\ c \in Below(d)
      BY <1>1, <1>7 DEF InLane
    <2>2. Below(c) # Below(d)
      BY <1>6, <2>1
    <2>3. Cardinality(Below(c)) # Cardinality(Below(d))
      BY <1>4, <2>1, <2>2, FS_Subset
    <2> QED
      BY <1>3, <1>4, <2>3 DEF Rank
  <1>8. CASE cards[d].position < cards[c].position
    <2>1. Below(d) \subseteq Below(c) /\ d \in Below(c)
      BY <1>1, <1>8 DEF InLane
    <2>2. Below(c) # Below(d)
      BY <1>6, <2>1
    <2>3. Cardinality(Below(c)) # Cardinality(Below(d))
      BY <1>3, <2>1, <2>2, FS_Subset
    <2> QED
      BY <1>3, <1>4, <2>3 DEF Rank
  <1> QED
    BY <1>1, <1>5, <1>7, <1>8

LEMMA RankIsANumber ==
  ASSUME NEW c
  PROVE  Rank(c) \in Nat \ {0}
  <1> DEFINE B == {e \in InLane(cards[c].lane) : cards[e].position < cards[c].position}
  <1>1. B \in SUBSET Campaigns
    BY DEF InLane
  <1>2. Cardinality(B) \in Nat
    BY <1>1, InLaneIsFinite
  <1> QED
    BY <1>2 DEF Rank

(* The cards a placement of c in lane l writes.                                  *)
Rewritten(c, l) == {c} \cup InLane(l) \cup {d \in Campaigns : cards[c].lane # 0 /\ cards[d].lane = cards[c].lane}

(* It writes them all, moves no other to another lane, and no two to one place.     *)
LEMMA PlacementKeepsApart ==
  ASSUME BoardTypes, CardsPlaced, NEW c \in Campaigns, NEW l \in Lanes, NEW at \in Nat
  PROVE  LET p == Placement(c, l, at) IN
         /\ p \in [Rewritten(c, l) -> Spot]
         /\ p[c].lane = l
         /\ \A d \in Rewritten(c, l) : d # c => p[d].lane = cards[d].lane
         /\ \A d, e \in Rewritten(c, l) : d # e /\ p[d].lane = p[e].lane => p[d].position # p[e].position
  <1> DEFINE from == cards[c].lane
             others == InLane(l) \ {c}
             last == Cardinality(others) + 1
             place == IF at = 0 \/ at > last THEN last ELSE at
             behind == IF from = 0 THEN {} ELSE InLane(from) \ {c}
             left == [d \in behind \cup others |-> IF d \in behind /\ Rank(d) > Rank(c) THEN Rank(d) - 1 ELSE Rank(d)]
             p == [d \in (DOMAIN left) \cup {c} |->
                     IF d = c THEN [lane |-> l, position |-> place]
                     ELSE [lane |-> cards[d].lane,
                           position |-> IF d \in others /\ left[d] >= place THEN left[d] + 1 ELSE left[d]]]
  <1>1. Placement(c, l, at) = p
    BY DEF Placement
  <1>2. place \in Nat
    <2>1. others \in SUBSET Campaigns
      BY DEF InLane
    <2>2. Cardinality(others) \in Nat
      BY <2>1, InLaneIsFinite
    <2> QED
      BY <2>2
  <1> HIDE DEF place
  <1>3. \A d \in Campaigns : cards[d].lane \in 0..LastLane /\ cards[d].position \in Nat
    BY DEF BoardTypes, Card
  <1>4. behind \cup others \cup {c} = Rewritten(c, l) /\ behind \subseteq Campaigns /\ others \subseteq Campaigns
        /\ c \notin behind /\ c \notin others
    BY DEF Rewritten, InLane
  <1>5. \A d \in behind \cup others : cards[d].lane # 0 /\ cards[d].lane \in Lanes
    BY <1>3, LanesAssumption DEF InLane, Lanes
  <1>6. \A d \in behind : Rank(d) # Rank(c) /\ cards[d].lane = from
    <2> SUFFICES ASSUME NEW d \in behind PROVE Rank(d) # Rank(c) /\ cards[d].lane = from
      OBVIOUS
    <2>1. d \in Campaigns /\ d # c /\ from # 0 /\ cards[d].lane = from
      BY DEF InLane
    <2> QED
      BY <2>1, RankIsOwn
  <1>7. \A d, e \in behind \cup others : d # e /\ cards[d].lane = cards[e].lane => Rank(d) # Rank(e)
    <2> SUFFICES ASSUME NEW d \in behind \cup others, NEW e \in behind \cup others, d # e, cards[d].lane = cards[e].lane
                 PROVE  Rank(d) # Rank(e)
      OBVIOUS
    <2>1. d \in Campaigns /\ e \in Campaigns /\ cards[d].lane # 0
      BY <1>4, <1>5
    <2> QED
      BY <2>1, RankIsOwn
  <1>8. \A d \in behind \cup others \cup {c} : Rank(d) \in Nat \ {0}
    BY RankIsANumber
  <1> HIDE DEF behind
  <1>9. \A d \in behind \cup others :
          /\ left[d] \in Nat
          /\ left[d] = IF d \in behind /\ Rank(d) > Rank(c) THEN Rank(d) - 1 ELSE Rank(d)
    BY <1>8
  <1>10. \A d, e \in behind \cup others : d # e /\ cards[d].lane = cards[e].lane => left[d] # left[e]
    <2> SUFFICES ASSUME NEW d \in behind \cup others, NEW e \in behind \cup others, d # e, cards[d].lane = cards[e].lane
                 PROVE  left[d] # left[e]
      OBVIOUS
    <2>1. Rank(d) # Rank(e) /\ Rank(d) \in Nat /\ Rank(e) \in Nat /\ Rank(c) \in Nat
      BY <1>7, <1>8
    <2>2. (d \in behind) <=> (e \in behind)
      <3>1. from # 0 => behind = InLane(from) \ {c}
        BY DEF behind
      <3>2. from = 0 => behind = {}
        BY DEF behind
      <3> QED
        BY <3>1, <3>2, <1>4 DEF InLane
    <2>3. d \in behind => Rank(d) # Rank(c) /\ Rank(e) # Rank(c)
      BY <1>6, <2>2
    <2>4. CASE d \in behind
      BY <1>9, <2>1, <2>2, <2>3, <2>4
    <2>5. CASE d \notin behind
      BY <1>9, <2>1, <2>2, <2>5
    <2> QED
      BY <2>4, <2>5
  <1> HIDE DEF left
  <1>11. DOMAIN left = behind \cup others
    BY DEF left
  <1>12. \A d \in behind \cup others :
           /\ p[d].lane = cards[d].lane
           /\ p[d].position = IF d \in others /\ left[d] >= place THEN left[d] + 1 ELSE left[d]
           /\ p[d] \in Spot
    <2> SUFFICES ASSUME NEW d \in behind \cup others
                 PROVE  /\ p[d].lane = cards[d].lane
                        /\ p[d].position = IF d \in others /\ left[d] >= place THEN left[d] + 1 ELSE left[d]
                        /\ p[d] \in Spot
      OBVIOUS
    <2>1. left[d] \in Nat /\ cards[d].lane \in Lanes /\ d # c
      BY <1>4, <1>5, <1>9
    <2> DEFINE q == IF d \in others /\ left[d] >= place THEN left[d] + 1 ELSE left[d]
    <2>2. q \in Nat
      BY <2>1, <1>2
    <2>3. p[d] = [lane |-> cards[d].lane, position |-> q]
      BY <1>11, <2>1
    <2> HIDE DEF q
    <2> QED
      BY <2>1, <2>2, <2>3 DEF Spot, q
  <1>13. p[c] = [lane |-> l, position |-> place] /\ p[c] \in Spot /\ p[c].lane = l /\ p[c].position = place
    BY <1>2 DEF Spot
  <1>14. p \in [Rewritten(c, l) -> Spot]
    <2>1. DOMAIN p = Rewritten(c, l)
      BY <1>4, <1>11
    <2>2. \A d \in Rewritten(c, l) : p[d] \in Spot
      BY <1>4, <1>12, <1>13
    <2> QED
      BY <2>1, <2>2
  <1> HIDE DEF p
  <1>15. \A d \in behind \cup others : d # c /\ (cards[d].lane = l => d \in others)
    BY <1>4 DEF InLane
  <1>16. ASSUME NEW d \in behind \cup others, NEW e \in behind \cup others, d # e, p[d].lane = p[e].lane
         PROVE  p[d].position # p[e].position
    <2>1. cards[d].lane = cards[e].lane /\ left[d] # left[e] /\ left[d] \in Nat /\ left[e] \in Nat
      BY <1>9, <1>10, <1>12, <1>16
    <2>2. (d \in others) <=> (e \in others)
      BY <1>15, <2>1 DEF InLane
    <2> QED
      BY <1>2, <1>12, <2>1, <2>2
  <1>17. ASSUME NEW d \in behind \cup others, p[d].lane = l
         PROVE  p[d].position # place
    <2>1. d \in others /\ left[d] \in Nat
      BY <1>9, <1>12, <1>15, <1>17
    <2> QED
      BY <1>2, <1>12, <2>1
  <1>18. \A d \in Rewritten(c, l) : d # c => d \in behind \cup others
    BY <1>4
  <1>19. \A d, e \in Rewritten(c, l) : d # e /\ p[d].lane = p[e].lane => p[d].position # p[e].position
    <2> SUFFICES ASSUME NEW d \in Rewritten(c, l), NEW e \in Rewritten(c, l), d # e, p[d].lane = p[e].lane
                 PROVE  p[d].position # p[e].position
      OBVIOUS
    <2>1. CASE d = c
      <3>1. e \in behind \cup others /\ p[e].lane = l
        BY <1>13, <1>18, <2>1
      <3> QED
        BY <1>13, <1>17, <2>1, <3>1
    <2>2. CASE e = c
      <3>1. d \in behind \cup others /\ p[d].lane = l
        BY <1>13, <1>18, <2>2
      <3> QED
        BY <1>13, <1>17, <2>2, <3>1
    <2>3. CASE d # c /\ e # c
      BY <1>16, <1>18, <2>3
    <2> QED
      BY <2>1, <2>2, <2>3
  <1>20. \A d \in Rewritten(c, l) : d # c => p[d].lane = cards[d].lane
    BY <1>12, <1>18
  <1> QED
    BY <1>1, <1>13, <1>14, <1>19, <1>20

-------------------------------------------------------------------------------
(* Types of a transaction, and what a step of one leaves alone *)

Steps == {"idle", "campaign", "stage", "lanes", "layout", "layoutLocked", "rows", "written"}

LEMMA TxFields ==
  ASSUME NEW t \in Tx
  PROVE  /\ t.op \in Placements \cup LayoutChanges \cup {"none"} /\ t.step \in Steps
         /\ t.card \in Campaigns \cup {"none"} /\ t.lane \in 0..LastLane /\ t.lane \in Nat /\ t.at \in Nat
         /\ t.status \in Stages \cup {"none"} /\ t.board \in Boards /\ t.plan \in Plans
  BY LanesAssumption DEF Tx, Steps

LEMMA TxAtStep ==
  ASSUME NEW t \in Tx, NEW s \in Steps, NEW u, u = [t EXCEPT !.step = s]
  PROVE  /\ u \in Tx /\ u.step = s
         /\ u.op = t.op /\ u.card = t.card /\ u.lane = t.lane /\ u.at = t.at /\ u.status = t.status
         /\ u.board = t.board /\ u.plan = t.plan
  BY ONLY t \in Tx, s \in Steps, u = [t EXCEPT !.step = s] DEF Tx, Steps

LEMMA TxWithBoard ==
  ASSUME NEW t \in Tx, NEW b \in Boards, NEW u, u = [t EXCEPT !.board = b]
  PROVE  /\ u \in Tx /\ u.board = b
         /\ u.op = t.op /\ u.card = t.card /\ u.lane = t.lane /\ u.at = t.at /\ u.status = t.status
         /\ u.step = t.step /\ u.plan = t.plan
  BY ONLY t \in Tx, b \in Boards, u = [t EXCEPT !.board = b] DEF Tx

LEMMA TxWithPlan ==
  ASSUME NEW t \in Tx, NEW p \in Plans, NEW u, u = [t EXCEPT !.plan = p]
  PROVE  /\ u \in Tx /\ u.plan = p
         /\ u.op = t.op /\ u.card = t.card /\ u.lane = t.lane /\ u.at = t.at /\ u.status = t.status
         /\ u.step = t.step /\ u.board = t.board
  BY ONLY t \in Tx, p \in Plans, u = [t EXCEPT !.plan = p] DEF Tx

LEMMA TxToLane ==
  ASSUME NEW t \in Tx, NEW l \in 0..LastLane, NEW u, u = [t EXCEPT !.lane = l]
  PROVE  /\ u \in Tx /\ u.lane = l
         /\ u.op = t.op /\ u.card = t.card /\ u.plan = t.plan /\ u.at = t.at /\ u.status = t.status
         /\ u.step = t.step /\ u.board = t.board
  BY ONLY t \in Tx, l \in 0..LastLane, u = [t EXCEPT !.lane = l] DEF Tx

LEMMA NoPlan ==
  /\ <<>> \in Boards /\ <<>> \in Plans /\ DOMAIN <<>> = {}
  BY DEF Boards, Plans

LEMMA NoTxFields ==
  /\ NoTx \in Tx /\ NoTx.op = "none" /\ NoTx.step = "idle" /\ NoTx.card = "none" /\ NoTx.lane = 0
  /\ NoTx.at = 0 /\ NoTx.status = "none" /\ NoTx.board = <<>> /\ NoTx.plan = <<>> /\ DOMAIN NoTx.plan = {}
  BY NoPlan, LanesAssumption DEF NoTx, Tx

LEMMA BoardTypesOf ==
  ASSUME BoardInv, NEW w \in Boarders
  PROVE  /\ tx[w] \in Tx /\ holds[w] \subseteq Lanes \cup {Layout}
         /\ tx[w].board # <<>> => tx[w].board \in [Lanes -> Lane]
         /\ Seen(w) \in [Lanes -> Lane]
         /\ On(Seen(w)) \subseteq Lanes /\ On(lanes) \subseteq Lanes
         /\ tx[w].lane \in 0..LastLane /\ tx[w].lane \in Nat
  <1>1. tx[w] \in Tx /\ holds[w] \subseteq Lanes \cup {Layout} /\ lanes \in [Lanes -> Lane]
    BY DEF BoardInv, BoardTypes
  <1>2. tx[w].board \in Boards /\ tx[w].lane \in 0..LastLane /\ tx[w].lane \in Nat
    BY <1>1, TxFields
  <1> QED
    BY <1>1, <1>2 DEF Boards, Seen, On

LEMMA GoodSeen ==
  ASSUME BoardInv, NEW w \in Boarders
  PROVE  GoodBoard(Seen(w))
  BY DEF BoardInv, Sound, Draft, Seen

(* The rows stay, and every transaction but one.                                 *)
OnlyOf(w) ==
    /\ UNCHANGED <<lanes, cards, adopted>>
    /\ \A v \in Boarders \ {w} : tx'[v] = tx[v] /\ holds'[v] = holds[v]

LEMMA DraftStays ==
  ASSUME NEW w \in Boarders, Draft(w), lanes' = lanes, cards' = cards, tx'[w].board = tx[w].board,
         holds[w] \subseteq holds'[w]
  PROVE  Draft(w)'
  <1>1. PICK b : b = tx[w].board
    OBVIOUS
  <1>2. tx'[w].board = b
    BY <1>1
  <1>3. \A l : InLane(l)' = InLane(l)
    BY DEF InLane
  <1>4. b # <<>> =>
          /\ GoodBoard(b)
          /\ \A l \in Lanes :
               /\ lanes[l].is = "on" =>
                    \/ b[l].is = "on" /\ (b[l].stage # lanes[l].stage => lanes[l].stage = "none" /\ l \in holds[w])
                    \/ b[l].is = "gone" /\ l \in holds[w] /\ InLane(l) = {} /\ lanes[l].stage = "none"
               /\ lanes[l].is = "gone" => b[l].is = "gone"
    BY <1>1 DEF Draft
  <1>5. b # <<>> =>
          /\ GoodBoard(b)
          /\ \A l \in Lanes :
               /\ lanes'[l].is = "on" =>
                    \/ b[l].is = "on" /\ (b[l].stage # lanes'[l].stage => lanes'[l].stage = "none" /\ l \in holds'[w])
                    \/ b[l].is = "gone" /\ l \in holds'[w] /\ InLane(l)' = {} /\ lanes'[l].stage = "none"
               /\ lanes'[l].is = "gone" => b[l].is = "gone"
    BY <1>3, <1>4
  <1> QED
    BY <1>2, <1>5 DEF Draft, GoodBoard, On

(* The rows that the transaction u writes, out of what it has read.              *)
PlacedBy(u, held, seen, row, on, in) ==
    /\ u.op \in Placements /\ DOMAIN u.plan # {}
    /\ u.lane \in held \cap on /\ u.lane # 0 /\ row[u.card].lane \in held \cup {0}
    /\ DOMAIN u.plan = {u.card} \cup in
                          \cup {d \in Campaigns : row[u.card].lane # 0 /\ row[d].lane = row[u.card].lane}
    /\ u.plan[u.card].lane = u.lane /\ (u.op # "move" => seen[u.lane].stage = u.status)
    /\ \A d \in DOMAIN u.plan : d # u.card => u.plan[d].lane = row[d].lane
    /\ \A d, e \in DOMAIN u.plan :
         d # e /\ u.plan[d].lane = u.plan[e].lane => u.plan[d].position # u.plan[e].position

LEMMA FiledRows ==
  ASSUME NEW w, NEW u, NEW held, NEW seen, NEW row, NEW on, NEW in, PlacedBy(u, held, seen, row, on, in),
         tx'[w] = u, holds'[w] = held, Seen(w)' = seen, cards' = row, On(Seen(w))' = on, InLane(u.lane)' = in
  PROVE  Filed(w)'
  BY DEF Filed, PlacedBy

(* What a placement will write depends on nothing else.                          *)
LEMMA FiledStays ==
  ASSUME NEW w \in Boarders, Filed(w), cards' = cards, tx'[w] = tx[w], holds'[w] = holds[w], Seen(w)' = Seen(w)
  PROVE  Filed(w)'
  <1>1. PICK t, p, held, seen, row, on :
          t = tx[w] /\ p = t.plan /\ held = holds[w] /\ seen = Seen(w) /\ row = cards /\ on = On(Seen(w))
    OBVIOUS
  <1>2. tx'[w] = t /\ holds'[w] = held /\ Seen(w)' = seen /\ cards' = row
    BY <1>1
  <1>3. (\A l : InLane(l)' = InLane(l)) /\ On(Seen(w))' = on
    BY <1>1, <1>2 DEF InLane, On
  <1> DEFINE Rows ==
        DOMAIN p # {} =>
          /\ t.op \in Placements
          /\ t.lane \in held \cap on /\ t.lane # 0 /\ row[t.card].lane \in held \cup {0}
          /\ DOMAIN p = {t.card} \cup InLane(t.lane)
                            \cup {d \in Campaigns : row[t.card].lane # 0 /\ row[d].lane = row[t.card].lane}
          /\ p[t.card].lane = t.lane
          /\ \A d \in DOMAIN p : d # t.card => p[d].lane = row[d].lane
          /\ \A d, e \in DOMAIN p : d # e /\ p[d].lane = p[e].lane => p[d].position # p[e].position
          /\ t.op # "move" => seen[t.lane].stage = t.status
  <1> DEFINE NoRows ==
        t.op \in Placements /\ t.step = "written" /\ DOMAIN p = {} =>
          t.op = "update" /\ t.board = <<>> /\ t.status = row[t.card].status
  <1>4. Rows
    BY ONLY <1>1, Filed(w) DEF Filed
  <1>5. NoRows
    BY ONLY <1>1, Filed(w) DEF Filed
  <1> QED
    BY ONLY <1>1, <1>2, <1>3, <1>4, <1>5 DEF Filed

(* A lane that is aimed at stays so, and so do the lanes locked on the way to it.  *)
LEMMA AimStays ==
  ASSUME NEW w \in Boarders, Aim(w), lanes' = lanes, adopted' = adopted, Seen(w)' = Seen(w),
         tx'[w].op = tx[w].op, tx'[w].lane = tx[w].lane, tx'[w].status = tx[w].status,
         tx'[w].step = "lanes" => tx[w].step = "lanes",
         tx[w].op \in Placements => \A l \in holds'[w] : l \in holds[w] \/ l \in On(Seen(w))
  PROVE  Aim(w)'
  <1>1. PICK op, step, later, lane, status, seen, row, on, laid, own :
          /\ op = tx[w].op /\ step = tx[w].step /\ later = tx'[w].step /\ lane = tx[w].lane
          /\ status = tx[w].status /\ seen = Seen(w) /\ row = lanes /\ on = On(Seen(w))
          /\ laid = On(lanes) /\ own = adopted
    OBVIOUS
  <1>2. /\ tx'[w].op = op /\ tx'[w].step = later /\ tx'[w].lane = lane /\ tx'[w].status = status
        /\ Seen(w)' = seen /\ lanes' = row /\ adopted' = own
    BY <1>1
  <1>3. On(Seen(w))' = on /\ On(lanes)' = laid
    BY <1>1, <1>2 DEF On
  <1>4. op \in {"create", "update"} /\ later = "lanes" => lane \in on /\ seen[lane].stage = status
    BY <1>1 DEF Aim
  <1>5. op = "move" =>
          /\ lane \in Lanes /\ row[lane].is # "unused"
          /\ lane \in laid /\ row[lane].stage # "none" /\ lane \notin own => status = row[lane].stage
    BY <1>1 DEF Aim
  <1>6. op \in Placements => \A l \in holds'[w] : l # Layout => l \in on
    BY <1>1 DEF Aim
  <1> QED
    BY ONLY <1>2, <1>3, <1>4, <1>5, <1>6 DEF Aim

LEMMA OthersStaySound ==
  ASSUME BoardInv, NEW w \in Boarders, OnlyOf(w), NEW v \in Boarders, v # w
  PROVE  Sound(v)'
  <1>1. Sound(v)
    BY DEF BoardInv
  <1>2. lanes' = lanes /\ cards' = cards /\ adopted' = adopted /\ tx'[v] = tx[v] /\ holds'[v] = holds[v]
    BY DEF OnlyOf
  <1>3. Seen(v)' = Seen(v) /\ LanesToLock(v)' = LanesToLock(v)
    BY <1>2 DEF Seen, LanesToLock
  <1>4. \A l : InLane(l)' = InLane(l)
    BY <1>2 DEF InLane
  <1>5. Control(v)'
    BY <1>1, <1>2, <1>3 DEF Sound, Control, LaneOf, On
  <1>6. Ordered(v)'
    BY <1>1, <1>2, <1>3 DEF Sound, Ordered
  <1>7. Draft(v)'
    BY <1>1, <1>2, DraftStays DEF Sound
  <1>8. Aim(v)'
    BY <1>1, <1>2, <1>3 DEF Sound, Aim, On
  <1>9. Owns(v)'
    BY <1>1, <1>2 DEF Sound, Owns, HasCampaign
  <1>10. Filed(v)'
    BY <1>1, <1>2, <1>3, FiledStays DEF Sound
  <1> QED
    BY <1>5, <1>6, <1>7, <1>8, <1>9, <1>10 DEF Sound

(* It takes only locks that are free, and a campaign nobody else has.              *)
LEMMA OneTransaction ==
  ASSUME BoardInv, NEW w \in Boarders, OnlyOf(w), Sound(w)',
         tx' \in [Boarders -> Tx], holds' \in [Boarders -> SUBSET (Lanes \cup {Layout})],
         \A l \in holds'[w] : l \in holds[w] \/ FreeFor(w, l),
         HasCampaign(w)' => \/ HasCampaign(w) /\ tx'[w].card = tx[w].card
                            \/ \A v \in Boarders \ {w} : HasCampaign(v) => tx[v].card # tx'[w].card
  PROVE  BoardInv'
  <1>1. lanes' = lanes /\ cards' = cards /\ adopted' = adopted
    BY DEF OnlyOf
  <1>2. \A v \in Boarders : Sound(v)'
    BY OthersStaySound
  <1>3. BoardTypes'
    BY <1>1 DEF BoardInv, BoardTypes
  <1>4. GoodBoard(lanes)'
    BY <1>1 DEF BoardInv, GoodBoard, On
  <1>5. CardsPlaced' /\ StatusMatchesLane'
    BY <1>1 DEF BoardInv, CardsPlaced, StatusMatchesLane, On
  <1>6. ASSUME NEW v \in Boarders, v # w
        PROVE  /\ holds'[w] \cap holds'[v] = {}
               /\ (HasCampaign(w) /\ HasCampaign(v) => tx[w].card # tx[v].card)'
    <2>1. tx'[v] = tx[v] /\ holds'[v] = holds[v]
      BY <1>6 DEF OnlyOf
    <2>2. holds[w] \cap holds[v] = {} /\ (HasCampaign(w) /\ HasCampaign(v) => tx[w].card # tx[v].card)
      BY <1>6 DEF BoardInv, Apart
    <2>3. holds'[w] \cap holds'[v] = {}
      BY <1>6, <2>1, <2>2 DEF FreeFor
    <2>4. HasCampaign(v)' => HasCampaign(v)
      BY <2>1 DEF HasCampaign
    <2> QED
      BY <1>6, <2>1, <2>2, <2>3, <2>4
  <1>7. ASSUME NEW v \in Boarders, NEW x \in Boarders, v # w, x # w, v # x
        PROVE  /\ holds'[x] \cap holds'[v] = {}
               /\ (HasCampaign(x) /\ HasCampaign(v) => tx[x].card # tx[v].card)'
    <2>1. tx'[v] = tx[v] /\ holds'[v] = holds[v] /\ tx'[x] = tx[x] /\ holds'[x] = holds[x]
      BY <1>7 DEF OnlyOf
    <2> QED
      BY <1>7, <2>1 DEF BoardInv, Apart, HasCampaign
  <1>8. Apart'
    BY <1>6, <1>7 DEF Apart
  <1> QED
    BY <1>2, <1>3, <1>4, <1>5, <1>8 DEF BoardInv

LEMMA NobodyIsSound ==
  ASSUME NEW w \in Boarders, tx'[w] = NoTx, holds'[w] = {}
  PROVE  Sound(w)'
  BY NoTxFields, NoPlan DEF Sound, Control, Ordered, Draft, Aim, Owns, HasCampaign, Filed, Placements, LayoutChanges

-------------------------------------------------------------------------------
(* The steps that begin and end a transaction, or only lock *)

LEMMA RollBackKeeps ==
  ASSUME BoardInv, NEW w \in Boarders, RollBackBoard(w)
  PROVE  BoardInv'
  <1>1. tx \in [Boarders -> Tx] /\ holds \in [Boarders -> SUBSET (Lanes \cup {Layout})]
    BY DEF BoardInv, BoardTypes
  <1>2. /\ tx' = [tx EXCEPT ![w] = NoTx] /\ holds' = [holds EXCEPT ![w] = {}]
        /\ UNCHANGED <<lanes, cards, adopted>>
    BY DEF RollBackBoard
  <1>3. tx'[w] = NoTx /\ holds'[w] = {} /\ OnlyOf(w)
    BY <1>1, <1>2 DEF OnlyOf
  <1>4. Sound(w)'
    BY <1>3, NobodyIsSound
  <1>5. tx' \in [Boarders -> Tx] /\ holds' \in [Boarders -> SUBSET (Lanes \cup {Layout})]
    BY <1>1, <1>2, NoTxFields
  <1>6. ~HasCampaign(w)'
    BY <1>3, NoTxFields DEF HasCampaign, Placements
  <1> QED
    BY <1>3, <1>4, <1>5, <1>6, OneTransaction

(* What a transaction has after its first statement: its parameters, an empty     *)
(* plan, no lock; nobody else has changed.                                        *)
HasBegun(w, o, s, c, l, p, st) ==
    /\ tx'[w].op = o /\ tx'[w].step = s /\ tx'[w].card = c /\ tx'[w].lane = l /\ tx'[w].at = p
    /\ tx'[w].status = st /\ tx'[w].board = <<>> /\ tx'[w].plan = <<>> /\ DOMAIN tx'[w].plan = {}
    /\ holds'[w] = {} /\ OnlyOf(w)
    /\ tx' \in [Boarders -> Tx] /\ holds' \in [Boarders -> SUBSET (Lanes \cup {Layout})]

LEMMA Begun ==
  ASSUME BoardInv, NEW w \in Boarders, NEW o \in Placements \cup LayoutChanges, NEW s \in Steps,
         NEW c \in Campaigns \cup {"none"}, NEW l \in 0..LastLane, NEW p \in Nat,
         NEW st \in Stages \cup {"none"}, Begin(w, o, s, c, l, p, st)
  PROVE  HasBegun(w, o, s, c, l, p, st)
  <1> DEFINE t == [NoTx EXCEPT !.op = o, !.step = s, !.card = c, !.lane = l, !.at = p, !.status = st]
  <1>1. tx \in [Boarders -> Tx] /\ holds \in [Boarders -> SUBSET (Lanes \cup {Layout})]
    BY DEF BoardInv, BoardTypes
  <1>2. tx[w] = NoTx /\ tx' = [tx EXCEPT ![w] = t] /\ UNCHANGED <<lanes, cards, holds, adopted>>
    BY DEF Begin
  <1>3. holds[w] = {}
    BY <1>2, NoTxFields DEF BoardInv, Sound, Control
  <1>4. /\ t.op = o /\ t.step = s /\ t.card = c /\ t.lane = l /\ t.at = p /\ t.status = st
        /\ t.board = <<>> /\ t.plan = <<>>
    BY DEF NoTx
  <1>5. t \in Tx
    BY NoPlan DEF NoTx, Tx, Steps
  <1> HIDE DEF t
  <1> QED
    BY <1>1, <1>2, <1>3, <1>4, <1>5, NoPlan DEF OnlyOf, HasBegun

LEMMA CreateCampaignKeeps ==
  ASSUME BoardInv, NEW w \in Boarders, NEW c \in Campaigns, NEW s \in Stages, CreateCampaign(w, c, s)
  PROVE  BoardInv'
  <1>1. Begin(w, "create", "stage", c, 0, 0, s) /\ cards[c] = NoCard /\ \A v \in Boarders : tx[v].card # c
    BY DEF CreateCampaign
  <1>2. /\ tx'[w].op = "create" /\ tx'[w].step = "stage" /\ tx'[w].card = c /\ tx'[w].lane = 0
        /\ tx'[w].status = s /\ tx'[w].board = <<>> /\ DOMAIN tx'[w].plan = {}
        /\ holds'[w] = {} /\ OnlyOf(w)
        /\ tx' \in [Boarders -> Tx] /\ holds' \in [Boarders -> SUBSET (Lanes \cup {Layout})]
    <2>1. "create" \in Placements \cup LayoutChanges /\ "stage" \in Steps /\ 0 \in 0..LastLane /\ 0 \in Nat
      BY LanesAssumption DEF Placements, Steps
    <2>2. c \in Campaigns \cup {"none"} /\ s \in Stages \cup {"none"}
      OBVIOUS
    <2>3. HasBegun(w, "create", "stage", c, 0, 0, s)
      BY ONLY BoardInv, <1>1, <2>1, <2>2, Begun
    <2> QED
      BY ONLY <2>3 DEF HasBegun
  <1>3. cards'[c].lane = 0
    BY <1>1, <1>2 DEF OnlyOf, NoCard
  <1>4. Sound(w)'
    BY <1>2, <1>3 DEF Sound, Control, Ordered, Draft, Aim, Owns, HasCampaign, Filed, Placements, LayoutChanges
  <1> QED
    BY <1>1, <1>2, <1>4, OneTransaction

LEMMA UpdateCampaignKeeps ==
  ASSUME BoardInv, NEW w \in Boarders, NEW c \in Campaigns, NEW s \in Stages, UpdateCampaign(w, c, s)
  PROVE  BoardInv'
  <1>1. Begin(w, "update", "campaign", c, 0, 0, s)
    BY DEF UpdateCampaign
  <1>2. /\ tx'[w].op = "update" /\ tx'[w].step = "campaign" /\ tx'[w].card = c /\ tx'[w].lane = 0
        /\ tx'[w].status = s /\ tx'[w].board = <<>> /\ DOMAIN tx'[w].plan = {}
        /\ holds'[w] = {} /\ OnlyOf(w)
        /\ tx' \in [Boarders -> Tx] /\ holds' \in [Boarders -> SUBSET (Lanes \cup {Layout})]
    <2>1. "update" \in Placements \cup LayoutChanges /\ "campaign" \in Steps /\ 0 \in 0..LastLane /\ 0 \in Nat
      BY LanesAssumption DEF Placements, Steps
    <2>2. c \in Campaigns \cup {"none"} /\ s \in Stages \cup {"none"}
      OBVIOUS
    <2>3. HasBegun(w, "update", "campaign", c, 0, 0, s)
      BY ONLY BoardInv, <1>1, <2>1, <2>2, Begun
    <2> QED
      BY ONLY <2>3 DEF HasBegun
  <1>3. ~HasCampaign(w)'
    BY <1>2 DEF HasCampaign
  <1>4. Sound(w)'
    BY <1>2, <1>3 DEF Sound, Control, Ordered, Draft, Aim, Owns, Filed, Placements, LayoutChanges
  <1> QED
    BY <1>2, <1>3, <1>4, OneTransaction

LEMMA MoveCampaignKeeps ==
  ASSUME BoardInv, NEW w \in Boarders, NEW c \in Campaigns, NEW l \in Lanes, NEW p \in Nat, MoveCampaign(w, c, l, p)
  PROVE  BoardInv'
  <1>1. Begin(w, "move", "campaign", c, l, p, lanes[l].stage) /\ l \in On(lanes)
    BY DEF MoveCampaign
  <1>2. lanes[l].stage \in Stages \cup {"none"} /\ l \in 0..LastLane
    <2>1. lanes \in [Lanes -> Lane]
      BY DEF BoardInv, BoardTypes
    <2>2. lanes[l].stage \in Stages \cup {"none"}
      BY <2>1, LaneFields
    <2> QED
      BY <2>2, LanesAssumption DEF Lanes
  <1>0. PICK st \in Stages \cup {"none"} : st = lanes[l].stage
    BY <1>2
  <1>3. /\ tx'[w].op = "move" /\ tx'[w].step = "campaign" /\ tx'[w].card = c /\ tx'[w].lane = l
        /\ tx'[w].status = lanes[l].stage /\ tx'[w].board = <<>> /\ DOMAIN tx'[w].plan = {}
        /\ holds'[w] = {} /\ OnlyOf(w)
        /\ tx' \in [Boarders -> Tx] /\ holds' \in [Boarders -> SUBSET (Lanes \cup {Layout})]
    <2>1. Begin(w, "move", "campaign", c, l, p, st)
      BY <1>0, <1>1
    <2> HIDE DEF Begin
    <2>2. "move" \in Placements \cup LayoutChanges /\ "campaign" \in Steps /\ c \in Campaigns \cup {"none"}
      BY DEF Placements, Steps
    <2> QED
      <3>1. st \in Stages \cup {"none"}
        OBVIOUS
      <3>2. HasBegun(w, "move", "campaign", c, l, p, st)
        BY ONLY BoardInv, <1>2, <2>1, <2>2, <3>1, Begun
      <3> QED
        BY ONLY <1>0, <3>2 DEF HasBegun
  <1>4. ~HasCampaign(w)'
    BY <1>3 DEF HasCampaign
  <1>5. lanes' = lanes /\ lanes[l].is = "on"
    BY <1>1, <1>3 DEF OnlyOf, On
  <1>6. Sound(w)'
    BY <1>3, <1>4, <1>5 DEF Sound, Control, Ordered, Draft, Aim, Owns, Filed, Placements, LayoutChanges
  <1> QED
    BY <1>3, <1>4, <1>6, OneTransaction

LEMMA LayoutBegins ==
  ASSUME BoardInv, NEW w \in Boarders, NEW o \in LayoutChanges, NEW l \in 0..LastLane, NEW p \in Nat,
         o = "add" => l \in Lanes, Begin(w, o, "layout", "none", l, p, "none")
  PROVE  BoardInv'
  <1>2. /\ tx'[w].op = o /\ tx'[w].step = "layout" /\ tx'[w].card = "none" /\ tx'[w].lane = l
        /\ tx'[w].status = "none" /\ tx'[w].board = <<>> /\ DOMAIN tx'[w].plan = {}
        /\ holds'[w] = {} /\ OnlyOf(w)
        /\ tx' \in [Boarders -> Tx] /\ holds' \in [Boarders -> SUBSET (Lanes \cup {Layout})]
    <2>1. PICK s \in Steps, c \in Campaigns \cup {"none"}, st \in Stages \cup {"none"} :
            s = "layout" /\ c = "none" /\ st = "none"
      BY DEF Steps
    <2>2. o \in Placements \cup LayoutChanges
      OBVIOUS
    <2>3. Begin(w, o, s, c, l, p, st)
      BY <2>1
    <2>4. HasBegun(w, o, s, c, l, p, st)
      BY ONLY BoardInv, <2>2, <2>3, Begun
    <2> QED
      BY ONLY <2>1, <2>4 DEF HasBegun
  <1>3. ~HasCampaign(w)'
    BY <1>2 DEF HasCampaign, Placements, LayoutChanges
  <1>4. Sound(w)'
    BY <1>2, <1>3 DEF Sound, Control, Ordered, Draft, Aim, Owns, Filed, Placements, LayoutChanges
  <1> QED
    BY <1>2, <1>3, <1>4, OneTransaction

(* It goes on to another step, with the locks it has.                             *)
LEMMA GoesOn ==
  ASSUME BoardInv, NEW w \in Boarders, NEW s \in Steps, tx' = [tx EXCEPT ![w].step = s],
         UNCHANGED <<lanes, cards, holds, adopted>>
  PROVE  /\ tx'[w].step = s
         /\ tx'[w].op = tx[w].op /\ tx'[w].card = tx[w].card /\ tx'[w].lane = tx[w].lane /\ tx'[w].at = tx[w].at
         /\ tx'[w].status = tx[w].status /\ tx'[w].board = tx[w].board /\ tx'[w].plan = tx[w].plan
         /\ OnlyOf(w) /\ holds'[w] = holds[w]
         /\ Seen(w)' = Seen(w) /\ LanesToLock(w)' = LanesToLock(w) /\ \A l : InLane(l)' = InLane(l)
         /\ tx' \in [Boarders -> Tx] /\ holds' \in [Boarders -> SUBSET (Lanes \cup {Layout})]
  <1>1. tx \in [Boarders -> Tx] /\ holds \in [Boarders -> SUBSET (Lanes \cup {Layout})]
    BY DEF BoardInv, BoardTypes
  <1>2. tx' = [tx EXCEPT ![w] = [tx[w] EXCEPT !.step = s]]
    OBVIOUS
  <1>3. PICK u : u = [tx[w] EXCEPT !.step = s]
    OBVIOUS
  <1>4. /\ u \in Tx /\ u.step = s
        /\ u.op = tx[w].op /\ u.card = tx[w].card /\ u.lane = tx[w].lane /\ u.at = tx[w].at
        /\ u.status = tx[w].status /\ u.board = tx[w].board /\ u.plan = tx[w].plan
    BY <1>1, <1>3, TxAtStep
  <1>5. tx' = [tx EXCEPT ![w] = u]
    BY <1>2, <1>3
  <1>6. tx'[w] = u /\ tx' \in [Boarders -> Tx] /\ OnlyOf(w)
    BY <1>1, <1>4, <1>5 DEF OnlyOf
  <1> QED
    BY <1>1, <1>4, <1>6 DEF Seen, LanesToLock, InLane

LEMMA LockCampaignKeeps ==
  ASSUME BoardInv, NEW w \in Boarders, LockCampaign(w)
  PROVE  BoardInv'
  <1> DEFINE s == CASE tx[w].op = "move" -> "lanes"
                    [] tx[w].op = "update" /\ cards[tx[w].card].status # tx[w].status -> "stage"
                    [] OTHER -> "written"
  <1>1. /\ tx[w].step = "campaign" /\ cards[tx[w].card] # NoCard
        /\ \A v \in Boarders \ {w} : tx[v].card = tx[w].card => tx[v].step = "campaign"
        /\ tx' = [tx EXCEPT ![w].step = s] /\ UNCHANGED <<lanes, cards, holds, adopted>>
    BY DEF LockCampaign
  <1>2. /\ tx[w].op = "move" => s = "lanes"
        /\ tx[w].op # "move" /\ tx[w].op = "update" /\ cards[tx[w].card].status # tx[w].status => s = "stage"
        /\ tx[w].op # "move" /\ ~(tx[w].op = "update" /\ cards[tx[w].card].status # tx[w].status) => s = "written"
    OBVIOUS
  <1> HIDE DEF s
  <1>3. s \in {"lanes", "stage", "written"} /\ s \in Steps
    BY <1>2 DEF Steps
  <1>4. /\ tx'[w].step = s
        /\ tx'[w].op = tx[w].op /\ tx'[w].card = tx[w].card /\ tx'[w].lane = tx[w].lane
        /\ tx'[w].status = tx[w].status /\ tx'[w].board = tx[w].board /\ tx'[w].plan = tx[w].plan
        /\ OnlyOf(w) /\ holds'[w] = holds[w]
        /\ Seen(w)' = Seen(w) /\ LanesToLock(w)' = LanesToLock(w)
        /\ tx' \in [Boarders -> Tx] /\ holds' \in [Boarders -> SUBSET (Lanes \cup {Layout})]
    BY <1>1, <1>3, GoesOn
  <1>5. Control(w) /\ Ordered(w) /\ Draft(w) /\ Aim(w) /\ Owns(w) /\ Filed(w)
    BY DEF BoardInv, Sound
  <1>6. /\ tx[w].op \in {"update", "move"} /\ tx[w].op \in Placements /\ tx[w].card \in Campaigns
        /\ tx[w].board = <<>> /\ DOMAIN tx[w].plan = {} /\ holds[w] \subseteq {Layout}
        /\ tx[w].op = "update" => tx[w].status \in Stages
    <2>1. tx[w].op \in Placements \cup LayoutChanges \cup {"none"}
      BY BoardTypesOf, TxFields
    <2> QED
      BY <1>1, <1>5, <2>1 DEF Control, Ordered, Placements, LayoutChanges
  <1>7. cards' = cards /\ lanes' = lanes /\ adopted' = adopted /\ cards[tx[w].card].lane # 0
    <2>1. cards[tx[w].card].lane # 0
      BY <1>1, <1>6 DEF BoardInv, CardsPlaced
    <2> QED
      BY <1>1, <2>1
  <1>8. Layout \notin holds[w]
    BY <1>1, <1>5 DEF Control
  <1>9. Control(w)'
    BY <1>2, <1>3, <1>4, <1>5, <1>6, <1>8 DEF Control, Placements, LayoutChanges
  <1>10. Ordered(w)' /\ Draft(w)' /\ Aim(w)'
    BY <1>2, <1>3, <1>4, <1>5, <1>6, <1>7 DEF Ordered, Draft, Aim, On
  <1>11. Owns(w)' /\ Filed(w)'
    BY <1>2, <1>3, <1>4, <1>6, <1>7 DEF Owns, Filed
  <1>12. Sound(w)'
    BY <1>9, <1>10, <1>11 DEF Sound
  <1>13. \A v \in Boarders \ {w} : HasCampaign(v) => tx[v].card # tx'[w].card
    BY <1>1, <1>4 DEF HasCampaign
  <1> QED
    BY <1>4, <1>12, <1>13, OneTransaction

(* It takes a free lock and nothing else.                                        *)
LEMMA TakesALock ==
  ASSUME BoardInv, NEW w \in Boarders, NEW l \in Lanes \cup {Layout}, FreeFor(w, l),
         holds' = [holds EXCEPT ![w] = @ \cup {l}], UNCHANGED <<lanes, cards, adopted>>,
         \A v \in Boarders \ {w} : tx'[v] = tx[v]
  PROVE  /\ holds'[w] = holds[w] \cup {l} /\ OnlyOf(w)
         /\ holds' \in [Boarders -> SUBSET (Lanes \cup {Layout})]
         /\ \A k \in holds'[w] : k \in holds[w] \/ FreeFor(w, k)
  <1>1. holds \in [Boarders -> SUBSET (Lanes \cup {Layout})]
    BY DEF BoardInv, BoardTypes
  <1> QED
    BY <1>1 DEF OnlyOf

LEMMA StagesOnly ==
  ASSUME BoardInv, NEW w \in Boarders, tx[w].step = "stage"
  PROVE  /\ tx[w].op \in {"create", "update"} /\ tx[w].status \in Stages /\ tx[w].card \in Campaigns
         /\ DOMAIN tx[w].plan = {} /\ HasCampaign(w)
  <1>1. tx[w].op \in Placements \cup LayoutChanges \cup {"none"}
    BY BoardTypesOf, TxFields
  <1>2. Control(w)
    BY DEF BoardInv, Sound
  <1> QED
    BY <1>1, <1>2 DEF Control, Placements, LayoutChanges, HasCampaign

LEMMA FindStageKeeps ==
  ASSUME BoardInv, NEW w \in Boarders, FindStage(w)
  PROVE  BoardInv'
  <1>1. tx[w].step = "stage" /\ UNCHANGED <<lanes, cards, holds, adopted>>
    BY DEF FindStage
  <1>2. Control(w) /\ Ordered(w) /\ Draft(w) /\ Aim(w) /\ Owns(w) /\ Filed(w)
    BY DEF BoardInv, Sound
  <1>3. /\ tx[w].op \in {"create", "update"} /\ tx[w].status \in Stages /\ tx[w].card \in Campaigns
        /\ DOMAIN tx[w].plan = {} /\ HasCampaign(w) /\ tx[w].op \in Placements
    BY <1>1, StagesOnly DEF Placements
  <1>4. tx \in [Boarders -> Tx] /\ holds \in [Boarders -> SUBSET (Lanes \cup {Layout})]
    BY DEF BoardInv, BoardTypes
  <1>5. ASSUME NEW l \in LaneOf(Seen(w), tx[w].status), tx' = [tx EXCEPT ![w].lane = l, ![w].step = "lanes"]
        PROVE  BoardInv'
    <2>1. l \in On(Seen(w)) /\ Seen(w)[l].stage = tx[w].status /\ l \in Lanes /\ l \in 0..LastLane
      BY BoardTypesOf, LanesAssumption DEF LaneOf, Lanes
    <2>2. PICK t : t = [tx[w] EXCEPT !.lane = l]
      OBVIOUS
    <2>3. /\ t \in Tx /\ t.lane = l
          /\ t.op = tx[w].op /\ t.card = tx[w].card /\ t.plan = tx[w].plan /\ t.status = tx[w].status
          /\ t.board = tx[w].board
      BY <1>4, <2>1, <2>2, TxToLane
    <2>4. PICK u : u = [t EXCEPT !.step = "lanes"]
      OBVIOUS
    <2>5. "lanes" \in Steps
      BY DEF Steps
    <2>6. /\ u \in Tx /\ u.lane = l /\ u.step = "lanes"
          /\ u.op = tx[w].op /\ u.card = tx[w].card /\ u.plan = tx[w].plan /\ u.status = tx[w].status
          /\ u.board = tx[w].board
      BY <2>3, <2>4, <2>5, TxAtStep
    <2>7. u = [tx[w] EXCEPT !.lane = l, !.step = "lanes"]
      BY <2>2, <2>4
    <2>8. tx' = [tx EXCEPT ![w] = u]
      BY <1>5, <2>7
    <2>9. tx'[w] = u /\ tx' \in [Boarders -> Tx] /\ OnlyOf(w) /\ holds'[w] = holds[w] /\ Seen(w)' = Seen(w)
      BY <1>1, <1>4, <2>6, <2>8 DEF OnlyOf, Seen
    <2>10. Control(w)'
      BY <1>1, <1>2, <1>3, <2>6, <2>9 DEF Control, Placements, LayoutChanges
    <2>14. Ordered(w)'
      <3>1. tx[w].board = <<>> => holds[w] \subseteq {Layout}
        BY <1>1, <1>2, <1>3 DEF Ordered
      <3> QED
        BY <2>6, <2>9, <3>1 DEF Ordered
    <2>15. Draft(w)'
      BY <1>1, <1>2, <2>6, <2>9, DraftStays
    <2>16. Aim(w)'
      <3>1. lanes' = lanes /\ adopted' = adopted /\ On(Seen(w))' = On(Seen(w))
        BY <1>1, <2>9 DEF On
      <3>2. \A k \in holds[w] : k # Layout => k \in On(Seen(w))
        BY <1>2, <1>3 DEF Aim
      <3> QED
        BY <1>3, <2>1, <2>6, <2>9, <3>1, <3>2 DEF Aim
    <2>12. Owns(w)' /\ Filed(w)'
      BY <1>1, <1>2, <1>3, <2>6, <2>9 DEF Owns, Filed, HasCampaign
    <2>13. Sound(w)'
      BY <2>10, <2>12, <2>14, <2>15, <2>16 DEF Sound
    <2> QED
      BY <1>1, <1>3, <1>4, <2>6, <2>9, <2>13, OneTransaction
  <1>6. ASSUME LaneOf(Seen(w), tx[w].status) = {}, tx' = [tx EXCEPT ![w].step = "layout"]
        PROVE  BoardInv'
    <2>1. "layout" \in Steps
      BY DEF Steps
    <2>2. /\ tx'[w].step = "layout"
          /\ tx'[w].op = tx[w].op /\ tx'[w].card = tx[w].card /\ tx'[w].lane = tx[w].lane
          /\ tx'[w].status = tx[w].status /\ tx'[w].board = tx[w].board /\ tx'[w].plan = tx[w].plan
          /\ OnlyOf(w) /\ holds'[w] = holds[w] /\ Seen(w)' = Seen(w)
          /\ tx' \in [Boarders -> Tx] /\ holds' \in [Boarders -> SUBSET (Lanes \cup {Layout})]
      BY <1>1, <1>6, <2>1, GoesOn
    <2>3. Layout \notin holds[w]
      BY <1>1, <1>2, <1>6 DEF Control
    <2>10. Control(w)'
      BY <1>1, <1>2, <1>3, <2>2, <2>3 DEF Control, Placements, LayoutChanges
    <2>11. Ordered(w)' /\ Draft(w)' /\ Aim(w)'
      <3>1. Ordered(w)'
        <4>1. tx[w].board = <<>> => holds[w] \subseteq {Layout}
          BY <1>1, <1>2, <1>3 DEF Ordered
        <4> QED
          BY <2>2, <4>1 DEF Ordered
      <3>2. Draft(w)'
        BY <1>1, <1>2, <2>2, DraftStays
      <3>3. Aim(w)'
        <4>1. lanes' = lanes /\ adopted' = adopted /\ On(Seen(w))' = On(Seen(w))
          BY <1>1, <2>2 DEF On
        <4>2. \A k \in holds[w] : k # Layout => k \in On(Seen(w))
          BY <1>2, <1>3 DEF Aim
        <4> QED
          BY <1>3, <2>2, <4>1, <4>2 DEF Aim
      <3> QED
        BY <3>1, <3>2, <3>3
    <2>12. Owns(w)' /\ Filed(w)'
      BY <1>1, <1>2, <1>3, <2>2 DEF Owns, Filed, HasCampaign
    <2>13. Sound(w)'
      BY <2>10, <2>11, <2>12 DEF Sound
    <2> QED
      BY <1>1, <1>3, <2>2, <2>13, OneTransaction
  <1> QED
    BY <1>5, <1>6 DEF FindStage

LEMMA NextLaneIsFirst ==
  ASSUME BoardInv, NEW w \in Boarders, tx[w].card \in Campaigns, LanesToLock(w) # {}
  PROVE  /\ NextLane(w) \in LanesToLock(w) /\ \A k \in LanesToLock(w) : NextLane(w) <= k
         /\ LanesToLock(w) \subseteq Lanes
  <1>1. tx[w].lane \in 0..LastLane
    BY BoardTypesOf
  <1>2. cards[tx[w].card].lane \in 0..LastLane
    BY DEF BoardInv, BoardTypes, Card
  <1>3. LanesToLock(w) \subseteq {tx[w].lane, cards[tx[w].card].lane} /\ LanesToLock(w) \subseteq Lanes
    BY <1>1, <1>2, LanesAssumption DEF LanesToLock, Lanes
  <1>4. \E l \in LanesToLock(w) : \A k \in LanesToLock(w) : l <= k
    <2>1. PICK a \in LanesToLock(w) : TRUE
      OBVIOUS
    <2>2. a \in Nat /\ \A k \in LanesToLock(w) : k \in Nat
      BY <1>3 DEF Lanes
    <2>3. CASE \A k \in LanesToLock(w) : a <= k
      BY <2>3
    <2>4. CASE ~ \A k \in LanesToLock(w) : a <= k
      <3>1. PICK b \in LanesToLock(w) : ~(a <= b)
        BY <2>4
      <3>2. b \in Nat /\ b <= a /\ a # b
        BY <2>2, <3>1
      <3>3. \A k \in LanesToLock(w) : k = a \/ k = b
        BY <1>3, <3>2
      <3>4. \A k \in LanesToLock(w) : b <= k
        BY <2>2, <3>2, <3>3
      <3> QED
        BY <3>4
    <2> QED
      BY <2>3, <2>4
  <1> QED
    BY <1>3, <1>4 DEF NextLane

LEMMA PlacesOnly ==
  ASSUME BoardInv, NEW w \in Boarders, tx[w].step = "lanes"
  PROVE  /\ tx[w].op \in Placements /\ tx[w].card \in Campaigns /\ DOMAIN tx[w].plan = {} /\ HasCampaign(w)
         /\ tx[w].lane \in Lanes
  <1>1. tx[w].op \in Placements \cup LayoutChanges \cup {"none"}
    BY BoardTypesOf, TxFields
  <1>2. Control(w) /\ Aim(w)
    BY DEF BoardInv, Sound
  <1>3. tx[w].op \in Placements /\ tx[w].card \in Campaigns /\ DOMAIN tx[w].plan = {}
    BY <1>1, <1>2 DEF Control, Placements, LayoutChanges
  <1>4. On(Seen(w)) \subseteq Lanes
    BY BoardTypesOf
  <1>5. tx[w].lane \in Lanes
    BY <1>2, <1>3, <1>4 DEF Aim, Placements
  <1> QED
    BY <1>3, <1>5 DEF HasCampaign

LEMMA LockLaneKeeps ==
  ASSUME BoardInv, NEW w \in Boarders, LockLane(w)
  PROVE  BoardInv'
  <1> DEFINE l == NextLane(w)
  <1>1. /\ tx[w].step = "lanes" /\ LanesToLock(w) # {} /\ l \in On(Seen(w)) /\ FreeFor(w, l)
        /\ holds' = [holds EXCEPT ![w] = @ \cup {l}] /\ UNCHANGED <<lanes, cards, tx, adopted>>
    BY DEF LockLane
  <1>2. Control(w) /\ Ordered(w) /\ Draft(w) /\ Aim(w) /\ Owns(w) /\ Filed(w)
    BY DEF BoardInv, Sound
  <1>3. tx[w].op \in Placements /\ tx[w].card \in Campaigns /\ DOMAIN tx[w].plan = {} /\ HasCampaign(w)
    BY <1>1, PlacesOnly
  <1>4. l \in LanesToLock(w) /\ (\A k \in LanesToLock(w) : l <= k) /\ LanesToLock(w) \subseteq Lanes
    BY <1>1, <1>3, NextLaneIsFirst
  <1> HIDE DEF l
  <1>5. l \in Lanes /\ l # Layout /\ l \in Nat
    BY <1>4 DEF Lanes, Layout
  <1>6. /\ holds'[w] = holds[w] \cup {l} /\ OnlyOf(w)
        /\ holds' \in [Boarders -> SUBSET (Lanes \cup {Layout})]
        /\ \A k \in holds'[w] : k \in holds[w] \/ FreeFor(w, k)
    BY <1>1, <1>5, TakesALock
  <1>7. tx' = tx /\ tx' \in [Boarders -> Tx] /\ Seen(w)' = Seen(w)
    BY <1>1 DEF BoardInv, BoardTypes, Seen
  <1>8. LanesToLock(w)' = LanesToLock(w) \ {l}
    BY <1>1, <1>6, <1>7 DEF LanesToLock
  <1>9. Control(w)'
    BY <1>1, <1>2, <1>5, <1>6, <1>7 DEF Control
  <1>10. Ordered(w)'
    <2>1. \A h \in holds[w], k \in LanesToLock(w) : tx[w].board = <<>> /\ h # Layout => h < k
      BY <1>1, <1>2 DEF Ordered
    <2>2. \A k \in LanesToLock(w)' : k \in Nat /\ l < k
      BY <1>4, <1>5, <1>8 DEF Lanes
    <2> QED
      BY <1>1, <1>6, <1>7, <1>8, <2>1, <2>2 DEF Ordered
  <1>11. Draft(w)' /\ Aim(w)'
    <2>1. Draft(w)'
      BY <1>1, <1>2, <1>6, DraftStays
    <2>2. \A k \in holds'[w] : k \in holds[w] \/ k \in On(Seen(w))
      BY <1>1, <1>6
    <2>3. Aim(w)'
      BY <1>1, <1>2, <1>7, <2>2, AimStays
    <2> QED
      BY <2>1, <2>3
  <1>12. Owns(w)' /\ Filed(w)'
    BY <1>1, <1>2, <1>3, <1>6, <1>7 DEF Owns, Filed, HasCampaign
  <1>13. Sound(w)'
    BY <1>9, <1>10, <1>11, <1>12 DEF Sound
  <1>14. HasCampaign(w) /\ tx'[w].card = tx[w].card
    BY <1>3, <1>7
  <1> QED
    BY <1>6, <1>7, <1>13, <1>14, OneTransaction

LEMMA PlaceKeeps ==
  ASSUME BoardInv, NEW w \in Boarders, Place(w)
  PROVE  BoardInv'
  <1> DEFINE p == Placement(tx[w].card, tx[w].lane, tx[w].at)
             c == tx[w].card
             l == tx[w].lane
  <1>1. /\ tx[w].step = "lanes" /\ LanesToLock(w) = {}
        /\ tx' = [tx EXCEPT ![w].plan = p, ![w].step = "written"]
        /\ UNCHANGED <<lanes, cards, holds, adopted>>
    BY DEF Place
  <1>2. Control(w) /\ Ordered(w) /\ Draft(w) /\ Aim(w) /\ Owns(w) /\ Filed(w)
    BY DEF BoardInv, Sound
  <1>3. tx[w].op \in Placements /\ c \in Campaigns /\ HasCampaign(w) /\ l \in Lanes
    BY <1>1, PlacesOnly
  <1>4. tx \in [Boarders -> Tx] /\ holds \in [Boarders -> SUBSET (Lanes \cup {Layout})] /\ tx[w].at \in Nat
        /\ BoardTypes /\ CardsPlaced
    BY TxFields DEF BoardInv, BoardTypes
  <1>5. /\ p \in [Rewritten(c, l) -> Spot]
        /\ p[c].lane = l
        /\ \A d \in Rewritten(c, l) : d # c => p[d].lane = cards[d].lane
        /\ \A d, e \in Rewritten(c, l) : d # e /\ p[d].lane = p[e].lane => p[d].position # p[e].position
    BY <1>3, <1>4, PlacementKeepsApart
  <1> HIDE DEF p
  <1>6. Rewritten(c, l) \subseteq Campaigns
    BY <1>3 DEF Rewritten, InLane
  <1>7. p \in Plans /\ DOMAIN p = Rewritten(c, l)
    BY <1>5, <1>6 DEF Plans
  <1>8. PICK t : t = [tx[w] EXCEPT !.plan = p]
    OBVIOUS
  <1>9. /\ t \in Tx /\ t.plan = p /\ t.op = tx[w].op /\ t.card = c /\ t.lane = l /\ t.status = tx[w].status
        /\ t.board = tx[w].board
    BY <1>4, <1>7, <1>8, TxWithPlan
  <1>10. PICK u : u = [t EXCEPT !.step = "written"]
    OBVIOUS
  <1>11. "written" \in Steps
    BY DEF Steps
  <1>12. /\ u \in Tx /\ u.plan = p /\ u.step = "written" /\ u.op = tx[w].op /\ u.card = c /\ u.lane = l
         /\ u.status = tx[w].status /\ u.board = tx[w].board
    BY <1>9, <1>10, <1>11, TxAtStep
  <1>13. u = [tx[w] EXCEPT !.plan = p, !.step = "written"]
    BY <1>8, <1>10
  <1>14. tx' = [tx EXCEPT ![w] = u]
    BY <1>1, <1>13
  <1>15. /\ tx'[w] = u /\ tx' \in [Boarders -> Tx] /\ OnlyOf(w) /\ holds'[w] = holds[w] /\ Seen(w)' = Seen(w)
         /\ \A k : InLane(k)' = InLane(k)
    BY <1>1, <1>4, <1>12, <1>14 DEF OnlyOf, Seen, InLane
  <1>16. l \in holds[w] /\ l # 0 /\ cards[c].lane \in holds[w] \cup {0}
    BY <1>1, <1>3 DEF LanesToLock, Lanes
  <1>17. l \in On(Seen(w)) /\ (tx[w].op # "move" => Seen(w)[l].stage = tx[w].status)
    BY <1>1, <1>2, <1>3, <1>16 DEF Aim, Placements, Layout
  <1>18. DOMAIN p = {c} \cup InLane(l) \cup {d \in Campaigns : cards[c].lane # 0 /\ cards[d].lane = cards[c].lane}
    BY <1>7 DEF Rewritten
  <1>19. Control(w)'
    BY <1>1, <1>2, <1>3, <1>12, <1>15 DEF Control, Placements, LayoutChanges
  <1>20. Ordered(w)' /\ Draft(w)' /\ Aim(w)'
    <2>1. tx'[w] = u /\ u.step = "written" /\ lanes' = lanes /\ cards' = cards /\ adopted' = adopted
      BY <1>1, <1>12, <1>15
    <2>2. Ordered(w)'
      BY <2>1 DEF Ordered
    <2>3. Draft(w)'
      BY <1>2, <1>12, <1>15, <2>1, DraftStays
    <2>4. tx[w].lane = l
      BY <1>1
    <2>5. Aim(w)'
      BY <1>2, <1>12, <1>15, <2>1, <2>4, AimStays
    <2> QED
      BY <2>2, <2>3, <2>5
  <1>21. Owns(w)'
    BY <1>1, <1>2, <1>3, <1>12, <1>15 DEF Owns, HasCampaign
  <1>22. Filed(w)'
    <2>1. cards' = cards /\ lanes' = lanes /\ c \in DOMAIN p
      BY <1>1, <1>18
    <2>2. \A d \in DOMAIN p : d # c => p[d].lane = cards[d].lane
      BY <1>5, <1>7
    <2>3. \A d, e \in DOMAIN p : d # e /\ p[d].lane = p[e].lane => p[d].position # p[e].position
      BY <1>5, <1>7
    <2>4. PICK row, on, held, seen : row = cards /\ on = On(Seen(w)) /\ held = holds[w] /\ seen = Seen(w)
      OBVIOUS
    <2>5. tx'[w] = u /\ holds'[w] = held /\ Seen(w)' = seen /\ \A k : InLane(k)' = InLane(k)
      BY ONLY <1>15, <2>4
    <2>11. cards' = row
      BY ONLY <2>1, <2>4
    <2>10. On(Seen(w))' = on
      BY <2>4, <2>5 DEF On
    <2>6. /\ u.op \in Placements /\ l \in held \cap on /\ l # 0 /\ row[c].lane \in held \cup {0}
          /\ p[c].lane = l /\ (u.op # "move" => seen[l].stage = u.status)
      BY <1>3, <1>5, <1>12, <1>16, <1>17, <1>18, <2>1, <2>4
    <2>7. DOMAIN p = {c} \cup InLane(l) \cup {d \in Campaigns : row[c].lane # 0 /\ row[d].lane = row[c].lane}
      BY <1>18, <2>4
    <2>8. \A d \in DOMAIN p : d # c => p[d].lane = row[d].lane
      BY <2>2, <2>4
    <2>9. u.plan = p /\ u.card = c /\ u.lane = l /\ DOMAIN p # {}
      BY <1>12, <2>1
    <2>12. PICK in : in = InLane(l)
      OBVIOUS
    <2> HIDE DEF c, l
    <2>13. PlacedBy(u, held, seen, row, on, in)
      BY ONLY <2>3, <2>6, <2>7, <2>8, <2>9, <2>12 DEF PlacedBy
    <2>14. InLane(u.lane)' = in
      BY ONLY <2>5, <2>9, <2>12
    <2>15. tx'[w] = u /\ holds'[w] = held /\ Seen(w)' = seen
      BY ONLY <2>5
    <2> QED
      BY ONLY <2>10, <2>11, <2>13, <2>14, <2>15, FiledRows
  <1>23. Sound(w)'
    BY <1>19, <1>20, <1>21, <1>22 DEF Sound
  <1>24. HasCampaign(w) /\ tx'[w].card = tx[w].card
    BY <1>3, <1>12, <1>15
  <1>25. holds' \in [Boarders -> SUBSET (Lanes \cup {Layout})]
    BY <1>1, <1>4
  <1> QED
    BY <1>15, <1>23, <1>24, <1>25, OneTransaction

-------------------------------------------------------------------------------
(* A set of numbers has a least, so a lane without a stage is the first of its name *)

LEMMA LeastNumber ==
  ASSUME NEW T, T \subseteq Nat, T # {}
  PROVE  \E x \in T : \A y \in T : x <= y
  <1> DEFINE R == {p \in Nat \X Nat : p[1] < p[2]}
  <1>1. IsWellFoundedOn(R, Nat)
    BY NatLessThanWellFounded DEF OpToRel
  <1>2. \A x, y \in Nat : (<<y, x>> \in R) <=> y < x
    OBVIOUS
  <1> HIDE DEF R
  <1>3. \E x \in T : \A y \in T : ~ (<<y, x>> \in R)
    BY <1>1, WFMin
  <1>4. PICK x \in T : \A y \in T : ~ (<<y, x>> \in R)
    BY <1>3
  <1>5. ASSUME NEW y \in T
        PROVE  x <= y
    <2>1. x \in Nat /\ y \in Nat
      OBVIOUS
    <2>2. ~ (y < x)
      BY <1>2, <1>4, <2>1
    <2> QED
      BY <2>1, <2>2
  <1> QED
    BY <1>5

LEMMA FirstIsThere ==
  ASSUME NEW b \in [Lanes -> Lane], NEW S, S \subseteq On(b), S # {}
  PROVE  FirstOf(b, S) \in S
  <1> DEFINE T == {b[l].position : l \in S}
  <1>1. \A l \in S : b[l].position \in Nat
    BY LaneFields DEF On
  <1>2. T \subseteq Nat /\ T # {}
    BY <1>1
  <1>3. PICK x \in T : \A y \in T : x <= y
    BY <1>2, LeastNumber
  <1>4. PICK l \in S : b[l].position = x
    BY <1>3
  <1>5. \A k \in S : b[l].position <= b[k].position
    BY <1>3, <1>4
  <1> QED
    BY <1>4, <1>5 DEF FirstOf

(* How a board differs from the committed one that another has drafted.           *)
Drafted(w, b) ==
    \A l \in Lanes :
        /\ lanes[l].is = "on" =>
             \/ b[l].is = "on" /\ (b[l].stage # lanes[l].stage => lanes[l].stage = "none" /\ l \in holds[w])
             \/ b[l].is = "gone" /\ l \in holds[w] /\ InLane(l) = {} /\ lanes[l].stage = "none"
        /\ lanes[l].is = "gone" => b[l].is = "gone"

LEMMA SeenIsDrafted ==
  ASSUME BoardInv, NEW w \in Boarders
  PROVE  Drafted(w, Seen(w)) /\ GoodBoard(Seen(w)) /\ Seen(w) \in [Lanes -> Lane]
  <1>1. Draft(w)
    BY DEF BoardInv, Sound
  <1> QED
    BY <1>1, GoodSeen, BoardTypesOf DEF Drafted, Seen, Draft

(* A good board, drafted with the locks it has then, is a draft.                   *)
LEMMA NewDraft ==
  ASSUME NEW w \in Boarders, NEW b, tx'[w].board = b, GoodBoard(b), lanes' = lanes, cards' = cards,
         \A l \in Lanes :
            /\ lanes[l].is = "on" =>
                 \/ b[l].is = "on" /\ (b[l].stage # lanes[l].stage => lanes[l].stage = "none" /\ l \in holds'[w])
                 \/ b[l].is = "gone" /\ l \in holds'[w] /\ InLane(l) = {} /\ lanes[l].stage = "none"
            /\ lanes[l].is = "gone" => b[l].is = "gone"
  PROVE  Draft(w)'
  <1>1. \A l : InLane(l)' = InLane(l)
    BY DEF InLane
  <1>2. GoodBoard(tx[w].board)'
    BY DEF GoodBoard, On
  <1> QED
    BY <1>1, <1>2 DEF Draft

LEMMA LayoutSound ==
  ASSUME NEW w \in Boarders, tx'[w].op \in LayoutChanges, tx'[w].step \in {"layoutLocked", "rows", "written"},
         tx'[w].card = "none", tx'[w].status = "none", DOMAIN tx'[w].plan = {}, Layout \in holds'[w],
         tx'[w].step = "layoutLocked" => tx'[w].board = <<>> \/ tx'[w].op = "ensure",
         tx'[w].op = "add" => tx'[w].lane \in Lanes, Draft(w)'
  PROVE  Sound(w)' /\ ~HasCampaign(w)'
  <1>1. tx'[w].op \notin Placements /\ tx'[w].op # "none"
    BY DEF Placements, LayoutChanges
  <1>2. Control(w)'
    BY <1>1 DEF Control, Placements, LayoutChanges
  <1>3. Ordered(w)' /\ Owns(w)' /\ Filed(w)' /\ ~HasCampaign(w)'
    BY <1>1 DEF Ordered, Owns, HasCampaign, Filed
  <1>4. Aim(w)'
    BY <1>1 DEF Aim, Placements
  <1> QED
    BY <1>2, <1>3, <1>4 DEF Sound

LEMMA PlacementSound ==
  ASSUME NEW w \in Boarders, tx'[w].op \in {"create", "update"}, tx'[w].step \in {"layoutLocked", "stage"},
         tx'[w].card \in Campaigns, tx'[w].status \in Stages, DOMAIN tx'[w].plan = {}, Layout \in holds'[w],
         tx'[w].step = "stage" => LaneOf(Seen(w), tx[w].status)' # {},
         tx'[w].board = <<>> => holds'[w] \subseteq {Layout},
         \A l \in holds'[w] : l # Layout => l \in On(Seen(w))',
         (tx'[w].op = "create") <=> (cards'[tx'[w].card].lane = 0), Draft(w)'
  PROVE  Sound(w)' /\ HasCampaign(w)'
  <1>1. tx'[w].op \in Placements /\ tx'[w].op # "none" /\ tx'[w].op # "move" /\ tx'[w].op \notin LayoutChanges
    BY DEF Placements, LayoutChanges
  <1>2. Control(w)'
    BY <1>1 DEF Control
  <1>3. Ordered(w)' /\ Owns(w)' /\ Filed(w)' /\ HasCampaign(w)'
    BY <1>1 DEF Ordered, Owns, HasCampaign, Filed
  <1>4. Aim(w)'
    BY <1>1 DEF Aim
  <1> QED
    BY <1>2, <1>3, <1>4 DEF Sound

(* Who takes and has the layout lock.                                            *)
LEMMA LayoutOnly ==
  ASSUME BoardInv, NEW w \in Boarders, tx[w].step \in {"layout", "layoutLocked", "rows"}
  PROVE  /\ DOMAIN tx[w].plan = {} /\ tx[w].op \in LayoutChanges \cup {"create", "update"}
         /\ tx[w].op \in LayoutChanges => tx[w].card = "none" /\ tx[w].status = "none"
         /\ tx[w].op = "add" => tx[w].lane \in Lanes
         /\ tx[w].op \in {"create", "update"} =>
              /\ tx[w].card \in Campaigns /\ tx[w].status \in Stages /\ HasCampaign(w)
              /\ (tx[w].op = "create") <=> (cards[tx[w].card].lane = 0)
              /\ tx[w].board = <<>> => holds[w] \subseteq {Layout}
              /\ \A l \in holds[w] : l # Layout => l \in On(Seen(w))
              /\ tx[w].step # "rows"
         /\ tx[w].op \in {"add", "drop", "reorder"} /\ tx[w].step # "rows" => tx[w].board = <<>>
         /\ tx[w].step # "layout" => Layout \in holds[w]
         /\ tx[w].step = "layout" => Layout \notin holds[w] /\ tx[w].board = <<>>
  <1>1. Control(w) /\ Ordered(w) /\ Aim(w) /\ Owns(w)
    BY DEF BoardInv, Sound
  <1>2. tx[w].op \in LayoutChanges \cup {"create", "update"}
    <2>1. tx[w].op \in Placements \cup LayoutChanges \cup {"none"}
      BY BoardTypesOf, TxFields
    <2> QED
      BY <1>1, <2>1 DEF Control, Placements
  <1>3. DOMAIN tx[w].plan = {} /\ (tx[w].step # "layout" => Layout \in holds[w])
    BY <1>1 DEF Control
  <1>4. tx[w].step = "layout" => Layout \notin holds[w] /\ tx[w].board = <<>>
    BY <1>1 DEF Control
  <1>5. /\ tx[w].op \in LayoutChanges => tx[w].card = "none" /\ tx[w].status = "none"
        /\ tx[w].op = "add" => tx[w].lane \in Lanes
    BY <1>1 DEF Control
  <1>6. tx[w].op \in {"add", "drop", "reorder"} /\ tx[w].step # "rows" => tx[w].board = <<>>
    BY <1>1 DEF Control
  <1>7. tx[w].op \in {"create", "update"} => tx[w].card \in Campaigns /\ tx[w].status \in Stages /\ tx[w].step # "rows"
    BY <1>1 DEF Control, Placements
  <1>8. tx[w].op \in {"create", "update"} => HasCampaign(w) /\ ((tx[w].op = "create") <=> (cards[tx[w].card].lane = 0))
    BY <1>1 DEF HasCampaign, Owns, Placements
  <1>9. tx[w].op \in {"create", "update"} => (tx[w].board = <<>> => holds[w] \subseteq {Layout})
    BY <1>1 DEF Ordered, Placements
  <1>10. tx[w].op \in {"create", "update"} => \A l \in holds[w] : l # Layout => l \in On(Seen(w))
    BY <1>1 DEF Aim, Placements
  <1> QED
    BY <1>2, <1>3, <1>4, <1>5, <1>6, <1>7, <1>8, <1>9, <1>10

-------------------------------------------------------------------------------
(* The steps that change the lanes *)

(* A transaction that is another at its next step, and drafts what it will be.      *)
LEMMA StepOnly ==
  ASSUME BoardInv, NEW w \in Boarders, NEW s \in Steps, tx' = [tx EXCEPT ![w].step = s]
  PROVE  /\ tx'[w].step = s
         /\ tx'[w].op = tx[w].op /\ tx'[w].card = tx[w].card /\ tx'[w].lane = tx[w].lane /\ tx'[w].at = tx[w].at
         /\ tx'[w].status = tx[w].status /\ tx'[w].board = tx[w].board /\ tx'[w].plan = tx[w].plan
         /\ tx' \in [Boarders -> Tx] /\ \A v \in Boarders \ {w} : tx'[v] = tx[v]
  <1>1. tx \in [Boarders -> Tx]
    BY DEF BoardInv, BoardTypes
  <1>2. PICK u : u = [tx[w] EXCEPT !.step = s]
    OBVIOUS
  <1>3. /\ u \in Tx /\ u.step = s
        /\ u.op = tx[w].op /\ u.card = tx[w].card /\ u.lane = tx[w].lane /\ u.at = tx[w].at
        /\ u.status = tx[w].status /\ u.board = tx[w].board /\ u.plan = tx[w].plan
    BY <1>1, <1>2, TxAtStep
  <1>4. tx' = [tx EXCEPT ![w] = u]
    BY <1>2
  <1> QED
    BY <1>1, <1>3, <1>4

LEMMA BoardOnly ==
  ASSUME BoardInv, NEW w \in Boarders, NEW b \in [Lanes -> Lane], tx' = [tx EXCEPT ![w].board = b]
  PROVE  /\ tx'[w].step = tx[w].step
         /\ tx'[w].op = tx[w].op /\ tx'[w].card = tx[w].card /\ tx'[w].lane = tx[w].lane /\ tx'[w].at = tx[w].at
         /\ tx'[w].status = tx[w].status /\ tx'[w].board = b /\ tx'[w].plan = tx[w].plan
         /\ tx' \in [Boarders -> Tx] /\ \A v \in Boarders \ {w} : tx'[v] = tx[v]
  <1>1. tx \in [Boarders -> Tx] /\ b \in Boards
    BY DEF BoardInv, BoardTypes, Boards
  <1>2. PICK u : u = [tx[w] EXCEPT !.board = b]
    OBVIOUS
  <1>3. /\ u \in Tx /\ u.board = b
        /\ u.op = tx[w].op /\ u.card = tx[w].card /\ u.lane = tx[w].lane /\ u.at = tx[w].at
        /\ u.status = tx[w].status /\ u.step = tx[w].step /\ u.plan = tx[w].plan
    BY <1>1, <1>2, TxWithBoard
  <1>4. tx' = [tx EXCEPT ![w] = u]
    BY <1>2
  <1> QED
    BY <1>1, <1>3, <1>4

LEMMA LayOnly ==
  ASSUME BoardInv, NEW w \in Boarders, NEW b \in [Lanes -> Lane], Lay(w, b)
  PROVE  /\ tx'[w].step = "rows"
         /\ tx'[w].op = tx[w].op /\ tx'[w].card = tx[w].card /\ tx'[w].lane = tx[w].lane /\ tx'[w].at = tx[w].at
         /\ tx'[w].status = tx[w].status /\ tx'[w].board = b /\ tx'[w].plan = tx[w].plan
         /\ tx' \in [Boarders -> Tx] /\ \A v \in Boarders \ {w} : tx'[v] = tx[v]
  <1>1. tx \in [Boarders -> Tx] /\ b \in Boards /\ "rows" \in Steps
    BY DEF BoardInv, BoardTypes, Boards, Steps
  <1>2. PICK t : t = [tx[w] EXCEPT !.board = b]
    OBVIOUS
  <1>3. /\ t \in Tx /\ t.board = b
        /\ t.op = tx[w].op /\ t.card = tx[w].card /\ t.lane = tx[w].lane /\ t.at = tx[w].at
        /\ t.status = tx[w].status /\ t.plan = tx[w].plan
    BY <1>1, <1>2, TxWithBoard
  <1>4. PICK u : u = [t EXCEPT !.step = "rows"]
    OBVIOUS
  <1>5. /\ u \in Tx /\ u.board = b /\ u.step = "rows"
        /\ u.op = tx[w].op /\ u.card = tx[w].card /\ u.lane = tx[w].lane /\ u.at = tx[w].at
        /\ u.status = tx[w].status /\ u.plan = tx[w].plan
    BY <1>1, <1>3, <1>4, TxAtStep
  <1>6. u = [tx[w] EXCEPT !.board = b, !.step = "rows"]
    BY <1>2, <1>4
  <1>7. tx' = [tx EXCEPT ![w] = u]
    BY <1>6 DEF Lay
  <1> QED
    BY <1>1, <1>5, <1>7

LEMMA LockLayoutKeeps ==
  ASSUME BoardInv, NEW w \in Boarders, LockLayout(w)
  PROVE  BoardInv'
  <1>1. /\ tx[w].step = "layout" /\ FreeFor(w, Layout) /\ tx' = [tx EXCEPT ![w].step = "layoutLocked"]
        /\ holds' = [holds EXCEPT ![w] = @ \cup {Layout}] /\ UNCHANGED <<lanes, cards, adopted>>
    BY DEF LockLayout
  <1>2. "layoutLocked" \in Steps
    BY DEF Steps
  <1>3. /\ tx'[w].step = "layoutLocked"
        /\ tx'[w].op = tx[w].op /\ tx'[w].card = tx[w].card /\ tx'[w].lane = tx[w].lane /\ tx'[w].status = tx[w].status
        /\ tx'[w].board = tx[w].board /\ tx'[w].plan = tx[w].plan
        /\ tx' \in [Boarders -> Tx] /\ \A v \in Boarders \ {w} : tx'[v] = tx[v]
    BY <1>1, <1>2, StepOnly
  <1>4. Layout \in Lanes \cup {Layout}
    OBVIOUS
  <1>5. /\ holds'[w] = holds[w] \cup {Layout} /\ OnlyOf(w)
        /\ holds' \in [Boarders -> SUBSET (Lanes \cup {Layout})]
        /\ \A k \in holds'[w] : k \in holds[w] \/ FreeFor(w, k)
    BY <1>1, <1>3, <1>4, TakesALock
  <1>6. Draft(w)
    BY DEF BoardInv, Sound
  <1>7. Draft(w)'
    BY <1>1, <1>3, <1>5, <1>6, DraftStays
  <1>8. On(Seen(w))' = On(Seen(w)) /\ cards' = cards
    BY <1>1, <1>3 DEF On, Seen
  <1>9. /\ DOMAIN tx[w].plan = {} /\ tx[w].op \in LayoutChanges \cup {"create", "update"}
        /\ tx[w].op \in LayoutChanges => tx[w].card = "none" /\ tx[w].status = "none"
        /\ tx[w].op = "add" => tx[w].lane \in Lanes
        /\ tx[w].op \in {"create", "update"} =>
             /\ tx[w].card \in Campaigns /\ tx[w].status \in Stages /\ HasCampaign(w)
             /\ (tx[w].op = "create") <=> (cards[tx[w].card].lane = 0)
             /\ tx[w].board = <<>> => holds[w] \subseteq {Layout}
             /\ \A l \in holds[w] : l # Layout => l \in On(Seen(w))
        /\ tx[w].board = <<>>
    BY <1>1, LayoutOnly
  <1>10. CASE tx[w].op \in LayoutChanges
    <2>1. Sound(w)' /\ ~HasCampaign(w)'
      BY <1>3, <1>5, <1>7, <1>9, <1>10, LayoutSound
    <2> QED
      BY <1>3, <1>5, <2>1, OneTransaction
  <1>11. CASE tx[w].op \in {"create", "update"}
    <2>1. Sound(w)'
      BY <1>3, <1>5, <1>7, <1>8, <1>9, <1>11, PlacementSound
    <2> QED
      BY <1>3, <1>5, <1>9, <1>11, <2>1, OneTransaction
  <1> QED
    BY <1>9, <1>10, <1>11

LEMMA StagesEnsuredKeeps ==
  ASSUME BoardInv, NEW w \in Boarders, StagesEnsured(w)
  PROVE  BoardInv'
  <1>0. PICK s : s = IF tx[w].op = "ensure" THEN "written" ELSE "stage"
    OBVIOUS
  <1>1. /\ tx[w].step = "layoutLocked" /\ tx[w].op \in {"ensure", "create", "update"}
        /\ Missing(Seen(w)) = {} /\ tx' = [tx EXCEPT ![w].step = s] /\ UNCHANGED <<lanes, cards, holds, adopted>>
    BY <1>0 DEF StagesEnsured
  <1>2. s \in Steps /\ s \in {"written", "stage"}
    BY <1>0 DEF Steps
  <1>3. /\ tx'[w].step = s
        /\ tx'[w].op = tx[w].op /\ tx'[w].card = tx[w].card /\ tx'[w].lane = tx[w].lane /\ tx'[w].status = tx[w].status
        /\ tx'[w].board = tx[w].board /\ tx'[w].plan = tx[w].plan
        /\ OnlyOf(w) /\ holds'[w] = holds[w] /\ Seen(w)' = Seen(w)
        /\ tx' \in [Boarders -> Tx] /\ holds' \in [Boarders -> SUBSET (Lanes \cup {Layout})]
    BY <1>1, <1>2, GoesOn
  <1>6. Draft(w)
    BY DEF BoardInv, Sound
  <1>7. Draft(w)'
    BY <1>1, <1>3, <1>6, DraftStays
  <1>8. On(Seen(w))' = On(Seen(w)) /\ cards' = cards /\ LaneOf(Seen(w), tx[w].status)' = LaneOf(Seen(w), tx[w].status)
    BY <1>1, <1>3 DEF On, LaneOf
  <1>9. /\ DOMAIN tx[w].plan = {} /\ tx[w].op \in LayoutChanges \cup {"create", "update"}
        /\ tx[w].op \in LayoutChanges => tx[w].card = "none" /\ tx[w].status = "none"
        /\ tx[w].op = "add" => tx[w].lane \in Lanes
        /\ tx[w].op \in {"create", "update"} =>
             /\ tx[w].card \in Campaigns /\ tx[w].status \in Stages /\ HasCampaign(w)
             /\ (tx[w].op = "create") <=> (cards[tx[w].card].lane = 0)
             /\ tx[w].board = <<>> => holds[w] \subseteq {Layout}
             /\ \A l \in holds[w] : l # Layout => l \in On(Seen(w))
        /\ Layout \in holds[w]
    BY <1>1, LayoutOnly
  <1>10. CASE tx[w].op = "ensure"
    <2>1. s = "written" /\ tx[w].op \in LayoutChanges
      BY <1>0, <1>10 DEF LayoutChanges
    <2>2. Sound(w)' /\ ~HasCampaign(w)'
      BY <1>3, <1>7, <1>9, <2>1, LayoutSound
    <2> QED
      BY <1>3, <2>2, OneTransaction
  <1>11. CASE tx[w].op \in {"create", "update"}
    <2>1. s = "stage"
      BY <1>0, <1>11
    <2>2. LaneOf(Seen(w), tx[w].status) # {}
      BY <1>1, <1>9, <1>11 DEF Missing
    <2>3. Sound(w)'
      BY <1>3, <1>7, <1>8, <1>9, <1>11, <2>1, <2>2, PlacementSound
    <2> QED
      BY <1>3, <1>9, <1>11, <2>3, OneTransaction
  <1> QED
    BY <1>1, <1>10, <1>11

LEMMA LockRowKeeps ==
  ASSUME BoardInv, NEW w \in Boarders, LockRow(w)
  PROVE  BoardInv'
  <1>1. tx[w].step = "rows" /\ UNCHANGED <<lanes, cards, adopted>>
    BY DEF LockRow
  <1>2. /\ DOMAIN tx[w].plan = {} /\ tx[w].op \in LayoutChanges /\ Layout \in holds[w]
        /\ tx[w].card = "none" /\ tx[w].status = "none" /\ (tx[w].op = "add" => tx[w].lane \in Lanes)
    BY <1>1, LayoutOnly
  <1>3. Draft(w)
    BY DEF BoardInv, Sound
  <1>4. tx \in [Boarders -> Tx] /\ holds \in [Boarders -> SUBSET (Lanes \cup {Layout})]
    BY DEF BoardInv, BoardTypes
  <1>5. ASSUME NEW l \in RowsToLock(w), FreeFor(w, l), holds' = [holds EXCEPT ![w] = @ \cup {l}], UNCHANGED tx
        PROVE  BoardInv'
    <2>1. l \in Lanes \cup {Layout}
      BY DEF RowsToLock, On
    <2>2. /\ holds'[w] = holds[w] \cup {l} /\ OnlyOf(w)
          /\ holds' \in [Boarders -> SUBSET (Lanes \cup {Layout})]
          /\ \A k \in holds'[w] : k \in holds[w] \/ FreeFor(w, k)
      BY <1>1, <1>5, <2>1, TakesALock
    <2>3. Draft(w)'
      BY <1>1, <1>3, <1>5, <2>2, DraftStays
    <2>4. Sound(w)' /\ ~HasCampaign(w)'
      BY <1>1, <1>2, <1>5, <2>2, <2>3, LayoutSound
    <2> QED
      BY <1>4, <1>5, <2>2, <2>4, OneTransaction
  <1>6. ASSUME tx' = [tx EXCEPT ![w].step = "written"], UNCHANGED holds
        PROVE  BoardInv'
    <2>1. "written" \in Steps
      BY DEF Steps
    <2>2. /\ tx'[w].step = "written"
          /\ tx'[w].op = tx[w].op /\ tx'[w].card = tx[w].card /\ tx'[w].lane = tx[w].lane /\ tx'[w].status = tx[w].status
          /\ tx'[w].board = tx[w].board /\ tx'[w].plan = tx[w].plan
          /\ OnlyOf(w) /\ holds'[w] = holds[w]
          /\ tx' \in [Boarders -> Tx] /\ holds' \in [Boarders -> SUBSET (Lanes \cup {Layout})]
      BY <1>1, <1>6, <2>1, GoesOn
    <2>3. Draft(w)'
      BY <1>1, <1>3, <2>2, DraftStays
    <2>4. Sound(w)' /\ ~HasCampaign(w)'
      BY <1>2, <2>2, <2>3, LayoutSound
    <2> QED
      BY <2>2, <2>4, OneTransaction
  <1> QED
    BY <1>5, <1>6 DEF LockRow

LEMMA AddLaneKeeps ==
  ASSUME BoardInv, NEW w \in Boarders, AddLane(w)
  PROVE  BoardInv'
  <1>0. PICK l : l = tx[w].lane
    OBVIOUS
  <1>00. PICK b : b = MakeRoom(l, tx[w].at)
    OBVIOUS
  <1>1. /\ tx[w].step = "layoutLocked" /\ tx[w].op = "add" /\ lanes[l].is = "unused" /\ Lay(w, b)
        /\ UNCHANGED <<lanes, cards, holds, adopted>>
    BY <1>0, <1>00 DEF AddLane
  <1>2. /\ DOMAIN tx[w].plan = {} /\ tx[w].op \in LayoutChanges /\ Layout \in holds[w]
        /\ tx[w].card = "none" /\ tx[w].status = "none" /\ tx[w].lane \in Lanes
    BY <1>1, LayoutOnly DEF LayoutChanges
  <1>3. lanes \in [Lanes -> Lane] /\ GoodBoard(lanes) /\ tx[w].at \in Nat /\ l \in Lanes
        /\ tx \in [Boarders -> Tx] /\ holds \in [Boarders -> SUBSET (Lanes \cup {Layout})]
    BY <1>0, <1>2, TxFields DEF BoardInv, BoardTypes
  <1> DEFINE last == Cardinality(On(lanes)) + 1
             place == IF tx[w].at = 0 \/ tx[w].at > last THEN last ELSE tx[w].at
  <1>4. Cardinality(On(lanes)) \in Nat
    BY OnIsFinite
  <1>5. place \in 1..last /\ place \in Nat
    BY <1>3, <1>4
  <1>6. b = [k \in Lanes |->
               IF k = l THEN [is |-> "on", position |-> place, stage |-> "none"]
               ELSE IF k \in On(lanes) /\ lanes[k].position >= place
                 THEN [lanes[k] EXCEPT !.position = @ + 1] ELSE lanes[k]]
    BY <1>00 DEF MakeRoom
  <1> HIDE DEF place
  <1>7. b[l] = [is |-> "on", position |-> place, stage |-> "none"]
    BY <1>3, <1>6
  <1>8. b[l] \in Lane /\ b[l].is = "on" /\ b[l].position = place /\ b[l].stage = "none"
    BY <1>5, <1>7, LaneRow
  <1>9. ASSUME NEW k \in Lanes, k # l
        PROVE  /\ b[k] \in Lane /\ b[k].is = lanes[k].is /\ b[k].stage = lanes[k].stage
               /\ k \in On(lanes) => b[k].position = IF lanes[k].position >= place THEN lanes[k].position + 1
                                                    ELSE lanes[k].position
    <2>1. lanes[k] \in Lane
      BY <1>3
    <2>2. CASE k \in On(lanes) /\ lanes[k].position >= place
      <3>1. b[k] = [lanes[k] EXCEPT !.position = @ + 1]
        BY <1>6, <1>9, <2>2
      <3> QED
        BY <2>1, <2>2, <3>1 DEF Lane
    <2>3. CASE ~ (k \in On(lanes) /\ lanes[k].position >= place)
      <3>1. b[k] = lanes[k]
        BY <1>6, <1>9, <2>3
      <3> QED
        BY <2>1, <2>3, <3>1
    <2> QED
      BY <2>2, <2>3
  <1>10. b \in [Lanes -> Lane]
    BY <1>6, <1>8, <1>9
  <1>11. On(b) = On(lanes) \cup {l} /\ l \notin On(lanes)
    BY <1>1, <1>3, <1>8, <1>9 DEF On
  <1>12. \A k \in On(lanes) : b[k].stage = lanes[k].stage
                             /\ b[k].position = IF lanes[k].position >= b[l].position THEN lanes[k].position + 1
                                                ELSE lanes[k].position
    BY <1>8, <1>9, <1>11 DEF On
  <1>13. GoodBoard(b)
    BY <1>3, <1>5, <1>8, <1>11, <1>12, GoodWithOneMore
  <1>14. /\ tx'[w].step = "rows"
         /\ tx'[w].op = tx[w].op /\ tx'[w].card = tx[w].card /\ tx'[w].lane = tx[w].lane /\ tx'[w].at = tx[w].at
         /\ tx'[w].status = tx[w].status /\ tx'[w].board = b /\ tx'[w].plan = tx[w].plan
         /\ tx' \in [Boarders -> Tx] /\ \A v \in Boarders \ {w} : tx'[v] = tx[v]
    BY <1>1, <1>10, LayOnly
  <1>15. OnlyOf(w) /\ holds' = holds /\ lanes' = lanes /\ cards' = cards
    BY <1>1, <1>14 DEF OnlyOf
  <1>16. \A k \in Lanes : /\ lanes[k].is = "on" => b[k].is = "on" /\ b[k].stage = lanes[k].stage
                          /\ lanes[k].is = "gone" => b[k].is = "gone"
    BY <1>1, <1>9
  <1>17. Draft(w)'
    BY <1>13, <1>14, <1>15, <1>16, NewDraft
  <1>18. Sound(w)' /\ ~HasCampaign(w)'
    BY <1>2, <1>14, <1>15, <1>17, LayoutSound
  <1> QED
    BY <1>3, <1>14, <1>15, <1>18, OneTransaction

LEMMA DropLaneKeeps ==
  ASSUME BoardInv, NEW w \in Boarders, DropLane(w)
  PROVE  BoardInv'
  <1>0. PICK l : l = tx[w].lane
    OBVIOUS
  <1>00. PICK b : b = CloseGap(l)
    OBVIOUS
  <1>1. /\ tx[w].step = "layoutLocked" /\ tx[w].op = "drop" /\ l \in On(lanes) /\ FreeFor(w, l)
        /\ lanes[l].stage = "none" /\ InLane(l) = {} /\ Lay(w, b)
        /\ holds' = [holds EXCEPT ![w] = @ \cup {l}] /\ UNCHANGED <<lanes, cards, adopted>>
    BY <1>0, <1>00 DEF DropLane
  <1>2. /\ DOMAIN tx[w].plan = {} /\ tx[w].op \in LayoutChanges /\ Layout \in holds[w]
        /\ tx[w].card = "none" /\ tx[w].status = "none"
    BY <1>1, LayoutOnly DEF LayoutChanges
  <1>3. lanes \in [Lanes -> Lane] /\ GoodBoard(lanes) /\ l \in Lanes /\ lanes[l].is = "on"
    BY <1>1 DEF BoardInv, BoardTypes, On
  <1>4. \A k \in On(lanes) : lanes[k].position \in Nat \ {0}
    BY OnIsFinite, <1>3 DEF GoodBoard
  <1>6. b = [k \in Lanes |->
               IF k = l THEN [is |-> "gone", position |-> 0, stage |-> "none"]
               ELSE IF k \in On(lanes) /\ lanes[k].position > lanes[l].position
                 THEN [lanes[k] EXCEPT !.position = @ - 1] ELSE lanes[k]]
    BY <1>00 DEF CloseGap
  <1>7. b[l] = [is |-> "gone", position |-> 0, stage |-> "none"]
    BY <1>3, <1>6
  <1>8. b[l] \in Lane /\ b[l].is = "gone"
    BY <1>7, LaneRow
  <1>9. ASSUME NEW k \in Lanes, k # l
        PROVE  /\ b[k] \in Lane /\ b[k].is = lanes[k].is /\ b[k].stage = lanes[k].stage
               /\ k \in On(lanes) => b[k].position = IF lanes[k].position > lanes[l].position
                                                    THEN lanes[k].position - 1 ELSE lanes[k].position
    <2>1. lanes[k] \in Lane
      BY <1>3
    <2>2. CASE k \in On(lanes) /\ lanes[k].position > lanes[l].position
      <3>1. b[k] = [lanes[k] EXCEPT !.position = @ - 1]
        BY <1>6, <1>9, <2>2
      <3>2. lanes[k].position - 1 \in Nat
        BY <1>4, <2>2
      <3> QED
        BY <2>1, <2>2, <3>1, <3>2 DEF Lane
    <2>3. CASE ~ (k \in On(lanes) /\ lanes[k].position > lanes[l].position)
      <3>1. b[k] = lanes[k]
        BY <1>6, <1>9, <2>3
      <3> QED
        BY <2>1, <2>3, <3>1
    <2> QED
      BY <2>2, <2>3
  <1>10. b \in [Lanes -> Lane]
    BY <1>6, <1>8, <1>9
  <1>11. On(b) = On(lanes) \ {l}
    BY <1>3, <1>8, <1>9 DEF On
  <1>12. \A k \in On(b) : b[k].stage = lanes[k].stage
                         /\ b[k].position = IF lanes[k].position > lanes[l].position THEN lanes[k].position - 1
                                            ELSE lanes[k].position
    BY <1>9, <1>11 DEF On
  <1>13. GoodBoard(b)
    BY <1>1, <1>3, <1>11, <1>12, GoodWithOneLess
  <1>14. /\ tx'[w].step = "rows"
         /\ tx'[w].op = tx[w].op /\ tx'[w].card = tx[w].card /\ tx'[w].lane = tx[w].lane /\ tx'[w].at = tx[w].at
         /\ tx'[w].status = tx[w].status /\ tx'[w].board = b /\ tx'[w].plan = tx[w].plan
         /\ tx' \in [Boarders -> Tx] /\ \A v \in Boarders \ {w} : tx'[v] = tx[v]
    BY <1>1, <1>10, LayOnly
  <1>15. /\ holds'[w] = holds[w] \cup {l} /\ OnlyOf(w)
         /\ holds' \in [Boarders -> SUBSET (Lanes \cup {Layout})]
         /\ \A k \in holds'[w] : k \in holds[w] \/ FreeFor(w, k)
    BY <1>1, <1>3, <1>14, TakesALock
  <1>16. \A k \in Lanes :
           /\ lanes[k].is = "on" =>
                \/ b[k].is = "on" /\ b[k].stage = lanes[k].stage
                \/ b[k].is = "gone" /\ k \in holds'[w] /\ InLane(k) = {} /\ lanes[k].stage = "none"
           /\ lanes[k].is = "gone" => b[k].is = "gone"
    BY <1>1, <1>3, <1>8, <1>9, <1>15
  <1>17. Draft(w)'
    BY <1>1, <1>13, <1>14, <1>16, NewDraft
  <1>18. Sound(w)' /\ ~HasCampaign(w)'
    BY <1>1, <1>2, <1>14, <1>15, <1>17, LayoutSound
  <1> QED
    BY <1>14, <1>15, <1>18, OneTransaction

LEMMA OrderLanesKeeps ==
  ASSUME BoardInv, NEW w \in Boarders, OrderLanes(w)
  PROVE  BoardInv'
  <1>0. PICK order \in [On(lanes) -> 1..Cardinality(On(lanes))] :
          /\ \A l, k \in On(lanes) : l # k => order[l] # order[k]
          /\ Lay(w, [l \in Lanes |-> IF l \in On(lanes) THEN [lanes[l] EXCEPT !.position = order[l]] ELSE lanes[l]])
    BY DEF OrderLanes
  <1>00. PICK b : b = [l \in Lanes |-> IF l \in On(lanes) THEN [lanes[l] EXCEPT !.position = order[l]] ELSE lanes[l]]
    OBVIOUS
  <1>1. /\ tx[w].step = "layoutLocked" /\ tx[w].op = "reorder" /\ Lay(w, b)
        /\ UNCHANGED <<lanes, cards, holds, adopted>>
    BY <1>0, <1>00 DEF OrderLanes
  <1>2. /\ DOMAIN tx[w].plan = {} /\ tx[w].op \in LayoutChanges /\ Layout \in holds[w]
        /\ tx[w].card = "none" /\ tx[w].status = "none"
    BY <1>1, LayoutOnly DEF LayoutChanges
  <1>3. lanes \in [Lanes -> Lane] /\ GoodBoard(lanes) /\ holds \in [Boarders -> SUBSET (Lanes \cup {Layout})]
    BY DEF BoardInv, BoardTypes
  <1>9. ASSUME NEW k \in Lanes
        PROVE  /\ b[k] \in Lane /\ b[k].is = lanes[k].is /\ b[k].stage = lanes[k].stage
               /\ k \in On(lanes) => b[k].position = order[k]
    <2>1. lanes[k] \in Lane
      BY <1>3
    <2>2. CASE k \in On(lanes)
      <3>1. b[k] = [lanes[k] EXCEPT !.position = order[k]]
        BY <1>00, <2>2
      <3>2. order[k] \in Nat
        BY <1>0, <2>2, OnIsFinite
      <3> QED
        BY <2>1, <2>2, <3>1, <3>2 DEF Lane
    <2>3. CASE k \notin On(lanes)
      <3>1. b[k] = lanes[k]
        BY <1>00, <2>3
      <3> QED
        BY <2>1, <2>3, <3>1
    <2> QED
      BY <2>2, <2>3
  <1>10. b \in [Lanes -> Lane]
    BY <1>00, <1>9
  <1>11. On(b) = On(lanes)
    BY <1>9 DEF On
  <1>12. /\ \A k \in On(lanes) : b[k].stage = lanes[k].stage /\ b[k].position \in 1..Cardinality(On(lanes))
         /\ \A k, j \in On(lanes) : k # j => b[k].position # b[j].position
    BY <1>0, <1>9 DEF On
  <1>13. GoodBoard(b)
    BY <1>3, <1>11, <1>12, GoodInAnyOrder
  <1>14. /\ tx'[w].step = "rows"
         /\ tx'[w].op = tx[w].op /\ tx'[w].card = tx[w].card /\ tx'[w].lane = tx[w].lane /\ tx'[w].at = tx[w].at
         /\ tx'[w].status = tx[w].status /\ tx'[w].board = b /\ tx'[w].plan = tx[w].plan
         /\ tx' \in [Boarders -> Tx] /\ \A v \in Boarders \ {w} : tx'[v] = tx[v]
    BY <1>1, <1>10, LayOnly
  <1>15. OnlyOf(w) /\ holds' = holds /\ lanes' = lanes /\ cards' = cards
    BY <1>1, <1>14 DEF OnlyOf
  <1>17. Draft(w)'
    BY <1>9, <1>13, <1>14, <1>15, NewDraft
  <1>18. Sound(w)' /\ ~HasCampaign(w)'
    BY <1>1, <1>2, <1>14, <1>15, <1>17, LayoutSound
  <1> QED
    BY <1>3, <1>14, <1>15, <1>18, OneTransaction

(* One of a stage of its own, on the board that was drafted already.               *)
LEMMA AdoptStageKeeps ==
  ASSUME BoardInv, NEW w \in Boarders, NEW s \in Stages, AdoptStage(w, s)
  PROVE  BoardInv'
  <1>0. PICK a : a = Seen(w)
    OBVIOUS
  <1>00. PICK l : l = FirstOf(a, Adoptable(a, s))
    OBVIOUS
  <1>000. PICK b : b = [a EXCEPT ![l].stage = s]
    OBVIOUS
  <1>1. /\ tx[w].step = "layoutLocked" /\ tx[w].op \in {"ensure", "create", "update"}
        /\ s \in Missing(a) /\ Adoptable(a, s) # {} /\ FreeFor(w, l)
        /\ tx' = [tx EXCEPT ![w].board = b] /\ holds' = [holds EXCEPT ![w] = @ \cup {l}]
        /\ UNCHANGED <<lanes, cards, adopted>>
    BY <1>0, <1>00, <1>000 DEF AdoptStage
  <1>2. /\ DOMAIN tx[w].plan = {} /\ Layout \in holds[w]
        /\ tx[w].op = "ensure" => tx[w].card = "none" /\ tx[w].status = "none"
        /\ tx[w].op \in {"create", "update"} =>
             /\ tx[w].card \in Campaigns /\ tx[w].status \in Stages /\ HasCampaign(w)
             /\ (tx[w].op = "create") <=> (cards[tx[w].card].lane = 0)
             /\ \A k \in holds[w] : k # Layout => k \in On(a)
    BY <1>0, <1>1, LayoutOnly DEF LayoutChanges
  <1>3. Drafted(w, a) /\ GoodBoard(a) /\ a \in [Lanes -> Lane]
    BY <1>0, SeenIsDrafted
  <1>4. l \in Adoptable(a, s)
    <2>1. Adoptable(a, s) \subseteq On(a)
      BY DEF Adoptable
    <2> QED
      BY <1>00, <1>1, <1>3, <2>1, FirstIsThere
  <1>5. l \in On(a) /\ a[l].stage = "none" /\ l \in Lanes /\ s # "none" /\ a[l].is = "on"
    BY <1>4, BoardAssumption DEF Adoptable, On
  <1>6. LaneOf(a, s) = {}
    BY <1>1 DEF Missing
  <1>7. ASSUME NEW k \in Lanes
        PROVE  /\ b[k] \in Lane /\ b[k].is = a[k].is /\ b[k].position = a[k].position
               /\ b[k].stage = IF k = l THEN s ELSE a[k].stage
    <2>1. a[k] \in Lane
      BY <1>3
    <2>2. CASE k = l
      <3>1. b[k] = [a[k] EXCEPT !.stage = s]
        BY <1>000, <1>3, <2>2
      <3> QED
        BY <2>1, <2>2, <3>1 DEF Lane
    <2>3. CASE k # l
      <3>1. b[k] = a[k]
        BY <1>000, <1>3, <2>3
      <3> QED
        BY <2>1, <2>3, <3>1
    <2> QED
      BY <2>2, <2>3
  <1>8. b \in [Lanes -> Lane]
    BY <1>000, <1>3, <1>7
  <1>9. On(b) = On(a)
    BY <1>7 DEF On
  <1>10. \A k \in On(a) : b[k].position = a[k].position /\ b[k].stage = IF k = l THEN s ELSE a[k].stage
    BY <1>7 DEF On
  <1>11. GoodBoard(b)
    BY <1>3, <1>5, <1>6, <1>9, <1>10, GoodWithAStage
  <1>12. /\ tx'[w].step = tx[w].step
         /\ tx'[w].op = tx[w].op /\ tx'[w].card = tx[w].card /\ tx'[w].lane = tx[w].lane /\ tx'[w].at = tx[w].at
         /\ tx'[w].status = tx[w].status /\ tx'[w].board = b /\ tx'[w].plan = tx[w].plan
         /\ tx' \in [Boarders -> Tx] /\ \A v \in Boarders \ {w} : tx'[v] = tx[v]
    BY <1>1, <1>8, BoardOnly
  <1>13. /\ holds'[w] = holds[w] \cup {l} /\ OnlyOf(w)
         /\ holds' \in [Boarders -> SUBSET (Lanes \cup {Layout})]
         /\ \A k \in holds'[w] : k \in holds[w] \/ FreeFor(w, k)
    BY <1>1, <1>5, <1>12, TakesALock
  <1>14. ASSUME NEW k \in Lanes
         PROVE
           /\ lanes[k].is = "on" =>
                \/ b[k].is = "on" /\ (b[k].stage # lanes[k].stage => lanes[k].stage = "none" /\ k \in holds'[w])
                \/ b[k].is = "gone" /\ k \in holds'[w] /\ InLane(k) = {} /\ lanes[k].stage = "none"
           /\ lanes[k].is = "gone" => b[k].is = "gone"
    <2>1. /\ lanes[k].is = "on" =>
                \/ a[k].is = "on" /\ (a[k].stage # lanes[k].stage => lanes[k].stage = "none" /\ k \in holds[w])
                \/ a[k].is = "gone" /\ k \in holds[w] /\ InLane(k) = {} /\ lanes[k].stage = "none"
          /\ lanes[k].is = "gone" => a[k].is = "gone"
      BY <1>3 DEF Drafted
    <2>2. CASE k = l
      BY <1>5, <1>7, <1>13, <2>1, <2>2
    <2>3. CASE k # l
      BY <1>7, <1>13, <2>1, <2>3
    <2> QED
      BY <2>2, <2>3
  <1>15. Draft(w)'
    BY <1>1, <1>11, <1>12, <1>14, NewDraft
  <1>16. Layout \in holds'[w] /\ cards' = cards
    BY <1>1, <1>2, <1>13
  <1>17. CASE tx[w].op = "ensure"
    <2>1. Sound(w)' /\ ~HasCampaign(w)'
      BY <1>1, <1>2, <1>12, <1>15, <1>16, <1>17, LayoutSound DEF LayoutChanges
    <2> QED
      BY <1>12, <1>13, <2>1, OneTransaction
  <1>18. CASE tx[w].op \in {"create", "update"}
    <2>1. b # <<>>
      BY <1>5, <1>8, BoardIsSomething
    <2>2. Seen(w)' = b
      BY <1>12, <2>1 DEF Seen
    <2>3. \A k \in holds'[w] : k # Layout => k \in On(Seen(w))'
      BY <1>2, <1>5, <1>9, <1>13, <1>18, <2>2 DEF On
    <2>4. Sound(w)'
      BY <1>1, <1>2, <1>12, <1>15, <1>16, <1>18, <2>1, <2>3, PlacementSound
    <2> QED
      BY <1>2, <1>12, <1>13, <1>18, <2>4, OneTransaction
  <1> QED
    BY <1>1, <1>17, <1>18

LEMMA AppendStageKeeps ==
  ASSUME BoardInv, NEW w \in Boarders, NEW s \in Stages, AppendStage(w, s)
  PROVE  BoardInv'
  <1>0. PICK a : a = Seen(w)
    OBVIOUS
  <1>1. /\ tx[w].step = "layoutLocked" /\ tx[w].op \in {"ensure", "create", "update"}
        /\ s \in Missing(a) /\ UNCHANGED <<lanes, cards, holds, adopted>>
    BY <1>0 DEF AppendStage
  <1>00. PICK l \in Lanes : /\ a[l].is = "unused"
                            /\ tx' = [tx EXCEPT ![w].board = [a EXCEPT
                                 ![l] = [is |-> "on", position |-> Cardinality(On(a)) + 1, stage |-> s]]]
    BY <1>0 DEF AppendStage
  <1>000. PICK b : b = [a EXCEPT ![l] = [is |-> "on", position |-> Cardinality(On(a)) + 1, stage |-> s]]
    OBVIOUS
  <1>2. /\ DOMAIN tx[w].plan = {} /\ Layout \in holds[w]
        /\ tx[w].op = "ensure" => tx[w].card = "none" /\ tx[w].status = "none"
        /\ tx[w].op \in {"create", "update"} =>
             /\ tx[w].card \in Campaigns /\ tx[w].status \in Stages /\ HasCampaign(w)
             /\ (tx[w].op = "create") <=> (cards[tx[w].card].lane = 0)
             /\ \A k \in holds[w] : k # Layout => k \in On(a)
    BY <1>0, <1>1, LayoutOnly DEF LayoutChanges
  <1>3. Drafted(w, a) /\ GoodBoard(a) /\ a \in [Lanes -> Lane]
    BY <1>0, SeenIsDrafted
  <1>4. Cardinality(On(a)) \in Nat
    BY OnIsFinite
  <1>5. l \notin On(a)
    BY <1>00 DEF On
  <1>6. LaneOf(a, s) = {}
    BY <1>1 DEF Missing
  <1>7. b[l] = [is |-> "on", position |-> Cardinality(On(a)) + 1, stage |-> s] /\ \A k \in Lanes : k # l => b[k] = a[k]
    BY <1>000, <1>3
  <1>8. b[l] \in Lane /\ b[l].is = "on" /\ b[l].position = Cardinality(On(a)) + 1 /\ b[l].stage = s
    BY <1>4, <1>7, LaneRow
  <1>9. b \in [Lanes -> Lane]
    BY <1>000, <1>3, <1>7, <1>8
  <1>10. On(b) = On(a) \cup {l}
    BY <1>7, <1>8 DEF On
  <1>11. \A k \in On(a) : b[k] = a[k] /\ a[k].position \in 1..Cardinality(On(a))
    BY <1>3, <1>5, <1>7 DEF On, GoodBoard
  <1>12. \A k \in On(a) : b[k].stage = a[k].stage
                         /\ b[k].position = IF a[k].position >= b[l].position THEN a[k].position + 1
                                            ELSE a[k].position
    BY <1>4, <1>8, <1>11
  <1>13. b[l].position \in 1..(Cardinality(On(a)) + 1)
    BY <1>4, <1>8
  <1>14. GoodBoard(b)
    BY <1>3, <1>5, <1>6, <1>8, <1>10, <1>12, <1>13, GoodWithOneMore
  <1>15. /\ tx'[w].step = tx[w].step
         /\ tx'[w].op = tx[w].op /\ tx'[w].card = tx[w].card /\ tx'[w].lane = tx[w].lane /\ tx'[w].at = tx[w].at
         /\ tx'[w].status = tx[w].status /\ tx'[w].board = b /\ tx'[w].plan = tx[w].plan
         /\ tx' \in [Boarders -> Tx] /\ \A v \in Boarders \ {w} : tx'[v] = tx[v]
    BY <1>00, <1>000, <1>9, BoardOnly
  <1>16. /\ OnlyOf(w) /\ holds' = holds /\ cards' = cards /\ Layout \in holds'[w]
         /\ holds' \in [Boarders -> SUBSET (Lanes \cup {Layout})]
    BY <1>1, <1>2, <1>15 DEF OnlyOf, BoardInv, BoardTypes
  <1>17. ASSUME NEW k \in Lanes
         PROVE
           /\ lanes[k].is = "on" =>
                \/ b[k].is = "on" /\ (b[k].stage # lanes[k].stage => lanes[k].stage = "none" /\ k \in holds'[w])
                \/ b[k].is = "gone" /\ k \in holds'[w] /\ InLane(k) = {} /\ lanes[k].stage = "none"
           /\ lanes[k].is = "gone" => b[k].is = "gone"
    <2>1. /\ lanes[k].is = "on" =>
                \/ a[k].is = "on" /\ (a[k].stage # lanes[k].stage => lanes[k].stage = "none" /\ k \in holds[w])
                \/ a[k].is = "gone" /\ k \in holds[w] /\ InLane(k) = {} /\ lanes[k].stage = "none"
          /\ lanes[k].is = "gone" => a[k].is = "gone"
      BY <1>3 DEF Drafted
    <2>2. CASE k = l
      BY <1>00, <2>1, <2>2
    <2>3. CASE k # l
      BY <1>7, <1>16, <2>1, <2>3
    <2> QED
      BY <2>2, <2>3
  <1>18. Draft(w)'
    BY <1>1, <1>14, <1>15, <1>17, NewDraft
  <1>19. CASE tx[w].op = "ensure"
    <2>1. Sound(w)' /\ ~HasCampaign(w)'
      BY <1>1, <1>2, <1>15, <1>16, <1>18, <1>19, LayoutSound DEF LayoutChanges
    <2> QED
      BY <1>15, <1>16, <2>1, OneTransaction
  <1>20. CASE tx[w].op \in {"create", "update"}
    <2>1. b # <<>>
      BY <1>9, BoardIsSomething
    <2>2. Seen(w)' = b
      BY <1>15, <2>1 DEF Seen
    <2>3. \A k \in holds'[w] : k # Layout => k \in On(Seen(w))'
      BY <1>2, <1>10, <1>16, <1>20, <2>2 DEF On
    <2>4. Sound(w)'
      BY <1>1, <1>2, <1>15, <1>16, <1>18, <1>20, <2>1, <2>3, PlacementSound
    <2> QED
      BY <1>2, <1>15, <1>16, <1>20, <2>4, OneTransaction
  <1> QED
    BY <1>1, <1>19, <1>20

-------------------------------------------------------------------------------
(* A campaign is deleted: its card goes from every plan                            *)

LEMMA TxWithoutCard ==
  ASSUME NEW t \in Tx, NEW c, NEW p, p = [d \in DOMAIN t.plan \ {c} |-> t.plan[d]]
  PROVE  p \in Plans /\ DOMAIN p = DOMAIN t.plan \ {c} /\ \A d \in DOMAIN p : p[d] = t.plan[d]
  <1>1. t.plan \in Plans
    BY TxFields
  <1>2. PICK D \in SUBSET Campaigns : DOMAIN t.plan = D /\ \A d \in D : t.plan[d] \in Spot
    <2>1. CASE t.plan = <<>>
      BY <2>1, NoPlan
    <2>2. CASE t.plan # <<>>
      BY <1>1, <2>2 DEF Plans
    <2> QED
      BY <2>1, <2>2
  <1>3. D \ {c} \in SUBSET Campaigns /\ p \in [D \ {c} -> Spot]
    BY <1>2
  <1> QED
    BY <1>2, <1>3 DEF Plans

LEMMA DeleteCampaignKeeps ==
  ASSUME BoardInv, NEW c \in Campaigns, DeleteCampaign(c)
  PROVE  BoardInv'
  <1>1. /\ cards[c] # NoCard /\ \A w \in Boarders : tx[w].card = c => tx[w].step = "campaign"
        /\ cards' = [cards EXCEPT ![c] = NoCard]
        /\ tx' = [w \in Boarders |-> [tx[w] EXCEPT !.plan = [d \in DOMAIN tx[w].plan \ {c} |-> tx[w].plan[d]]]]
        /\ UNCHANGED <<lanes, holds, adopted>>
    BY DEF DeleteCampaign
  <1>2. lanes \in [Lanes -> Lane] /\ cards \in [Campaigns -> Card] /\ tx \in [Boarders -> Tx]
        /\ holds \in [Boarders -> SUBSET (Lanes \cup {Layout})] /\ adopted \subseteq Lanes
    BY DEF BoardInv, BoardTypes
  <1>3. NoCard \in Card /\ NoCard.lane = 0
    BY LanesAssumption DEF NoCard, Card
  <1>4. cards' \in [Campaigns -> Card] /\ cards'[c] = NoCard /\ cards'[c].lane = 0
        /\ \A d \in Campaigns : d # c => cards'[d] = cards[d]
    BY <1>1, <1>2, <1>3
  <1>5. \A l : l # 0 => InLane(l)' = InLane(l) \ {c}
    BY <1>4 DEF InLane
  <1>6. ASSUME NEW w \in Boarders
        PROVE  /\ tx'[w] \in Tx /\ DOMAIN tx'[w].plan = DOMAIN tx[w].plan \ {c}
               /\ \A d \in DOMAIN tx'[w].plan : tx'[w].plan[d] = tx[w].plan[d]
               /\ tx'[w].op = tx[w].op /\ tx'[w].card = tx[w].card /\ tx'[w].lane = tx[w].lane
               /\ tx'[w].status = tx[w].status /\ tx'[w].step = tx[w].step /\ tx'[w].board = tx[w].board
    <2>0. PICK t \in Tx : t = tx[w]
      BY <1>2
    <2>5. PICK p : p = [d \in DOMAIN t.plan \ {c} |-> t.plan[d]]
      OBVIOUS
    <2>1. PICK u : u = [t EXCEPT !.plan = p]
      OBVIOUS
    <2>2. tx'[w] = u
      BY <1>1, <2>0, <2>1, <2>5
    <2>3. p \in Plans /\ DOMAIN p = DOMAIN t.plan \ {c} /\ \A d \in DOMAIN p : p[d] = t.plan[d]
      BY <2>5, TxWithoutCard
    <2>4. /\ u \in Tx /\ DOMAIN u.plan = DOMAIN tx[w].plan \ {c}
          /\ \A d \in DOMAIN u.plan : u.plan[d] = tx[w].plan[d]
          /\ u.op = tx[w].op /\ u.card = tx[w].card /\ u.lane = tx[w].lane
          /\ u.status = tx[w].status /\ u.step = tx[w].step /\ u.board = tx[w].board
      BY <2>0, <2>1, <2>3, TxWithPlan
    <2> QED
      BY <2>2, <2>4
  <1>7. BoardTypes'
    BY <1>1, <1>2, <1>4, <1>6 DEF BoardTypes
  <1>8. GoodBoard(lanes)'
    BY <1>1 DEF BoardInv, GoodBoard, On
  <1>9. CardsPlaced'
    BY <1>1, <1>4 DEF BoardInv, CardsPlaced, On
  <1>10. StatusMatchesLane'
    BY <1>1, <1>4 DEF BoardInv, StatusMatchesLane
  <1>11. Apart'
    <2>1. \A w \in Boarders : holds'[w] = holds[w] /\ tx'[w].card = tx[w].card /\ HasCampaign(w)' = HasCampaign(w)
      BY <1>1, <1>6 DEF HasCampaign
    <2>2. \A w \in Boarders : HasCampaign(w)' => HasCampaign(w)
      BY <2>1
    <2> QED
      BY <2>1, <2>2 DEF BoardInv, Apart
  <1>12. ASSUME NEW w \in Boarders
         PROVE  Sound(w)'
    <2>1. Control(w) /\ Ordered(w) /\ Draft(w) /\ Aim(w) /\ Owns(w) /\ Filed(w)
      BY DEF BoardInv, Sound
    <2>2. /\ tx'[w].op = tx[w].op /\ tx'[w].card = tx[w].card /\ tx'[w].lane = tx[w].lane
          /\ tx'[w].status = tx[w].status /\ tx'[w].step = tx[w].step /\ tx'[w].board = tx[w].board
          /\ DOMAIN tx'[w].plan = DOMAIN tx[w].plan \ {c}
          /\ \A d \in DOMAIN tx'[w].plan : tx'[w].plan[d] = tx[w].plan[d]
          /\ holds'[w] = holds[w] /\ lanes' = lanes /\ adopted' = adopted
      BY <1>1, <1>6
    <2>3. Seen(w)' = Seen(w) /\ On(Seen(w))' = On(Seen(w)) /\ On(lanes)' = On(lanes)
          /\ LaneOf(Seen(w), tx[w].status)' = LaneOf(Seen(w), tx[w].status)
      BY <2>2 DEF Seen, On, LaneOf
    <2>4. HasCampaign(w) => tx[w].card \in Campaigns /\ tx[w].card # c /\ cards'[tx[w].card] = cards[tx[w].card]
      BY <1>1, <1>4, <2>1 DEF HasCampaign, Control
    <2>5. Control(w)'
      BY <2>1, <2>2, <2>3 DEF Control
    <2>6. Ordered(w)'
      <3>1. tx[w].step = "lanes" => HasCampaign(w)
        BY PlacesOnly
      <3>2. tx[w].step = "lanes" => LanesToLock(w)' = LanesToLock(w)
        BY <2>2, <2>4, <3>1 DEF LanesToLock
      <3> QED
        BY <2>1, <2>2, <3>2 DEF Ordered
    <2>7. Draft(w)'
      <3>1. \A l \in Lanes : InLane(l) = {} => InLane(l)' = {}
        BY <1>5 DEF Lanes
      <3>2. (Drafted(w, tx[w].board) /\ GoodBoard(tx[w].board)) \/ tx[w].board = <<>>
        BY <2>1 DEF Draft, Drafted
      <3>3. PICK b : b = tx[w].board
        OBVIOUS
      <3>4. b # <<>> => GoodBoard(b)
        BY <3>2, <3>3
      <3>5. b # <<>> =>
              \A l \in Lanes :
                /\ lanes'[l].is = "on" =>
                     \/ b[l].is = "on" /\ (b[l].stage # lanes'[l].stage => lanes'[l].stage = "none" /\ l \in holds'[w])
                     \/ b[l].is = "gone" /\ l \in holds'[w] /\ InLane(l)' = {} /\ lanes'[l].stage = "none"
                /\ lanes'[l].is = "gone" => b[l].is = "gone"
        BY <2>2, <3>1, <3>2, <3>3 DEF Drafted
      <3>6. tx'[w].board = b
        BY <2>2, <3>3
      <3> QED
        BY <3>4, <3>5, <3>6 DEF Draft, GoodBoard, On
    <2>8. Aim(w)'
      BY <2>1, <2>2, <2>3 DEF Aim
    <2>9. Owns(w)'
      BY <2>1, <2>2, <2>4 DEF Owns, HasCampaign
    <2>10. Filed(w)'
      <3>1. ASSUME tx[w].op \in Placements, tx[w].step = "written"
            PROVE  tx[w].card \in Campaigns /\ tx[w].card # c /\ cards'[tx[w].card] = cards[tx[w].card]
        BY <2>4, <3>1 DEF HasCampaign
      <3>2. CASE DOMAIN tx[w].plan = {}
        BY <2>1, <2>2, <3>1, <3>2 DEF Filed
      <3>3. CASE DOMAIN tx[w].plan # {}
        <4>1. tx[w].step = "written"
          BY <2>1, <3>3 DEF Control
        <4>2. PICK t : t = tx[w]
          OBVIOUS
        <4>3. PICK from : from = cards[t.card].lane
          OBVIOUS
        <4>4. /\ t.op \in Placements
              /\ t.lane \in holds[w] \cap On(Seen(w)) /\ t.lane # 0 /\ from \in holds[w] \cup {0}
              /\ DOMAIN t.plan = {t.card} \cup InLane(t.lane) \cup {d \in Campaigns : from # 0 /\ cards[d].lane = from}
              /\ t.plan[t.card].lane = t.lane
              /\ \A d \in DOMAIN t.plan : d # t.card => t.plan[d].lane = cards[d].lane
              /\ \A d, e \in DOMAIN t.plan : d # e /\ t.plan[d].lane = t.plan[e].lane => t.plan[d].position # t.plan[e].position
              /\ t.op # "move" => Seen(w)[t.lane].stage = t.status
          BY <2>1, <3>3, <4>2, <4>3 DEF Filed
        <4>5. t.card \in Campaigns /\ t.card # c /\ cards'[t.card].lane = from
          BY <3>1, <4>1, <4>2, <4>3, <4>4
        <4>6. InLane(t.lane)' = InLane(t.lane) \ {c}
          BY <1>5, <4>4
        <4>7. {d \in Campaigns : from # 0 /\ cards'[d].lane = from} = {d \in Campaigns : from # 0 /\ cards[d].lane = from} \ {c}
          BY <1>4
        <4>8. PICK q : q = tx'[w].plan
          OBVIOUS
        <4>9. DOMAIN q = DOMAIN t.plan \ {c} /\ \A d \in DOMAIN q : q[d] = t.plan[d] /\ d \in Campaigns
          BY <2>2, <4>2, <4>4, <4>5, <4>8 DEF InLane
        <4>10. DOMAIN q = {t.card} \cup InLane(t.lane)' \cup {d \in Campaigns : from # 0 /\ cards'[d].lane = from}
          BY <4>4, <4>5, <4>6, <4>7, <4>9
        <4>11. t.card \in DOMAIN q /\ q[t.card].lane = t.lane
          BY <4>4, <4>9, <4>10
        <4>12. \A d \in DOMAIN q : d # t.card => q[d].lane = cards'[d].lane
          BY <1>4, <4>4, <4>9
        <4>13. \A d, e \in DOMAIN q : d # e /\ q[d].lane = q[e].lane => q[d].position # q[e].position
          BY <4>4, <4>9
        <4>14. /\ tx'[w].op = t.op /\ tx'[w].card = t.card /\ tx'[w].lane = t.lane /\ tx'[w].status = t.status
               /\ tx'[w].plan = q
          BY <2>2, <4>2, <4>8
        <4>15. /\ t.lane \in holds'[w] \cap On(Seen(w))' /\ from \in holds'[w] \cup {0}
               /\ t.op # "move" => Seen(w)'[t.lane].stage = t.status
          BY <2>2, <2>3, <4>4
        <4>16. InLane(tx[w].lane)' = InLane(t.lane)'
          BY <4>14 DEF InLane
        <4>17. DOMAIN q # {} /\ DOMAIN q = {t.card} \cup InLane(tx[w].lane)' \cup {d \in Campaigns : from # 0 /\ cards'[d].lane = from}
          BY <4>10, <4>16
        <4> HIDE DEF InLane
        <4> QED
          BY <4>4, <4>5, <4>11, <4>12, <4>13, <4>14, <4>15, <4>17 DEF Filed
      <3> QED
        BY <3>2, <3>3
    <2> QED
      BY <2>5, <2>6, <2>7, <2>8, <2>9, <2>10 DEF Sound
  <1> QED
    BY <1>7, <1>8, <1>9, <1>10, <1>11, <1>12 DEF BoardInv

-------------------------------------------------------------------------------
(* What a commit does to the cards, the lanes and the other transactions           *)

LEMMA CommitIs ==
  ASSUME NEW w \in Boarders, CommitBoard(w)
  PROVE  /\ tx[w].step = "written" /\ lanes' = Seen(w)
         /\ tx' = [tx EXCEPT ![w] = NoTx] /\ holds' = [holds EXCEPT ![w] = {}]
         /\ adopted' = adopted \cup {l \in On(lanes) : lanes[l].stage # Seen(w)[l].stage}
         /\ \A c \in Campaigns :
              /\ cards'[c] = [lane |-> cards'[c].lane, position |-> cards'[c].position, status |-> cards'[c].status]
              /\ c \in DOMAIN tx[w].plan => /\ cards'[c].lane = tx[w].plan[c].lane
                                            /\ cards'[c].position = tx[w].plan[c].position
              /\ c \notin DOMAIN tx[w].plan => /\ cards'[c].lane = cards[c].lane
                                               /\ cards'[c].position = cards[c].position
              /\ c = tx[w].card /\ tx[w].status # "none" => cards'[c].status = tx[w].status
              /\ ~(c = tx[w].card /\ tx[w].status # "none") => cards'[c].status = cards[c].status
         /\ cards' = [c \in Campaigns |-> cards'[c]]
  <1>1. cards' = [c \in Campaigns |->
           [lane |-> IF c \in DOMAIN tx[w].plan THEN tx[w].plan[c].lane ELSE cards[c].lane,
            position |-> IF c \in DOMAIN tx[w].plan THEN tx[w].plan[c].position ELSE cards[c].position,
            status |-> IF c = tx[w].card /\ tx[w].status # "none" THEN tx[w].status ELSE cards[c].status]]
    BY DEF CommitBoard
  <1>2. ASSUME NEW c \in Campaigns
        PROVE  /\ cards'[c] = [lane |-> cards'[c].lane, position |-> cards'[c].position, status |-> cards'[c].status]
               /\ c \in DOMAIN tx[w].plan => /\ cards'[c].lane = tx[w].plan[c].lane
                                             /\ cards'[c].position = tx[w].plan[c].position
               /\ c \notin DOMAIN tx[w].plan => /\ cards'[c].lane = cards[c].lane
                                                /\ cards'[c].position = cards[c].position
               /\ c = tx[w].card /\ tx[w].status # "none" => cards'[c].status = tx[w].status
               /\ ~(c = tx[w].card /\ tx[w].status # "none") => cards'[c].status = cards[c].status
    BY <1>1
  <1>3. cards' = [c \in Campaigns |-> cards'[c]]
    BY <1>1
  <1> QED
    BY <1>2, <1>3 DEF CommitBoard

LEMMA PlanSpots ==
  ASSUME BoardInv, NEW w \in Boarders
  PROVE  DOMAIN tx[w].plan \subseteq Campaigns /\ \A d \in DOMAIN tx[w].plan : tx[w].plan[d].lane \in Lanes /\ tx[w].plan[d].position \in Nat
  <1>1. tx[w].plan \in Plans
    BY BoardTypesOf, TxFields
  <1> QED
    BY <1>1, NoPlan DEF Plans, Spot

(* Only the campaign of the transaction goes to another lane, from a lane that is   *)
(* locked to a lane that is locked; and it has it.                                *)
LEMMA CommitMoves ==
  ASSUME BoardInv, NEW w \in Boarders, tx[w].step = "written"
  PROVE  /\ tx[w].card \in Campaigns => HasCampaign(w)
         /\ tx[w].op = "create" => DOMAIN tx[w].plan # {}
         /\ DOMAIN tx[w].plan # {} =>
              /\ HasCampaign(w) /\ tx[w].card \in Campaigns /\ tx[w].card \in DOMAIN tx[w].plan
              /\ tx[w].lane \in holds[w] /\ tx[w].lane \in On(Seen(w)) /\ tx[w].lane # 0
              /\ cards[tx[w].card].lane \in holds[w] \cup {0}
              /\ tx[w].plan[tx[w].card].lane = tx[w].lane
              /\ \A d \in DOMAIN tx[w].plan : d # tx[w].card =>
                   /\ tx[w].plan[d].lane = cards[d].lane /\ cards[d].lane # 0
                   /\ cards[d].lane = tx[w].lane \/ cards[d].lane = cards[tx[w].card].lane
              /\ \A d \in Campaigns : cards[d].lane = tx[w].lane => d \in DOMAIN tx[w].plan
              /\ \A d \in Campaigns : cards[d].lane # 0 /\ cards[d].lane = cards[tx[w].card].lane => d \in DOMAIN tx[w].plan
              /\ \A d, e \in DOMAIN tx[w].plan :
                   d # e /\ tx[w].plan[d].lane = tx[w].plan[e].lane => tx[w].plan[d].position # tx[w].plan[e].position
              /\ tx[w].op # "move" => Seen(w)[tx[w].lane].stage = tx[w].status
         /\ tx[w].card \in Campaigns /\ DOMAIN tx[w].plan = {} =>
              /\ tx[w].op = "update" /\ tx[w].status = cards[tx[w].card].status /\ cards[tx[w].card].lane # 0
  <1>1. Control(w) /\ Filed(w) /\ Owns(w)
    BY DEF BoardInv, Sound
  <1>2. tx[w].op \in Placements \cup LayoutChanges \cup {"none"}
    BY BoardTypesOf, TxFields
  <1>3. (tx[w].card \in Campaigns) <=> (tx[w].op \in Placements)
    BY <1>1, <1>2, BoardAssumption DEF Control
  <1>4. tx[w].op \in Placements => HasCampaign(w)
    BY DEF HasCampaign
  <1>5. DOMAIN tx[w].plan # {} => tx[w].op \in Placements
    BY <1>1 DEF Filed
  <1>6. ASSUME DOMAIN tx[w].plan # {}
        PROVE
              /\ tx[w].card \in DOMAIN tx[w].plan
              /\ tx[w].lane \in holds[w] /\ tx[w].lane \in On(Seen(w)) /\ tx[w].lane # 0
              /\ cards[tx[w].card].lane \in holds[w] \cup {0}
              /\ tx[w].plan[tx[w].card].lane = tx[w].lane
              /\ \A d \in DOMAIN tx[w].plan : d # tx[w].card => tx[w].plan[d].lane = cards[d].lane
              /\ DOMAIN tx[w].plan = {tx[w].card} \cup InLane(tx[w].lane)
                    \cup {d \in Campaigns : cards[tx[w].card].lane # 0 /\ cards[d].lane = cards[tx[w].card].lane}
              /\ \A d, e \in DOMAIN tx[w].plan :
                   d # e /\ tx[w].plan[d].lane = tx[w].plan[e].lane => tx[w].plan[d].position # tx[w].plan[e].position
              /\ tx[w].op # "move" => Seen(w)[tx[w].lane].stage = tx[w].status
    BY <1>1, <1>6 DEF Filed
  <1>7. ASSUME DOMAIN tx[w].plan # {}
        PROVE /\ \A d \in DOMAIN tx[w].plan : d # tx[w].card =>
                   /\ cards[d].lane # 0
                   /\ cards[d].lane = tx[w].lane \/ cards[d].lane = cards[tx[w].card].lane
              /\ \A d \in Campaigns : cards[d].lane = tx[w].lane => d \in DOMAIN tx[w].plan
              /\ \A d \in Campaigns : cards[d].lane # 0 /\ cards[d].lane = cards[tx[w].card].lane => d \in DOMAIN tx[w].plan
    BY <1>6, <1>7 DEF InLane
  <1>8. tx[w].op \in Placements /\ DOMAIN tx[w].plan = {} => tx[w].op = "update" /\ tx[w].status = cards[tx[w].card].status
    BY <1>1 DEF Filed
  <1>9. tx[w].op = "create" => DOMAIN tx[w].plan # {}
    BY <1>8 DEF Placements
  <1>10. tx[w].op = "update" => cards[tx[w].card].lane # 0
    BY <1>1, <1>4 DEF Owns, Placements
  <1> QED
    BY <1>3, <1>4, <1>5, <1>6, <1>7, <1>8, <1>9, <1>10

LEMMA CommitLanes ==
  ASSUME BoardInv, NEW w \in Boarders, CommitBoard(w), NEW c \in Campaigns
  PROVE  /\ cards'[c].lane # cards[c].lane =>
              /\ c = tx[w].card /\ cards'[c].lane = tx[w].lane /\ tx[w].lane \in holds[w] /\ tx[w].lane # 0
              /\ cards[c].lane \in holds[w] \cup {0}
         /\ cards'[c].lane # cards[c].lane => tx[w].lane \in On(Seen(w))
         /\ c # tx[w].card => cards'[c].status = cards[c].status
         /\ cards'[c].lane = 0 => cards[c].lane = 0 /\ c \notin DOMAIN tx[w].plan
  <1>1. tx[w].step = "written"
    BY CommitIs
  <1>2. CASE c \notin DOMAIN tx[w].plan
    <2>1. cards'[c].lane = cards[c].lane /\ (c # tx[w].card => cards'[c].status = cards[c].status)
      BY <1>2, CommitIs
    <2> QED
      BY <1>2, <2>1
  <1>3. CASE c \in DOMAIN tx[w].plan
    <2>1. cards'[c].lane = tx[w].plan[c].lane /\ (c # tx[w].card => cards'[c].status = cards[c].status)
      BY <1>3, CommitIs
    <2>2. DOMAIN tx[w].plan # {}
      BY <1>3
    <2>3. /\ tx[w].lane \in holds[w] /\ tx[w].lane \in On(Seen(w)) /\ tx[w].lane # 0
          /\ cards[tx[w].card].lane \in holds[w] \cup {0}
          /\ tx[w].plan[tx[w].card].lane = tx[w].lane
          /\ c # tx[w].card => tx[w].plan[c].lane = cards[c].lane /\ cards[c].lane # 0
      BY <1>1, <1>3, <2>2, CommitMoves
    <2> QED
      BY <2>1, <2>3
  <1> QED
    BY <1>2, <1>3

LEMMA CommitTypes ==
  ASSUME BoardInv, NEW w \in Boarders, CommitBoard(w)
  PROVE  BoardTypes' /\ GoodBoard(lanes)' /\ Drafted(w, lanes')
  <1>1. lanes' = Seen(w)
    BY CommitIs
  <1>2. Drafted(w, Seen(w)) /\ GoodBoard(Seen(w)) /\ Seen(w) \in [Lanes -> Lane]
    BY SeenIsDrafted
  <1>3. tx \in [Boarders -> Tx] /\ holds \in [Boarders -> SUBSET (Lanes \cup {Layout})] /\ adopted \subseteq Lanes
        /\ cards \in [Campaigns -> Card]
    BY DEF BoardInv, BoardTypes
  <1>4. tx' \in [Boarders -> Tx] /\ holds' \in [Boarders -> SUBSET (Lanes \cup {Layout})]
    BY <1>3, CommitIs, NoTxFields
  <1>5. adopted' \subseteq Lanes
    BY <1>3, CommitIs DEF On
  <1>6. tx[w].status \in Stages \cup {"none"}
    BY <1>3, TxFields
  <1>7. ASSUME NEW c \in Campaigns
        PROVE  cards'[c] \in Card
    <2>1. cards[c].lane \in 0..LastLane /\ cards[c].position \in Nat /\ cards[c].status \in Stages \cup {"none"}
      BY <1>3 DEF Card
    <2>2. c \in DOMAIN tx[w].plan => tx[w].plan[c].lane \in 0..LastLane /\ tx[w].plan[c].position \in Nat
      BY PlanSpots, LanesAssumption DEF Lanes
    <2>3. cards'[c].lane \in 0..LastLane /\ cards'[c].position \in Nat
      BY <2>1, <2>2, CommitIs
    <2>4. cards'[c].status \in Stages \cup {"none"}
      BY <1>6, <2>1, CommitIs
    <2>5. cards'[c] = [lane |-> cards'[c].lane, position |-> cards'[c].position, status |-> cards'[c].status]
      BY CommitIs
    <2> QED
      BY <2>3, <2>4, <2>5 DEF Card
  <1>8. cards' = [c \in Campaigns |-> cards'[c]]
    BY CommitIs
  <1>9. cards' \in [Campaigns -> Card]
    BY <1>7, <1>8
  <1> QED
    BY <1>1, <1>2, <1>4, <1>5, <1>9 DEF BoardTypes, GoodBoard, On

(* The cards of every lane stay apart, those of the two lanes it rewrites too.       *)
LEMMA CommitPlaces ==
  ASSUME BoardInv, NEW w \in Boarders, CommitBoard(w)
  PROVE  CardsPlaced'
  <1>0. CardsPlaced /\ tx[w].step = "written" /\ Drafted(w, lanes')
    BY CommitIs, CommitTypes DEF BoardInv
  <1>1. ASSUME NEW c \in Campaigns, cards'[c].lane = 0
        PROVE  cards'[c] = NoCard
    <2>1. cards[c].lane = 0 /\ c \notin DOMAIN tx[w].plan
      BY <1>1, CommitLanes
    <2>2. cards[c] = NoCard
      BY <1>0, <2>1 DEF CardsPlaced
    <2>3. cards'[c].position = cards[c].position
      BY <2>1, CommitIs
    <2>4. cards'[c].status = cards[c].status
      <3>1. c # tx[w].card
        BY <1>0, <2>1, CommitMoves
      <3> QED
        BY <3>1, CommitLanes
    <2>5. cards'[c] = [lane |-> cards'[c].lane, position |-> cards'[c].position, status |-> cards'[c].status]
      BY CommitIs
    <2> QED
      BY <1>1, <2>2, <2>3, <2>4, <2>5 DEF NoCard
  <1>2. ASSUME NEW c \in Campaigns, cards'[c].lane # 0
        PROVE  cards'[c].lane \in On(lanes')
    <2>1. CASE cards'[c].lane = cards[c].lane
      <3>1. cards[c].lane \in On(lanes) /\ c \in InLane(cards[c].lane)
        BY <1>0, <1>2, <2>1 DEF CardsPlaced, InLane
      <3>2. lanes'[cards[c].lane].is = "on" /\ cards[c].lane \in Lanes
        BY <1>0, <3>1 DEF Drafted, On
      <3> QED
        BY <2>1, <3>2 DEF On
    <2>2. CASE cards'[c].lane # cards[c].lane
      BY <2>2, CommitLanes, CommitIs
    <2> QED
      BY <2>1, <2>2
  <1>3. ASSUME NEW c \in Campaigns, NEW d \in Campaigns, c # d, cards'[c].lane # 0, cards'[d].lane = cards'[c].lane
        PROVE  cards'[d].position # cards'[c].position
    <2>1. CASE c \notin DOMAIN tx[w].plan /\ d \notin DOMAIN tx[w].plan
      <3>1. /\ cards'[c].lane = cards[c].lane /\ cards'[c].position = cards[c].position
            /\ cards'[d].lane = cards[d].lane /\ cards'[d].position = cards[d].position
        BY <2>1, CommitIs
      <3> QED
        BY <1>0, <1>3, <3>1 DEF CardsPlaced
    <2>2. CASE c \in DOMAIN tx[w].plan /\ d \in DOMAIN tx[w].plan
      <3>1. /\ cards'[c].lane = tx[w].plan[c].lane /\ cards'[c].position = tx[w].plan[c].position
            /\ cards'[d].lane = tx[w].plan[d].lane /\ cards'[d].position = tx[w].plan[d].position
        BY <2>2, CommitIs
      <3>2. DOMAIN tx[w].plan # {}
        BY <2>2
      <3>3. \A x, y \in DOMAIN tx[w].plan :
              x # y /\ tx[w].plan[x].lane = tx[w].plan[y].lane => tx[w].plan[x].position # tx[w].plan[y].position
        BY ONLY BoardInv, w \in Boarders, <1>0, <3>2, CommitMoves
      <3>4. tx[w].plan[c].lane = tx[w].plan[d].lane
        BY <1>3, <3>1
      <3>5. tx[w].plan[c].position # tx[w].plan[d].position
        BY ONLY <1>3, <2>2, <3>3, <3>4
      <3> QED
        BY <3>1, <3>5
    <2>3. ASSUME NEW x \in Campaigns, NEW y \in Campaigns, x \in DOMAIN tx[w].plan, y \notin DOMAIN tx[w].plan
          PROVE  cards'[x].lane # cards'[y].lane
      <3>1. cards'[x].lane = tx[w].plan[x].lane /\ cards'[y].lane = cards[y].lane /\ DOMAIN tx[w].plan # {}
        BY <2>3, CommitIs
      <3>2. /\ tx[w].plan[tx[w].card].lane = tx[w].lane
            /\ x # tx[w].card => /\ tx[w].plan[x].lane = cards[x].lane /\ cards[x].lane # 0
                                 /\ cards[x].lane = tx[w].lane \/ cards[x].lane = cards[tx[w].card].lane
            /\ cards[y].lane # tx[w].lane
            /\ ~ (cards[y].lane # 0 /\ cards[y].lane = cards[tx[w].card].lane)
        BY <1>0, <2>3, <3>1, CommitMoves
      <3> QED
        BY <3>1, <3>2
    <2> QED
      BY <1>3, <2>1, <2>2, <2>3
  <1> QED
    BY <1>1, <1>2, <1>3 DEF CardsPlaced, On

(* A card is written with the status of its lane.                                *)
LEMMA CommitStatuses ==
  ASSUME BoardInv, NEW w \in Boarders, CommitBoard(w)
  PROVE  StatusMatchesLane'
  <1>0. CardsPlaced /\ StatusMatchesLane /\ tx[w].step = "written" /\ Aim(w) /\ Control(w)
    BY CommitIs DEF BoardInv, Sound
  <1> SUFFICES ASSUME NEW c \in Campaigns, NEW l, l = cards'[c].lane, l # 0, lanes'[l].stage # "none", l \notin adopted'
               PROVE  cards'[c].status = lanes'[l].stage
    BY DEF StatusMatchesLane
  <1>1. l \notin adopted /\ (l \in On(lanes) => lanes[l].stage = lanes'[l].stage)
    BY CommitIs
  <1>2. tx[w].op = "move" =>
          /\ tx[w].lane \in On(lanes) /\ lanes[tx[w].lane].stage # "none" /\ tx[w].lane \notin adopted =>
               tx[w].status = lanes[tx[w].lane].stage
          /\ lanes' = lanes /\ Seen(w) = lanes
    BY <1>0, CommitIs DEF Aim, Control, Seen
  <1>3. ASSUME c \in DOMAIN tx[w].plan, c = tx[w].card
        PROVE  tx[w].status = lanes'[l].stage
    <2>1. l = tx[w].lane /\ tx[w].lane \in On(Seen(w)) /\ (tx[w].op # "move" => Seen(w)[tx[w].lane].stage = tx[w].status)
      <3>1. l = tx[w].plan[c].lane /\ DOMAIN tx[w].plan # {}
        BY <1>3, CommitIs
      <3>2. /\ tx[w].plan[tx[w].card].lane = tx[w].lane /\ tx[w].lane \in On(Seen(w))
            /\ tx[w].op # "move" => Seen(w)[tx[w].lane].stage = tx[w].status
        BY <1>0, <3>1, CommitMoves
      <3> QED
        BY <1>3, <3>1, <3>2
    <2>2. CASE tx[w].op = "move"
      BY <1>1, <1>2, <2>1, <2>2
    <2>3. CASE tx[w].op # "move"
      BY <2>1, <2>3, CommitIs
    <2> QED
      BY <2>2, <2>3
  <1>4. ASSUME c = tx[w].card, c \notin DOMAIN tx[w].plan
        PROVE  tx[w].status = cards[c].status /\ cards'[c].lane = cards[c].lane
    <2>1. cards'[c].lane = cards[c].lane
      BY <1>4, CommitIs
    <2>2. CASE DOMAIN tx[w].plan = {}
      BY <1>0, <1>4, <2>1, <2>2, CommitMoves
    <2>3. CASE DOMAIN tx[w].plan # {}
      BY <1>0, <1>4, <2>3, CommitMoves
    <2> QED
      BY <2>1, <2>2, <2>3
  <1>5. ASSUME cards'[c].lane = cards[c].lane
        PROVE  cards[c].status = lanes'[l].stage
    <2>1. l \in On(lanes)
      BY <1>0, <1>5 DEF CardsPlaced
    <2> QED
      BY <1>0, <1>1, <1>5, <2>1 DEF StatusMatchesLane
  <1>6. CASE c = tx[w].card /\ c \in DOMAIN tx[w].plan
    <2>1. tx[w].status = lanes'[l].stage /\ tx[w].status # "none"
      BY <1>3, <1>6
    <2> QED
      BY <1>6, <2>1, CommitIs
  <1>7. CASE c = tx[w].card /\ c \notin DOMAIN tx[w].plan
    <2>1. tx[w].status = cards[c].status /\ cards'[c].lane = cards[c].lane
      BY <1>4, <1>7
    <2>2. cards'[c].status = cards[c].status
      BY <1>7, <2>1, CommitIs
    <2> QED
      BY <1>5, <2>1, <2>2
  <1>8. CASE c # tx[w].card
    BY <1>5, <1>8, CommitLanes
  <1> QED
    BY <1>6, <1>7, <1>8

(* The others lose nothing they rely on: it had the locks of what it changed.        *)
LEMMA CommitLeavesOthers ==
  ASSUME BoardInv, NEW w \in Boarders, CommitBoard(w), NEW v \in Boarders, v # w
  PROVE  /\ tx'[v] = tx[v] /\ holds'[v] = holds[v]
         /\ Layout \in holds[v] \/ tx[v].board # <<>> => lanes' = lanes
         /\ \A l \in Lanes :
              /\ lanes[l].stage # "none" /\ lanes[l].is = "on" =>
                   lanes'[l].is = "on" /\ lanes'[l].stage = lanes[l].stage
              /\ l \in holds[v] /\ lanes[l].is = "on" => lanes'[l].is = "on" /\ lanes'[l].stage = lanes[l].stage
              /\ lanes[l].is # "unused" => lanes'[l].is # "unused"
              /\ lanes'[l].is = "on" /\ lanes[l].is # "unused" => lanes[l].is = "on"
              /\ l \in holds[v] => InLane(l)' = InLane(l)
         /\ \A c \in Campaigns : cards[c].lane \in holds[v] /\ cards[c].lane # 0 => cards'[c].lane = cards[c].lane
         /\ HasCampaign(v) => /\ tx[v].card # tx[w].card
                              /\ tx[v].card \in Campaigns =>
                                   /\ cards'[tx[v].card].lane = cards[tx[v].card].lane
                                   /\ cards'[tx[v].card].status = cards[tx[v].card].status
  <1>1. tx \in [Boarders -> Tx] /\ holds \in [Boarders -> SUBSET (Lanes \cup {Layout})]
    BY DEF BoardInv, BoardTypes
  <1>2. tx'[v] = tx[v] /\ holds'[v] = holds[v]
    BY <1>1, CommitIs
  <1>3. holds[v] \cap holds[w] = {} /\ (HasCampaign(v) /\ HasCampaign(w) => tx[v].card # tx[w].card)
    BY DEF BoardInv, Apart
  <1>4. Control(v) /\ Control(w)
    BY DEF BoardInv, Sound
  <1>5. ASSUME Layout \in holds[v] \/ tx[v].board # <<>>
        PROVE  lanes' = lanes
    <2>1. Layout \in holds[v]
      BY <1>4, <1>5 DEF Control
    <2>2. Layout \notin holds[w]
      BY <1>3, <2>1
    <2>3. tx[w].board = <<>>
      BY <1>4, <2>2 DEF Control
    <2> QED
      BY <2>3, CommitIs DEF Seen
  <1>6. Drafted(w, lanes') /\ lanes' \in [Lanes -> Lane] /\ lanes \in [Lanes -> Lane]
    BY CommitTypes DEF BoardInv, BoardTypes
  <1>7. ASSUME NEW l \in Lanes
        PROVE
              /\ lanes[l].stage # "none" /\ lanes[l].is = "on" =>
                   lanes'[l].is = "on" /\ lanes'[l].stage = lanes[l].stage
              /\ l \in holds[v] /\ lanes[l].is = "on" => lanes'[l].is = "on" /\ lanes'[l].stage = lanes[l].stage
              /\ lanes[l].is # "unused" => lanes'[l].is # "unused"
              /\ lanes'[l].is = "on" /\ lanes[l].is # "unused" => lanes[l].is = "on"
    <2>1. /\ lanes[l].is = "on" =>
             \/ lanes'[l].is = "on" /\ (lanes'[l].stage # lanes[l].stage => lanes[l].stage = "none" /\ l \in holds[w])
             \/ lanes'[l].is = "gone" /\ l \in holds[w] /\ InLane(l) = {} /\ lanes[l].stage = "none"
          /\ lanes[l].is = "gone" => lanes'[l].is = "gone"
      BY <1>6 DEF Drafted
    <2>2. lanes[l].is \in {"unused", "on", "gone"}
      BY <1>6, LaneFields
    <2> QED
      BY <1>3, <2>1, <2>2
  <1>8. ASSUME NEW c \in Campaigns, cards'[c].lane # cards[c].lane
        PROVE  /\ c = tx[w].card /\ cards'[c].lane \in holds[w] /\ cards'[c].lane # 0
               /\ cards[c].lane \in holds[w] \cup {0}
    BY <1>8, CommitLanes
  <1>9. ASSUME NEW l \in Lanes, l \in holds[v]
        PROVE  InLane(l)' = InLane(l)
    BY <1>3, <1>8, <1>9 DEF InLane, Lanes
  <1>10. \A c \in Campaigns : cards[c].lane \in holds[v] /\ cards[c].lane # 0 => cards'[c].lane = cards[c].lane
    BY <1>3, <1>8
  <1>11. ASSUME HasCampaign(v)
         PROVE  /\ tx[v].card # tx[w].card
                /\ tx[v].card \in Campaigns =>
                                   /\ cards'[tx[v].card].lane = cards[tx[v].card].lane
                                   /\ cards'[tx[v].card].status = cards[tx[v].card].status
    <2>1. tx[w].card \in Campaigns => HasCampaign(w)
      BY CommitIs, CommitMoves
    <2>2. tx[v].card \in Campaigns
      BY <1>4, <1>11 DEF Control, HasCampaign
    <2>3. tx[v].card # tx[w].card
      BY <1>3, <1>11, <2>1, <2>2
    <2> QED
      BY <1>8, <2>3, CommitLanes
  <1> QED
    BY <1>2, <1>5, <1>7, <1>9, <1>10, <1>11

LEMMA CommitKeepsOthersSound ==
  ASSUME BoardInv, NEW w \in Boarders, CommitBoard(w), NEW v \in Boarders, v # w
  PROVE  Sound(v)'
  <1>1. Control(v) /\ Ordered(v) /\ Draft(v) /\ Aim(v) /\ Owns(v) /\ Filed(v)
    BY DEF BoardInv, Sound
  <1>2. tx'[v] = tx[v] /\ holds'[v] = holds[v] /\ (Layout \in holds[v] \/ tx[v].board # <<>> => lanes' = lanes)
    BY CommitLeavesOthers
  <1>3. \A l \in Lanes :
              /\ lanes[l].stage # "none" /\ lanes[l].is = "on" =>
                   lanes'[l].is = "on" /\ lanes'[l].stage = lanes[l].stage
              /\ l \in holds[v] /\ lanes[l].is = "on" => lanes'[l].is = "on" /\ lanes'[l].stage = lanes[l].stage
              /\ lanes[l].is # "unused" => lanes'[l].is # "unused"
              /\ lanes'[l].is = "on" /\ lanes[l].is # "unused" => lanes[l].is = "on"
              /\ l \in holds[v] => InLane(l)' = InLane(l)
    BY CommitLeavesOthers
  <1>4. HasCampaign(v) => /\ tx[v].card \in Campaigns
                          /\ cards'[tx[v].card].lane = cards[tx[v].card].lane
                          /\ cards'[tx[v].card].status = cards[tx[v].card].status
    BY <1>1, CommitLeavesOthers DEF HasCampaign, Control
  <1>5. tx[v].board # <<>> => Seen(v)' = Seen(v)
    BY <1>2 DEF Seen
  <1>6. tx[v].board = <<>> => Seen(v) = lanes /\ Seen(v)' = lanes'
    BY <1>2 DEF Seen
  <1>7. ASSUME NEW l \in On(Seen(v)), l \in holds[v] \/ Seen(v)[l].stage # "none"
        PROVE  l \in On(Seen(v))' /\ Seen(v)'[l].stage = Seen(v)[l].stage
    BY <1>3, <1>5, <1>6, <1>7 DEF On
  <1>8. Control(v)'
    <2>1. Layout \in holds[v] => LaneOf(Seen(v), tx[v].status)' = LaneOf(Seen(v), tx[v].status)
      BY <1>2 DEF Seen, LaneOf, On
    <2> QED
      BY <1>1, <1>2, <2>1 DEF Control
  <1>9. Ordered(v)'
    <2>1. tx[v].step = "lanes" => LanesToLock(v)' = LanesToLock(v)
      BY <1>2, <1>4, PlacesOnly DEF LanesToLock
    <2> QED
      BY <1>1, <1>2, <2>1 DEF Ordered
  <1>10. Draft(v)'
    <2>1. PICK b : b = tx[v].board
      OBVIOUS
    <2>2. b # <<>> => GoodBoard(b) /\ Drafted(v, b) /\ lanes' = lanes
      BY <1>1, <1>2, <2>1 DEF Draft, Drafted
    <2>3. b # <<>> =>
            \A l \in Lanes :
              /\ lanes'[l].is = "on" =>
                   \/ b[l].is = "on" /\ (b[l].stage # lanes'[l].stage => lanes'[l].stage = "none" /\ l \in holds'[v])
                   \/ b[l].is = "gone" /\ l \in holds'[v] /\ InLane(l)' = {} /\ lanes'[l].stage = "none"
              /\ lanes'[l].is = "gone" => b[l].is = "gone"
      BY <1>2, <1>3, <2>2 DEF Drafted
    <2>4. tx'[v].board = b
      BY <1>2, <2>1
    <2> QED
      BY <2>2, <2>3, <2>4 DEF Draft, GoodBoard, On
  <1>11. Aim(v)'
    <2>1. ASSUME tx[v].op \in {"create", "update"}, tx[v].step = "lanes"
          PROVE  tx[v].lane \in On(Seen(v))' /\ Seen(v)'[tx[v].lane].stage = tx[v].status
      <3>1. tx[v].lane \in On(Seen(v)) /\ Seen(v)[tx[v].lane].stage = tx[v].status /\ tx[v].status \in Stages
        BY <1>1, <2>1 DEF Aim, Control
      <3> QED
        BY <1>7, <3>1, BoardAssumption
    <2>2. ASSUME tx[v].op = "move"
          PROVE  /\ tx[v].lane \in Lanes /\ lanes'[tx[v].lane].is # "unused"
                 /\ tx[v].lane \in On(lanes') /\ lanes'[tx[v].lane].stage # "none" /\ tx[v].lane \notin adopted' =>
                      tx[v].status = lanes'[tx[v].lane].stage
      <3>1. /\ tx[v].lane \in Lanes /\ lanes[tx[v].lane].is # "unused"
            /\ tx[v].lane \in On(lanes) /\ lanes[tx[v].lane].stage # "none" /\ tx[v].lane \notin adopted =>
                 tx[v].status = lanes[tx[v].lane].stage
        BY <1>1, <2>2 DEF Aim
      <3>2. lanes'[tx[v].lane].is # "unused"
        BY <1>3, <3>1
      <3>3. ASSUME tx[v].lane \in On(lanes'), lanes'[tx[v].lane].stage # "none", tx[v].lane \notin adopted'
            PROVE  tx[v].status = lanes'[tx[v].lane].stage
        <4>1. tx[v].lane \in On(lanes)
          BY <1>3, <3>1, <3>3 DEF On
        <4>2. tx[v].lane \notin adopted /\ lanes[tx[v].lane].stage = lanes'[tx[v].lane].stage
          BY <3>3, <4>1, CommitIs
        <4> QED
          BY <3>1, <3>3, <4>1, <4>2
      <3> QED
        BY <3>1, <3>2, <3>3
    <2>3. ASSUME tx[v].op \in Placements
          PROVE  \A l \in holds[v] : l # Layout => l \in On(Seen(v))'
      BY <1>1, <1>7, <2>3 DEF Aim
    <2>4. On(lanes)' = On(lanes')
      BY DEF On
    <2> QED
      BY <1>2, <2>1, <2>2, <2>3, <2>4 DEF Aim
  <1>12. Owns(v)'
    BY <1>1, <1>2, <1>4 DEF Owns, HasCampaign
  <1>13. Filed(v)'
    <2>1. PICK t : t = tx[v]
      OBVIOUS
    <2>2. tx'[v] = t
      BY <1>2, <2>1
    <2>3. CASE DOMAIN t.plan = {}
      <3>1. t.op \in Placements /\ t.step = "written" => cards'[t.card].status = cards[t.card].status
        BY <1>4, <2>1 DEF HasCampaign
      <3> QED
        BY <1>1, <2>1, <2>2, <2>3, <3>1 DEF Filed
    <2>4. CASE DOMAIN t.plan # {}
      <3>1. t.step = "written"
        BY <1>1, <2>1, <2>4 DEF Control
      <3>2. PICK from : from = cards[t.card].lane
        OBVIOUS
      <3>3. /\ t.op \in Placements
            /\ t.lane \in holds[v] \cap On(Seen(v)) /\ t.lane # 0 /\ from \in holds[v] \cup {0}
            /\ DOMAIN t.plan = {t.card} \cup InLane(t.lane) \cup {d \in Campaigns : from # 0 /\ cards[d].lane = from}
            /\ t.plan[t.card].lane = t.lane
            /\ \A d \in DOMAIN t.plan : d # t.card => t.plan[d].lane = cards[d].lane
            /\ \A d, e \in DOMAIN t.plan : d # e /\ t.plan[d].lane = t.plan[e].lane => t.plan[d].position # t.plan[e].position
            /\ t.op # "move" => Seen(v)[t.lane].stage = t.status
        BY <1>1, <2>1, <2>4, <3>2 DEF Filed
      <3>4. cards'[t.card].lane = from
        BY <1>4, <2>1, <3>1, <3>2, <3>3 DEF HasCampaign
      <3>5. t.lane \in Lanes /\ (from # 0 => from \in Lanes)
        <4>1. holds[v] \subseteq Lanes \cup {0}
          BY BoardTypesOf DEF Layout
        <4> QED
          BY <3>3, <4>1
      <3>6. InLane(t.lane)' = InLane(t.lane)
        BY <1>3, <3>3, <3>5
      <3>7. {d \in Campaigns : from # 0 /\ cards'[d].lane = from} = {d \in Campaigns : from # 0 /\ cards[d].lane = from}
        <4>1. CASE from = 0
          BY <4>1
        <4>2. CASE from # 0
          <5>1. InLane(from)' = InLane(from)
            BY <1>3, <3>3, <3>5, <4>2
          <5> QED
            BY <4>2, <5>1 DEF InLane
        <4> QED
          BY <4>1, <4>2
      <3>8. \A d \in DOMAIN t.plan : d # t.card => t.plan[d].lane = cards'[d].lane
        <4>1. ASSUME NEW d \in DOMAIN t.plan, d # t.card
              PROVE  d \in Campaigns /\ cards[d].lane \in holds[v] /\ cards[d].lane # 0
          BY <3>3, <4>1 DEF InLane
        <4>2. \A d \in DOMAIN t.plan : d # t.card => cards'[d].lane = cards[d].lane
          BY <4>1, CommitLeavesOthers
        <4> QED
          BY <3>3, <4>2
      <3>9. t.lane \in On(Seen(v))' /\ Seen(v)'[t.lane].stage = Seen(v)[t.lane].stage
        BY <1>7, <3>3
      <3>10. InLane(tx[v].lane)' = InLane(t.lane)'
        BY <2>2 DEF InLane
      <3>11. t.lane \in holds'[v] \cap On(Seen(v))' /\ from \in holds'[v] \cup {0}
             /\ (t.op # "move" => Seen(v)'[t.lane].stage = t.status)
        BY <1>2, <3>3, <3>9
      <3>12. DOMAIN t.plan = {t.card} \cup InLane(tx[v].lane)' \cup {d \in Campaigns : from # 0 /\ cards'[d].lane = from}
        BY <3>3, <3>6, <3>7, <3>10
      <3> QED
        BY <2>2, <2>4, <3>3, <3>4, <3>8, <3>11, <3>12 DEF Filed
    <2> QED
      BY <2>3, <2>4
  <1> QED
    BY <1>8, <1>9, <1>10, <1>11, <1>12, <1>13 DEF Sound

LEMMA CommitKeeps ==
  ASSUME BoardInv, NEW w \in Boarders, CommitBoard(w)
  PROVE  BoardInv'
  <1>1. BoardTypes' /\ GoodBoard(lanes)'
    BY CommitTypes
  <1>2. CardsPlaced' /\ StatusMatchesLane'
    BY CommitPlaces, CommitStatuses
  <1>3. tx'[w] = NoTx /\ holds'[w] = {}
    BY CommitIs DEF BoardInv, BoardTypes
  <1>4. \A v \in Boarders : Sound(v)'
    BY <1>3, NobodyIsSound, CommitKeepsOthersSound
  <1>5. ~HasCampaign(w)'
    BY <1>3, NoTxFields DEF HasCampaign, Placements
  <1>6. \A v \in Boarders : v # w => tx'[v] = tx[v] /\ holds'[v] = holds[v]
    BY CommitLeavesOthers
  <1>7. \A v \in Boarders : v # w => (HasCampaign(v)' => HasCampaign(v))
    BY <1>6 DEF HasCampaign
  <1>8. Apart'
    <2> SUFFICES ASSUME NEW x \in Boarders, NEW v \in Boarders, x # v
                 PROVE  /\ holds'[x] \cap holds'[v] = {}
                        /\ (HasCampaign(x) /\ HasCampaign(v) => tx[x].card # tx[v].card)'
      BY DEF Apart
    <2>1. CASE x # w /\ v # w
      BY <1>6, <1>7, <2>1 DEF BoardInv, Apart
    <2>2. CASE x = w \/ v = w
      BY <1>3, <1>5, <2>2
    <2> QED
      BY <2>1, <2>2
  <1> QED
    BY <1>1, <1>2, <1>4, <1>8 DEF BoardInv

-------------------------------------------------------------------------------
(* The board from the first state on *)

LEMMA BoardStartsSound ==
  ASSUME BoardInit
  PROVE  BoardInv
  <1>1. PICK n \in 1..LastLane : \E order \in [1..n -> 1..n], stage \in [1..n -> Stages \cup {"none"}] :
          /\ \A l, k \in 1..n : l # k => order[l] # order[k] /\ (stage[l] = "none" \/ stage[l] # stage[k])
          /\ lanes = [l \in Lanes |->
                 IF l <= n THEN [is |-> "on", position |-> order[l], stage |-> stage[l]]
                 ELSE [is |-> "unused", position |-> 0, stage |-> "none"]]
    BY DEF BoardInit
  <1>2. PICK order \in [1..n -> 1..n], stage \in [1..n -> Stages \cup {"none"}] :
          /\ \A l, k \in 1..n : l # k => order[l] # order[k] /\ (stage[l] = "none" \/ stage[l] # stage[k])
          /\ lanes = [l \in Lanes |->
                 IF l <= n THEN [is |-> "on", position |-> order[l], stage |-> stage[l]]
                 ELSE [is |-> "unused", position |-> 0, stage |-> "none"]]
    BY <1>1
  <1>3. n \in Nat /\ n <= LastLane /\ 1..n \subseteq Lanes
    BY LanesAssumption DEF Lanes
  <1>4. ASSUME NEW l \in Lanes
        PROVE  /\ lanes[l] \in Lane
               /\ l \in 1..n => lanes[l].is = "on" /\ lanes[l].position = order[l] /\ lanes[l].stage = stage[l]
               /\ l \notin 1..n => lanes[l].is = "unused"
    <2>1. CASE l \in 1..n
      <3>1. lanes[l] = [is |-> "on", position |-> order[l], stage |-> stage[l]]
        BY <1>2, <1>3, <2>1
      <3>2. order[l] \in Nat /\ stage[l] \in Stages \cup {"none"}
        BY <1>2, <2>1
      <3>3. "on" \in {"unused", "on", "gone"}
        OBVIOUS
      <3> QED
        BY <2>1, <3>1, <3>2, <3>3, LaneRow
    <2>2. CASE l \notin 1..n
      <3>1. lanes[l] = [is |-> "unused", position |-> 0, stage |-> "none"]
        BY <1>2, <1>3, <2>2 DEF Lanes
      <3> QED
        BY <2>2, <3>1, LaneRow
    <2> QED
      BY <2>1, <2>2
  <1>5. lanes \in [Lanes -> Lane]
    BY <1>2, <1>4
  <1>6. On(lanes) = 1..n
    BY <1>3, <1>4 DEF On
  <1>7. Cardinality(1..n) = n
    BY <1>3, FS_Interval
  <1>8. GoodBoard(lanes)
    <2>1. \A l \in 1..n : lanes[l].position = order[l] /\ lanes[l].stage = stage[l]
      BY <1>3, <1>4
    <2>2. \A l, k \in 1..n : l # k =>
            lanes[l].position # lanes[k].position /\ (lanes[l].stage = "none" \/ lanes[l].stage # lanes[k].stage)
      <3>1. \A l, k \in 1..n : l # k => order[l] # order[k] /\ (stage[l] = "none" \/ stage[l] # stage[k])
        BY <1>2
      <3> QED
        BY ONLY <2>1, <3>1
    <2>3. \A l \in 1..n : lanes[l].position \in 1..n
      BY <1>2, <2>1
    <2> HIDE DEF On
    <2> QED
      BY <1>6, <1>7, <2>2, <2>3 DEF GoodBoard
  <1>9. /\ cards = [c \in Campaigns |-> NoCard] /\ tx = [w \in Boarders |-> NoTx]
        /\ holds = [w \in Boarders |-> {}] /\ adopted = {}
    BY DEF BoardInit
  <1>10. NoCard \in Card /\ NoCard.lane = 0
    BY LanesAssumption DEF NoCard, Card
  <1>11. BoardTypes
    BY <1>5, <1>9, <1>10, NoTxFields DEF BoardTypes
  <1>12. CardsPlaced /\ StatusMatchesLane
    BY <1>9, <1>10 DEF CardsPlaced, StatusMatchesLane
  <1>13. ASSUME NEW w \in Boarders
         PROVE  Sound(w)
    <2>1. tx[w] = NoTx /\ holds[w] = {}
      BY <1>9
    <2> QED
      BY <2>1, NoTxFields, NoPlan DEF Sound, Control, Ordered, Draft, Aim, Owns, HasCampaign, Filed, Placements, LayoutChanges
  <1>14. Apart
    BY <1>9, NoTxFields DEF Apart, HasCampaign, Placements
  <1> QED
    BY <1>8, <1>11, <1>12, <1>13, <1>14 DEF BoardInv

LEMMA ColumnsBegin ==
  ASSUME BoardInv, NEW w \in Boarders,
         \/ ReorderColumns(w) \/ EnsureStageColumns(w)
         \/ \E l \in Lanes : DeleteColumn(w, l) \/ \E p \in 0..LastLane : CreateColumn(w, l, p)
  PROVE  BoardInv'
  <1>1. {"add", "drop", "reorder", "ensure"} = LayoutChanges /\ 0 \in 0..LastLane /\ Lanes \subseteq 0..LastLane
        /\ 0..LastLane \subseteq Nat
    BY LanesAssumption DEF LayoutChanges, Lanes
  <1>2. CASE ReorderColumns(w)
    BY <1>1, <1>2, LayoutBegins DEF ReorderColumns
  <1>3. CASE EnsureStageColumns(w)
    BY <1>1, <1>3, LayoutBegins DEF EnsureStageColumns
  <1>4. ASSUME NEW l \in Lanes, DeleteColumn(w, l)
        PROVE  BoardInv'
    BY <1>1, <1>4, LayoutBegins DEF DeleteColumn
  <1>5. ASSUME NEW l \in Lanes, NEW p \in 0..LastLane, CreateColumn(w, l, p)
        PROVE  BoardInv'
    BY <1>1, <1>5, LayoutBegins DEF CreateColumn
  <1> QED
    BY <1>2, <1>3, <1>4, <1>5

(* Every step, of a request or a deletion, keeps the board sound.                  *)
LEMMA BoardStepKeeps ==
  ASSUME BoardInv, BoardNext
  PROVE  BoardInv'
  <1>1. CASE \E c \in Campaigns : DeleteCampaign(c)
    BY <1>1, DeleteCampaignKeeps
  <1>2. ASSUME NEW w \in Boarders,
               \/ RollBackBoard(w) \/ CommitBoard(w)
               \/ LockCampaign(w) \/ FindStage(w) \/ LockLane(w) \/ Place(w)
               \/ LockLayout(w) \/ AddLane(w) \/ DropLane(w) \/ OrderLanes(w)
               \/ StagesEnsured(w) \/ LockRow(w)
        PROVE  BoardInv'
    BY <1>2, RollBackKeeps, CommitKeeps, LockCampaignKeeps, FindStageKeeps, LockLaneKeeps, PlaceKeeps, LockLayoutKeeps,
       AddLaneKeeps, DropLaneKeeps, OrderLanesKeeps, StagesEnsuredKeeps, LockRowKeeps
  <1>3. ASSUME NEW w \in Boarders, NEW s \in Stages, AdoptStage(w, s) \/ AppendStage(w, s)
        PROVE  BoardInv'
    BY <1>3, AdoptStageKeeps, AppendStageKeeps
  <1>4. ASSUME NEW w \in Boarders,
               \/ ReorderColumns(w) \/ EnsureStageColumns(w)
               \/ \E l \in Lanes : DeleteColumn(w, l) \/ \E p \in 0..LastLane : CreateColumn(w, l, p)
        PROVE  BoardInv'
    BY <1>4, ColumnsBegin
  <1>5. ASSUME NEW w \in Boarders, NEW c \in Campaigns, NEW s \in Stages, CreateCampaign(w, c, s) \/ UpdateCampaign(w, c, s)
        PROVE  BoardInv'
    BY <1>5, CreateCampaignKeeps, UpdateCampaignKeeps
  <1>6. ASSUME NEW w \in Boarders, NEW c \in Campaigns, NEW l \in Lanes, NEW p \in 1..Cardinality(Campaigns),
               MoveCampaign(w, c, l, p)
        PROVE  BoardInv'
    <2>1. p \in Nat
      BY BoardAssumption, FS_CardinalityType
    <2> QED
      BY <1>6, <2>1, MoveCampaignKeeps
  <1> QED
    BY <1>1, <1>2, <1>3, <1>4, <1>5, <1>6 DEF BoardNext

LEMMA BoardStaysWhenStill ==
  ASSUME BoardInv, UNCHANGED boardVars
  PROVE  BoardInv'
  <1>1. lanes' = lanes /\ cards' = cards /\ tx' = tx /\ holds' = holds /\ adopted' = adopted
    BY DEF boardVars
  <1>2. \A w : Seen(w)' = Seen(w) /\ LanesToLock(w)' = LanesToLock(w)
    BY <1>1 DEF Seen, LanesToLock
  <1>3. \A l : InLane(l)' = InLane(l)
    BY <1>1 DEF InLane
  <1>4. BoardTypes' /\ GoodBoard(lanes)' /\ CardsPlaced' /\ StatusMatchesLane' /\ Apart'
    BY <1>1 DEF BoardInv, BoardTypes, GoodBoard, On, CardsPlaced, StatusMatchesLane, Apart, HasCampaign
  <1>5. ASSUME NEW w \in Boarders
        PROVE  Sound(w)'
    <2>1. Sound(w) /\ holds'[w] = holds[w] /\ tx'[w] = tx[w]
      BY <1>1 DEF BoardInv
    <2>2. Control(w)' /\ Ordered(w)' /\ Owns(w)'
      BY <1>1, <1>2, <2>1 DEF Sound, Control, Ordered, Owns, HasCampaign, LaneOf, On
    <2>3. Draft(w)'
      BY <1>1, <2>1, DraftStays DEF Sound
    <2>4. Aim(w)'
      BY <1>1, <1>2, <2>1 DEF Sound, Aim, On
    <2>5. Filed(w)'
      BY <1>1, <1>2, <1>3, <2>1 DEF Sound, Filed, On
    <2> QED
      BY <2>2, <2>3, <2>4, <2>5 DEF Sound
  <1> QED
    BY <1>4, <1>5 DEF BoardInv

(* The whole of it: numbers and stages of the lanes, places and statuses of the     *)
(* cards, what every transaction has read, drafted and locked.                    *)
THEOREM BoardAlwaysSound == BoardSpec => []BoardInv
  <1>1. BoardInit => BoardInv
    BY BoardStartsSound
  <1>2. BoardInv /\ [BoardNext]_boardVars => BoardInv'
    BY BoardStepKeeps, BoardStaysWhenStill
  <1> QED
    BY <1>1, <1>2, PTL DEF BoardSpec

(* Types of the lanes, the cards, the locks and the adopted lanes.                *)
THEOREM BoardTypesCorrect == BoardSpec => []BoardTypeOK
  <1>1. BoardInv => BoardTypeOK
    BY DEF BoardInv, BoardTypes, BoardTypeOK
  <1> QED
    BY <1>1, BoardAlwaysSound, PTL

(* No shared position, no gap in the lanes, one lane of a stage, and the status of  *)
(* the lane, for any number of campaigns, lanes, stages and requests at once.       *)
THEOREM BoardStaysInOrder == BoardSpec => []BoardInOrder
  <1>1. BoardInv => NoSharedPosition
    BY DEF BoardInv, CardsPlaced, NoSharedPosition
  <1>2. BoardInv => LanesInOrder
    BY GoodIsInOrder DEF BoardInv
  <1>3. BoardInv => StatusMatchesLane
    BY DEF BoardInv
  <1>4. BoardInv => BoardInOrder
    BY <1>1, <1>2, <1>3 DEF BoardInOrder
  <1> QED
    BY <1>4, BoardAlwaysSound, PTL

-------------------------------------------------------------------------------
(* Who waits for whom *)

(* How far a placement has come: one waits only for one that has come further.      *)
Progress(w) ==
    IF tx[w].step = "campaign" THEN 0
    ELSE IF tx[w].step = "layout" THEN 1
    ELSE IF tx[w].step = "lanes" /\ LanesToLock(w) # {} THEN 1 + NextLane(w)
    ELSE LastLane + 2

LEMMA ProgressIsBounded ==
  ASSUME BoardInv, NEW w \in Boarders
  PROVE  /\ Progress(w) \in 0..(LastLane + 2)
         /\ tx[w].step = "lanes" /\ LanesToLock(w) # {} =>
              /\ Progress(w) = 1 + NextLane(w) /\ NextLane(w) \in Lanes /\ NextLane(w) \in LanesToLock(w)
  <1>1. LastLane \in Nat
    BY LanesAssumption
  <1>2. CASE tx[w].step = "lanes" /\ LanesToLock(w) # {}
    <2>1. NextLane(w) \in LanesToLock(w) /\ LanesToLock(w) \subseteq Lanes
      BY <1>2, PlacesOnly, NextLaneIsFirst
    <2>2. Progress(w) = 1 + NextLane(w)
      BY <1>2 DEF Progress
    <2> QED
      BY <1>1, <2>1, <2>2 DEF Lanes
  <1>3. CASE ~ (tx[w].step = "lanes" /\ LanesToLock(w) # {})
    BY <1>1, <1>3 DEF Progress
  <1> QED
    BY <1>2, <1>3

LEMMA WaitsForOneFurther ==
  ASSUME BoardInv, NEW w \in Placing, NEW v \in Placing, WaitsFor(w, v)
  PROVE  Progress(w) < Progress(v)
  <1>1. w \in Boarders /\ v \in Boarders /\ tx[v].op \in Placements /\ tx[v].board = <<>> /\ LastLane \in Nat
    BY LanesAssumption DEF Placing, Placements
  <1>2. Control(v) /\ Ordered(v)
    BY <1>1 DEF BoardInv, Sound
  <1>3. CASE tx[w].step = "lanes" /\ LanesToLock(w) # {} /\ NextLane(w) \in holds[v]
    <2>1. Progress(w) = 1 + NextLane(w) /\ NextLane(w) \in Lanes /\ NextLane(w) # Layout
      BY <1>1, <1>3, ProgressIsBounded DEF Lanes, Layout
    <2>2. tx[v].step \in {"lanes", "written"}
      BY <1>1, <1>2, <1>3, <2>1 DEF Ordered
    <2>3. CASE tx[v].step = "lanes" /\ LanesToLock(v) # {}
      <3>1. Progress(v) = 1 + NextLane(v) /\ NextLane(v) \in Lanes /\ NextLane(v) \in LanesToLock(v)
        BY <1>1, <2>3, ProgressIsBounded
      <3>2. NextLane(w) < NextLane(v)
        BY <1>1, <1>2, <1>3, <2>1, <2>3, <3>1 DEF Ordered
      <3> QED
        BY <2>1, <3>1, <3>2 DEF Lanes
    <2>4. CASE ~ (tx[v].step = "lanes" /\ LanesToLock(v) # {})
      <3>1. Progress(v) = LastLane + 2
        BY <2>2, <2>4 DEF Progress
      <3> QED
        BY <1>1, <2>1, <3>1 DEF Lanes
    <2> QED
      BY <2>3, <2>4
  <1>4. CASE tx[w].step = "layout" /\ Layout \in holds[v]
    <2>1. Progress(w) = 1
      BY <1>4 DEF Progress
    <2>2. tx[v].step # "layout" /\ tx[v].step # "campaign"
      BY <1>2, <1>4 DEF Control
    <2>3. CASE tx[v].step = "lanes" /\ LanesToLock(v) # {}
      <3>1. Progress(v) = 1 + NextLane(v) /\ NextLane(v) \in Lanes
        BY <1>1, <2>3, ProgressIsBounded
      <3> QED
        BY <2>1, <3>1 DEF Lanes
    <2>4. CASE ~ (tx[v].step = "lanes" /\ LanesToLock(v) # {})
      <3>1. Progress(v) = LastLane + 2
        BY <2>2, <2>4 DEF Progress
      <3> QED
        BY <1>1, <2>1, <3>1
    <2> QED
      BY <2>3, <2>4
  <1>5. CASE tx[w].step = "campaign" /\ tx[v].card = tx[w].card /\ tx[v].step # "campaign"
    <2>1. Progress(w) = 0
      BY <1>5 DEF Progress
    <2>2. CASE tx[v].step = "lanes" /\ LanesToLock(v) # {}
      <3>1. Progress(v) = 1 + NextLane(v) /\ NextLane(v) \in Lanes
        BY <1>1, <2>2, ProgressIsBounded
      <3> QED
        BY <2>1, <3>1 DEF Lanes
    <2>3. CASE ~ (tx[v].step = "lanes" /\ LanesToLock(v) # {})
      <3>1. Progress(v) = 1 \/ Progress(v) = LastLane + 2
        BY <1>5, <2>3 DEF Progress
      <3> QED
        BY <1>1, <2>1, <3>1
    <2> QED
      BY <2>2, <2>3
  <1> QED
    BY <1>3, <1>4, <1>5 DEF WaitsFor

(* Of any placements that have made no lane, the one that has come furthest waits    *)
(* for none of them: no circle, however many there are and wherever they go.        *)
THEOREM PlacementsDoNotDeadlock == BoardSpec => []PlacementsNeverDeadlock
  <1>1. ASSUME BoardInv, NEW S \in SUBSET Placing, S # {}
        PROVE  \E w \in S : \A v \in S : ~WaitsFor(w, v)
    <2>1. \A w \in S : w \in Placing /\ w \in Boarders
      BY DEF Placing
    <2>2. LastLane \in Nat /\ \A w \in S : Progress(w) \in 0..(LastLane + 2)
      BY <1>1, <2>1, ProgressIsBounded, LanesAssumption
    <2> DEFINE T == {LastLane + 2 - Progress(w) : w \in S}
    <2>3. T \subseteq Nat /\ T # {}
      BY <1>1, <2>2
    <2>4. PICK x \in T : \A y \in T : x <= y
      BY <2>3, LeastNumber
    <2>5. PICK w \in S : x = LastLane + 2 - Progress(w)
      BY <2>4
    <2>6. \A v \in S : LastLane + 2 - Progress(w) <= LastLane + 2 - Progress(v)
      BY <2>4, <2>5
    <2>7. \A v \in S : ~ (Progress(w) < Progress(v))
      BY <2>2, <2>6
    <2>8. \A v \in S : ~WaitsFor(w, v)
      BY <1>1, <2>1, <2>7, WaitsForOneFurther
    <2> QED
      BY <2>8
  <1>2. BoardInv => PlacementsNeverDeadlock
    BY <1>1 DEF PlacementsNeverDeadlock
  <1> QED
    BY <1>2, BoardAlwaysSound, PTL

-----------------------------------------------------------------------------
(* The board of tasks *)

(* A request that is at work.                                                   *)
MoverSteps == {"project", "pick", "check", "write", "tell"}
Mover == [op : {"create", "update", "move", "column"}, step : MoverSteps, task : SUBSET KanbanTasks,
          column : SUBSET KanbanColumns, from : SUBSET KanbanColumns, position : 0..MaxPosition,
          dest : 0..MaxPosition, max : Nat, assignee : Assignee, was : Assignee, turn : Nat,
          by : SUBSET Teammates, stale : BOOLEAN, raced : BOOLEAN, outrun : BOOLEAN]

TaskTypes ==
    /\ columns \in [KanbanColumns -> 0..MaxPosition]
    /\ tasks \in [KanbanTasks -> Task \cup {NoTask}]
    /\ team \in Seq(Teammates) /\ mode \in {"off", "round_robin", "least_busy"} /\ cursor \in Nat
    /\ movers \in [Movers -> Mover \cup {NoRequest}]
    /\ notified \in [KanbanTasks -> SUBSET Teammates] /\ turns \in [Teammates -> Nat]
    /\ hushed \subseteq KanbanTasks /\ tangled \subseteq KanbanColumns /\ skewed \in BOOLEAN

(* What each kind of request names.                                             *)
AsksFor(r) ==
    /\ r.op \in {"create", "update", "move"} => \E t \in KanbanTasks : r.task = {t}
    /\ r.op \in {"create", "move", "column"} => \E c \in KanbanColumns : r.column = {c}
    /\ r.op = "create" => r.was = {} /\ r.from = {}
    /\ r.op = "update" => r.column = {} /\ r.from = {}
    /\ r.op = "move" => (\E a \in KanbanColumns : r.from = {a}) /\ r.position > 0
    /\ r.op \in {"move", "column"} => r.step = "write" /\ r.dest > 0
    /\ r.op = "column" => r.task = {} /\ r.from = {}

(* A task has a column, and nobody else has the task or the column that a request  *)
(* will create.                                                                *)
IdsAreFresh ==
    /\ \A t \in KanbanTasks : There(t) => tasks[t].column \in OnBoard
    /\ \A w, v \in Movers : w # v /\ movers[v].op # "none" =>
         /\ movers[w].op = "create" /\ movers[w].step # "tell" => movers[v].task # movers[w].task
         /\ movers[w].op = "column" => movers[w].column \cap (movers[v].column \cup movers[v].from) = {}
    /\ \A w \in Movers :
         /\ movers[w].op = "create" /\ movers[w].step # "tell" => \A t \in movers[w].task : ~There(t)
         /\ movers[w].op = "column" => movers[w].column \cap OnBoard = {}

(* Positions of columns differ even when two requests left a gap.                *)
ColumnsKept ==
    /\ \A c, d \in OnBoard : c # d => columns[c] # columns[d]
    /\ ~skewed =>
         /\ \A c \in OnBoard : columns[c] <= Cardinality(OnBoard)
         /\ \A w \in Movers : movers[w].op = "column" /\ ~movers[w].stale =>
              movers[w].max <= Cardinality(OnBoard)

(* What a request that is not stale has read of a column is still so.              *)
InPlace(c) ==
    /\ \A t \in TasksOf(c) : tasks[t].position <= Cardinality(TasksOf(c))
    /\ \A s, t \in TasksOf(c) : s # t => tasks[s].position # tasks[t].position

ReadsHold(w) ==
    movers[w].op \in {"create", "move"} /\ movers[w].step = "write" /\ ~movers[w].stale =>
        /\ \A c \in movers[w].column \ tangled : movers[w].max = Cardinality(TasksOf(c))
        /\ movers[w].op = "move" =>
             \A t \in movers[w].task, a \in movers[w].from :
               There(t) /\ tasks[t].column = a /\ tasks[t].position = movers[w].position

PlacesKept ==
    /\ \A c \in KanbanColumns \ tangled : InPlace(c)
    /\ \A w \in Movers : ReadsHold(w)

(* Whose task it is knows so or will be told, and a request that no other overtook *)
(* knows whose it is.                                                          *)
Tells(w, t) == movers[w].op # "none" /\ movers[w].step = "tell" /\ movers[w].task = {t}

HandsKept ==
    /\ \A t \in KanbanTasks \ hushed : There(t) =>
         \/ tasks[t].assignee \subseteq notified[t]
         \/ \E w \in Movers : Tells(w, t) /\ movers[w].assignee = tasks[t].assignee
    /\ \A w \in Movers : movers[w].op = "update" /\ movers[w].step # "tell" /\ ~movers[w].raced =>
         \A t \in movers[w].task : There(t) => movers[w].was \in {{}, tasks[t].assignee}

(* How long the i-th of the team waits for his turn: those who had theirs this round *)
(* wait longest.                                                              *)
WaitsFrom(e, n, i) == IF i > e THEN i - e ELSE i - e + n
Waits(i) == WaitsFrom(cursor % Len(team), Len(team), i)

TurnsKept ==
    /\ \A i, j \in 1..Len(team) : i # j => team[i] # team[j]
    /\ \A m \in Teammates : turns[m] \in {0, 1} /\ (turns[m] = 1 => IsMember(m))
    /\ team # <<>> => \E i \in 1..Len(team) : turns[team[i]] = 0
    /\ \A i, j \in 1..Len(team) : Waits(i) <= Waits(j) /\ turns[team[j]] = 0 => turns[team[i]] = 0
    /\ \A w \in Movers : movers[w].op # "none" /\ movers[w].step = "pick" /\ ~movers[w].outrun =>
         movers[w].turn = cursor

TaskBoardInv ==
    /\ TaskTypes /\ (\A w \in Movers : AsksFor(movers[w]))
    /\ IdsAreFresh /\ ColumnsKept /\ PlacesKept /\ HandsKept /\ TurnsKept

-------------------------------------------------------------------------------
(* Requests *)

(* s is the request r, but for what it has missed.                              *)
MarkedAs(r, s) ==
    /\ s.op = r.op /\ s.step = r.step /\ s.task = r.task /\ s.column = r.column /\ s.from = r.from
    /\ s.position = r.position /\ s.dest = r.dest /\ s.max = r.max /\ s.assignee = r.assignee
    /\ s.was = r.was /\ s.turn = r.turn /\ s.by = r.by
    /\ (r.stale => s.stale) /\ (r.raced => s.raced) /\ (r.outrun => s.outrun)

LEMMA NobodyIsAssignee ==
  /\ {} \in Assignee
  /\ \A m \in Teammates : {m} \in Assignee
  <1>1. Cardinality({}) = 0
    BY FS_EmptySet
  <1>2. ASSUME NEW m \in Teammates
        PROVE  {m} \in Assignee
    <2>1. Cardinality({m}) = 1
      BY FS_Singleton
    <2> QED
      BY <2>1 DEF Assignee
  <1> QED
    BY <1>1, <1>2 DEF Assignee

LEMMA MoverIs ==
  ASSUME TaskTypes, NEW w \in Movers
  PROVE  /\ movers[w].op # "none" => movers[w] \in Mover
         /\ movers[w].op = "none" => movers[w] = NoRequest
  BY DEF TaskTypes, NoRequest, Mover

LEMMA MarkedIs ==
  ASSUME NEW r \in Mover
  PROVE  /\ [r EXCEPT !.stale = TRUE] \in Mover /\ MarkedAs(r, [r EXCEPT !.stale = TRUE])
         /\ [r EXCEPT !.raced = TRUE] \in Mover /\ MarkedAs(r, [r EXCEPT !.raced = TRUE])
         /\ [r EXCEPT !.outrun = TRUE] \in Mover /\ MarkedAs(r, [r EXCEPT !.outrun = TRUE])
  BY DEF Mover, MarkedAs

LEMMA SameIsMarked ==
  ASSUME NEW r
  PROVE  MarkedAs(r, r)
  BY DEF MarkedAs

LEMMA MarkedAsksFor ==
  ASSUME NEW r, NEW s, MarkedAs(r, s), AsksFor(r)
  PROVE  AsksFor(s)
  BY DEF MarkedAs, AsksFor

LEMMA NobodyAsks == NoRequest.op = "none" /\ AsksFor(NoRequest)
  BY DEF NoRequest, AsksFor

LEMMA FreshRequest ==
  ASSUME NEW op \in {"create", "update", "move", "column"}, NEW step \in MoverSteps, NEW by,
         by \subseteq Teammates
  PROVE  NewRequest(op, step, by) \in Mover
  BY NobodyIsAssignee, TaskBoardAssumption DEF NewRequest, Mover

-------------------------------------------------------------------------------
(* What a step leaves alone *)

CarriesOn(v) ==
    \/ movers'[v] = NoRequest
    \/ /\ movers'[v].op = movers[v].op /\ movers'[v].task = movers[v].task
       /\ movers'[v].column = movers[v].column /\ movers'[v].from = movers[v].from
       /\ movers[v].step = "tell" => movers'[v].step = "tell"

LEMMA MarkedCarriesOn ==
  ASSUME NEW v \in Movers, MarkedAs(movers[v], movers'[v])
  PROVE  CarriesOn(v)
  BY DEF MarkedAs, CarriesOn

(* Ids stay fresh while requests go on, end, or create what they are for.         *)
LEMMA IdsGoOn ==
  ASSUME TaskTypes, IdsAreFresh, \A v \in Movers : CarriesOn(v) /\ AsksFor(movers[v]),
         \A t \in KanbanTasks : There(t)' => tasks'[t].column \in OnBoard',
         \A t \in KanbanTasks : There(t)' /\ ~There(t) =>
           \E w \in Movers : /\ movers[w].op = "create" /\ movers[w].step # "tell" /\ movers[w].task = {t}
                             /\ movers'[w].op # "create" \/ movers'[w].step = "tell",
         \A c \in OnBoard' : c \in OnBoard \/
           \E w \in Movers : movers[w].op = "column" /\ c \in movers[w].column /\ movers'[w] = NoRequest
  PROVE  IdsAreFresh'
  <1>1. NoRequest.op = "none"
    BY NobodyAsks
  <1>2. ASSUME NEW w \in Movers, NEW v \in Movers, w # v, movers'[v].op # "none"
        PROVE  /\ movers'[w].op = "create" /\ movers'[w].step # "tell" => movers'[v].task # movers'[w].task
               /\ movers'[w].op = "column" =>
                    movers'[w].column \cap (movers'[v].column \cup movers'[v].from) = {}
    BY <1>1, <1>2 DEF CarriesOn, IdsAreFresh
  <1>3. ASSUME NEW w \in Movers, movers'[w].op = "create", movers'[w].step # "tell", NEW t \in movers'[w].task,
               There(t)', t \in KanbanTasks
        PROVE  FALSE
    <2>1. movers[w].op = "create" /\ movers[w].step # "tell" /\ t \in movers[w].task
      BY <1>1, <1>3 DEF CarriesOn
    <2>2. ~There(t)
      BY <2>1 DEF IdsAreFresh
    <2>3. PICK v \in Movers : /\ movers[v].op = "create" /\ movers[v].step # "tell" /\ movers[v].task = {t}
                              /\ movers'[v].op # "create" \/ movers'[v].step = "tell"
      BY <1>3, <2>2
    <2>4. v # w
      BY <1>3, <2>3
    <2>5. movers[w].task = {t}
      BY <2>1 DEF AsksFor
    <2>6. movers[v].task # movers[w].task
      BY <2>1, <2>3, <2>4 DEF IdsAreFresh
    <2> QED
      BY <2>3, <2>5, <2>6
  <1>4. ASSUME NEW w \in Movers, movers'[w].op = "column", NEW c \in movers'[w].column, c \in OnBoard'
        PROVE  FALSE
    <2>1. movers[w].op = "column" /\ c \in movers[w].column
      BY <1>1, <1>4 DEF CarriesOn
    <2>2. PICK v \in Movers : movers[v].op = "column" /\ c \in movers[v].column /\ movers'[v] = NoRequest
      BY <1>4, <2>1 DEF IdsAreFresh
    <2>3. v # w
      BY <1>1, <1>4, <2>2
    <2> QED
      BY <2>1, <2>2, <2>3 DEF IdsAreFresh
  <1>5. ASSUME NEW w \in Movers, movers'[w].op = "create", movers'[w].step # "tell", NEW t \in movers'[w].task
        PROVE  t \in KanbanTasks
    BY <1>1, <1>5, MoverIs DEF CarriesOn, Mover
  <1> QED
    BY <1>2, <1>3, <1>4, <1>5 DEF IdsAreFresh

(* A request for a column stays one.                                            *)
SameColumnRequest(v) ==
    movers'[v].op = "column" =>
        movers[v].op = "column" /\ movers'[v].max = movers[v].max /\ (movers[v].stale => movers'[v].stale)

LEMMA ColumnsStay ==
  ASSUME ColumnsKept, UNCHANGED <<columns, skewed>>,
         \A v \in Movers : SameColumnRequest(v) \/ skewed \/ movers'[v].max <= Cardinality(OnBoard)
  PROVE  ColumnsKept'
  <1>1. OnBoard' = OnBoard
    BY DEF OnBoard
  <1> QED
    BY <1>1 DEF ColumnsKept, SameColumnRequest

(* A request about to place a task was so before, and if a column it has read is among  *)
(* those of S it knows.                                                        *)
SamePlacement(v, S) ==
    movers'[v].op \in {"create", "move"} /\ movers'[v].step = "write" =>
        /\ movers[v].op = movers'[v].op /\ movers[v].step = "write"
        /\ movers'[v].task = movers[v].task /\ movers'[v].column = movers[v].column
        /\ movers'[v].from = movers[v].from /\ movers'[v].position = movers[v].position
        /\ movers'[v].max = movers[v].max
        /\ (movers[v].stale => movers'[v].stale)
        /\ S \cap (movers[v].column \cup movers[v].from) # {} => movers'[v].stale

SameTasks(c) ==
    /\ TasksOf(c)' = TasksOf(c)
    /\ \A t \in TasksOf(c) : tasks'[t].position = tasks[t].position

LEMMA PlacesStay ==
  ASSUME TaskTypes, PlacesKept, NEW S, \A v \in Movers : SamePlacement(v, S) \/ ReadsHold(v)',
         \A v \in Movers : AsksFor(movers[v]),
         \A c \in KanbanColumns \ S : SameTasks(c),
         \A c \in S \ tangled' : c \in KanbanColumns => InPlace(c)',
         tangled \ S \subseteq tangled'
  PROVE  PlacesKept'
  <1>1. ASSUME NEW c \in KanbanColumns \ tangled'
        PROVE  InPlace(c)'
    <2>1. CASE c \in S
      BY <2>1
    <2>2. CASE c \notin S
      <3>1. InPlace(c) /\ SameTasks(c)
        BY <2>2 DEF PlacesKept
      <3> QED
        BY <3>1 DEF InPlace, SameTasks
    <2> QED
      BY <2>1, <2>2
  <1>2. ASSUME NEW w \in Movers, SamePlacement(w, S),
               movers'[w].op \in {"create", "move"}, movers'[w].step = "write", ~movers'[w].stale
        PROVE  /\ \A c \in movers'[w].column \ tangled' : movers'[w].max = Cardinality(TasksOf(c))'
               /\ movers'[w].op = "move" =>
                    \A t \in movers'[w].task, a \in movers'[w].from :
                      There(t)' /\ tasks'[t].column = a /\ tasks'[t].position = movers'[w].position
    <2>1. /\ movers[w].op = movers'[w].op /\ movers[w].step = "write"
          /\ movers'[w].task = movers[w].task /\ movers'[w].column = movers[w].column
          /\ movers'[w].from = movers[w].from /\ movers'[w].position = movers[w].position
          /\ movers'[w].max = movers[w].max
          /\ ~movers[w].stale
          /\ S \cap (movers[w].column \cup movers[w].from) = {}
      BY <1>2 DEF SamePlacement
    <2>2. ReadsHold(w) /\ movers[w] \in Mover
      BY <1>2, <2>1, MoverIs DEF PlacesKept
    <2>3. movers[w].column \subseteq KanbanColumns /\ movers[w].from \subseteq KanbanColumns
          /\ movers[w].task \subseteq KanbanTasks
      BY <2>2 DEF Mover
    <2>4. ASSUME NEW c \in movers'[w].column \ tangled'
          PROVE  movers'[w].max = Cardinality(TasksOf(c))'
      <3>1. c \in KanbanColumns \ S /\ c \notin tangled
        BY <2>1, <2>3, <2>4
      <3>2. TasksOf(c)' = TasksOf(c)
        BY <3>1 DEF SameTasks
      <3>3. movers[w].max = Cardinality(TasksOf(c))
        BY <1>2, <2>1, <2>2, <3>1 DEF ReadsHold
      <3> QED
        BY <2>1, <3>2, <3>3
    <2>5. ASSUME movers'[w].op = "move", NEW t \in movers'[w].task, NEW a \in movers'[w].from
          PROVE  There(t)' /\ tasks'[t].column = a /\ tasks'[t].position = movers'[w].position
      <3>1. There(t) /\ tasks[t].column = a /\ tasks[t].position = movers[w].position
        BY <1>2, <2>1, <2>2, <2>5 DEF ReadsHold
      <3>2. a \in KanbanColumns \ S /\ t \in TasksOf(a)
        BY <2>1, <2>3, <2>5, <3>1 DEF TasksOf
      <3>3. t \in TasksOf(a)' /\ tasks'[t].position = tasks[t].position
        BY <3>2 DEF SameTasks
      <3> QED
        BY <2>1, <3>1, <3>3 DEF TasksOf
    <2> QED
      BY <2>4, <2>5
  <1>3. \A w \in Movers : ReadsHold(w)'
    BY <1>2 DEF ReadsHold
  <1> QED
    BY <1>1, <1>3 DEF PlacesKept

(* A request that tells or changes whose a task is stays one.                      *)
SameHands(v) ==
    /\ movers[v].op # "none" /\ movers[v].step = "tell" =>
         movers'[v].op # "none" /\ movers'[v].step = "tell" /\ movers'[v].task = movers[v].task
           /\ movers'[v].assignee = movers[v].assignee
    /\ movers'[v].op = "update" /\ movers'[v].step # "tell" =>
         /\ movers[v].op = "update" /\ movers[v].step # "tell" /\ movers'[v].task = movers[v].task
         /\ movers'[v].was = movers[v].was /\ (movers[v].raced => movers'[v].raced)

LEMMA HandsStay ==
  ASSUME TaskTypes, HandsKept, \A v \in Movers : SameHands(v), hushed' = hushed,
         \A t \in KanbanTasks : There(t)' =>
           There(t) /\ tasks'[t].assignee = tasks[t].assignee /\ notified'[t] = notified[t]
  PROVE  HandsKept'
  <1>1. ASSUME NEW t \in KanbanTasks \ hushed', There(t)'
        PROVE  \/ tasks'[t].assignee \subseteq notified'[t]
               \/ \E w \in Movers : Tells(w, t)' /\ movers'[w].assignee = tasks'[t].assignee
    BY <1>1 DEF HandsKept, SameHands, Tells
  <1>2. ASSUME NEW w \in Movers, movers'[w].op = "update", movers'[w].step # "tell", ~movers'[w].raced,
               NEW t \in movers'[w].task, There(t)'
        PROVE  movers'[w].was \in {{}, tasks'[t].assignee}
    <2>1. movers[w].op = "update" /\ movers[w].step # "tell" /\ ~movers[w].raced /\ t \in movers[w].task
          /\ movers'[w].was = movers[w].was
      BY <1>2 DEF SameHands
    <2>2. t \in KanbanTasks
      BY <2>1, MoverIs DEF Mover
    <2>3. There(t) /\ tasks'[t].assignee = tasks[t].assignee
      BY <1>2, <2>2
    <2> QED
      BY <2>1, <2>3 DEF HandsKept
  <1> QED
    BY <1>1, <1>2 DEF HandsKept

(* A request whose turn it is to pick stays one.                                  *)
SamePick(v) ==
    movers'[v].op # "none" /\ movers'[v].step = "pick" =>
        movers[v].op # "none" /\ movers[v].step = "pick" /\ movers'[v].turn = movers[v].turn
          /\ (movers[v].outrun => movers'[v].outrun)

LEMMA TurnsStay ==
  ASSUME TurnsKept, UNCHANGED <<team, cursor, turns>>,
         \A v \in Movers : SamePick(v) \/ movers'[v].turn = cursor
  PROVE  TurnsKept'
  <1>1. \A i : Waits(i)' = Waits(i)
    BY DEF Waits
  <1>2. \A m : IsMember(m)' = IsMember(m)
    BY DEF IsMember
  <1> QED
    BY <1>1, <1>2 DEF TurnsKept, SamePick

(* All of that for a request that is marked or ends.                              *)
Quiet(v, S) ==
    \/ movers'[v] = NoRequest /\ ~(movers[v].op # "none" /\ movers[v].step = "tell")
    \/ /\ MarkedAs(movers[v], movers'[v])
       /\ ReadBefore(v, S) => movers'[v].stale

LEMMA QuietIs ==
  ASSUME NEW v \in Movers, NEW S, Quiet(v, S)
  PROVE  CarriesOn(v) /\ SameColumnRequest(v) /\ SamePlacement(v, S) /\ SameHands(v) /\ SamePick(v)
  <1>1. CASE movers'[v] = NoRequest /\ ~(movers[v].op # "none" /\ movers[v].step = "tell")
    BY <1>1, NobodyAsks DEF CarriesOn, SameColumnRequest, SamePlacement, SameHands, SamePick
  <1>2. CASE MarkedAs(movers[v], movers'[v]) /\ (ReadBefore(v, S) => movers'[v].stale)
    BY <1>2 DEF CarriesOn, SameColumnRequest, SamePlacement, SameHands, SamePick, MarkedAs, ReadBefore
  <1> QED
    BY <1>1, <1>2 DEF Quiet

-------------------------------------------------------------------------------
(* Requests that begin, read and fail *)

LEMMA OneRequest ==
  ASSUME TaskTypes, NEW w \in Movers, NEW r \in Mover \cup {NoRequest}, movers' = [movers EXCEPT ![w] = r],
         \A v \in Movers : AsksFor(movers[v]), AsksFor(r)
  PROVE  /\ movers' \in [Movers -> Mover \cup {NoRequest}]
         /\ \A v \in Movers : AsksFor(movers'[v])
         /\ movers'[w] = r
         /\ \A v \in Movers : v # w => movers'[v] = movers[v] /\ MarkedAs(movers[v], movers'[v])
  <1>1. movers' \in [Movers -> Mover \cup {NoRequest}] /\ movers'[w] = r
        /\ \A v \in Movers : v # w => movers'[v] = movers[v]
    BY DEF TaskTypes
  <1> QED
    BY <1>1, SameIsMarked

LEMMA SameRows ==
  ASSUME UNCHANGED <<columns, tasks>>
  PROVE  /\ OnBoard' = OnBoard
         /\ \A t : There(t)' = There(t)
         /\ \A c : SameTasks(c)
  BY DEF OnBoard, There, SameTasks, TasksOf

(* A step that changes the requests and the team alone: what is to be shown of the one *)
(* that acts.                                                                 *)
LEMMA ActsAlone ==
  ASSUME TaskBoardInv, NEW w,
         UNCHANGED <<columns, tasks, tangled, skewed>>,
         \A v \in Movers : v # w => MarkedAs(movers[v], movers'[v])
  PROVE  /\ (w \in Movers => CarriesOn(w)) => IdsAreFresh'
         /\ (w \in Movers => SameColumnRequest(w)) => ColumnsKept'
         /\ (w \in Movers => SamePlacement(w, {}) \/ ReadsHold(w)') => PlacesKept'
         /\ UNCHANGED <<notified, hushed>> /\ (w \in Movers => SameHands(w)) => HandsKept'
         /\ UNCHANGED <<team, cursor, turns>> /\ (w \in Movers => SamePick(w) \/ movers'[w].turn = cursor)
              => TurnsKept'
  <1>1. ASSUME NEW v \in Movers, v # w
        PROVE  CarriesOn(v) /\ SameColumnRequest(v) /\ SamePlacement(v, {}) /\ SameHands(v) /\ SamePick(v)
    <2>1. Quiet(v, {})
      BY <1>1 DEF Quiet, ReadBefore
    <2> QED
      BY <2>1, QuietIs
  <1>2. /\ OnBoard' = OnBoard
        /\ \A t : There(t)' = There(t)
        /\ \A c : SameTasks(c)
    BY SameRows
  <1>3. ASSUME w \in Movers => CarriesOn(w)
        PROVE  IdsAreFresh'
    <2>1. \A v \in Movers : CarriesOn(v) /\ AsksFor(movers[v])
      BY <1>1, <1>3 DEF TaskBoardInv
    <2>2. \A t \in KanbanTasks : There(t)' => tasks'[t].column \in OnBoard'
      BY <1>2 DEF TaskBoardInv, IdsAreFresh
    <2> QED
      BY <1>2, <2>1, <2>2, IdsGoOn DEF TaskBoardInv
  <1>4. ASSUME w \in Movers => SameColumnRequest(w)
        PROVE  ColumnsKept'
    <2>1. \A v \in Movers : SameColumnRequest(v)
      BY <1>1, <1>4
    <2> QED
      BY <2>1, ColumnsStay DEF TaskBoardInv
  <1>5. ASSUME w \in Movers => SamePlacement(w, {}) \/ ReadsHold(w)'
        PROVE  PlacesKept'
    <2>1. \A v \in Movers : SamePlacement(v, {}) \/ ReadsHold(v)'
      BY <1>1, <1>5
    <2>2. \A v \in Movers : AsksFor(movers[v])
      BY DEF TaskBoardInv
    <2> QED
      BY <1>2, <2>1, <2>2, PlacesStay DEF TaskBoardInv
  <1>6. ASSUME UNCHANGED <<notified, hushed>>, w \in Movers => SameHands(w)
        PROVE  HandsKept'
    <2>1. \A v \in Movers : SameHands(v)
      BY <1>1, <1>6
    <2> QED
      BY <1>2, <1>6, <2>1, HandsStay DEF TaskBoardInv
  <1>7. ASSUME UNCHANGED <<team, cursor, turns>>, w \in Movers => SamePick(w) \/ movers'[w].turn = cursor
        PROVE  TurnsKept'
    <2>1. \A v \in Movers : SamePick(v) \/ movers'[v].turn = cursor
      BY <1>1, <1>7
    <2> QED
      BY <1>7, <2>1, TurnsStay DEF TaskBoardInv
  <1> QED
    BY <1>3, <1>4, <1>5, <1>6, <1>7

LEMMA RequestTypes ==
  ASSUME TaskTypes, UNCHANGED <<columns, tasks, team, mode, cursor, notified, hushed, turns, tangled, skewed>>,
         movers' \in [Movers -> Mover \cup {NoRequest}]
  PROVE  TaskTypes'
  BY DEF TaskTypes

(* A request that was idle names what nobody else has to create.                    *)
LEMMA IdsOfANewRequest ==
  ASSUME TaskTypes, IdsAreFresh, UNCHANGED <<columns, tasks>>, NEW w \in Movers, movers[w] = NoRequest, NEW r \in Mover,
         movers'[w] = r, \A v \in Movers : v # w => movers'[v] = movers[v],
         \A v \in Movers : AsksFor(movers[v]), AsksFor(r), r.step # "tell",
         r.op = "create" => \A t \in r.task : NewTaskId(t),
         r.op # "create" => \A t \in r.task : There(t),
         r.op = "column" => \A c \in r.column : NewColumnId(c),
         r.op # "column" => r.column \cup r.from \subseteq OnBoard
  PROVE  IdsAreFresh'
  <1>1. /\ OnBoard' = OnBoard
        /\ \A t : There(t)' = There(t)
    BY SameRows
  <1>2. ASSUME NEW v \in Movers, v # w, movers[v].op # "none"
        PROVE  /\ r.op = "create" => movers[v].task # r.task
               /\ r.op = "column" => r.column \cap (movers[v].column \cup movers[v].from) = {}
    <2>1. v \in AtWork
      BY <1>2 DEF AtWork
    <2>2. r.op = "create" => movers[v].task # r.task
      BY <2>1 DEF NewTaskId, AsksFor
    <2>3. r.op = "column" => r.column \cap (movers[v].column \cup movers[v].from) = {}
      BY <2>1 DEF NewColumnId
    <2> QED
      BY <2>2, <2>3
  <1>3. ASSUME NEW v \in Movers, v # w, movers[v].op # "none"
        PROVE  /\ movers[v].op = "create" /\ movers[v].step # "tell" => movers[v].task # r.task
               /\ movers[v].op = "column" => movers[v].column \cap (r.column \cup r.from) = {}
    <2>1. CASE r.op = "create"
      <3>1. movers[v].task # r.task
        BY <1>2, <1>3, <2>1
      <3>2. movers[v].op = "column" => movers[v].column \cap OnBoard = {}
        BY DEF IdsAreFresh
      <3> QED
        BY <2>1, <3>1, <3>2
    <2>2. CASE r.op = "column"
      <3>1. r.task = {} /\ r.from = {}
        BY <2>2 DEF AsksFor
      <3>2. r.column \cap movers[v].column = {}
        BY <1>2, <1>3, <2>2
      <3>3. movers[v].op = "create" => movers[v].task # {}
        BY DEF AsksFor
      <3> QED
        BY <2>2, <3>1, <3>2, <3>3
    <2>3. CASE r.op \notin {"create", "column"}
      <3>1. movers[v].op = "create" /\ movers[v].step # "tell" => \A t \in movers[v].task : ~There(t)
        BY DEF IdsAreFresh
      <3>2. \E t \in KanbanTasks : r.task = {t} /\ There(t)
        BY <2>3 DEF AsksFor, Mover
      <3>3. movers[v].op = "column" => movers[v].column \cap OnBoard = {}
        BY DEF IdsAreFresh
      <3> QED
        BY <2>3, <3>1, <3>2, <3>3
    <2> QED
      BY <2>1, <2>2, <2>3
  <1>4. /\ r.op = "create" => \A t \in r.task : ~There(t)
        /\ r.op = "column" => r.column \cap OnBoard = {}
    BY DEF NewTaskId, NewColumnId
  <1>5. \A v \in Movers : v # w /\ movers'[v].op # "none" => movers[v].op # "none"
    OBVIOUS
  <1>6. \A v, u \in Movers : v # u /\ movers'[u].op # "none" =>
         /\ movers'[v].op = "create" /\ movers'[v].step # "tell" => movers'[u].task # movers'[v].task
         /\ movers'[v].op = "column" => movers'[v].column \cap (movers'[u].column \cup movers'[u].from) = {}
    BY <1>2, <1>3 DEF IdsAreFresh
  <1>7. \A v \in Movers :
         /\ movers'[v].op = "create" /\ movers'[v].step # "tell" => \A t \in movers'[v].task : ~There(t)'
         /\ movers'[v].op = "column" => movers'[v].column \cap OnBoard' = {}
    BY <1>1, <1>4 DEF IdsAreFresh
  <1> QED
    BY <1>1, <1>6, <1>7 DEF IdsAreFresh

LEMMA FailRequestKeeps ==
  ASSUME TaskBoardInv, NEW w \in Movers, FailRequest(w)
  PROVE  TaskBoardInv'
  <1>1. /\ UNCHANGED <<columns, tasks, team, mode, cursor, notified, hushed, turns, tangled, skewed>>
        /\ movers' = [movers EXCEPT ![w] = NoRequest]
        /\ movers[w].op # "none" /\ movers[w].step # "tell"
    BY DEF FailRequest, Finished, AtWork
  <1>2. /\ movers' \in [Movers -> Mover \cup {NoRequest}]
        /\ \A v \in Movers : AsksFor(movers'[v])
        /\ movers'[w] = NoRequest
        /\ \A v \in Movers : v # w => MarkedAs(movers[v], movers'[v])
    BY <1>1, NobodyAsks, OneRequest DEF TaskBoardInv
  <1>3. Quiet(w, {})
    BY <1>1, <1>2 DEF Quiet
  <1>4. CarriesOn(w) /\ SameColumnRequest(w) /\ SamePlacement(w, {}) /\ SameHands(w) /\ SamePick(w)
    BY <1>3, QuietIs
  <1>5. TaskTypes'
    BY <1>1, <1>2, RequestTypes DEF TaskBoardInv
  <1>6. IdsAreFresh' /\ ColumnsKept' /\ PlacesKept' /\ HandsKept' /\ TurnsKept'
    BY <1>1, <1>2, <1>4, ActsAlone
  <1> QED
    BY <1>2, <1>5, <1>6 DEF TaskBoardInv

(* A request that begins.                                                       *)
LEMMA BeginKeeps ==
  ASSUME TaskBoardInv, NEW w \in Movers, movers[w] = NoRequest, NEW r \in Mover,
         movers' = [movers EXCEPT ![w] = r],
         UNCHANGED <<columns, tasks, team, mode, cursor, notified, hushed, turns, tangled, skewed>>,
         AsksFor(r), r.step \notin {"tell", "pick"},
         r.op = "create" => r.step # "write" /\ \A t \in r.task : NewTaskId(t),
         r.op # "create" => \A t \in r.task : There(t),
         r.op = "update" => \A t \in r.task : r.was \in {{}, tasks[t].assignee},
         r.op = "column" => /\ \A c \in r.column : NewColumnId(c)
                            /\ skewed \/ r.max <= Cardinality(OnBoard),
         r.op # "column" => r.column \cup r.from \subseteq OnBoard,
         r.op = "move" => /\ \A c \in r.column \ tangled : r.max = Cardinality(TasksOf(c))
                          /\ \A t \in r.task, a \in r.from : tasks[t].column = a /\ tasks[t].position = r.position
  PROVE  TaskBoardInv'
  <1>1. /\ movers' \in [Movers -> Mover \cup {NoRequest}]
        /\ \A v \in Movers : AsksFor(movers'[v])
        /\ movers'[w] = r
        /\ \A v \in Movers : v # w => movers'[v] = movers[v] /\ MarkedAs(movers[v], movers'[v])
    BY OneRequest DEF TaskBoardInv
  <1>2. TaskTypes'
    BY <1>1, RequestTypes DEF TaskBoardInv
  <1>3. IdsAreFresh'
    BY <1>1, IdsOfANewRequest DEF TaskBoardInv
  <1>4. /\ OnBoard' = OnBoard
        /\ \A t : There(t)' = There(t)
        /\ \A c : SameTasks(c)
    BY SameRows
  <1>5. SameColumnRequest(w) \/ skewed \/ movers'[w].max <= Cardinality(OnBoard)
    BY <1>1 DEF SameColumnRequest
  <1>6. ReadsHold(w)' \/ SamePlacement(w, {})
    <2>1. CASE r.op = "move"
      <3>1. \A c : TasksOf(c)' = TasksOf(c)
        BY <1>4 DEF SameTasks
      <3> QED
        BY <1>1, <1>4, <2>1, <3>1 DEF ReadsHold
    <2>2. CASE r.op # "move"
      BY <1>1, <2>2 DEF SamePlacement
    <2> QED
      BY <2>1, <2>2
  <1>7. SamePick(w)
    BY <1>1 DEF SamePick
  <1>8. ColumnsKept' /\ PlacesKept' /\ TurnsKept'
    <2>1. \A v \in Movers : v # w => SameColumnRequest(v)
      BY <1>1 DEF SameColumnRequest
    <2>2. ColumnsKept'
      BY <1>5, <2>1, ColumnsStay DEF TaskBoardInv
    <2> QED
      BY <1>1, <1>6, <1>7, <2>2, ActsAlone
  <1>9. HandsKept'
    <2>1. movers[w].op = "none"
      BY NobodyAsks
    <2>2. ASSUME NEW t \in KanbanTasks \ hushed', There(t)'
          PROVE  \/ tasks'[t].assignee \subseteq notified'[t]
                 \/ \E v \in Movers : Tells(v, t)' /\ movers'[v].assignee = tasks'[t].assignee
      <3>1. \/ tasks[t].assignee \subseteq notified[t]
            \/ \E v \in Movers : Tells(v, t) /\ movers[v].assignee = tasks[t].assignee
        BY <1>4, <2>2 DEF TaskBoardInv, HandsKept
      <3>2. ASSUME NEW v \in Movers, Tells(v, t), movers[v].assignee = tasks[t].assignee
            PROVE  Tells(v, t)' /\ movers'[v].assignee = tasks'[t].assignee
        BY <1>1, <2>1, <3>2 DEF Tells
      <3> QED
        BY <3>1, <3>2
    <2>3. ASSUME NEW v \in Movers, movers'[v].op = "update", movers'[v].step # "tell", ~movers'[v].raced,
                 NEW t \in movers'[v].task, There(t)'
          PROVE  movers'[v].was \in {{}, tasks'[t].assignee}
      <3>1. CASE v = w
        BY <1>1, <2>3, <3>1
      <3>2. CASE v # w
        BY <1>1, <1>4, <2>3, <3>2 DEF TaskBoardInv, HandsKept
      <3> QED
        BY <3>1, <3>2
    <2> QED
      BY <2>2, <2>3 DEF HandsKept
  <1> QED
    BY <1>1, <1>2, <1>3, <1>8, <1>9 DEF TaskBoardInv

LEMMA StartCreateKeeps ==
  ASSUME TaskBoardInv, NEW w \in Movers, NEW t \in KanbanTasks, NEW c \in OnBoard, NEW S \in Assignee,
         NEW b \in Teammates, StartCreate(w, t, c, S, b)
  PROVE  TaskBoardInv'
  <1>1. PICK s \in MoverSteps : s = (IF S = {} THEN "project" ELSE "check")
    BY DEF MoverSteps
  <1>2. PICK f : f = NewRequest("create", s, {b})
    OBVIOUS
  <1>3. f \in Mover /\ f.op = "create" /\ f.step = s /\ f.was = {} /\ f.from = {}
    <2>1. f \in Mover
      BY <1>2, FreshRequest
    <2> QED
      BY <1>2, <2>1 DEF NewRequest
  <1>4. PICK r : r = [f EXCEPT !.task = {t}, !.column = {c}, !.assignee = S]
    OBVIOUS
  <1>5. c \in KanbanColumns
    BY DEF OnBoard
  <1>6. r \in Mover /\ r.op = "create" /\ r.step = s /\ r.was = {} /\ r.from = {} /\ r.task = {t} /\ r.column = {c}
    BY <1>3, <1>4, <1>5 DEF Mover
  <1>7. /\ movers[w] = NoRequest /\ NewTaskId(t)
        /\ movers' = [movers EXCEPT ![w] = r]
        /\ UNCHANGED <<columns, tasks, team, mode, cursor, notified, hushed, turns, tangled, skewed>>
    BY <1>1, <1>2, <1>4 DEF StartCreate
  <1>8. AsksFor(r)
    BY <1>5, <1>6 DEF AsksFor
  <1>9. s \in {"project", "check"}
    BY <1>1
  <1> QED
    BY <1>6, <1>7, <1>8, <1>9, BeginKeeps

LEMMA TaskIs ==
  ASSUME TaskTypes, NEW t \in KanbanTasks, There(t)
  PROVE  tasks[t] \in Task
  BY DEF TaskTypes, There, NoTask

LEMMA StartUpdateKeeps ==
  ASSUME TaskBoardInv, NEW w \in Movers, NEW t \in KanbanTasks, NEW S \in Assignee,
         NEW b \in Teammates, StartUpdate(w, t, S, b)
  PROVE  TaskBoardInv'
  <1>1. /\ movers[w] = NoRequest /\ There(t)
        /\ UNCHANGED <<columns, tasks, team, mode, cursor, notified, hushed, turns, tangled, skewed>>
    BY DEF StartUpdate
  <1>2. PICK was \in {tasks[t].assignee, {}} : movers' = [movers EXCEPT ![w] =
           [NewRequest("update", IF S = {} /\ was # {} THEN "project" ELSE "check", {b})
              EXCEPT !.task = {t}, !.assignee = S, !.was = was]]
    BY DEF StartUpdate
  <1>3. was \in Assignee
    <2>1. tasks[t].assignee \in Assignee
      BY <1>1, TaskIs DEF TaskBoardInv, Task
    <2> QED
      BY <2>1, NobodyIsAssignee
  <1>4. PICK s \in MoverSteps : s = (IF S = {} /\ was # {} THEN "project" ELSE "check")
    BY DEF MoverSteps
  <1>5. PICK f : f = NewRequest("update", s, {b})
    OBVIOUS
  <1>6. f \in Mover /\ f.op = "update" /\ f.step = s /\ f.column = {} /\ f.from = {}
    <2>1. f \in Mover
      BY <1>5, FreshRequest
    <2> QED
      BY <1>5, <2>1 DEF NewRequest
  <1>7. PICK r : r = [f EXCEPT !.task = {t}, !.assignee = S, !.was = was]
    OBVIOUS
  <1>8. r \in Mover /\ r.op = "update" /\ r.step = s /\ r.column = {} /\ r.from = {} /\ r.task = {t} /\ r.was = was
    BY <1>3, <1>6, <1>7 DEF Mover
  <1>9. movers' = [movers EXCEPT ![w] = r]
    BY <1>2, <1>4, <1>5, <1>7
  <1>10. AsksFor(r)
    BY <1>8 DEF AsksFor
  <1>11. s \in {"project", "check"}
    BY <1>4
  <1> QED
    BY <1>1, <1>8, <1>9, <1>10, <1>11, BeginKeeps

-------------------------------------------------------------------------------
(* Numbers of tasks and columns *)

LEMMA MaxIs ==
  ASSUME NEW T \in SUBSET Nat, NEW m \in T, \A x \in T : x <= m
  PROVE  Max(T) = m
  <1>1. \A y \in T : m >= y
    OBVIOUS
  <1>2. Max(T) \in T /\ \A y \in T : Max(T) >= y
    BY <1>1 DEF Max
  <1>3. PICK g \in Nat : g = Max(T)
    BY <1>2
  <1>4. g >= m /\ m >= g /\ m \in Nat
    BY <1>1, <1>2, <1>3
  <1> QED
    BY <1>3, <1>4

LEMMA MinIs ==
  ASSUME NEW a \in Nat, NEW b \in Nat
  PROVE  /\ Min({a, b}) \in {a, b} /\ Min({a, b}) <= a /\ Min({a, b}) <= b
  <1>1. \E x \in {a, b} : \A y \in {a, b} : x <= y
    <2>1. CASE a <= b
      BY <2>1
    <2>2. CASE b <= a
      BY <2>2
    <2> QED
      BY <2>1, <2>2
  <1> QED
    BY <1>1 DEF Min

LEMMA GreatestNumber ==
  ASSUME NEW n \in Nat, NEW T, T \subseteq 0..n, T # {}
  PROVE  Max(T) \in T /\ \A x \in T : x <= Max(T)
  <1> DEFINE R == {n - x : x \in T}
  <1>1. R \subseteq Nat /\ R # {}
    <2>1. \A x \in T : x \in 0..n /\ n - x \in Nat
      OBVIOUS
    <2> QED
      BY <2>1
  <1>2. PICK d \in R : \A e \in R : d <= e
    BY <1>1, LeastNumber
  <1>3. PICK m \in T : d = n - m
    OBVIOUS
  <1>4. \A x \in T : x <= m
    BY <1>2, <1>3
  <1>5. Max(T) = m
    BY <1>4, MaxIs
  <1> QED
    BY <1>4, <1>5

LEMMA TasksOfIsFinite ==
  ASSUME NEW c
  PROVE  IsFiniteSet(TasksOf(c)) /\ Cardinality(TasksOf(c)) \in Nat
  <1>1. TasksOf(c) \subseteq KanbanTasks
    BY DEF TasksOf
  <1> QED
    BY <1>1, TaskBoardAssumption, FS_Subset, FS_CardinalityType

LEMMA OnBoardIsFinite == IsFiniteSet(OnBoard) /\ Cardinality(OnBoard) \in Nat
  <1>1. OnBoard \subseteq KanbanColumns
    BY DEF OnBoard
  <1> QED
    BY <1>1, TaskBoardAssumption, FS_Subset, FS_CardinalityType

(* 1 to n: the greatest position is the number of tasks.                           *)
LEMMA LastOf ==
  ASSUME NEW n \in Nat, NEW T, T = 1..n
  PROVE  Max({0} \cup T) = n
  <1>1. {0} \cup T \in SUBSET Nat /\ n \in {0} \cup T /\ \A x \in {0} \cup T : x <= n
    OBVIOUS
  <1> QED
    BY <1>1, MaxIs

LEMMA TasksOfIsNumbered ==
  ASSUME TaskTypes, NEW c \in KanbanColumns, InPlace(c)
  PROVE  {tasks[t].position : t \in TasksOf(c)} = 1..Cardinality(TasksOf(c))
  <1> DEFINE T == TasksOf(c)
             f == [t \in T |-> tasks[t].position]
  <1>1. IsFiniteSet(T) /\ Cardinality(T) \in Nat
    BY TasksOfIsFinite
  <1>2. \A t \in T : tasks[t].position \in 1..MaxPosition
    BY TaskIs DEF TasksOf, Task
  <1>3. f \in [T -> 1..Cardinality(T)] /\ \A s, t \in T : s # t => f[s] # f[t]
    <2>1. \A t \in T : tasks[t].position \in 1..Cardinality(T)
      BY <1>1, <1>2, TaskBoardAssumption DEF InPlace
    <2> QED
      BY <2>1 DEF InPlace
  <1> HIDE DEF f
  <1>4. {f[t] : t \in T} = 1..Cardinality(T)
    BY <1>1, <1>3, NumbersAreAllTaken
  <1> QED
    BY <1>4 DEF f

LEMMA MaxTaskPositionIs ==
  ASSUME TaskTypes, NEW c \in KanbanColumns
  PROVE  /\ MaxTaskPosition(c) \in Nat
         /\ InPlace(c) => MaxTaskPosition(c) = Cardinality(TasksOf(c))
  <1>1. \A t \in TasksOf(c) : tasks[t].position \in 1..MaxPosition
    BY TaskIs DEF TasksOf, Task
  <1>2. MaxTaskPosition(c) \in Nat
    <2> DEFINE T == {0} \cup {tasks[t].position : t \in TasksOf(c)}
    <2>1. T \subseteq 0..MaxPosition /\ T # {}
      BY <1>1, TaskBoardAssumption
    <2> HIDE DEF T
    <2>2. Max(T) \in T
      BY <2>1, GreatestNumber, TaskBoardAssumption
    <2>3. \A x \in T : x \in Nat
      BY <2>1, TaskBoardAssumption
    <2> QED
      BY <2>2, <2>3 DEF T, MaxTaskPosition
  <1>3. ASSUME InPlace(c)
        PROVE  MaxTaskPosition(c) = Cardinality(TasksOf(c))
    <2> DEFINE T == {tasks[t].position : t \in TasksOf(c)}
    <2>1. T = 1..Cardinality(TasksOf(c)) /\ Cardinality(TasksOf(c)) \in Nat
      BY <1>3, TasksOfIsNumbered, TasksOfIsFinite
    <2> HIDE DEF T
    <2>2. Max({0} \cup T) = Cardinality(TasksOf(c))
      BY <2>1, LastOf
    <2> QED
      BY <2>2 DEF T, MaxTaskPosition
  <1> QED
    BY <1>2, <1>3

LEMMA MaxColumnPositionIs ==
  ASSUME TaskTypes
  PROVE  /\ MaxColumnPosition \in 0..MaxPosition
         /\ \A c \in KanbanColumns : columns[c] <= MaxColumnPosition
         /\ ~skewed /\ ColumnsKept => MaxColumnPosition <= Cardinality(OnBoard)
  <1>0. /\ \A c \in KanbanColumns : columns[c] \in 0..MaxPosition
        /\ DOMAIN columns = KanbanColumns
    BY DEF TaskTypes
  <1>1. PICK T : T = {0} \cup {columns[c] : c \in KanbanColumns}
    OBVIOUS
  <1>2. MaxColumnPosition = Max(T)
    BY <1>0, <1>1 DEF MaxColumnPosition, Range
  <1>3. T \subseteq 0..MaxPosition /\ T # {}
    BY <1>0, <1>1, TaskBoardAssumption
  <1>4. Max(T) \in T /\ \A x \in T : x <= Max(T)
    BY <1>3, GreatestNumber, TaskBoardAssumption
  <1>5. PICK m : m = Max(T)
    OBVIOUS
  <1>6. m \in T /\ (\A x \in T : x <= m) /\ m \in 0..MaxPosition
    BY <1>3, <1>4, <1>5
  <1>7. ASSUME ~skewed, ColumnsKept
        PROVE  m <= Cardinality(OnBoard)
    <2>1. CASE m = 0
      BY <2>1, OnBoardIsFinite
    <2>2. CASE m # 0
      <3>1. PICK c \in KanbanColumns : m = columns[c]
        BY <1>1, <1>6, <2>2
      <3> QED
        BY <1>7, <2>2, <3>1 DEF ColumnsKept, OnBoard
    <2> QED
      BY <2>1, <2>2
  <1> QED
    BY <1>0, <1>1, <1>2, <1>5, <1>6, <1>7

-------------------------------------------------------------------------------
(* Requests that read the board *)

LEMMA StartMoveKeeps ==
  ASSUME TaskBoardInv, NEW w \in Movers, NEW t \in KanbanTasks, NEW c \in KanbanColumns,
         NEW q \in 1..MaxPosition, StartMove(w, t, c, q)
  PROVE  TaskBoardInv'
  <1>1. /\ movers[w] = NoRequest /\ There(t) /\ c \in OnBoard
        /\ UNCHANGED <<columns, tasks, team, mode, cursor, notified, hushed, turns, tangled, skewed>>
    BY DEF StartMove, OnBoard
  <1>2. PICK a, p, m : a = tasks[t].column /\ p = tasks[t].position /\ m = MaxTaskPosition(c)
    OBVIOUS
  <1>3. a \in OnBoard /\ a \in KanbanColumns /\ p \in 1..MaxPosition
    BY <1>1, <1>2, TaskIs DEF TaskBoardInv, IdsAreFresh, Task
  <1>4. m \in Nat /\ (c \notin tangled => m = Cardinality(TasksOf(c)))
    BY <1>2, MaxTaskPositionIs DEF TaskBoardInv, PlacesKept
  <1>5. PICK f : f = NewRequest("move", "write", {})
    OBVIOUS
  <1>6. f \in Mover /\ f.op = "move" /\ f.step = "write"
    <2>1. f \in Mover
      BY <1>5, FreshRequest DEF MoverSteps
    <2> QED
      BY <1>5, <2>1 DEF NewRequest
  <1>7. PICK r : r = [f EXCEPT !.task = {t}, !.column = {c}, !.from = {a}, !.position = p, !.dest = q, !.max = m]
    OBVIOUS
  <1>8. /\ r \in Mover /\ r.op = "move" /\ r.step = "write" /\ r.task = {t} /\ r.column = {c} /\ r.from = {a}
        /\ r.position = p /\ r.dest = q /\ r.max = m
    <2>1. p \in 0..MaxPosition /\ q \in 0..MaxPosition
      BY <1>3, TaskBoardAssumption
    <2>2. r \in Mover
      BY <1>3, <1>4, <1>6, <1>7, <2>1 DEF Mover
    <2> QED
      BY <1>6, <1>7, <2>2 DEF Mover
  <1>9. movers' = [movers EXCEPT ![w] = r]
    BY <1>2, <1>5, <1>7 DEF StartMove
  <1>10. AsksFor(r)
    BY <1>3, <1>8, TaskBoardAssumption DEF AsksFor
  <1> QED
    BY <1>1, <1>2, <1>3, <1>4, <1>8, <1>9, <1>10, BeginKeeps

LEMMA ReadColumnsKeeps ==
  ASSUME TaskBoardInv, NEW w \in Movers, NEW c \in KanbanColumns, NEW q \in 1..MaxPosition, ReadColumns(w, c, q)
  PROVE  TaskBoardInv'
  <1>1. /\ movers[w] = NoRequest /\ NewColumnId(c)
        /\ UNCHANGED <<columns, tasks, team, mode, cursor, notified, hushed, turns, tangled, skewed>>
    BY MoverIs DEF ReadColumns, AtWork, TaskBoardInv
  <1>2. PICK m : m = MaxColumnPosition
    OBVIOUS
  <1>3. m \in Nat /\ (skewed \/ m <= Cardinality(OnBoard))
    BY <1>2, MaxColumnPositionIs DEF TaskBoardInv
  <1>4. PICK f : f = NewRequest("column", "write", {})
    OBVIOUS
  <1>5. f \in Mover /\ f.op = "column" /\ f.step = "write" /\ f.task = {} /\ f.from = {}
    <2>1. f \in Mover
      BY <1>4, FreshRequest DEF MoverSteps
    <2> QED
      BY <1>4, <2>1 DEF NewRequest
  <1>6. PICK r : r = [f EXCEPT !.column = {c}, !.dest = q, !.max = m]
    OBVIOUS
  <1>7. /\ r \in Mover /\ r.op = "column" /\ r.step = "write" /\ r.task = {} /\ r.column = {c} /\ r.from = {}
        /\ r.dest = q /\ r.max = m
    <2>1. q \in 0..MaxPosition
      BY TaskBoardAssumption
    <2>2. r \in Mover
      BY <1>3, <1>5, <1>6, <2>1 DEF Mover
    <2> QED
      BY <1>5, <1>6, <2>2 DEF Mover
  <1>8. movers' = [movers EXCEPT ![w] = r]
    BY <1>2, <1>4, <1>6 DEF ReadColumns
  <1>9. AsksFor(r)
    BY <1>7, TaskBoardAssumption DEF AsksFor
  <1> QED
    BY <1>1, <1>3, <1>7, <1>8, <1>9, BeginKeeps

LEMMA ReadProjectKeeps ==
  ASSUME TaskBoardInv, NEW w \in Movers, ReadProject(w)
  PROVE  TaskBoardInv'
  <1>1. /\ movers[w].op \in {"create", "update"} /\ movers[w].step = "project"
        /\ UNCHANGED <<columns, tasks, team, mode, cursor, notified, hushed, turns, tangled, skewed>>
    BY DEF ReadProject, Reaches
  <1>2. PICK next \in {"check", "pick"} :
          movers' = [movers EXCEPT ![w].step = next, ![w].turn = IF next = "pick" THEN cursor ELSE 0]
    BY DEF ReadProject
  <1>3. movers[w] \in Mover
    BY <1>1, MoverIs DEF TaskBoardInv
  <1>4. PICK k \in Nat : k = IF next = "pick" THEN cursor ELSE 0
    BY DEF TaskBoardInv, TaskTypes
  <1>5. PICK r : r = [movers[w] EXCEPT !.step = next, !.turn = k]
    OBVIOUS
  <1>6. /\ r \in Mover /\ r.op = movers[w].op /\ r.step = next /\ r.turn = k
        /\ r.task = movers[w].task /\ r.column = movers[w].column /\ r.from = movers[w].from
        /\ r.was = movers[w].was /\ (movers[w].raced => r.raced)
    BY <1>3, <1>4, <1>5 DEF Mover, MoverSteps
  <1>7. movers' = [movers EXCEPT ![w] = r]
    BY <1>2, <1>4, <1>5 DEF TaskBoardInv, TaskTypes
  <1>8. AsksFor(r)
    BY <1>1, <1>6 DEF AsksFor, TaskBoardInv
  <1>9. /\ movers' \in [Movers -> Mover \cup {NoRequest}]
        /\ \A v \in Movers : AsksFor(movers'[v])
        /\ movers'[w] = r
        /\ \A v \in Movers : v # w => MarkedAs(movers[v], movers'[v])
    BY <1>6, <1>7, <1>8, OneRequest DEF TaskBoardInv
  <1>10. /\ CarriesOn(w) /\ SameColumnRequest(w) /\ SamePlacement(w, {}) /\ SameHands(w)
         /\ SamePick(w) \/ movers'[w].turn = cursor
    BY <1>1, <1>4, <1>6, <1>9 DEF CarriesOn, SameColumnRequest, SamePlacement, SameHands, SamePick
  <1>11. TaskTypes'
    BY <1>1, <1>9, RequestTypes DEF TaskBoardInv
  <1> QED
    BY <1>1, <1>9, <1>10, <1>11, ActsAlone DEF TaskBoardInv

LEMMA CheckAssigneeKeeps ==
  ASSUME TaskBoardInv, NEW w \in Movers, CheckAssignee(w)
  PROVE  TaskBoardInv'
  <1>1. /\ movers[w].op \in {"create", "update"} /\ movers[w].step = "check"
        /\ UNCHANGED <<columns, tasks, team, mode, cursor, notified, hushed, turns, tangled, skewed>>
    BY DEF CheckAssignee, Reaches
  <1>2. movers[w] \in Mover /\ AsksFor(movers[w])
    BY <1>1, MoverIs DEF TaskBoardInv
  <1>3. PICK m : m = IF movers[w].op = "create" THEN Max({MaxTaskPosition(c) : c \in movers[w].column}) ELSE 0
    OBVIOUS
  <1>4. m \in Nat /\ (movers[w].op = "create" => \A c \in movers[w].column \ tangled : m = Cardinality(TasksOf(c)))
    <2>1. CASE movers[w].op = "create"
      <3>1. PICK c \in KanbanColumns : movers[w].column = {c}
        BY <1>2, <2>1 DEF AsksFor
      <3>2. PICK g \in Nat : g = MaxTaskPosition(c) /\ (InPlace(c) => g = Cardinality(TasksOf(c)))
        BY MaxTaskPositionIs DEF TaskBoardInv
      <3>3. {MaxTaskPosition(d) : d \in movers[w].column} = {g}
        BY <3>1, <3>2
      <3>4. Max({g}) = g
        BY MaxIs
      <3>5. m = g
        BY <1>3, <2>1, <3>3, <3>4
      <3> QED
        BY <3>1, <3>2, <3>5 DEF TaskBoardInv, PlacesKept
    <2>2. CASE movers[w].op # "create"
      BY <1>3, <2>2
    <2> QED
      BY <2>1, <2>2
  <1>5. PICK r : r = [movers[w] EXCEPT !.step = "write", !.max = m]
    OBVIOUS
  <1>6. /\ r \in Mover /\ r.op = movers[w].op /\ r.step = "write" /\ r.max = m
        /\ r.task = movers[w].task /\ r.column = movers[w].column /\ r.from = movers[w].from
        /\ r.was = movers[w].was /\ (movers[w].raced => r.raced)
    BY <1>2, <1>4, <1>5 DEF Mover, MoverSteps
  <1>7. movers' = [movers EXCEPT ![w] = r]
    BY <1>3, <1>5 DEF TaskBoardInv, TaskTypes, CheckAssignee
  <1>8. AsksFor(r)
    BY <1>1, <1>2, <1>6 DEF AsksFor
  <1>9. /\ movers' \in [Movers -> Mover \cup {NoRequest}]
        /\ \A v \in Movers : AsksFor(movers'[v])
        /\ movers'[w] = r
        /\ \A v \in Movers : v # w => MarkedAs(movers[v], movers'[v])
    BY <1>6, <1>7, <1>8, OneRequest DEF TaskBoardInv
  <1>10. CarriesOn(w) /\ SameColumnRequest(w) /\ SameHands(w) /\ SamePick(w)
    BY <1>1, <1>6, <1>9 DEF CarriesOn, SameColumnRequest, SameHands, SamePick
  <1>11. SamePlacement(w, {}) \/ ReadsHold(w)'
    <2>1. CASE movers[w].op = "create"
      <3>1. \A c : TasksOf(c)' = TasksOf(c)
        BY <1>1, SameRows DEF SameTasks
      <3> QED
        BY <1>1, <1>4, <1>6, <1>9, <2>1, <3>1 DEF ReadsHold
    <2>2. CASE movers[w].op # "create"
      BY <1>1, <1>6, <1>9, <2>2 DEF SamePlacement
    <2> QED
      BY <2>1, <2>2
  <1>12. TaskTypes'
    BY <1>1, <1>9, RequestTypes DEF TaskBoardInv
  <1> QED
    BY <1>1, <1>9, <1>10, <1>11, <1>12, ActsAlone DEF TaskBoardInv

-------------------------------------------------------------------------------
(* Turns *)

LEMMA ModRange ==
  ASSUME NEW n \in Nat \ {0}, NEW a \in Nat
  PROVE  a % n \in 0..(n - 1)
  OBVIOUS

LEMMA ModNext ==
  ASSUME NEW n \in Nat \ {0}, NEW e \in 0..(n - 1)
  PROVE  (e + 1) % n = IF e + 1 = n THEN 0 ELSE e + 1
  OBVIOUS

LEMMA TeamIs ==
  ASSUME TaskTypes
  PROVE  /\ Len(team) \in Nat /\ DOMAIN team = 1..Len(team)
         /\ \A i \in 1..Len(team) : team[i] \in Teammates /\ IsMember(team[i])
         /\ \A m : IsMember(m) => \E i \in 1..Len(team) : team[i] = m
         /\ team # <<>> <=> Len(team) > 0
  <1>1. Len(team) \in Nat /\ DOMAIN team = 1..Len(team) /\ team \in [1..Len(team) -> Teammates]
    BY DEF TaskTypes
  <1>2. team # <<>> <=> Len(team) > 0
    BY DEF TaskTypes
  <1> QED
    BY <1>1, <1>2 DEF IsMember, Range

(* Nobody has had a turn: nothing more is said of the cursor.                        *)
LEMMA NobodyHadATurn ==
  ASSUME TaskTypes', TurnsKept,
         \A i, j \in 1..Len(team') : i # j => team'[i] # team'[j],
         \A m \in Teammates : turns'[m] = 0,
         \A v \in Movers : movers'[v].op # "none" /\ movers'[v].step = "pick" /\ ~movers'[v].outrun =>
           movers'[v].turn = cursor'
  PROVE  TurnsKept'
  <1>1. /\ Len(team') \in Nat
        /\ \A i \in 1..Len(team') : team'[i] \in Teammates
        /\ team' # <<>> => Len(team') > 0
    BY DEF TaskTypes
  <1>2. \A i \in 1..Len(team') : turns'[team'[i]] = 0
    BY <1>1
  <1>3. team' # <<>> => 1 \in 1..Len(team')
    BY <1>1
  <1> QED
    BY <1>2, <1>3 DEF TurnsKept

(* The one whose turn it is has had none this round.                                *)
LEMMA FirstInTurn ==
  ASSUME TaskTypes, TurnsKept, Len(team) > 0
  PROVE  /\ cursor % Len(team) \in 0..(Len(team) - 1)
         /\ turns[team[(cursor % Len(team)) + 1]] = 0
  <1>1. PICK n \in Nat : n = Len(team)
    BY TeamIs
  <1>2. PICK e : e = cursor % n
    OBVIOUS
  <1>3. e \in 0..(n - 1)
    <2>1. n \in Nat \ {0} /\ cursor \in Nat
      BY <1>1 DEF TaskTypes
    <2> QED
      BY <1>2, <2>1, ModRange
  <1>4. \A i \in 1..n : Waits(i) = IF i > e THEN i - e ELSE i - e + n
    BY <1>1, <1>2 DEF Waits, WaitsFrom
  <1>5. PICK j \in 1..n : turns[team[j]] = 0
    BY <1>1, TeamIs DEF TurnsKept
  <1>6. e + 1 \in 1..n /\ Waits(e + 1) <= Waits(j)
    BY <1>3, <1>4
  <1>7. turns[team[e + 1]] = 0
    BY <1>1, <1>5, <1>6 DEF TurnsKept
  <1> QED
    BY <1>1, <1>2, <1>3, <1>7

LEMMA OneStepLess ==
  ASSUME NEW n \in Nat, n > 0, NEW e \in 0..(n - 1), NEW f \in Nat, e + 1 = n => f = 0, e + 1 # n => f = e + 1,
         NEW k \in 1..n
  PROVE  /\ WaitsFrom(e, n, k) \in 1..n
         /\ k = e + 1 => WaitsFrom(f, n, k) = n
         /\ k # e + 1 => WaitsFrom(f, n, k) = WaitsFrom(e, n, k) - 1
  <1>1. CASE e + 1 = n
    BY <1>1 DEF WaitsFrom
  <1>2. CASE e + 1 # n
    BY <1>2 DEF WaitsFrom
  <1> QED
    BY <1>1, <1>2

LEMMA TurnsGoRound ==
  ASSUME TaskTypes, TaskTypes', TurnsKept, Len(team) > 0, NEW e, e = cursor % Len(team), team' = team,
         cursor' = e + 1, turns' = TurnOf(team[e + 1]),
         \A v \in Movers : movers'[v].op # "none" /\ movers'[v].step = "pick" /\ ~movers'[v].outrun =>
           movers'[v].turn = cursor'
  PROVE  TurnsKept'
  <1>1. PICK n \in Nat : n = Len(team) /\ n > 0
    BY TeamIs
  <1>2. e \in 0..(n - 1) /\ turns[team[e + 1]] = 0
    BY <1>1, FirstInTurn
  <1>3. PICK m : m = team[e + 1]
    OBVIOUS
  <1>4. m \in Teammates /\ turns[m] = 0 /\ IsMember(m)
    BY <1>1, <1>2, <1>3, TeamIs
  <1>5. \A k \in Teammates : turns[k] \in {0, 1} /\ (turns[k] = 1 => IsMember(k))
    BY DEF TurnsKept
  <1>6. PICK more : more = [turns EXCEPT ![m] = @ + 1]
    OBVIOUS
  <1>7. /\ more[m] = 1
        /\ \A k \in Teammates : k # m => more[k] = turns[k]
        /\ \A k \in Teammates : more[k] \in {0, 1}
    BY <1>4, <1>5, <1>6 DEF TaskTypes
  <1>8. turns' = IF \A k \in Range(team) : more[k] > 0 THEN [k \in Teammates |-> IF IsMember(k) THEN more[k] - 1 ELSE 0]
                 ELSE more
    BY <1>3, <1>6 DEF TurnOf
  <1>9. \A i, j \in 1..n : i # j => team[i] # team[j]
    BY <1>1 DEF TurnsKept
  <1>10. CASE \A k \in Range(team) : more[k] > 0
    <2>1. ASSUME NEW k \in Teammates
          PROVE  turns'[k] = 0
      <3>1. turns'[k] = IF IsMember(k) THEN more[k] - 1 ELSE 0
        BY <1>8, <1>10
      <3>2. IsMember(k) => more[k] = 1
        BY <1>7, <1>10 DEF IsMember
      <3> QED
        BY <3>1, <3>2
    <2> QED
      BY <1>1, <1>9, <2>1, NobodyHadATurn
  <1>11. CASE ~ \A k \in Range(team) : more[k] > 0
    <2>1. turns' = more
      BY <1>8, <1>11
    <2>2. PICK h \in 1..n : turns'[team[h]] = 0
      <3>1. PICK k \in Range(team) : ~ (more[k] > 0)
        BY <1>11
      <3>2. PICK h \in 1..n : team[h] = k
        BY <1>1, <3>1, TeamIs DEF IsMember
      <3>3. more[k] = 0
        BY <1>1, <1>7, <3>1, <3>2, TeamIs
      <3> QED
        BY <2>1, <3>2, <3>3
    <2>3. ASSUME NEW k \in Teammates
          PROVE  turns'[k] \in {0, 1} /\ (turns'[k] = 1 => IsMember(k)')
      <3>1. IsMember(k)' = IsMember(k)
        BY DEF IsMember
      <3> QED
        BY <1>4, <1>5, <1>7, <2>1, <3>1
    <2>4. PICK f : f = cursor' % n
      OBVIOUS
    <2>5. f \in Nat /\ (e + 1 = n => f = 0) /\ (e + 1 # n => f = e + 1)
      <3>1. f = IF e + 1 = n THEN 0 ELSE e + 1
        BY <1>1, <1>2, <2>4, ModNext
      <3> QED
        BY <1>2, <3>1
    <2>6. ASSUME NEW k \in 1..n
          PROVE  /\ WaitsFrom(e, n, k) \in 1..n
                 /\ k = e + 1 => WaitsFrom(f, n, k) = n
                 /\ k # e + 1 => WaitsFrom(f, n, k) = WaitsFrom(e, n, k) - 1
      <3>1. k \in 1..n /\ n \in Nat /\ n > 0 /\ e \in 0..(n - 1)
        BY <1>1, <1>2
      <3> QED
        BY ONLY <2>5, <3>1, OneStepLess
    <2>7. \A k : Waits(k) = WaitsFrom(e, n, k) /\ Waits(k)' = WaitsFrom(f, n, k)
      BY <1>1, <2>4 DEF Waits
    <2>8. \A k \in 1..n : Waits(k) \in 1..n /\ Waits(k)' = IF k = e + 1 THEN n ELSE Waits(k) - 1
      BY <2>6, <2>7
    <2>9. ASSUME NEW i \in 1..n, NEW j \in 1..n, Waits(i)' <= Waits(j)', turns'[team[j]] = 0
          PROVE  turns'[team[i]] = 0
      <3>1. j # e + 1
        BY <1>3, <1>7, <2>1, <2>9
      <3>2. i # e + 1 /\ Waits(i) <= Waits(j)
        <4>1. PICK a, b \in 1..n : a = Waits(i) /\ b = Waits(j)
          BY <2>8
        <4>2. Waits(j)' = b - 1
          BY <2>8, <3>1, <4>1
        <4>3. CASE i = e + 1
          <5>1. Waits(i)' = n
            BY <2>8, <4>3
          <5> QED
            BY <1>1, <2>9, <4>1, <4>2, <5>1
        <4>4. CASE i # e + 1
          <5>1. Waits(i)' = a - 1
            BY <2>8, <4>1, <4>4
          <5> QED
            BY <2>9, <4>1, <4>2, <4>4, <5>1
        <4> QED
          BY <4>3, <4>4
      <3>3. e + 1 \in 1..n
        BY <1>2
      <3>4. team[i] # m /\ team[j] # m /\ team[i] \in Teammates /\ team[j] \in Teammates
        BY <1>1, <1>3, <1>9, <3>1, <3>2, <3>3, TeamIs
      <3>5. turns[team[j]] = 0
        BY <1>7, <2>1, <2>9, <3>4
      <3>6. turns[team[i]] = 0
        BY <1>1, <3>2, <3>5 DEF TurnsKept
      <3> QED
        BY <1>7, <2>1, <3>4, <3>6
    <2> QED
      BY <1>1, <1>9, <2>2, <2>3, <2>9 DEF TurnsKept
  <1> QED
    BY <1>10, <1>11

LEMMA LeastBusyIsMember ==
  ASSUME TaskTypes, team # <<>>
  PROVE  LeastBusy \in Teammates
  <1>1. ASSUME NEW m
        PROVE  Workload(m) \in Nat
    <2> DEFINE T == {t \in KanbanTasks : There(t) /\ m \in tasks[t].assignee}
    <2>1. IsFiniteSet(T)
      BY TaskBoardAssumption, FS_Subset
    <2>2. Cardinality(T) \in Nat
      BY <2>1, FS_CardinalityType
    <2> QED
      BY <2>2 DEF Workload
  <1> DEFINE W == {Workload(team[i]) : i \in 1..Len(team)}
             fewest == {i \in DOMAIN team : \A j \in DOMAIN team : Workload(team[i]) <= Workload(team[j])}
  <1>2. DOMAIN team = 1..Len(team) /\ Len(team) \in Nat /\ Len(team) > 0
    BY TeamIs
  <1>3. W \subseteq Nat
    BY <1>1
  <1>4. 1 \in 1..Len(team)
    BY <1>2
  <1>5. W # {}
    BY <1>4
  <1>6. PICK x \in W : \A y \in W : x <= y
    BY <1>3, <1>5, LeastNumber
  <1>7. PICK k \in 1..Len(team) : x = Workload(team[k])
    OBVIOUS
  <1>8. k \in fewest
    BY <1>2, <1>6, <1>7
  <1>9. fewest \subseteq Nat /\ fewest # {}
    BY <1>2, <1>8
  <1>10. \E i \in fewest : \A j \in fewest : i <= j
    BY <1>9, LeastNumber
  <1>11. PICK f : f = CHOOSE i \in fewest : \A j \in fewest : i <= j
    OBVIOUS
  <1>12. f \in fewest
    BY <1>10, <1>11
  <1>13. LeastBusy = team[f]
    BY <1>11 DEF LeastBusy
  <1>14. f \in 1..Len(team)
    BY <1>2, <1>12
  <1> QED
    BY <1>13, <1>14, TeamIs

(* Whoever was to pick at the same time knows that he was overtaken.                   *)
LEMMA PickedIs ==
  ASSUME TaskTypes, \A v \in Movers : AsksFor(movers[v]), NEW w \in Movers, movers[w].op \in {"create", "update"},
         movers[w].step = "pick", NEW S \in Assignee, movers' = Picked(w, S)
  PROVE  /\ movers' \in [Movers -> Mover \cup {NoRequest}]
         /\ \A v \in Movers : AsksFor(movers'[v])
         /\ \A v \in Movers : v # w => MarkedAs(movers[v], movers'[v])
         /\ CarriesOn(w) /\ SameColumnRequest(w) /\ SamePlacement(w, {}) /\ SameHands(w) /\ SamePick(w)
         /\ \A v \in Movers : movers'[v].op # "none" /\ movers'[v].step = "pick" => movers'[v].outrun
  <1>1. movers[w] \in Mover /\ AsksFor(movers[w])
    BY MoverIs
  <1>2. PICK r : r = [movers[w] EXCEPT !.step = "check", !.assignee = S, !.turn = 0, !.outrun = FALSE]
    OBVIOUS
  <1>3. /\ r \in Mover /\ r.op = movers[w].op /\ r.step = "check"
        /\ r.task = movers[w].task /\ r.column = movers[w].column /\ r.from = movers[w].from
        /\ r.was = movers[w].was /\ (movers[w].raced => r.raced)
    BY <1>1, <1>2 DEF Mover, MoverSteps
  <1>4. movers'[w] = r
    BY <1>2 DEF Picked
  <1>5. AsksFor(r)
    BY <1>1, <1>3 DEF AsksFor
  <1>6. ASSUME NEW v \in Movers, v # w
        PROVE  /\ movers'[v] \in Mover \cup {NoRequest} /\ MarkedAs(movers[v], movers'[v])
               /\ movers'[v].op # "none" /\ movers'[v].step = "pick" => movers'[v].outrun
    <2>1. CASE movers[v].op # "none" /\ movers[v].step = "pick"
      <3>1. movers[v] \in Mover
        BY <2>1, MoverIs
      <3>2. movers'[v] = [movers[v] EXCEPT !.outrun = TRUE]
        BY <1>6, <2>1 DEF Picked
      <3>3. movers'[v] \in Mover /\ MarkedAs(movers[v], movers'[v])
        BY <3>1, <3>2, MarkedIs
      <3>4. movers'[v].outrun
        BY <3>1, <3>2 DEF Mover
      <3> QED
        BY <3>3, <3>4
    <2>2. CASE ~ (movers[v].op # "none" /\ movers[v].step = "pick")
      <3>1. movers'[v] = movers[v]
        BY <1>6, <2>2 DEF Picked
      <3> QED
        BY <2>2, <3>1, SameIsMarked DEF TaskTypes
    <2> QED
      BY <2>1, <2>2
  <1>7. movers' \in [Movers -> Mover \cup {NoRequest}]
    <2>1. movers' = [v \in Movers |-> movers'[v]]
      BY DEF Picked
    <2>2. \A v \in Movers : movers'[v] \in Mover \cup {NoRequest}
      BY <1>3, <1>4, <1>6
    <2> QED
      BY <2>1, <2>2
  <1>8. \A v \in Movers : AsksFor(movers'[v])
    BY <1>4, <1>5, <1>6, MarkedAsksFor
  <1>9. CarriesOn(w) /\ SameColumnRequest(w) /\ SamePlacement(w, {}) /\ SameHands(w) /\ SamePick(w)
    BY <1>3, <1>4 DEF CarriesOn, SameColumnRequest, SamePlacement, SameHands, SamePick
  <1> QED
    BY <1>3, <1>4, <1>6, <1>7, <1>8, <1>9

LEMMA PickMemberKeeps ==
  ASSUME TaskBoardInv, NEW w \in Movers, PickMember(w)
  PROVE  TaskBoardInv'
  <1>1. /\ movers[w].op \in {"create", "update"} /\ movers[w].step = "pick"
        /\ UNCHANGED <<columns, tasks, team, mode, notified, hushed, tangled, skewed>>
    BY DEF PickMember, Reaches
  <1>2. TaskTypes /\ TurnsKept /\ \A v \in Movers : AsksFor(movers[v])
    BY DEF TaskBoardInv
  <1>3. ASSUME NEW S \in Assignee, movers' = Picked(w, S), cursor' \in Nat, turns' \in [Teammates -> Nat], TurnsKept'
        PROVE  TaskBoardInv'
    <2>1. /\ movers' \in [Movers -> Mover \cup {NoRequest}]
          /\ \A v \in Movers : AsksFor(movers'[v])
          /\ \A v \in Movers : v # w => MarkedAs(movers[v], movers'[v])
          /\ CarriesOn(w) /\ SameColumnRequest(w) /\ SamePlacement(w, {}) /\ SameHands(w)
      BY <1>1, <1>2, <1>3, PickedIs
    <2>2. TaskTypes'
      BY <1>1, <1>2, <1>3, <2>1 DEF TaskTypes
    <2>3. IdsAreFresh' /\ ColumnsKept' /\ PlacesKept' /\ HandsKept'
      BY <1>1, <2>1, ActsAlone
    <2> QED
      BY <1>3, <2>1, <2>2, <2>3 DEF TaskBoardInv
  <1>4. CASE PickInTurn(w)
    <2>1. PICK i : i = movers[w].turn % Len(team)
      OBVIOUS
    <2>2. /\ team # <<>> /\ movers' = Picked(w, {team[i + 1]})
          /\ \/ cursor' = i + 1 /\ turns' = IF movers[w].outrun THEN NobodysTurn ELSE TurnOf(team[i + 1])
             \/ UNCHANGED cursor /\ turns' = NobodysTurn
      BY <1>4, <2>1 DEF PickInTurn, NextCursor
    <2>3. PICK n \in Nat : n = Len(team) /\ n > 0
      BY <1>2, <2>2, TeamIs
    <2>4. i \in 0..(n - 1) /\ i + 1 \in 1..n
      <3>1. movers[w].turn \in Nat /\ n \in Nat \ {0}
        BY <1>1, <1>2, <2>3, MoverIs DEF Mover
      <3>2. i \in 0..(n - 1)
        BY <2>1, <2>3, <3>1, ModRange
      <3> QED
        BY <3>2
    <2>5. team[i + 1] \in Teammates
      BY <1>2, <2>3, <2>4, TeamIs
    <2>6. {team[i + 1]} \in Assignee
      BY <2>5, NobodyIsAssignee
    <2>7. \A v \in Movers : movers'[v].op # "none" /\ movers'[v].step = "pick" => movers'[v].outrun
      BY <1>1, <1>2, <2>2, <2>6, PickedIs
    <2>8. \A k, j \in 1..Len(team') : k # j => team'[k] # team'[j]
      BY <1>1, <1>2 DEF TurnsKept
    <2>9. movers' \in [Movers -> Mover \cup {NoRequest}]
      BY <1>1, <1>2, <2>2, <2>6, PickedIs
    <2>10. CASE turns' = NobodysTurn
      <3>1. turns' \in [Teammates -> Nat] /\ \A m \in Teammates : turns'[m] = 0
        BY <2>10 DEF NobodysTurn
      <3>2. cursor' \in Nat
        BY <1>2, <2>2, <2>4 DEF TaskTypes
      <3>3. TaskTypes'
        BY <1>1, <1>2, <2>9, <3>1, <3>2 DEF TaskTypes
      <3>4. TurnsKept'
        BY <1>2, <2>7, <2>8, <3>1, <3>3, NobodyHadATurn
      <3> QED
        BY <1>3, <2>2, <2>6, <3>1, <3>2, <3>4
    <2>11. CASE ~movers[w].outrun /\ cursor' = i + 1 /\ turns' = TurnOf(team[i + 1])
      <3>1. movers[w].turn = cursor
        BY <1>1, <1>2, <2>11 DEF TurnsKept
      <3>2. i = cursor % Len(team)
        BY <2>1, <3>1
      <3>3. cursor' \in Nat
        BY <2>4, <2>11
      <3>4. turns' \in [Teammates -> Nat]
        <4>1. PICK more : more = [turns EXCEPT ![team[i + 1]] = @ + 1]
          OBVIOUS
        <4>2. more \in [Teammates -> Nat]
          BY <1>2, <2>5, <4>1 DEF TaskTypes
        <4>3. TurnOf(team[i + 1]) = IF \A k \in Range(team) : more[k] > 0
                                      THEN [k \in Teammates |-> IF IsMember(k) THEN more[k] - 1 ELSE 0]
                                      ELSE more
          BY <4>1 DEF TurnOf
        <4>4. ASSUME \A k \in Range(team) : more[k] > 0
              PROVE  [k \in Teammates |-> IF IsMember(k) THEN more[k] - 1 ELSE 0] \in [Teammates -> Nat]
          <5>1. \A k \in Teammates : IsMember(k) => more[k] \in Nat /\ more[k] > 0
            BY <4>2, <4>4 DEF IsMember
          <5>2. \A k \in Teammates : (IF IsMember(k) THEN more[k] - 1 ELSE 0) \in Nat
            BY <5>1
          <5> QED
            BY <5>2
        <4> QED
          BY <2>11, <4>2, <4>3, <4>4
      <3>5. TaskTypes'
        BY <1>1, <1>2, <2>9, <3>3, <3>4 DEF TaskTypes
      <3>6. TurnsKept'
        BY <1>1, <1>2, <2>3, <2>7, <2>11, <3>2, <3>5, TurnsGoRound
      <3> QED
        BY <1>3, <2>2, <2>6, <3>3, <3>4, <3>6
    <2> QED
      BY <2>2, <2>10, <2>11
  <1>5. CASE ~PickInTurn(w)
    <2>1. UNCHANGED <<cursor, turns>>
      BY <1>5 DEF PickMember
    <2>2. PICK S \in Assignee : movers' = Picked(w, S)
      <3>1. CASE mode = "least_busy" /\ team # <<>>
        <4>1. movers' = Picked(w, {LeastBusy})
          BY <1>5, <3>1 DEF PickMember
        <4>2. {LeastBusy} \in Assignee
          BY <1>2, <3>1, LeastBusyIsMember, NobodyIsAssignee
        <4> QED
          BY <4>1, <4>2
      <3>2. CASE ~ (mode = "least_busy" /\ team # <<>>)
        <4>1. movers' = Picked(w, {})
          BY <1>5, <3>2 DEF PickMember
        <4> QED
          BY <4>1, NobodyIsAssignee
      <3> QED
        BY <3>1, <3>2
    <2>3. /\ \A v \in Movers : v # w => MarkedAs(movers[v], movers'[v])
          /\ SamePick(w)
      BY <1>1, <1>2, <2>2, PickedIs
    <2>4. TurnsKept'
      BY <1>1, <2>1, <2>3, ActsAlone
    <2>5. cursor' \in Nat /\ turns' \in [Teammates -> Nat]
      BY <1>2, <2>1 DEF TaskTypes
    <2> QED
      BY <1>3, <2>2, <2>4, <2>5
  <1> QED
    BY <1>4, <1>5

(* Whoever leaves leaves no gap in the team.                                        *)
LEMMA OthersAre ==
  ASSUME TaskTypes, TurnsKept, NEW m \in Teammates
  PROVE  /\ Others(m) \in Seq(Teammates)
         /\ \A i, j \in 1..Len(Others(m)) : i # j => Others(m)[i] # Others(m)[j]
         /\ \A i \in 1..Len(Others(m)) : Others(m)[i] # m
  <1>1. PICK n \in Nat : n = Len(team)
    BY TeamIs
  <1>2. \A i, j \in 1..n : i # j => team[i] # team[j]
    BY <1>1 DEF TurnsKept
  <1>3. \A i \in 1..n : team[i] \in Teammates
    BY <1>1, TeamIs
  <1>4. CASE ~IsMember(m)
    <2>1. Others(m) = team
      BY <1>4 DEF Others
    <2>2. \A i \in 1..n : team[i] # m
      BY <1>1, <1>4, TeamIs
    <2> QED
      BY <1>1, <1>2, <2>1, <2>2 DEF TaskTypes
  <1>5. CASE IsMember(m)
    <2>1. PICK at : at = CHOOSE i \in DOMAIN team : team[i] = m
      OBVIOUS
    <2>2. at \in 1..n /\ team[at] = m
      <3>1. \E i \in DOMAIN team : team[i] = m
        BY <1>5, TeamIs
      <3>2. at \in DOMAIN team /\ team[at] = m
        BY <2>1, <3>1
      <3> QED
        BY <1>1, <3>2, TeamIs
    <2>3. PICK s : s = [i \in 1..(n - 1) |-> team[IF i < at THEN i ELSE i + 1]]
      OBVIOUS
    <2>4. Others(m) = s
      BY <1>1, <1>5, <2>1, <2>3 DEF Others
    <2>5. n - 1 \in Nat
      BY <2>2
    <2>6. PICK to : to = [i \in 1..(n - 1) |-> IF i < at THEN i ELSE i + 1]
      OBVIOUS
    <2>7. \A i \in 1..(n - 1) : to[i] \in 1..n /\ to[i] # at /\ s[i] = team[to[i]]
      BY <2>2, <2>3, <2>6
    <2>8. \A i, j \in 1..(n - 1) : i # j => to[i] # to[j]
      BY <2>2, <2>6
    <2>9. s \in [1..(n - 1) -> Teammates]
      <3>1. \A i \in 1..(n - 1) : s[i] \in Teammates
        BY <1>3, <2>7
      <3> QED
        BY <2>3, <3>1
    <2>10. s \in Seq(Teammates) /\ Len(s) = n - 1
      BY <2>5, <2>9
    <2>11. \A i, j \in 1..(n - 1) : i # j => s[i] # s[j]
      BY <1>2, <2>7, <2>8
    <2>12. \A i \in 1..(n - 1) : s[i] # m
      BY <1>2, <2>2, <2>7
    <2> QED
      BY <2>4, <2>10, <2>11, <2>12
  <1> QED
    BY <1>4, <1>5

LEMMA MutateProjectMemberKeeps ==
  ASSUME TaskBoardInv, NEW m \in Teammates, NEW operation, MutateProjectMember(m, operation)
  PROVE  TaskBoardInv'
  <1>1. /\ team' = IF operation = "assign" THEN Append(Others(m), m) ELSE Others(m)
        /\ turns' = NobodysTurn
        /\ UNCHANGED <<columns, tasks, mode, cursor, movers, notified, hushed, tangled, skewed>>
    BY DEF MutateProjectMember
  <1>2. TaskTypes /\ TurnsKept /\ \A v \in Movers : AsksFor(movers[v])
    BY DEF TaskBoardInv
  <1>3. PICK s : s = Others(m)
    OBVIOUS
  <1>4. /\ s \in Seq(Teammates)
        /\ \A i, j \in 1..Len(s) : i # j => s[i] # s[j]
        /\ \A i \in 1..Len(s) : s[i] # m
    BY <1>2, <1>3, OthersAre
  <1>5. team' \in Seq(Teammates) /\ \A i, j \in 1..Len(team') : i # j => team'[i] # team'[j]
    <2>1. CASE operation = "assign"
      <3>1. team' = Append(s, m)
        BY <1>1, <1>3, <2>1
      <3>2. PICK k \in Nat : k = Len(s)
        BY <1>4
      <3>3. PICK a : a = Append(s, m)
        OBVIOUS
      <3>4. a \in Seq(Teammates) /\ Len(a) = k + 1 /\ a[k + 1] = m /\ \A i \in 1..k : a[i] = s[i]
        BY <1>4, <3>2, <3>3
      <3>5. \A i, j \in 1..(k + 1) : i # j => a[i] # a[j]
        BY <1>4, <3>2, <3>4
      <3> QED
        BY <3>1, <3>3, <3>4, <3>5
    <2>2. CASE operation # "assign"
      BY <1>1, <1>3, <1>4, <2>2
    <2> QED
      BY <2>1, <2>2
  <1>6. turns' \in [Teammates -> Nat] /\ \A k \in Teammates : turns'[k] = 0
    BY <1>1 DEF NobodysTurn
  <1>7. TaskTypes'
    BY <1>1, <1>2, <1>5, <1>6 DEF TaskTypes
  <1>8. \A v \in Movers : movers'[v].op # "none" /\ movers'[v].step = "pick" /\ ~movers'[v].outrun =>
          movers'[v].turn = cursor'
    BY <1>1, <1>2 DEF TurnsKept
  <1>9. TurnsKept'
    BY <1>2, <1>5, <1>6, <1>7, <1>8, NobodyHadATurn
  <1>10. \A v \in Movers : MarkedAs(movers[v], movers'[v])
    BY <1>1, SameIsMarked
  <1>11. \A v \in Movers : Quiet(v, {})
    BY <1>10 DEF Quiet, ReadBefore
  <1>12. IdsAreFresh' /\ ColumnsKept' /\ PlacesKept' /\ HandsKept'
    BY <1>1, <1>10, <1>11, QuietIs, ActsAlone
  <1>13. \A v \in Movers : AsksFor(movers'[v])
    BY <1>1, <1>2
  <1> QED
    BY <1>7, <1>9, <1>12, <1>13 DEF TaskBoardInv

-------------------------------------------------------------------------------
(* Whose a task is *)

LEMMA SendKeeps ==
  ASSUME TaskBoardInv, NEW w \in Movers, SendTaskAssignedNotification(w)
  PROVE  TaskBoardInv'
  <1>1. /\ movers[w].op # "none" /\ movers[w].step = "tell"
        /\ movers' = [movers EXCEPT ![w] = NoRequest]
        /\ UNCHANGED <<columns, tasks, team, mode, cursor, turns, tangled, skewed>>
    BY DEF SendTaskAssignedNotification, Finished
  <1>2. PICK t \in movers[w].task :
           \/ /\ notified' = [notified EXCEPT ![t] = @ \cup movers[w].assignee]
              /\ hushed' = IF There(t) /\ tasks[t].assignee = movers[w].assignee THEN hushed \ {t} ELSE hushed
           \/ hushed' = hushed \cup {t} /\ UNCHANGED notified
    BY DEF SendTaskAssignedNotification
  <1>3. movers[w] \in Mover /\ AsksFor(movers[w]) /\ TaskTypes
    BY <1>1, MoverIs DEF TaskBoardInv
  <1>4. t \in KanbanTasks /\ movers[w].task = {t}
    <2>1. movers[w].op \in {"create", "update"}
      BY <1>1, <1>3 DEF AsksFor, Mover
    <2> QED
      BY <1>2, <1>3, <2>1 DEF AsksFor
  <1>5. PICK S \in SUBSET Teammates : S = movers[w].assignee
    BY <1>3 DEF Mover, Assignee
  <1>6. /\ movers' \in [Movers -> Mover \cup {NoRequest}]
        /\ \A v \in Movers : AsksFor(movers'[v])
        /\ movers'[w] = NoRequest
        /\ \A v \in Movers : v # w => movers'[v] = movers[v] /\ MarkedAs(movers[v], movers'[v])
    BY <1>1, NobodyAsks, OneRequest DEF TaskBoardInv
  <1>7. notified' \in [KanbanTasks -> SUBSET Teammates] /\ hushed' \subseteq KanbanTasks
    BY <1>2, <1>3, <1>4, <1>5 DEF TaskTypes
  <1>8. TaskTypes'
    BY <1>1, <1>3, <1>6, <1>7 DEF TaskTypes
  <1>9. CarriesOn(w) /\ SameColumnRequest(w) /\ SamePlacement(w, {}) /\ SamePick(w)
    BY <1>6, NobodyAsks DEF CarriesOn, SameColumnRequest, SamePlacement, SamePick
  <1>10. IdsAreFresh' /\ ColumnsKept' /\ PlacesKept' /\ TurnsKept'
    BY <1>1, <1>6, <1>9, ActsAlone
  <1>11. \A s : There(s)' = There(s)
    BY <1>1 DEF There
  <1>12. ASSUME NEW s \in KanbanTasks \ hushed', There(s)'
         PROVE  \/ tasks'[s].assignee \subseteq notified'[s]
                \/ \E v \in Movers : Tells(v, s)' /\ movers'[v].assignee = tasks'[s].assignee
    <2>1. There(s) /\ tasks'[s].assignee = tasks[s].assignee
      BY <1>1, <1>11, <1>12
    <2>2. notified[s] \subseteq notified'[s]
      BY <1>2, <1>3, <1>4 DEF TaskTypes
    <2>3. CASE s = t /\ tasks[t].assignee = S
      <3>1. notified' = [notified EXCEPT ![t] = @ \cup S]
        BY <1>2, <1>5, <1>12, <2>3
      <3>2. S \subseteq notified'[t]
        BY <1>3, <1>4, <3>1 DEF TaskTypes
      <3> QED
        BY <2>1, <2>3, <3>2
    <2>4. CASE ~ (s = t /\ tasks[t].assignee = S)
      <3>1. s \notin hushed
        BY <1>2, <1>5, <1>12, <2>4
      <3>2. \/ tasks[s].assignee \subseteq notified[s]
            \/ \E v \in Movers : Tells(v, s) /\ movers[v].assignee = tasks[s].assignee
        BY <2>1, <3>1 DEF TaskBoardInv, HandsKept
      <3>3. ASSUME NEW v \in Movers, Tells(v, s), movers[v].assignee = tasks[s].assignee
            PROVE  Tells(v, s)' /\ movers'[v].assignee = tasks'[s].assignee
        <4>1. v # w
          BY <1>4, <1>5, <2>4, <3>3 DEF Tells
        <4> QED
          BY <1>6, <2>1, <3>3, <4>1 DEF Tells
      <3> QED
        BY <2>1, <2>2, <3>2, <3>3
    <2> QED
      BY <2>3, <2>4
  <1>13. ASSUME NEW v \in Movers, movers'[v].op = "update", movers'[v].step # "tell", ~movers'[v].raced,
                NEW s \in movers'[v].task, There(s)'
         PROVE  movers'[v].was \in {{}, tasks'[s].assignee}
    <2>1. v # w
      BY <1>6, <1>13, NobodyAsks
    <2> QED
      BY <1>1, <1>6, <1>11, <1>13, <2>1 DEF TaskBoardInv, HandsKept
  <1>14. HandsKept'
    BY <1>12, <1>13 DEF HandsKept
  <1> QED
    BY <1>6, <1>8, <1>10, <1>14 DEF TaskBoardInv

LEMMA MarkedTwice ==
  ASSUME NEW r, NEW s, NEW u, MarkedAs(r, s), MarkedAs(s, u)
  PROVE  MarkedAs(r, u)
  BY DEF MarkedAs

(* The requests after w has given t to somebody.                                   *)
LEMMA HandedOverIs ==
  ASSUME TaskTypes, \A v \in Movers : AsksFor(movers[v]), NEW w \in Movers, movers[w].op \in {"create", "update"},
         movers[w].step = "write", NEW t \in KanbanTasks, NEW h, h = HandedOver(w, t)
  PROVE  /\ h \in [Movers -> Mover \cup {NoRequest}]
         /\ \A v \in Movers : v # w => MarkedAs(movers[v], h[v])
         /\ \A v \in Movers : /\ v # w /\ movers[v].op = "update" /\ movers[v].task = {t} /\ movers[v].step # "tell"
                              /\ tasks[t].assignee # movers[w].assignee
                => h[v].raced
         /\ \/ NeedsNotice(w) /\ h[w].op = movers[w].op /\ h[w].step = "tell" /\ h[w].task = movers[w].task
                 /\ h[w].column = movers[w].column /\ h[w].from = movers[w].from /\ h[w].was = movers[w].was
                 /\ h[w].assignee = movers[w].assignee
            \/ ~NeedsNotice(w) /\ h[w] = NoRequest
  <1>1. movers[w] \in Mover
    BY MoverIs
  <1>2. PICK r : r = [movers[w] EXCEPT !.step = "tell", !.max = 0, !.stale = FALSE]
    OBVIOUS
  <1>3. /\ r \in Mover /\ r.op = movers[w].op /\ r.step = "tell" /\ r.task = movers[w].task
        /\ r.column = movers[w].column /\ r.from = movers[w].from /\ r.was = movers[w].was
        /\ r.assignee = movers[w].assignee
    BY <1>1, <1>2 DEF Mover, MoverSteps
  <1>4. h[w] = IF NeedsNotice(w) THEN r ELSE NoRequest
    BY <1>2 DEF HandedOver
  <1>5. ASSUME NEW v \in Movers, v # w
        PROVE  /\ h[v] \in Mover \cup {NoRequest} /\ MarkedAs(movers[v], h[v])
               /\ movers[v].op = "update" /\ movers[v].task = {t} /\ movers[v].step # "tell"
                    /\ tasks[t].assignee # movers[w].assignee => h[v].raced
    <2> DEFINE overtaken == /\ movers[v].op = "update" /\ movers[v].task = {t} /\ movers[v].step # "tell"
                            /\ tasks[t].assignee # movers[w].assignee
    <2>1. CASE overtaken
      <3>1. movers[v] \in Mover
        BY <2>1, MoverIs
      <3>2. h[v] = [movers[v] EXCEPT !.raced = TRUE]
        BY <1>5, <2>1 DEF HandedOver
      <3>3. h[v].raced
        BY <3>1, <3>2 DEF Mover
      <3>4. h[v] \in Mover /\ MarkedAs(movers[v], h[v])
        BY <3>1, <3>2, MarkedIs
      <3> QED
        BY <3>3, <3>4
    <2>2. CASE ~overtaken
      <3>1. h[v] = movers[v]
        BY <1>5, <2>2 DEF HandedOver
      <3>2. h[v] \in Mover \cup {NoRequest} /\ MarkedAs(movers[v], h[v])
        BY <3>1, SameIsMarked DEF TaskTypes
      <3> QED
        BY <2>2, <3>2
    <2> QED
      BY <2>1, <2>2
  <1>6. h \in [Movers -> Mover \cup {NoRequest}]
    <2>1. h = [v \in Movers |-> h[v]]
      BY DEF HandedOver
    <2>2. \A v \in Movers : h[v] \in Mover \cup {NoRequest}
      BY <1>3, <1>4, <1>5
    <2> QED
      BY <2>1, <2>2
  <1> QED
    BY <1>3, <1>4, <1>5, <1>6

(* The requests of rest that have read one of the columns know of the change.           *)
LEMMA OutdatedIs ==
  ASSUME NEW h, h \in [Movers -> Mover \cup {NoRequest}], NEW rest, NEW S, NEW k, k = Outdated(h, rest, S),
         \A v \in Movers : v \in rest => MarkedAs(movers[v], h[v])
  PROVE  /\ k \in [Movers -> Mover \cup {NoRequest}]
         /\ \A v \in Movers : v \notin rest => k[v] = h[v]
         /\ \A v \in Movers : v \in rest =>
              MarkedAs(movers[v], k[v]) /\ MarkedAs(h[v], k[v]) /\ (ReadBefore(v, S) => k[v].stale)
  <1>1. ASSUME NEW v \in Movers
        PROVE  /\ k[v] \in Mover \cup {NoRequest}
               /\ v \notin rest => k[v] = h[v]
               /\ v \in rest => MarkedAs(movers[v], k[v]) /\ MarkedAs(h[v], k[v]) /\ (ReadBefore(v, S) => k[v].stale)
    <2>1. CASE v \in rest /\ ReadBefore(v, S)
      <3>1. h[v] \in Mover
        <4>1. h[v].op # "none"
          BY <2>1 DEF ReadBefore, MarkedAs
        <4> QED
          BY <4>1, NobodyAsks
      <3>2. k[v] = [h[v] EXCEPT !.stale = TRUE]
        BY <2>1 DEF Outdated
      <3>3. k[v] \in Mover /\ MarkedAs(h[v], k[v])
        BY <3>1, <3>2, MarkedIs
      <3>4. k[v].stale
        BY <3>1, <3>2 DEF Mover
      <3> QED
        BY <2>1, <3>3, <3>4, MarkedTwice
    <2>2. CASE ~ (v \in rest /\ ReadBefore(v, S))
      <3>1. k[v] = h[v]
        BY <2>2 DEF Outdated
      <3> QED
        BY <2>2, <3>1, SameIsMarked
    <2> QED
      BY <2>1, <2>2
  <1>2. k = [v \in Movers |-> k[v]]
    BY DEF Outdated
  <1> QED
    BY <1>1, <1>2

(* Whose t is, after w gave it to somebody.                                        *)
LEMMA GivenToSomebody ==
  ASSUME TaskBoardInv, NEW w \in Movers, movers[w].op \in {"create", "update"}, movers[w].step = "write",
         NEW t \in KanbanTasks, movers[w].task = {t}, movers[w].op = "create" => ~There(t),
         movers[w].op = "update" => There(t),
         There(t)', tasks'[t].assignee = movers[w].assignee,
         \A s \in KanbanTasks : s # t => There(s)' = There(s) /\ tasks'[s].assignee = tasks[s].assignee,
         notified' = [notified EXCEPT ![t] = ToldAfter(w, t)],
         \A s \in KanbanTasks : s \notin hushed' => s \notin hushed \/ (s = t /\ movers[w].op = "create"),
         movers[w].op = "update" /\ movers[w].raced => t \in hushed',
         \A v \in Movers : v # w => MarkedAs(movers[v], movers'[v]),
         \A v \in Movers : /\ v # w /\ movers[v].op = "update" /\ movers[v].task = {t} /\ movers[v].step # "tell"
                           /\ There(t) /\ tasks[t].assignee # movers[w].assignee
                => movers'[v].raced,
         \/ /\ NeedsNotice(w) /\ movers'[w].op = movers[w].op /\ movers'[w].step = "tell"
            /\ movers'[w].task = movers[w].task /\ movers'[w].assignee = movers[w].assignee
         \/ ~NeedsNotice(w) /\ movers'[w] = NoRequest
  PROVE  HandsKept'
  <1>1. PICK S : S = movers[w].assignee
    OBVIOUS
  <1>2. TaskTypes /\ AsksFor(movers[w]) /\ IdsAreFresh
    BY DEF TaskBoardInv
  <1>3. ASSUME NEW s \in KanbanTasks, s # t, s \notin hushed', There(s)'
        PROVE  \/ tasks'[s].assignee \subseteq notified'[s]
               \/ \E v \in Movers : Tells(v, s)' /\ movers'[v].assignee = tasks'[s].assignee
    <2>1. There(s) /\ tasks'[s].assignee = tasks[s].assignee /\ s \notin hushed /\ notified'[s] = notified[s]
      BY <1>2, <1>3 DEF TaskTypes
    <2>2. \/ tasks[s].assignee \subseteq notified[s]
          \/ \E v \in Movers : Tells(v, s) /\ movers[v].assignee = tasks[s].assignee
      BY <2>1 DEF TaskBoardInv, HandsKept
    <2>3. ASSUME NEW v \in Movers, Tells(v, s), movers[v].assignee = tasks[s].assignee
          PROVE  Tells(v, s)' /\ movers'[v].assignee = tasks'[s].assignee
      <3>1. v # w
        BY <2>3 DEF Tells
      <3> QED
        BY <2>1, <2>3, <3>1 DEF Tells, MarkedAs
    <2> QED
      BY <2>1, <2>2, <2>3
  <1>4. ASSUME t \notin hushed'
        PROVE  \/ S \subseteq notified'[t]
               \/ \E v \in Movers : Tells(v, t)' /\ movers'[v].assignee = S
    <2>1. notified'[t] = ToldAfter(w, t)
      BY <1>2 DEF TaskTypes
    <2>2. CASE NeedsNotice(w)
      <3>1. movers'[w].op # "none" /\ movers'[w].step = "tell" /\ movers'[w].task = {t} /\ movers'[w].assignee = S
        BY <1>1, <2>2
      <3> QED
        BY <3>1 DEF Tells
    <2>3. CASE ~NeedsNotice(w)
      <3>1. S \in {{}, movers[w].was, movers[w].by}
        BY <1>1, <2>3 DEF NeedsNotice
      <3>2. CASE There(t) /\ tasks[t].assignee = S
        <4>1. notified'[t] = notified[t]
          BY <1>1, <2>1, <3>2 DEF ToldAfter
        <4>2. t \notin hushed
          BY <1>4, <3>2
        <4>3. \/ S \subseteq notified[t]
              \/ \E v \in Movers : Tells(v, t) /\ movers[v].assignee = S
          BY <3>2, <4>2 DEF TaskBoardInv, HandsKept
        <4>4. ASSUME NEW v \in Movers, Tells(v, t), movers[v].assignee = S
              PROVE  Tells(v, t)' /\ movers'[v].assignee = S
          <5>1. v # w
            BY <4>4 DEF Tells
          <5> QED
            BY <4>4, <5>1 DEF Tells, MarkedAs
        <4> QED
          BY <4>1, <4>3, <4>4
      <3>3. CASE ~ (There(t) /\ tasks[t].assignee = S)
        <4>1. notified'[t] = S \cap movers[w].by
          BY <1>1, <2>1, <3>3 DEF ToldAfter
        <4>2. S = {} \/ S = movers[w].by
          <5>1. CASE movers[w].op = "create"
            BY <1>2, <3>1, <5>1 DEF AsksFor
          <5>2. CASE movers[w].op = "update"
            <6>1. ~movers[w].raced
              BY <1>4, <5>2
            <6>2. movers[w].was \in {{}, tasks[t].assignee}
              BY <5>2, <6>1 DEF TaskBoardInv, HandsKept
            <6> QED
              BY <3>1, <3>3, <5>2, <6>2
          <5> QED
            BY <5>1, <5>2
        <4> QED
          BY <4>1, <4>2
      <3> QED
        BY <3>2, <3>3
    <2> QED
      BY <2>2, <2>3
  <1>5. ASSUME NEW v \in Movers, movers'[v].op = "update", movers'[v].step # "tell", ~movers'[v].raced,
               NEW s \in movers'[v].task, There(s)'
        PROVE  movers'[v].was \in {{}, tasks'[s].assignee}
    <2>1. v # w
      BY <1>5, NobodyAsks
    <2>2. /\ movers[v].op = "update" /\ movers[v].step # "tell" /\ ~movers[v].raced
          /\ s \in movers[v].task /\ movers'[v].was = movers[v].was
      BY <1>5, <2>1 DEF MarkedAs
    <2>3. movers[v].task = {s} /\ s \in KanbanTasks
      BY <2>2 DEF TaskBoardInv, AsksFor
    <2>4. CASE s # t
      <3>1. There(s) /\ tasks'[s].assignee = tasks[s].assignee
        BY <1>5, <2>3, <2>4
      <3> QED
        BY <2>2, <3>1 DEF TaskBoardInv, HandsKept
    <2>5. CASE s = t
      <3>1. movers[w].op = "update"
        <4>1. movers[v].op # "none" /\ movers[v].task = movers[w].task
          BY <2>2, <2>3, <2>5
        <4> QED
          BY <1>2, <2>1, <4>1 DEF IdsAreFresh
      <3>2. There(t) /\ tasks[t].assignee = S
        BY <1>1, <1>5, <2>1, <2>2, <2>3, <2>5, <3>1
      <3> QED
        BY <1>1, <2>2, <2>5, <3>2 DEF TaskBoardInv, HandsKept
    <2> QED
      BY <2>4, <2>5
  <1> QED
    BY <1>1, <1>3, <1>4, <1>5 DEF HandsKept

LEMMA UpdateTaskKeeps ==
  ASSUME TaskBoardInv, NEW w \in Movers, UpdateTask(w)
  PROVE  TaskBoardInv'
  <1>1. /\ movers[w].op = "update" /\ movers[w].step = "write"
        /\ UNCHANGED <<columns, team, mode, cursor, turns, tangled, skewed>>
    BY DEF UpdateTask, Reaches
  <1>2. PICK t \in movers[w].task :
          /\ There(t)
          /\ tasks' = [tasks EXCEPT ![t].assignee = movers[w].assignee]
          /\ movers' = HandedOver(w, t)
          /\ hushed' = IF movers[w].raced THEN hushed \cup {t} ELSE hushed
          /\ notified' = [notified EXCEPT ![t] = ToldAfter(w, t)]
    BY DEF UpdateTask
  <1>3. movers[w] \in Mover /\ AsksFor(movers[w]) /\ TaskTypes /\ \A v \in Movers : AsksFor(movers[v])
    BY <1>1, MoverIs DEF TaskBoardInv
  <1>4. t \in KanbanTasks /\ movers[w].task = {t}
    BY <1>1, <1>2, <1>3 DEF AsksFor
  <1>5. PICK S \in Assignee : S = movers[w].assignee
    BY <1>3 DEF Mover
  <1>6. PICK row : row = [tasks[t] EXCEPT !.assignee = S]
    OBVIOUS
  <1>7. tasks[t] \in Task
    BY <1>2, <1>3, <1>4, TaskIs
  <1>8. /\ row \in Task /\ row.is = "there" /\ row.column = tasks[t].column /\ row.position = tasks[t].position
        /\ row.assignee = S
    BY <1>6, <1>7 DEF Task
  <1>9. tasks' = [tasks EXCEPT ![t] = row]
    BY <1>2, <1>3, <1>5, <1>6 DEF TaskTypes
  <1>10. /\ tasks' \in [KanbanTasks -> Task \cup {NoTask}]
         /\ tasks'[t] = row
         /\ \A s \in KanbanTasks : s # t => tasks'[s] = tasks[s]
    BY <1>3, <1>4, <1>8, <1>9 DEF TaskTypes
  <1>11. \A s \in KanbanTasks : /\ There(s)' = There(s) /\ tasks'[s].column = tasks[s].column
                                /\ tasks'[s].position = tasks[s].position
    BY <1>2, <1>8, <1>10 DEF There
  <1>12. /\ movers' \in [Movers -> Mover \cup {NoRequest}]
         /\ \A v \in Movers : v # w => MarkedAs(movers[v], movers'[v])
         /\ \A v \in Movers : /\ v # w /\ movers[v].op = "update" /\ movers[v].task = {t} /\ movers[v].step # "tell"
                              /\ tasks[t].assignee # movers[w].assignee
                => movers'[v].raced
         /\ \/ NeedsNotice(w) /\ movers'[w].op = movers[w].op /\ movers'[w].step = "tell"
                 /\ movers'[w].task = movers[w].task
                 /\ movers'[w].column = movers[w].column /\ movers'[w].from = movers[w].from
                 /\ movers'[w].was = movers[w].was /\ movers'[w].assignee = movers[w].assignee
            \/ ~NeedsNotice(w) /\ movers'[w] = NoRequest
    BY <1>1, <1>2, <1>3, <1>4, HandedOverIs
  <1>13. \A v \in Movers : AsksFor(movers'[v])
    <2>1. AsksFor(movers'[w])
      BY <1>1, <1>3, <1>12, NobodyAsks DEF AsksFor
    <2> QED
      BY <1>3, <1>12, <2>1, MarkedAsksFor
  <1>14. notified' \in [KanbanTasks -> SUBSET Teammates]
    <2>1. ToldAfter(w, t) \in SUBSET Teammates
      <3>1. S \subseteq Teammates
        BY DEF Assignee
      <3> QED
        BY <1>3, <1>4, <1>5, <3>1 DEF ToldAfter, TaskTypes
    <2> QED
      BY <1>2, <1>3, <2>1 DEF TaskTypes
  <1>15. hushed' \subseteq KanbanTasks
    BY <1>2, <1>3, <1>4 DEF TaskTypes
  <1>16. TaskTypes'
    BY <1>1, <1>3, <1>10, <1>12, <1>14, <1>15 DEF TaskTypes
  <1>17. OnBoard' = OnBoard
    BY <1>1 DEF OnBoard
  <1>18. CarriesOn(w) /\ SameColumnRequest(w) /\ SamePlacement(w, {}) /\ SamePick(w)
    BY <1>1, <1>12, NobodyAsks DEF CarriesOn, SameColumnRequest, SamePlacement, SamePick
  <1>19. ASSUME NEW v \in Movers
         PROVE  CarriesOn(v) /\ SameColumnRequest(v) /\ SamePlacement(v, {}) /\ SamePick(v)
    <2>1. CASE v = w
      BY <1>18, <2>1
    <2>2. CASE v # w
      <3>1. Quiet(v, {})
        BY <1>12, <2>2 DEF Quiet, ReadBefore
      <3> QED
        BY <3>1, QuietIs
    <2> QED
      BY <2>1, <2>2
  <1>20. IdsAreFresh'
    <2>1. \A s \in KanbanTasks : There(s)' => tasks'[s].column \in OnBoard'
      BY <1>11, <1>17 DEF TaskBoardInv, IdsAreFresh
    <2> QED
      BY <1>3, <1>11, <1>17, <1>19, <2>1, IdsGoOn DEF TaskBoardInv
  <1>21. ColumnsKept'
    BY <1>1, <1>19, ColumnsStay DEF TaskBoardInv
  <1>22. PlacesKept'
    <2>1. \A c : SameTasks(c)
      BY <1>11 DEF SameTasks, TasksOf
    <2> QED
      BY <1>1, <1>3, <1>19, <2>1, PlacesStay DEF TaskBoardInv
  <1>23. TurnsKept'
    BY <1>1, <1>19, TurnsStay DEF TaskBoardInv
  <1>24. HandsKept'
    <2>1. \A s \in KanbanTasks : s # t => There(s)' = There(s) /\ tasks'[s].assignee = tasks[s].assignee
      BY <1>10, <1>11
    <2>2. \A s \in KanbanTasks : s \notin hushed' => s \notin hushed \/ (s = t /\ movers[w].op = "create")
      BY <1>2
    <2>3. tasks'[t].assignee = movers[w].assignee /\ There(t)'
      BY <1>2, <1>4, <1>5, <1>8, <1>10, <1>11
    <2>4. movers[w].op = "update" /\ movers[w].raced => t \in hushed'
      BY <1>2
    <2>5. \A v \in Movers : /\ v # w /\ movers[v].op = "update" /\ movers[v].task = {t} /\ movers[v].step # "tell"
                            /\ There(t) /\ tasks[t].assignee # movers[w].assignee
            => movers'[v].raced
      BY <1>12
    <2>6. \/ /\ NeedsNotice(w) /\ movers'[w].op = movers[w].op /\ movers'[w].step = "tell"
             /\ movers'[w].task = movers[w].task /\ movers'[w].assignee = movers[w].assignee
          \/ ~NeedsNotice(w) /\ movers'[w] = NoRequest
      BY <1>12
    <2> QED
      BY <1>1, <1>2, <1>4, <1>12, <2>1, <2>2, <2>3, <2>4, <2>5, <2>6, GivenToSomebody
  <1> QED
    BY <1>13, <1>16, <1>20, <1>21, <1>22, <1>23, <1>24 DEF TaskBoardInv

-------------------------------------------------------------------------------
(* Positions *)

(* 1 to n, each once, of the things in T.                                         *)
InOrder(T, f) ==
    /\ \A t \in T : f[t] <= Cardinality(T)
    /\ \A s, t \in T : s # t => f[s] # f[t]

LEMMA InsertedInOrder ==
  ASSUME NEW T, IsFiniteSet(T), NEW f, InOrder(T, f), NEW g, NEW t, t \notin T,
         \A s \in T : f[s] \in Nat \ {0}, NEW q \in Nat, q > 0, q <= Cardinality(T) + 1, g[t] = q,
         \A s \in T : g[s] = IF f[s] >= q THEN f[s] + 1 ELSE f[s]
  PROVE  InOrder(T \cup {t}, g) /\ Cardinality(T \cup {t}) = Cardinality(T) + 1
  <1>1. PICK n : n = Cardinality(T)
    OBVIOUS
  <1>2. n \in Nat /\ Cardinality(T \cup {t}) = n + 1
    BY <1>1, FS_CardinalityType, FS_AddElement
  <1>3. ASSUME NEW s \in T
        PROVE  g[s] <= n + 1 /\ g[s] # q
    <2>1. PICK a \in Nat : a = f[s] /\ a <= n
      BY <1>1 DEF InOrder
    <2>2. g[s] = IF a >= q THEN a + 1 ELSE a
      BY <2>1
    <2> QED
      BY <1>2, <2>1, <2>2
  <1>4. ASSUME NEW s \in T, NEW u \in T, s # u
        PROVE  g[s] # g[u]
    <2>1. PICK a, b \in Nat : a = f[s] /\ b = f[u] /\ a # b
      BY <1>4 DEF InOrder
    <2>2. g[s] = (IF a >= q THEN a + 1 ELSE a) /\ g[u] = (IF b >= q THEN b + 1 ELSE b)
      BY <2>1
    <2> QED
      BY <2>1, <2>2
  <1>5. q <= n + 1
    BY <1>1
  <1>6. \A s \in T \cup {t} : g[s] <= n + 1
    BY <1>3, <1>5
  <1>7. \A s, u \in T \cup {t} : s # u => g[s] # g[u]
    BY <1>3, <1>4
  <1> QED
    BY <1>1, <1>2, <1>6, <1>7 DEF InOrder

LEMMA RemovedInOrder ==
  ASSUME NEW T, IsFiniteSet(T), NEW f, InOrder(T, f), NEW g, NEW t \in T,
         \A s \in T : f[s] \in Nat \ {0},
         \A s \in T \ {t} : g[s] = IF f[s] > f[t] THEN f[s] - 1 ELSE f[s]
  PROVE  InOrder(T \ {t}, g)
  <1>1. PICK n : n = Cardinality(T)
    OBVIOUS
  <1>2. n \in Nat /\ Cardinality(T \ {t}) = n - 1
    BY <1>1, FS_CardinalityType, FS_RemoveElement
  <1>3. PICK p \in Nat : p = f[t] /\ p <= n /\ p > 0
    BY <1>1 DEF InOrder
  <1>4. ASSUME NEW s \in T \ {t}
        PROVE  g[s] <= n - 1
    <2>1. PICK a \in Nat : a = f[s] /\ a <= n /\ a # p
      BY <1>1, <1>3 DEF InOrder
    <2>2. g[s] = IF a > p THEN a - 1 ELSE a
      BY <1>3, <2>1
    <2> QED
      BY <1>2, <1>3, <2>1, <2>2
  <1>5. ASSUME NEW s \in T \ {t}, NEW u \in T \ {t}, s # u
        PROVE  g[s] # g[u]
    <2>1. PICK a, b \in Nat : a = f[s] /\ b = f[u] /\ a # b /\ a # p /\ b # p
      BY <1>3, <1>5 DEF InOrder
    <2>2. g[s] = (IF a > p THEN a - 1 ELSE a) /\ g[u] = (IF b > p THEN b - 1 ELSE b)
      BY <1>3, <2>1
    <2> QED
      BY <1>3, <2>1, <2>2
  <1> QED
    BY <1>2, <1>4, <1>5 DEF InOrder

LEMMA MovedInOrder ==
  ASSUME NEW T, IsFiniteSet(T), NEW f, InOrder(T, f), NEW g, NEW t \in T,
         \A s \in T : f[s] \in Nat \ {0}, NEW q \in Nat, q > 0, q <= Cardinality(T), g[t] = q,
         q < f[t] => \A s \in T \ {t} : g[s] = IF f[s] \in q..(f[t] - 1) THEN f[s] + 1 ELSE f[s],
         ~ (q < f[t]) => \A s \in T \ {t} : g[s] = IF f[s] \in (f[t] + 1)..q THEN f[s] - 1 ELSE f[s]
  PROVE  InOrder(T, g)
  <1>1. PICK n : n = Cardinality(T)
    OBVIOUS
  <1>2. n \in Nat /\ q <= n
    BY <1>1, FS_CardinalityType
  <1>3. PICK p \in Nat : p = f[t] /\ p <= n /\ p > 0
    BY <1>1 DEF InOrder
  <1>4. ASSUME NEW s \in T \ {t}
        PROVE  /\ f[s] \in 1..n /\ f[s] # p
               /\ g[s] = IF q < p THEN (IF f[s] \in q..(p - 1) THEN f[s] + 1 ELSE f[s])
                         ELSE (IF f[s] \in (p + 1)..q THEN f[s] - 1 ELSE f[s])
    BY <1>1, <1>2, <1>3 DEF InOrder
  <1>5. ASSUME NEW s \in T \ {t}
        PROVE  g[s] <= n /\ g[s] # q
    <2>1. PICK a \in 1..n : a = f[s] /\ a # p
      BY <1>4
    <2>2. g[s] = IF q < p THEN (IF a \in q..(p - 1) THEN a + 1 ELSE a) ELSE (IF a \in (p + 1)..q THEN a - 1 ELSE a)
      BY <1>4, <2>1
    <2>3. CASE q < p
      BY <1>2, <1>3, <2>1, <2>2, <2>3
    <2>4. CASE ~ (q < p)
      BY <1>2, <1>3, <2>1, <2>2, <2>4
    <2> QED
      BY <2>3, <2>4
  <1>6. ASSUME NEW s \in T \ {t}, NEW u \in T \ {t}, s # u
        PROVE  g[s] # g[u]
    <2>1. PICK a, b \in 1..n : a = f[s] /\ b = f[u] /\ a # p /\ b # p /\ a # b
      BY <1>4, <1>6 DEF InOrder
    <2>2. /\ g[s] = IF q < p THEN (IF a \in q..(p - 1) THEN a + 1 ELSE a) ELSE (IF a \in (p + 1)..q THEN a - 1 ELSE a)
          /\ g[u] = IF q < p THEN (IF b \in q..(p - 1) THEN b + 1 ELSE b) ELSE (IF b \in (p + 1)..q THEN b - 1 ELSE b)
      BY <1>4, <2>1
    <2>3. CASE q < p
      BY <1>2, <1>3, <2>1, <2>2, <2>3
    <2>4. CASE ~ (q < p)
      BY <1>2, <1>3, <2>1, <2>2, <2>4
    <2> QED
      BY <2>3, <2>4
  <1>7. \A s \in T : g[s] <= n
    BY <1>2, <1>5
  <1>8. \A s, u \in T : s # u => g[s] # g[u]
    BY <1>5, <1>6
  <1> QED
    BY <1>1, <1>7, <1>8 DEF InOrder

(* A task as MoveTask leaves it before the database checks its position.               *)
Row == [is : {"there"}, column : KanbanColumns, position : Nat \ {0}, assignee : Assignee]

LEMMA RowIs ==
  /\ Task \subseteq Row
  /\ \A r \in Row \cup {NoTask} : r.is = "there" => r \in Row
  /\ \A r \in Row : r.position <= MaxPosition => r \in Task
  <1>1. \A p \in 1..MaxPosition : p \in Nat \ {0}
    BY TaskBoardAssumption
  <1>2. \A p \in Nat \ {0} : p <= MaxPosition => p \in 1..MaxPosition
    BY TaskBoardAssumption
  <1> QED
    BY <1>1, <1>2 DEF Task, Row, NoTask

LEMMA ShiftedIs ==
  ASSUME NEW rows, rows \in [KanbanTasks -> Row \cup {NoTask}], NEW c, NEW R, NEW d \in {-1, 1},
         d = -1 => \A x \in R : x \in Nat /\ x > 1,
         NEW new, new = Shifted(rows, c, R, d)
  PROVE  /\ new \in [KanbanTasks -> Row \cup {NoTask}]
         /\ \A t \in KanbanTasks :
              /\ new[t].is = rows[t].is
              /\ rows[t].is = "there" =>
                   /\ new[t].column = rows[t].column /\ new[t].assignee = rows[t].assignee
                   /\ new[t].position = IF rows[t].column = c /\ rows[t].position \in R THEN rows[t].position + d
                                        ELSE rows[t].position
              /\ rows[t].is = "there" /\ ~ (rows[t].column = c /\ rows[t].position \in R) => new[t] = rows[t]
  <1>1. ASSUME NEW t \in KanbanTasks
        PROVE  /\ new[t] \in Row \cup {NoTask}
               /\ new[t].is = rows[t].is
               /\ rows[t].is = "there" =>
                    /\ new[t].column = rows[t].column /\ new[t].assignee = rows[t].assignee
                    /\ new[t].position = IF rows[t].column = c /\ rows[t].position \in R THEN rows[t].position + d
                                         ELSE rows[t].position
               /\ rows[t].is = "there" /\ ~ (rows[t].column = c /\ rows[t].position \in R) => new[t] = rows[t]
    <2>1. CASE rows[t].is = "there" /\ rows[t].column = c /\ rows[t].position \in R
      <3>1. rows[t] \in Row
        BY <2>1, RowIs
      <3>2. new[t] = [rows[t] EXCEPT !.position = rows[t].position + d]
        BY <2>1 DEF Shifted
      <3>3. rows[t].position + d \in Nat \ {0}
        <4>1. PICK p \in Nat : p = rows[t].position /\ p > 0
          BY <3>1 DEF Row
        <4>2. CASE d = 1
          BY <4>1, <4>2
        <4>3. CASE d = -1
          BY <2>1, <4>1, <4>3
        <4> QED
          BY <4>2, <4>3
      <3> QED
        BY <2>1, <3>1, <3>2, <3>3 DEF Row
    <2>2. CASE ~ (rows[t].is = "there" /\ rows[t].column = c /\ rows[t].position \in R)
      <3>1. new[t] = rows[t]
        BY <2>2 DEF Shifted
      <3> QED
        BY <2>2, <3>1
    <2> QED
      BY <2>1, <2>2
  <1>2. new = [t \in KanbanTasks |-> new[t]]
    BY DEF Shifted
  <1> QED
    BY <1>1, <1>2

Position == [t \in KanbanTasks |-> tasks[t].position]

LEMMA InPlaceIs ==
  ASSUME NEW c
  PROVE  InPlace(c) <=> InOrder(TasksOf(c), Position)
  BY DEF InPlace, InOrder, Position, TasksOf

LEMMA InPlaceAfter ==
  ASSUME NEW c
  PROVE  InPlace(c)' <=> InOrder(TasksOf(c)', Position')
  <1>1. \A t \in TasksOf(c)' : Position'[t] = tasks'[t].position
    BY DEF Position, TasksOf
  <1> QED
    BY <1>1 DEF InPlace, InOrder

LEMMA PositionIs ==
  ASSUME TaskTypes, NEW c
  PROVE  \A t \in TasksOf(c) : Position[t] = tasks[t].position /\ Position[t] \in Nat \ {0} /\ Position[t] <= MaxPosition
  BY TaskIs, TaskBoardAssumption DEF TasksOf, Task, Position

LEMMA CreateTaskKeeps ==
  ASSUME TaskBoardInv, NEW w \in Movers, CreateTask(w)
  PROVE  TaskBoardInv'
  <1>1. /\ movers[w].op = "create" /\ movers[w].step = "write"
        /\ UNCHANGED <<columns, team, mode, cursor, turns, skewed>>
    BY DEF CreateTask, Reaches
  <1>2. PICK t \in movers[w].task, c \in movers[w].column \cap OnBoard :
          /\ movers[w].max < MaxPosition
          /\ tasks' = [tasks EXCEPT ![t] = [is |-> "there", column |-> c, position |-> movers[w].max + 1,
                                            assignee |-> movers[w].assignee]]
          /\ movers' = Outdated(HandedOver(w, t), Movers \ {w}, {c})
          /\ tangled' = IF movers[w].stale THEN tangled \cup {c} ELSE tangled
          /\ notified' = [notified EXCEPT ![t] = ToldAfter(w, t)] /\ hushed' = hushed \ {t}
    BY DEF CreateTask
  <1>3. movers[w] \in Mover /\ AsksFor(movers[w]) /\ TaskTypes /\ \A v \in Movers : AsksFor(movers[v])
    BY <1>1, MoverIs DEF TaskBoardInv
  <1>4. t \in KanbanTasks /\ movers[w].task = {t} /\ ~There(t) /\ c \in KanbanColumns
    BY <1>1, <1>2, <1>3 DEF AsksFor, TaskBoardInv, IdsAreFresh, OnBoard
  <1>5. PICK S \in Assignee : S = movers[w].assignee
    BY <1>3 DEF Mover
  <1>6. PICK m \in Nat : m = movers[w].max /\ m < MaxPosition
    BY <1>2, <1>3 DEF Mover
  <1>7. PICK row : row = [is |-> "there", column |-> c, position |-> m + 1, assignee |-> S]
    OBVIOUS
  <1>8. m + 1 \in 1..MaxPosition
    BY <1>6, TaskBoardAssumption
  <1>9. /\ row \in Task /\ row.is = "there" /\ row.column = c /\ row.position = m + 1
        /\ row.assignee = S
    BY <1>4, <1>7, <1>8 DEF Task
  <1>10. /\ tasks' \in [KanbanTasks -> Task \cup {NoTask}]
         /\ tasks'[t] = row
         /\ \A s \in KanbanTasks : s # t => tasks'[s] = tasks[s]
    BY <1>2, <1>3, <1>4, <1>5, <1>6, <1>7, <1>9 DEF TaskTypes
  <1>11. There(t)' /\ \A s \in KanbanTasks : s # t => There(s)' = There(s)
    BY <1>4, <1>9, <1>10 DEF There
  <1>12. PICK h : h = HandedOver(w, t)
    OBVIOUS
  <1>13. /\ h \in [Movers -> Mover \cup {NoRequest}]
         /\ \A v \in Movers : v # w => MarkedAs(movers[v], h[v])
         /\ \/ NeedsNotice(w) /\ h[w].op = movers[w].op /\ h[w].step = "tell"
                 /\ h[w].task = movers[w].task
                 /\ h[w].column = movers[w].column /\ h[w].from = movers[w].from
                 /\ h[w].was = movers[w].was /\ h[w].assignee = movers[w].assignee
            \/ ~NeedsNotice(w) /\ h[w] = NoRequest
    BY <1>1, <1>3, <1>4, <1>12, HandedOverIs
  <1>14. /\ movers' \in [Movers -> Mover \cup {NoRequest}]
         /\ movers'[w] = h[w]
         /\ \A v \in Movers : v # w => MarkedAs(movers[v], movers'[v]) /\ (ReadBefore(v, {c}) => movers'[v].stale)
    <2>1. movers' = Outdated(h, Movers \ {w}, {c})
      BY <1>2, <1>12
    <2>2. \A v \in Movers : v \in Movers \ {w} => MarkedAs(movers[v], h[v])
      BY <1>13
    <2>3. /\ movers' \in [Movers -> Mover \cup {NoRequest}]
          /\ \A v \in Movers : v \notin Movers \ {w} => movers'[v] = h[v]
          /\ \A v \in Movers : v \in Movers \ {w} =>
               MarkedAs(movers[v], movers'[v]) /\ (ReadBefore(v, {c}) => movers'[v].stale)
      BY <1>13, <2>1, <2>2, OutdatedIs
    <2> QED
      BY <2>3
  <1>15. \A v \in Movers : AsksFor(movers'[v])
    <2>1. AsksFor(movers'[w])
      BY <1>1, <1>3, <1>13, <1>14, NobodyAsks DEF AsksFor
    <2> QED
      BY <1>3, <1>14, <2>1, MarkedAsksFor
  <1>16. notified' \in [KanbanTasks -> SUBSET Teammates]
    <2>1. ToldAfter(w, t) \in SUBSET Teammates
      <3>1. S \subseteq Teammates
        BY DEF Assignee
      <3> QED
        BY <1>3, <1>4, <1>5, <3>1 DEF ToldAfter, TaskTypes
    <2> QED
      BY <1>2, <1>3, <2>1 DEF TaskTypes
  <1>17. hushed' \subseteq KanbanTasks /\ tangled' \subseteq KanbanColumns
    BY <1>2, <1>3, <1>4 DEF TaskTypes
  <1>18. TaskTypes'
    BY <1>1, <1>3, <1>10, <1>14, <1>16, <1>17 DEF TaskTypes
  <1>19. OnBoard' = OnBoard
    BY <1>1 DEF OnBoard
  <1>20. CarriesOn(w) /\ SameColumnRequest(w) /\ SamePlacement(w, {c}) /\ SamePick(w)
    BY <1>1, <1>13, <1>14, NobodyAsks DEF CarriesOn, SameColumnRequest, SamePlacement, SamePick
  <1>21. ASSUME NEW v \in Movers
         PROVE  CarriesOn(v) /\ SameColumnRequest(v) /\ SamePlacement(v, {c}) /\ SamePick(v)
    <2>1. CASE v = w
      BY <1>20, <2>1
    <2>2. CASE v # w
      <3>1. Quiet(v, {c})
        BY <1>14, <2>2 DEF Quiet
      <3> QED
        BY <3>1, QuietIs
    <2> QED
      BY <2>1, <2>2
  <1>22. IdsAreFresh'
    <2>1. ASSUME NEW s \in KanbanTasks, There(s)'
          PROVE  tasks'[s].column \in OnBoard'
      <3>1. CASE s = t
        BY <1>2, <1>9, <1>10, <1>19, <3>1
      <3>2. CASE s # t
        BY <1>10, <1>11, <1>19, <2>1, <3>2 DEF TaskBoardInv, IdsAreFresh
      <3> QED
        BY <3>1, <3>2
    <2>2. movers'[w].op # "create" \/ movers'[w].step = "tell"
      BY <1>13, <1>14, NobodyAsks
    <2>3. ASSUME NEW s \in KanbanTasks, There(s)', ~There(s)
          PROVE  /\ movers[w].op = "create" /\ movers[w].step # "tell" /\ movers[w].task = {s}
                 /\ movers'[w].op # "create" \/ movers'[w].step = "tell"
      BY <1>1, <1>4, <1>11, <2>2, <2>3
    <2> QED
      BY <1>3, <1>19, <1>21, <2>1, <2>3, IdsGoOn DEF TaskBoardInv
  <1>23. ColumnsKept'
    BY <1>1, <1>21, ColumnsStay DEF TaskBoardInv
  <1>24. PlacesKept'
    <2>1. ASSUME NEW d \in KanbanColumns \ {c}
          PROVE  SameTasks(d)
      <3>1. \A s \in KanbanTasks : s \in TasksOf(d)' <=> s \in TasksOf(d)
        BY <1>4, <1>9, <1>10, <1>11, <2>1 DEF TasksOf
      <3>2. TasksOf(d)' = TasksOf(d)
        BY <3>1 DEF TasksOf
      <3>3. t \notin TasksOf(d)
        BY <1>4 DEF TasksOf
      <3> QED
        BY <1>10, <3>2, <3>3 DEF SameTasks, TasksOf
    <2>2. ASSUME c \notin tangled'
          PROVE  InPlace(c)'
      <3>1. ~movers[w].stale /\ c \notin tangled
        BY <1>2, <2>2
      <3>2. ReadsHold(w) /\ InPlace(c)
        BY <1>4, <3>1 DEF TaskBoardInv, PlacesKept
      <3>3. m = Cardinality(TasksOf(c))
        BY <1>1, <1>2, <1>6, <3>1, <3>2 DEF ReadsHold
      <3>4. PICK T, f, g : T = TasksOf(c) /\ f = Position /\ g = Position'
        OBVIOUS
      <3>5. IsFiniteSet(T) /\ InOrder(T, f) /\ t \notin T
        BY <1>4, <3>2, <3>4, TasksOfIsFinite, InPlaceIs DEF TasksOf
      <3>6. \A s \in T : f[s] \in Nat \ {0}
        BY <1>3, <3>4, PositionIs
      <3>7. g[t] = m + 1
        BY <1>4, <1>9, <1>10, <3>4 DEF Position
      <3>8. \A s \in T : g[s] = f[s] /\ f[s] <= m
        BY <1>10, <3>3, <3>4, <3>5 DEF Position, TasksOf, InOrder
      <3>9. \A s \in T : g[s] = IF f[s] >= m + 1 THEN f[s] + 1 ELSE f[s]
        BY <3>6, <3>8
      <3>10. m + 1 \in Nat /\ m + 1 > 0 /\ m + 1 <= Cardinality(T) + 1
        BY <3>3, <3>4
      <3>11. InOrder(T \cup {t}, g)
        BY <3>5, <3>6, <3>7, <3>9, <3>10, InsertedInOrder
      <3>12. TasksOf(c)' = T \cup {t}
        <4>1. \A s \in KanbanTasks : s \in TasksOf(c)' <=> s \in TasksOf(c) \/ s = t
          BY <1>4, <1>9, <1>10, <1>11 DEF TasksOf
        <4>2. TasksOf(c) \subseteq KanbanTasks /\ TasksOf(c)' \subseteq KanbanTasks
          BY DEF TasksOf
        <4> QED
          BY <1>4, <3>4, <4>1, <4>2
      <3> QED
        BY <3>4, <3>11, <3>12, InPlaceAfter
    <2>3. tangled \ {c} \subseteq tangled'
      BY <1>2
    <2> QED
      BY <1>3, <1>21, <2>1, <2>2, <2>3, PlacesStay DEF TaskBoardInv
  <1>25. TurnsKept'
    BY <1>1, <1>21, TurnsStay DEF TaskBoardInv
  <1>26. HandsKept'
    <2>1. \A s \in KanbanTasks : s # t => There(s)' = There(s) /\ tasks'[s].assignee = tasks[s].assignee
      BY <1>10, <1>11
    <2>2. \A s \in KanbanTasks : s \notin hushed' => s \notin hushed \/ (s = t /\ movers[w].op = "create")
      BY <1>1, <1>2
    <2>3. tasks'[t].assignee = movers[w].assignee /\ There(t)'
      BY <1>5, <1>9, <1>10, <1>11
    <2>5. \A v \in Movers : /\ v # w /\ movers[v].op = "update" /\ movers[v].task = {t} /\ movers[v].step # "tell"
                            /\ There(t) /\ tasks[t].assignee # movers[w].assignee
            => movers'[v].raced
      BY <1>4
    <2>6. \/ /\ NeedsNotice(w) /\ movers'[w].op = movers[w].op /\ movers'[w].step = "tell"
             /\ movers'[w].task = movers[w].task /\ movers'[w].assignee = movers[w].assignee
          \/ ~NeedsNotice(w) /\ movers'[w] = NoRequest
      BY <1>13, <1>14
    <2> QED
      BY <1>1, <1>2, <1>4, <1>14, <2>1, <2>2, <2>3, <2>5, <2>6, GivenToSomebody
  <1> QED
    BY <1>15, <1>18, <1>22, <1>23, <1>24, <1>25, <1>26 DEF TaskBoardInv

LEMMA DeleteTaskKeeps ==
  ASSUME TaskBoardInv, NEW t \in KanbanTasks, DeleteTask(t)
  PROVE  TaskBoardInv'
  <1>1. PICK c, p : c = tasks[t].column /\ p = tasks[t].position
    OBVIOUS
  <1>2. /\ There(t)
        /\ tasks' = Shifted([tasks EXCEPT ![t] = NoTask], c, (p + 1)..MaxPosition, -1)
        /\ movers' = Outdated(movers, Movers, {c})
        /\ notified' = [notified EXCEPT ![t] = {}]
        /\ UNCHANGED <<columns, team, mode, cursor, hushed, turns, tangled, skewed>>
    BY <1>1 DEF DeleteTask
  <1>3. TaskTypes /\ \A v \in Movers : AsksFor(movers[v])
    BY DEF TaskBoardInv
  <1>4. tasks[t] \in Task /\ c \in KanbanColumns /\ p \in 1..MaxPosition /\ t \in TasksOf(c)
    BY <1>1, <1>2, <1>3, TaskIs DEF Task, TasksOf
  <1>5. PICK rows : rows = [tasks EXCEPT ![t] = NoTask]
    OBVIOUS
  <1>6. /\ rows \in [KanbanTasks -> Row \cup {NoTask}] /\ rows[t] = NoTask
        /\ \A s \in KanbanTasks : s # t => rows[s] = tasks[s]
    <2>1. tasks \in [KanbanTasks -> Row \cup {NoTask}]
      BY <1>3, RowIs DEF TaskTypes
    <2> QED
      BY <1>5, <2>1
  <1>7. PICK R : R = (p + 1)..MaxPosition
    OBVIOUS
  <1>8. \A x \in R : x \in Nat /\ x > 1
    BY <1>4, <1>7, TaskBoardAssumption
  <1>9. /\ tasks' \in [KanbanTasks -> Row \cup {NoTask}]
        /\ \A s \in KanbanTasks :
             /\ tasks'[s].is = rows[s].is
             /\ rows[s].is = "there" =>
                  /\ tasks'[s].column = rows[s].column /\ tasks'[s].assignee = rows[s].assignee
                  /\ tasks'[s].position = IF rows[s].column = c /\ rows[s].position \in R THEN rows[s].position + -1
                                          ELSE rows[s].position
             /\ rows[s].is = "there" /\ ~ (rows[s].column = c /\ rows[s].position \in R) => tasks'[s] = rows[s]
    <2>1. tasks' = Shifted(rows, c, R, -1)
      BY <1>2, <1>5, <1>7
    <2>2. -1 \in {-1, 1} /\ (-1 = -1 => \A x \in R : x \in Nat /\ x > 1)
      BY <1>8
    <2> QED
      BY <1>6, <2>1, <2>2, ShiftedIs
  <1>10. ~There(t)' /\ \A s \in KanbanTasks : s # t => There(s)' = There(s)
    BY <1>6, <1>9 DEF There, NoTask
  <1>11. ASSUME NEW s \in KanbanTasks, s # t, There(s)
         PROVE  /\ tasks[s] \in Task /\ tasks'[s].column = tasks[s].column /\ tasks'[s].assignee = tasks[s].assignee
                /\ tasks'[s].position = IF tasks[s].column = c /\ tasks[s].position > p THEN tasks[s].position - 1
                                        ELSE tasks[s].position
                /\ tasks'[s].position <= MaxPosition
                /\ tasks[s].column # c => tasks'[s] = tasks[s]
    <2>1. tasks[s] \in Task
      BY <1>3, <1>11, TaskIs
    <2>2. PICK x \in 1..MaxPosition : x = tasks[s].position
      BY <2>1 DEF Task
    <2>3. x \in R <=> x > p
      BY <1>4, <1>7, <2>2, TaskBoardAssumption
    <2>4. /\ tasks'[s].column = tasks[s].column /\ tasks'[s].assignee = tasks[s].assignee
          /\ tasks'[s].position = IF tasks[s].column = c /\ x \in R THEN x + -1 ELSE x
          /\ tasks[s].column # c => tasks'[s] = tasks[s]
      BY <1>6, <1>9, <1>11, <2>2 DEF There
    <2>5. /\ tasks'[s].position = IF tasks[s].column = c /\ x > p THEN x - 1 ELSE x
          /\ tasks'[s].position <= MaxPosition
      BY <2>2, <2>3, <2>4, TaskBoardAssumption
    <2> QED
      BY <2>1, <2>2, <2>4, <2>5
  <1>12. tasks' \in [KanbanTasks -> Task \cup {NoTask}]
    <2>1. ASSUME NEW s \in KanbanTasks
          PROVE  tasks'[s] \in Task \cup {NoTask}
      <3>1. tasks'[s] \in Row \cup {NoTask}
        BY <1>9
      <3>2. CASE There(s)'
        <4>1. s # t /\ There(s)
          BY <1>10, <3>2
        <4>2. tasks'[s] \in Row /\ tasks'[s].position <= MaxPosition
          BY <1>11, <3>1, <3>2, <4>1, RowIs DEF There
        <4> QED
          BY <4>2, RowIs
      <3>3. CASE ~There(s)'
        BY <3>1, <3>3 DEF There, Row
      <3> QED
        BY <3>2, <3>3
    <2> QED
      BY <1>9, <2>1
  <1>13. /\ movers' \in [Movers -> Mover \cup {NoRequest}]
         /\ \A v \in Movers : MarkedAs(movers[v], movers'[v]) /\ (ReadBefore(v, {c}) => movers'[v].stale)
    <2>1. movers \in [Movers -> Mover \cup {NoRequest}]
      BY <1>3 DEF TaskTypes
    <2>2. \A v \in Movers : v \in Movers => MarkedAs(movers[v], movers[v])
      BY SameIsMarked
    <2> QED
      BY <1>2, <2>1, <2>2, OutdatedIs
  <1>14. \A v \in Movers : AsksFor(movers'[v])
    BY <1>3, <1>13, MarkedAsksFor
  <1>15. TaskTypes'
    BY <1>2, <1>3, <1>12, <1>13 DEF TaskTypes
  <1>16. ASSUME NEW v \in Movers
         PROVE  CarriesOn(v) /\ SameColumnRequest(v) /\ SamePlacement(v, {c}) /\ SameHands(v) /\ SamePick(v)
    BY <1>13, QuietIs DEF Quiet
  <1>17. OnBoard' = OnBoard
    BY <1>2 DEF OnBoard
  <1>18. IdsAreFresh'
    <2>1. ASSUME NEW s \in KanbanTasks, There(s)'
          PROVE  tasks'[s].column \in OnBoard' /\ There(s)
      BY <1>10, <1>11, <1>17, <2>1 DEF TaskBoardInv, IdsAreFresh
    <2> QED
      BY <1>3, <1>16, <1>17, <2>1, IdsGoOn DEF TaskBoardInv
  <1>19. ColumnsKept'
    BY <1>2, <1>16, ColumnsStay DEF TaskBoardInv
  <1>20. PlacesKept'
    <2>1. ASSUME NEW d \in KanbanColumns \ {c}
          PROVE  SameTasks(d)
      <3>1. \A s \in KanbanTasks : s \in TasksOf(d)' <=> s \in TasksOf(d)
        BY <1>1, <1>10, <1>11, <2>1 DEF TasksOf
      <3>2. TasksOf(d)' = TasksOf(d)
        BY <3>1 DEF TasksOf
      <3> QED
        BY <1>1, <1>11, <2>1, <3>2 DEF SameTasks, TasksOf
    <2>2. ASSUME c \notin tangled'
          PROVE  InPlace(c)'
      <3>1. InPlace(c)
        BY <1>2, <1>4, <2>2 DEF TaskBoardInv, PlacesKept
      <3>2. PICK T, f, g : T = TasksOf(c) /\ f = Position /\ g = Position'
        OBVIOUS
      <3>3. IsFiniteSet(T) /\ InOrder(T, f) /\ t \in T
        BY <1>4, <3>1, <3>2, TasksOfIsFinite, InPlaceIs
      <3>4. \A s \in T : f[s] \in Nat \ {0}
        BY <1>3, <3>2, PositionIs
      <3>5. f[t] = p
        BY <1>1, <3>2 DEF Position
      <3>6. \A s \in T \ {t} : g[s] = IF f[s] > f[t] THEN f[s] - 1 ELSE f[s]
        BY <1>11, <3>2, <3>5 DEF Position, TasksOf
      <3>7. InOrder(T \ {t}, g)
        BY <3>3, <3>4, <3>6, RemovedInOrder
      <3>8. TasksOf(c)' = T \ {t}
        <4>1. \A s \in KanbanTasks : s \in TasksOf(c)' <=> s \in TasksOf(c) /\ s # t
          BY <1>10, <1>11 DEF TasksOf
        <4>2. TasksOf(c) \subseteq KanbanTasks /\ TasksOf(c)' \subseteq KanbanTasks
          BY DEF TasksOf
        <4> QED
          BY <3>2, <4>1, <4>2
      <3> QED
        BY <3>2, <3>7, <3>8, InPlaceAfter
    <2>3. tangled \ {c} \subseteq tangled'
      BY <1>2
    <2> QED
      BY <1>3, <1>16, <2>1, <2>2, <2>3, PlacesStay DEF TaskBoardInv
  <1>21. TurnsKept'
    BY <1>2, <1>16, TurnsStay DEF TaskBoardInv
  <1>22. HandsKept'
    <2>1. ASSUME NEW s \in KanbanTasks, There(s)'
          PROVE  There(s) /\ tasks'[s].assignee = tasks[s].assignee /\ notified'[s] = notified[s]
      <3>1. s # t /\ There(s)
        BY <1>10, <2>1
      <3> QED
        BY <1>2, <1>3, <1>11, <3>1 DEF TaskTypes
    <2> QED
      BY <1>2, <1>3, <1>16, <2>1, HandsStay DEF TaskBoardInv
  <1> QED
    BY <1>14, <1>15, <1>18, <1>19, <1>20, <1>21, <1>22 DEF TaskBoardInv

-------------------------------------------------------------------------------
(* Columns *)

LEMMA RemoveColumnKeeps ==
  ASSUME TaskBoardInv, NEW c \in KanbanColumns, RemoveColumn(c)
  PROVE  TaskBoardInv'
  <1>1. PICK p : p = columns[c]
    OBVIOUS
  <1>2. /\ c \in OnBoard
        /\ columns' = [d \in KanbanColumns |->
             IF d = c THEN 0 ELSE IF columns[d] > p THEN columns[d] - 1 ELSE columns[d]]
        /\ tasks' = [t \in KanbanTasks |-> IF t \in TasksOf(c) THEN NoTask ELSE tasks[t]]
        /\ notified' = [t \in KanbanTasks |-> IF t \in TasksOf(c) THEN {} ELSE notified[t]]
        /\ movers' = [v \in Movers |->
             IF movers[v].op = "column" \/ ReadBefore(v, {c}) THEN [movers[v] EXCEPT !.stale = TRUE] ELSE movers[v]]
        /\ UNCHANGED <<team, mode, cursor, hushed, turns, tangled, skewed>>
    BY <1>1 DEF RemoveColumn
  <1>3. TaskTypes /\ \A v \in Movers : AsksFor(movers[v])
    BY DEF TaskBoardInv
  <1>4. /\ \A d \in KanbanColumns : columns[d] \in 0..MaxPosition
        /\ p \in 1..MaxPosition
    BY <1>1, <1>2, <1>3, TaskBoardAssumption DEF TaskTypes, OnBoard
  <1>5. ASSUME NEW d \in KanbanColumns, d # c
        PROVE  /\ columns'[d] = IF columns[d] > p THEN columns[d] - 1 ELSE columns[d]
               /\ columns'[d] \in 0..MaxPosition
               /\ columns'[d] = 0 <=> columns[d] = 0
    <2>1. PICK x \in 0..MaxPosition : x = columns[d]
      BY <1>4
    <2>2. columns'[d] = IF x > p THEN x - 1 ELSE x
      BY <1>2, <1>5, <2>1
    <2> QED
      BY <1>4, <2>1, <2>2, TaskBoardAssumption
  <1>6. columns'[c] = 0 /\ columns' \in [KanbanColumns -> 0..MaxPosition]
    BY <1>2, <1>5, TaskBoardAssumption
  <1>7. OnBoard' = OnBoard \ {c}
    BY <1>5, <1>6 DEF OnBoard
  <1>8. ASSUME NEW v \in Movers
        PROVE  /\ movers'[v] \in Mover \cup {NoRequest} /\ MarkedAs(movers[v], movers'[v])
               /\ ReadBefore(v, {c}) \/ movers[v].op = "column" => movers'[v].stale
    <2>1. CASE movers[v].op = "column" \/ ReadBefore(v, {c})
      <3>1. movers[v] \in Mover
        BY <1>3, <2>1, MoverIs DEF ReadBefore
      <3>2. movers'[v] = [movers[v] EXCEPT !.stale = TRUE]
        BY <1>2, <2>1
      <3>3. movers'[v].stale
        BY <3>1, <3>2 DEF Mover
      <3>4. movers'[v] \in Mover /\ MarkedAs(movers[v], movers'[v])
        BY <3>1, <3>2, MarkedIs
      <3> QED
        BY <3>3, <3>4
    <2>2. CASE ~ (movers[v].op = "column" \/ ReadBefore(v, {c}))
      <3>1. movers'[v] = movers[v]
        BY <1>2, <2>2
      <3> QED
        BY <1>3, <2>2, <3>1, SameIsMarked DEF TaskTypes
    <2> QED
      BY <2>1, <2>2
  <1>9. movers' \in [Movers -> Mover \cup {NoRequest}]
    BY <1>2, <1>8
  <1>10. \A v \in Movers : AsksFor(movers'[v])
    BY <1>3, <1>8, MarkedAsksFor
  <1>11. tasks' \in [KanbanTasks -> Task \cup {NoTask}] /\ notified' \in [KanbanTasks -> SUBSET Teammates]
    BY <1>2, <1>3 DEF TaskTypes
  <1>12. TaskTypes'
    BY <1>2, <1>3, <1>6, <1>9, <1>11 DEF TaskTypes
  <1>13. ASSUME NEW v \in Movers
         PROVE  CarriesOn(v) /\ SameColumnRequest(v) /\ SamePlacement(v, {c}) /\ SameHands(v) /\ SamePick(v)
    BY <1>8, QuietIs DEF Quiet
  <1>14. ASSUME NEW s \in KanbanTasks
         PROVE  /\ There(s)' <=> There(s) /\ s \notin TasksOf(c)
                /\ There(s)' => tasks'[s] = tasks[s] /\ notified'[s] = notified[s]
    BY <1>2 DEF There, NoTask
  <1>15. IdsAreFresh'
    <2>1. ASSUME NEW s \in KanbanTasks, There(s)'
          PROVE  tasks'[s].column \in OnBoard' /\ There(s)
      BY <1>7, <1>14, <2>1 DEF TaskBoardInv, IdsAreFresh, TasksOf
    <2> QED
      BY <1>3, <1>7, <1>13, <2>1, IdsGoOn DEF TaskBoardInv
  <1>16. ColumnsKept'
    <2>1. ASSUME NEW d \in OnBoard', NEW e \in OnBoard', d # e
          PROVE  columns'[d] # columns'[e]
      <3>1. d \in OnBoard /\ e \in OnBoard /\ d # c /\ e # c /\ d \in KanbanColumns /\ e \in KanbanColumns
        BY <1>7, <2>1 DEF OnBoard
      <3>2. PICK x, y \in 0..MaxPosition : x = columns[d] /\ y = columns[e]
        BY <1>4, <3>1
      <3>3. x # y /\ x # p /\ y # p
        BY <1>1, <1>2, <2>1, <3>1, <3>2 DEF TaskBoardInv, ColumnsKept
      <3>4. columns'[d] = (IF x > p THEN x - 1 ELSE x) /\ columns'[e] = (IF y > p THEN y - 1 ELSE y)
        BY <1>5, <3>1, <3>2
      <3> QED
        BY <1>4, <3>2, <3>3, <3>4, TaskBoardAssumption
    <2>2. ASSUME ~skewed'
          PROVE  \A d \in OnBoard' : columns'[d] <= Cardinality(OnBoard')
      <3>1. PICK T, f, g : T = OnBoard /\ f = columns /\ g = columns'
        OBVIOUS
      <3>2. IsFiniteSet(T) /\ InOrder(T, f) /\ c \in T
        BY <1>2, <2>2, <3>1, OnBoardIsFinite DEF TaskBoardInv, ColumnsKept, InOrder
      <3>3. \A d \in T : f[d] \in Nat \ {0}
        BY <1>4, <3>1, TaskBoardAssumption DEF OnBoard
      <3>4. \A d \in T \ {c} : g[d] = IF f[d] > f[c] THEN f[d] - 1 ELSE f[d]
        BY <1>1, <1>5, <3>1 DEF OnBoard
      <3>5. InOrder(T \ {c}, g)
        BY <3>2, <3>3, <3>4, RemovedInOrder
      <3> QED
        BY <1>7, <3>1, <3>5 DEF InOrder
    <2>3. \A v \in Movers : ~ (movers'[v].op = "column" /\ ~movers'[v].stale)
      BY <1>8 DEF MarkedAs
    <2> QED
      BY <2>1, <2>2, <2>3 DEF ColumnsKept
  <1>17. PlacesKept'
    <2>1. ASSUME NEW d \in KanbanColumns \ {c}
          PROVE  SameTasks(d)
      <3>1. \A s \in KanbanTasks : s \in TasksOf(d)' <=> s \in TasksOf(d)
        BY <1>14, <2>1 DEF TasksOf
      <3>2. TasksOf(d)' = TasksOf(d)
        BY <3>1 DEF TasksOf
      <3>3. \A s \in TasksOf(d) : There(s)'
        BY <3>2 DEF TasksOf
      <3> QED
        BY <1>14, <3>2, <3>3 DEF SameTasks, TasksOf
    <2>2. InPlace(c)'
      <3>1. TasksOf(c)' = {}
        BY <1>14 DEF TasksOf
      <3> QED
        BY <3>1 DEF InPlace
    <2>3. tangled \ {c} \subseteq tangled'
      BY <1>2
    <2> QED
      BY <1>3, <1>13, <2>1, <2>2, <2>3, PlacesStay DEF TaskBoardInv
  <1>18. TurnsKept'
    BY <1>2, <1>13, TurnsStay DEF TaskBoardInv
  <1>19. HandsKept'
    BY <1>2, <1>3, <1>13, <1>14, HandsStay DEF TaskBoardInv
  <1> QED
    BY <1>10, <1>12, <1>15, <1>16, <1>17, <1>18, <1>19 DEF TaskBoardInv

LEMMA InsertColumnKeeps ==
  ASSUME TaskBoardInv, NEW w \in Movers, InsertColumn(w)
  PROVE  TaskBoardInv'
  <1>1. PICK p : p = Min({movers[w].dest, movers[w].max + 1})
    OBVIOUS
  <1>2. /\ movers[w].op = "column" /\ movers[w].step = "write"
        /\ columns' = [d \in KanbanColumns |->
             IF {d} = movers[w].column THEN p ELSE IF columns[d] >= p THEN columns[d] + 1 ELSE columns[d]]
        /\ MaxColumnPosition < MaxPosition
        /\ movers' = Finished(w)
        /\ skewed' = (skewed \/ movers[w].stale)
        /\ tangled' = tangled \ movers[w].column
        /\ UNCHANGED <<tasks, team, mode, cursor, notified, hushed, turns>>
    BY <1>1 DEF InsertColumn, Reaches
  <1>3. TaskTypes /\ movers[w] \in Mover /\ AsksFor(movers[w]) /\ \A v \in Movers : AsksFor(movers[v])
    BY <1>2, MoverIs DEF TaskBoardInv
  <1>4. PICK c \in KanbanColumns : movers[w].column = {c}
    BY <1>2, <1>3 DEF AsksFor
  <1>5. c \notin OnBoard /\ \A v \in Movers : v # w /\ movers[v].op # "none" =>
          c \notin movers[v].column \cup movers[v].from
    BY <1>2, <1>4 DEF TaskBoardInv, IdsAreFresh
  <1>6. PICK q, m \in Nat : q = movers[w].dest /\ m = movers[w].max /\ q > 0 /\ q <= MaxPosition
    BY <1>2, <1>3, TaskBoardAssumption DEF AsksFor, Mover
  <1>7. p \in Nat /\ p > 0 /\ p <= q /\ p <= m + 1
    <2>1. p = Min({q, m + 1}) /\ m + 1 \in Nat
      BY <1>1, <1>6
    <2>2. p \in {q, m + 1} /\ p <= q /\ p <= m + 1
      BY <2>1, MinIs
    <2> QED
      BY <1>6, <2>2
  <1>8. PICK last \in Nat : /\ last < MaxPosition
                            /\ \A d \in KanbanColumns : columns[d] \in 0..MaxPosition /\ columns[d] <= last
    <2>1. MaxColumnPosition \in 0..MaxPosition /\ \A d \in KanbanColumns : columns[d] <= MaxColumnPosition
      BY <1>3, MaxColumnPositionIs
    <2>2. PICK last : last = MaxColumnPosition
      OBVIOUS
    <2>3. last \in Nat
      BY <2>1, <2>2, TaskBoardAssumption
    <2> QED
      BY <1>2, <1>3, <2>1, <2>2, <2>3 DEF TaskTypes
  <1>9. columns'[c] = p
    BY <1>2, <1>4
  <1>10. ASSUME NEW d \in KanbanColumns, d # c
         PROVE  /\ columns'[d] = IF columns[d] >= p THEN columns[d] + 1 ELSE columns[d]
                /\ columns'[d] \in 0..MaxPosition
                /\ columns'[d] = 0 <=> columns[d] = 0
    <2>1. PICK x \in 0..MaxPosition : x = columns[d] /\ x <= last
      BY <1>8
    <2>2. columns'[d] = IF x >= p THEN x + 1 ELSE x
      BY <1>2, <1>4, <1>10, <2>1
    <2> QED
      BY <1>7, <1>8, <2>1, <2>2, TaskBoardAssumption
  <1>11. columns' \in [KanbanColumns -> 0..MaxPosition]
    <2>1. p \in 0..MaxPosition
      BY <1>6, <1>7, TaskBoardAssumption
    <2>2. \A d \in KanbanColumns : columns'[d] \in 0..MaxPosition
      BY <1>9, <1>10, <2>1
    <2>3. columns' = [d \in KanbanColumns |-> columns'[d]]
      BY <1>2
    <2> QED
      BY <2>2, <2>3
  <1>12. OnBoard' = OnBoard \cup {c}
    <2>1. p # 0
      BY <1>7
    <2> QED
      BY <1>9, <1>10, <2>1 DEF OnBoard
  <1>13. movers' = [movers EXCEPT ![w] = NoRequest]
    BY <1>2 DEF Finished
  <1>14. /\ movers' \in [Movers -> Mover \cup {NoRequest}]
         /\ \A v \in Movers : AsksFor(movers'[v])
         /\ movers'[w] = NoRequest
         /\ \A v \in Movers : v # w => movers'[v] = movers[v] /\ MarkedAs(movers[v], movers'[v])
    BY <1>3, <1>13, NobodyAsks, OneRequest
  <1>15. tangled' \subseteq KanbanColumns /\ skewed' \in BOOLEAN
    <2>1. movers[w].stale \in BOOLEAN
      BY <1>3 DEF Mover
    <2> QED
      BY <1>2, <1>3, <2>1 DEF TaskTypes
  <1>16. TaskTypes'
    BY <1>2, <1>3, <1>11, <1>14, <1>15 DEF TaskTypes
  <1>17. ASSUME NEW v \in Movers
         PROVE  CarriesOn(v) /\ SameColumnRequest(v) /\ SamePlacement(v, {c}) /\ SameHands(v) /\ SamePick(v)
    <2>1. Quiet(v, {c})
      <3>1. CASE v = w
        BY <1>2, <1>14, <3>1 DEF Quiet
      <3>2. CASE v # w
        <4>1. ~ReadBefore(v, {c})
          BY <1>5, <3>2 DEF ReadBefore
        <4> QED
          BY <1>14, <3>2, <4>1 DEF Quiet
      <3> QED
        BY <3>1, <3>2
    <2> QED
      BY <2>1, QuietIs
  <1>18. \A s : There(s)' = There(s)
    BY <1>2 DEF There
  <1>19. IdsAreFresh'
    <2>1. \A s \in KanbanTasks : There(s)' => tasks'[s].column \in OnBoard'
      BY <1>2, <1>12, <1>18 DEF TaskBoardInv, IdsAreFresh
    <2>2. \A d \in OnBoard' : d \in OnBoard \/
            \E v \in Movers : movers[v].op = "column" /\ d \in movers[v].column /\ movers'[v] = NoRequest
      BY <1>2, <1>4, <1>12, <1>14
    <2> QED
      BY <1>3, <1>17, <1>18, <2>1, <2>2, IdsGoOn DEF TaskBoardInv
  <1>20. ColumnsKept'
    <2>1. \A d, e \in OnBoard' : d # e => columns'[d] # columns'[e]
      <3>1. ASSUME NEW d \in OnBoard, NEW e \in OnBoard, d # e
            PROVE  columns'[d] # columns'[e]
        <4>1. d # c /\ e # c /\ d \in KanbanColumns /\ e \in KanbanColumns
          BY <1>5 DEF OnBoard
        <4>2. PICK x, y \in 0..MaxPosition : x = columns[d] /\ y = columns[e]
          BY <1>8, <4>1
        <4>3. x # y
          BY <3>1, <4>2 DEF TaskBoardInv, ColumnsKept
        <4>4. columns'[d] = (IF x >= p THEN x + 1 ELSE x) /\ columns'[e] = (IF y >= p THEN y + 1 ELSE y)
          BY <1>10, <4>1, <4>2
        <4> QED
          BY <1>7, <4>2, <4>3, <4>4, TaskBoardAssumption
      <3>2. ASSUME NEW d \in OnBoard
            PROVE  columns'[d] # columns'[c]
        <4>1. d # c /\ d \in KanbanColumns
          BY <1>5 DEF OnBoard
        <4>2. PICK x \in 0..MaxPosition : x = columns[d]
          BY <1>8, <4>1
        <4>3. columns'[d] = IF x >= p THEN x + 1 ELSE x
          BY <1>10, <4>1, <4>2
        <4> QED
          BY <1>7, <1>9, <4>2, <4>3, TaskBoardAssumption
      <3> QED
        BY <1>12, <3>1, <3>2
    <2>2. ASSUME ~skewed'
          PROVE  /\ \A d \in OnBoard' : columns'[d] <= Cardinality(OnBoard')
                 /\ \A v \in Movers : movers'[v].op = "column" /\ ~movers'[v].stale =>
                      movers'[v].max <= Cardinality(OnBoard')
      <3>1. PICK T, f, g, n : T = OnBoard /\ f = columns /\ g = columns' /\ n = Cardinality(T)
        OBVIOUS
      <3>2. IsFiniteSet(T) /\ InOrder(T, f) /\ c \notin T /\ n \in Nat
        BY <1>2, <1>5, <2>2, <3>1, OnBoardIsFinite DEF TaskBoardInv, ColumnsKept, InOrder
      <3>3. \A d \in T : f[d] \in Nat \ {0}
        BY <1>8, <3>1, TaskBoardAssumption DEF OnBoard
      <3>4. \A d \in T : g[d] = IF f[d] >= p THEN f[d] + 1 ELSE f[d]
        BY <1>5, <1>10, <3>1 DEF OnBoard
      <3>5. m <= n
        BY <1>2, <1>6, <2>2, <3>1 DEF TaskBoardInv, ColumnsKept
      <3>6. p <= n + 1
        BY <1>7, <3>2, <3>5
      <3>7. g[c] = p
        BY <1>9, <3>1
      <3>8. InOrder(T \cup {c}, g) /\ Cardinality(T \cup {c}) = n + 1
        <4>1. p <= Cardinality(T) + 1 /\ n = Cardinality(T)
          BY <3>1, <3>6
        <4>2. p \in Nat /\ p > 0 /\ g[c] = p
          BY <1>7, <3>7
        <4>3. IsFiniteSet(T) /\ InOrder(T, f) /\ c \notin T
          BY <3>2
        <4>4. InOrder(T \cup {c}, g)
          BY <3>3, <3>4, <4>1, <4>2, <4>3, InsertedInOrder
        <4>5. Cardinality(T \cup {c}) = n + 1
          BY <3>2, <4>1, FS_AddElement
        <4> QED
          BY <4>4, <4>5
      <3>9. ASSUME NEW v \in Movers, movers'[v].op = "column", ~movers'[v].stale
            PROVE  movers'[v].max <= n + 1
        <4>1. v # w
          BY <1>14, <3>9, NobodyAsks
        <4>2. movers'[v] = movers[v] /\ movers[v] \in Mover
          BY <1>3, <1>14, <3>9, <4>1, MoverIs
        <4>3. PICK k \in Nat : k = movers[v].max
          BY <4>2 DEF Mover
        <4>4. k <= n
          BY <1>2, <2>2, <3>1, <3>9, <4>2, <4>3 DEF TaskBoardInv, ColumnsKept
        <4> QED
          BY <3>2, <4>2, <4>3, <4>4
      <3> QED
        BY <1>12, <3>1, <3>8, <3>9 DEF InOrder
    <2> QED
      BY <2>1, <2>2 DEF ColumnsKept
  <1>21. PlacesKept'
    <2>1. \A d : TasksOf(d)' = TasksOf(d)
      BY <1>2 DEF TasksOf, There
    <2>2. \A d \in KanbanColumns \ {c} : SameTasks(d)
      BY <1>2, <2>1 DEF SameTasks
    <2>3. InPlace(c)'
      <3>1. TasksOf(c) = {}
        BY <1>5 DEF TaskBoardInv, IdsAreFresh, TasksOf
      <3> QED
        BY <2>1, <3>1 DEF InPlace
    <2>4. tangled \ {c} \subseteq tangled'
      BY <1>2, <1>4
    <2> QED
      BY <1>3, <1>17, <2>2, <2>3, <2>4, PlacesStay DEF TaskBoardInv
  <1>22. TurnsKept'
    BY <1>2, <1>17, TurnsStay DEF TaskBoardInv
  <1>23. HandsKept'
    BY <1>2, <1>3, <1>17, <1>18, HandsStay DEF TaskBoardInv
  <1> QED
    BY <1>14, <1>16, <1>19, <1>20, <1>21, <1>22, <1>23 DEF TaskBoardInv

LEMMA OrderColumnsKeeps ==
  ASSUME TaskBoardInv, NEW order \in Orders, OrderColumns(order)
  PROVE  TaskBoardInv'
  <1>1. PICK n : n = Cardinality(OnBoard)
    OBVIOUS
  <1>2. /\ columns' = [c \in KanbanColumns |-> IF c \in OnBoard THEN order[c] ELSE 0]
        /\ movers' = [v \in Movers |->
             IF movers[v].op = "column" /\ skewed THEN [movers[v] EXCEPT !.stale = TRUE] ELSE movers[v]]
        /\ skewed' = FALSE
        /\ UNCHANGED <<tasks, team, mode, cursor, notified, hushed, turns, tangled>>
    BY DEF OrderColumns
  <1>3. TaskTypes /\ \A v \in Movers : AsksFor(movers[v])
    BY DEF TaskBoardInv
  <1>4. n \in Nat /\ order \in [OnBoard -> 1..n] /\ \A c, d \in OnBoard : c # d => order[c] # order[d]
    BY <1>1, OnBoardIsFinite DEF Orders, IsInjective
  <1>5. n <= MaxPosition
    <2>1. PICK f : f = [c \in OnBoard |-> columns[c]]
      OBVIOUS
    <2>2. \A c \in OnBoard : columns[c] \in 1..MaxPosition
      <3>1. \A c \in KanbanColumns : columns[c] \in 0..MaxPosition
        BY <1>3 DEF TaskTypes
      <3> QED
        BY <3>1, TaskBoardAssumption DEF OnBoard
    <2>3. f \in [OnBoard -> 1..MaxPosition]
      BY <2>1, <2>2
    <2>4. \A c, d \in OnBoard : f[c] = f[d] => c = d
      BY <2>1 DEF TaskBoardInv, ColumnsKept
    <2>5. IsFiniteSet(1..MaxPosition) /\ Cardinality(1..MaxPosition) = MaxPosition
      <3>1. 1 \in Int /\ MaxPosition \in Int
        BY TaskBoardAssumption
      <3>2. /\ IsFiniteSet(1..MaxPosition)
            /\ Cardinality(1..MaxPosition) = IF 1 > MaxPosition THEN 0 ELSE MaxPosition - 1 + 1
        BY <3>1, FS_Interval
      <3> QED
        BY <3>2, TaskBoardAssumption
    <2>6. f \in Injection(OnBoard, 1..MaxPosition)
      BY <2>3, <2>4 DEF Injection, IsInjective
    <2>7. Cardinality(OnBoard) <= Cardinality(1..MaxPosition)
      BY <2>5, <2>6, FS_Injection
    <2> QED
      BY <1>1, <2>5, <2>7
  <1>6. /\ \A c \in OnBoard : columns'[c] = order[c]
        /\ \A c \in KanbanColumns : c \notin OnBoard => columns'[c] = 0
        /\ OnBoard \subseteq KanbanColumns
    BY <1>2 DEF OnBoard
  <1>7. ASSUME NEW c \in OnBoard
        PROVE  columns'[c] \in Nat /\ columns'[c] > 0 /\ columns'[c] <= n /\ columns'[c] \in 0..MaxPosition
    <2>1. PICK x \in 1..n : x = order[c]
      BY <1>4
    <2> QED
      BY <1>4, <1>5, <1>6, <2>1, TaskBoardAssumption
  <1>8. columns' \in [KanbanColumns -> 0..MaxPosition]
    <2>1. \A c \in KanbanColumns : columns'[c] \in 0..MaxPosition
      BY <1>6, <1>7, TaskBoardAssumption
    <2>2. columns' = [c \in KanbanColumns |-> columns'[c]]
      BY <1>2
    <2> QED
      BY <2>1, <2>2
  <1>9. OnBoard' = OnBoard
    <2>1. \A c \in KanbanColumns : columns'[c] # 0 <=> c \in OnBoard
      BY <1>6, <1>7
    <2> QED
      BY <2>1 DEF OnBoard
  <1>10. ASSUME NEW v \in Movers
         PROVE  /\ movers'[v] \in Mover \cup {NoRequest} /\ MarkedAs(movers[v], movers'[v])
                /\ movers[v].op = "column" /\ skewed => movers'[v].stale
    <2>1. CASE movers[v].op = "column" /\ skewed
      <3>1. movers[v] \in Mover
        BY <1>3, <2>1, MoverIs
      <3>2. movers'[v] = [movers[v] EXCEPT !.stale = TRUE]
        BY <1>2, <2>1
      <3>3. movers'[v].stale
        BY <3>1, <3>2 DEF Mover
      <3>4. movers'[v] \in Mover /\ MarkedAs(movers[v], movers'[v])
        BY <3>1, <3>2, MarkedIs
      <3> QED
        BY <3>3, <3>4
    <2>2. CASE ~ (movers[v].op = "column" /\ skewed)
      <3>1. movers'[v] = movers[v]
        BY <1>2, <2>2
      <3> QED
        BY <1>3, <2>2, <3>1, SameIsMarked DEF TaskTypes
    <2> QED
      BY <2>1, <2>2
  <1>11. movers' \in [Movers -> Mover \cup {NoRequest}]
    BY <1>2, <1>10
  <1>12. \A v \in Movers : AsksFor(movers'[v])
    BY <1>3, <1>10, MarkedAsksFor
  <1>13. TaskTypes'
    BY <1>2, <1>3, <1>8, <1>11 DEF TaskTypes
  <1>14. ASSUME NEW v \in Movers
         PROVE  CarriesOn(v) /\ SamePlacement(v, {}) /\ SameHands(v) /\ SamePick(v)
    <2>1. ~ReadBefore(v, {})
      BY DEF ReadBefore
    <2>2. Quiet(v, {})
      BY <1>10, <2>1 DEF Quiet
    <2> QED
      BY <2>2, QuietIs
  <1>15. \A s : There(s)' = There(s)
    BY <1>2 DEF There
  <1>16. IdsAreFresh'
    <2>1. \A s \in KanbanTasks : There(s)' => tasks'[s].column \in OnBoard'
      BY <1>2, <1>9, <1>15 DEF TaskBoardInv, IdsAreFresh
    <2> QED
      BY <1>3, <1>9, <1>14, <1>15, <2>1, IdsGoOn DEF TaskBoardInv
  <1>17. ColumnsKept'
    <2>1. \A c, d \in OnBoard' : c # d => columns'[c] # columns'[d]
      BY <1>4, <1>6, <1>9
    <2>2. \A c \in OnBoard' : columns'[c] <= Cardinality(OnBoard')
      BY <1>1, <1>7, <1>9
    <2>3. ASSUME NEW v \in Movers, movers'[v].op = "column", ~movers'[v].stale
          PROVE  movers'[v].max <= Cardinality(OnBoard')
      <3>1. movers[v].op = "column" /\ movers'[v].max = movers[v].max /\ ~skewed /\ ~movers[v].stale
        BY <1>10, <2>3 DEF MarkedAs
      <3> QED
        BY <1>9, <3>1 DEF TaskBoardInv, ColumnsKept
    <2> QED
      BY <2>1, <2>2, <2>3 DEF ColumnsKept
  <1>18. PlacesKept'
    <2>1. \A d : TasksOf(d)' = TasksOf(d)
      BY <1>2 DEF TasksOf, There
    <2>2. \A d \in KanbanColumns \ {} : SameTasks(d)
      BY <1>2, <2>1 DEF SameTasks
    <2>3. tangled \ {} \subseteq tangled'
      BY <1>2
    <2> QED
      BY <1>3, <1>14, <2>2, <2>3, PlacesStay DEF TaskBoardInv
  <1>19. TurnsKept'
    BY <1>2, <1>14, TurnsStay DEF TaskBoardInv
  <1>20. HandsKept'
    BY <1>2, <1>3, <1>14, <1>15, HandsStay DEF TaskBoardInv
  <1> QED
    BY <1>12, <1>13, <1>16, <1>17, <1>18, <1>19, <1>20 DEF TaskBoardInv

-------------------------------------------------------------------------------
(* Moves *)

(* The rows after those between the old place and the new one have made room.          *)
Moved(rows, a, c, p, q) ==
    /\ rows \in [KanbanTasks -> Row \cup {NoTask}]
    /\ \A s \in KanbanTasks :
         /\ rows[s].is = tasks[s].is
         /\ There(s) =>
              /\ tasks[s] \in Task /\ rows[s] \in Row
              /\ rows[s].column = tasks[s].column /\ rows[s].assignee = tasks[s].assignee
         /\ There(s) /\ tasks[s].column \notin {a, c} => rows[s] = tasks[s]
         /\ There(s) /\ tasks[s].column = c /\ a = c /\ q < p =>
              rows[s].position = IF tasks[s].position \in q..(p - 1) THEN tasks[s].position + 1
                                 ELSE tasks[s].position
         /\ There(s) /\ tasks[s].column = c /\ a = c /\ ~ (q < p) =>
              rows[s].position = IF tasks[s].position \in (p + 1)..q THEN tasks[s].position - 1
                                 ELSE tasks[s].position
         /\ There(s) /\ tasks[s].column = a /\ a # c =>
              rows[s].position = IF tasks[s].position > p THEN tasks[s].position - 1 ELSE tasks[s].position
         /\ There(s) /\ tasks[s].column = c /\ a # c =>
              rows[s].position = IF tasks[s].position >= q THEN tasks[s].position + 1 ELSE tasks[s].position

LEMMA MovedIs ==
  ASSUME TaskTypes, NEW a, NEW c, NEW p \in Nat, p > 0, NEW q \in Nat, q > 0,
         NEW rows, rows = IF a = c THEN MovedWithin(c, p, q) ELSE MovedAcross(a, p, c, q)
  PROVE  Moved(rows, a, c, p, q)
  <1>1. tasks \in [KanbanTasks -> Row \cup {NoTask}]
    BY RowIs DEF TaskTypes
  <1>2. \A s \in KanbanTasks : There(s) => tasks[s] \in Task
    BY TaskIs
  <1>3. CASE a = c /\ q < p
    <2>1. PICK R : R = q..(p - 1)
      OBVIOUS
    <2>2. rows = Shifted(tasks, c, R, 1)
      BY <1>3, <2>1 DEF MovedWithin
    <2>3. 1 \in {-1, 1} /\ (1 = -1 => \A x \in R : x \in Nat /\ x > 1)
      OBVIOUS
    <2>4. /\ rows \in [KanbanTasks -> Row \cup {NoTask}]
          /\ \A s \in KanbanTasks :
               /\ rows[s].is = tasks[s].is
               /\ tasks[s].is = "there" =>
                    /\ rows[s].column = tasks[s].column /\ rows[s].assignee = tasks[s].assignee
                    /\ rows[s].position = IF tasks[s].column = c /\ tasks[s].position \in R THEN tasks[s].position + 1
                                          ELSE tasks[s].position
               /\ tasks[s].is = "there" /\ ~ (tasks[s].column = c /\ tasks[s].position \in R) => rows[s] = tasks[s]
      BY <1>1, <2>2, <2>3, ShiftedIs
    <2>5. ASSUME NEW s \in KanbanTasks, There(s)
          PROVE  rows[s] \in Row
      BY <2>4, <2>5, RowIs DEF There
    <2> QED
      BY <1>2, <1>3, <2>1, <2>4, <2>5 DEF There, Moved
  <1>4. CASE a = c /\ ~ (q < p)
    <2>1. PICK R : R = (p + 1)..q
      OBVIOUS
    <2>2. rows = Shifted(tasks, c, R, -1)
      BY <1>4, <2>1 DEF MovedWithin
    <2>3. -1 \in {-1, 1} /\ (-1 = -1 => \A x \in R : x \in Nat /\ x > 1)
      BY <2>1
    <2>4. /\ rows \in [KanbanTasks -> Row \cup {NoTask}]
          /\ \A s \in KanbanTasks :
               /\ rows[s].is = tasks[s].is
               /\ tasks[s].is = "there" =>
                    /\ rows[s].column = tasks[s].column /\ rows[s].assignee = tasks[s].assignee
                    /\ rows[s].position = IF tasks[s].column = c /\ tasks[s].position \in R THEN tasks[s].position + -1
                                          ELSE tasks[s].position
               /\ tasks[s].is = "there" /\ ~ (tasks[s].column = c /\ tasks[s].position \in R) => rows[s] = tasks[s]
      BY <1>1, <2>2, <2>3, ShiftedIs
    <2>5. ASSUME NEW s \in KanbanTasks, There(s)
          PROVE  /\ rows[s] \in Row
                 /\ tasks[s].column = c => rows[s].position = IF tasks[s].position \in (p + 1)..q
                                                              THEN tasks[s].position - 1 ELSE tasks[s].position
      <3>1. PICK x \in 1..MaxPosition : x = tasks[s].position
        BY <1>2, <2>5 DEF Task
      <3>2. x + -1 = x - 1
        BY <3>1, TaskBoardAssumption
      <3>3. tasks[s].column = c => rows[s].position = IF x \in R THEN x + -1 ELSE x
        BY <2>4, <2>5, <3>1 DEF There
      <3>4. rows[s] \in Row
        BY <2>4, <2>5, RowIs DEF There
      <3> QED
        BY <2>1, <3>1, <3>2, <3>3, <3>4
    <2> QED
      BY <1>2, <1>4, <2>1, <2>4, <2>5 DEF There, Moved
  <1>5. CASE a # c
    <2>1. PICK R, R2 : R = (p + 1)..MaxPosition /\ R2 = q..MaxPosition
      OBVIOUS
    <2>2. PICK mid : mid = Shifted(tasks, a, R, -1)
      OBVIOUS
    <2>3. rows = Shifted(mid, c, R2, 1)
      BY <1>5, <2>1, <2>2 DEF MovedAcross
    <2>4. -1 \in {-1, 1} /\ (-1 = -1 => \A x \in R : x \in Nat /\ x > 1)
      BY <2>1, TaskBoardAssumption
    <2>5. /\ mid \in [KanbanTasks -> Row \cup {NoTask}]
          /\ \A s \in KanbanTasks :
               /\ mid[s].is = tasks[s].is
               /\ tasks[s].is = "there" =>
                    /\ mid[s].column = tasks[s].column /\ mid[s].assignee = tasks[s].assignee
                    /\ mid[s].position = IF tasks[s].column = a /\ tasks[s].position \in R THEN tasks[s].position + -1
                                         ELSE tasks[s].position
               /\ tasks[s].is = "there" /\ ~ (tasks[s].column = a /\ tasks[s].position \in R) => mid[s] = tasks[s]
      BY <1>1, <2>2, <2>4, ShiftedIs
    <2>6. 1 \in {-1, 1} /\ (1 = -1 => \A x \in R2 : x \in Nat /\ x > 1)
      OBVIOUS
    <2>7. /\ rows \in [KanbanTasks -> Row \cup {NoTask}]
          /\ \A s \in KanbanTasks :
               /\ rows[s].is = mid[s].is
               /\ mid[s].is = "there" =>
                    /\ rows[s].column = mid[s].column /\ rows[s].assignee = mid[s].assignee
                    /\ rows[s].position = IF mid[s].column = c /\ mid[s].position \in R2 THEN mid[s].position + 1
                                          ELSE mid[s].position
               /\ mid[s].is = "there" /\ ~ (mid[s].column = c /\ mid[s].position \in R2) => rows[s] = mid[s]
      BY <2>3, <2>5, <2>6, ShiftedIs
    <2>8. ASSUME NEW s \in KanbanTasks, There(s)
          PROVE  /\ rows[s] \in Row /\ rows[s].column = tasks[s].column /\ rows[s].assignee = tasks[s].assignee
                 /\ tasks[s].column \notin {a, c} => rows[s] = tasks[s]
                 /\ tasks[s].column = a => rows[s].position = IF tasks[s].position > p THEN tasks[s].position - 1
                                                              ELSE tasks[s].position
                 /\ tasks[s].column = c => rows[s].position = IF tasks[s].position >= q THEN tasks[s].position + 1
                                                              ELSE tasks[s].position
      <3>1. PICK x \in 1..MaxPosition : x = tasks[s].position
        BY <1>2, <2>8 DEF Task
      <3>2. /\ mid[s].is = "there" /\ mid[s].column = tasks[s].column /\ mid[s].assignee = tasks[s].assignee
            /\ mid[s].position = IF tasks[s].column = a /\ x \in R THEN x + -1 ELSE x
            /\ tasks[s].column # a => mid[s] = tasks[s]
        BY <2>5, <2>8, <3>1 DEF There
      <3>3. /\ rows[s].is = "there" /\ rows[s].column = tasks[s].column /\ rows[s].assignee = tasks[s].assignee
            /\ tasks[s].column = c => rows[s].position = IF mid[s].position \in R2 THEN mid[s].position + 1
                                                         ELSE mid[s].position
            /\ tasks[s].column # c => rows[s] = mid[s]
        BY <2>7, <3>2
      <3>4. rows[s] \in Row
        BY <2>7, <3>3, RowIs
      <3>5. x \in R <=> x > p
        BY <2>1, <3>1, TaskBoardAssumption
      <3>6. x \in R2 <=> x >= q
        BY <2>1, <3>1, TaskBoardAssumption
      <3>7. tasks[s].column = a => rows[s].position = IF x > p THEN x - 1 ELSE x
        <4>1. x + -1 = x - 1
          BY <3>1, TaskBoardAssumption
        <4> QED
          BY <1>5, <3>2, <3>3, <3>5, <4>1
      <3>8. tasks[s].column = c => rows[s].position = IF x >= q THEN x + 1 ELSE x
        BY <1>5, <3>1, <3>2, <3>3, <3>6
      <3> QED
        BY <3>1, <3>2, <3>3, <3>4, <3>7, <3>8
    <2> QED
      BY <1>2, <1>5, <2>5, <2>7, <2>8 DEF There, Moved
  <1> QED
    BY <1>3, <1>4, <1>5

(* What MoveTask does once it is known what it moves, from where to where.            *)
Moves(w, t, a, c, p, e, m) ==
    LET within == a = c
        q == IF within THEN (IF m = 0 THEN 1 ELSE Min({e, m})) ELSE Min({e, m + 1})
        rows == IF within THEN MovedWithin(c, p, q) ELSE MovedAcross(a, p, c, q)
        touched == movers[w].from \cup movers[w].column \cup (IF There(t) THEN {tasks[t].column} ELSE {}) IN
    IF within /\ q = p
      THEN movers' = Finished(w) /\ UNCHANGED <<tasks, tangled>>
      ELSE /\ There(t) => c \in OnBoard
           /\ tasks' = [rows EXCEPT ![t] = IF @.is = "absent" THEN @
                                           ELSE [@ EXCEPT !.column = c, !.position = q]]
           /\ \A s \in KanbanTasks : tasks'[s].is = "there" => tasks'[s].position <= MaxPosition
           /\ movers' = Outdated(Finished(w), Movers \ {w}, touched)
           /\ tangled' = IF movers[w].stale THEN tangled \cup touched ELSE tangled

LEMMA MoveTaskKeeps ==
  ASSUME TaskBoardInv, NEW w \in Movers, MoveTask(w)
  PROVE  TaskBoardInv'
  <1>1. /\ movers[w].op = "move" /\ movers[w].step = "write"
        /\ UNCHANGED <<columns, team, mode, cursor, notified, hushed, turns, skewed>>
    BY DEF MoveTask, Reaches
  <1>2. TaskTypes /\ movers[w] \in Mover /\ AsksFor(movers[w]) /\ \A v \in Movers : AsksFor(movers[v])
    BY <1>1, MoverIs DEF TaskBoardInv
  <1>3. PICK t \in KanbanTasks, a \in KanbanColumns, c \in KanbanColumns :
          movers[w].task = {t} /\ movers[w].from = {a} /\ movers[w].column = {c}
    BY <1>1, <1>2 DEF AsksFor
  <1>4. PICK p, e, m \in Nat : /\ p = movers[w].position /\ e = movers[w].dest /\ m = movers[w].max
                               /\ p > 0 /\ e > 0
    BY <1>1, <1>2, TaskBoardAssumption DEF AsksFor, Mover
  <1>5. PICK q : q = IF a = c THEN (IF m = 0 THEN 1 ELSE Min({e, m})) ELSE Min({e, m + 1})
    OBVIOUS
  <1>6. q \in Nat /\ q > 0 /\ (a = c /\ m # 0 => q <= m) /\ (a # c => q <= m + 1)
    <2>1. Min({e, m}) \in {e, m} /\ Min({e, m}) <= m
      BY MinIs
    <2>2. Min({e, m + 1}) \in {e, m + 1} /\ Min({e, m + 1}) <= m + 1
      <3>1. m + 1 \in Nat
        OBVIOUS
      <3> QED
        BY <3>1, MinIs
    <2>3. CASE a = c
      BY <1>4, <1>5, <2>1, <2>3
    <2>4. CASE a # c
      BY <1>4, <1>5, <2>2, <2>4
    <2> QED
      BY <2>3, <2>4
  <1>7. PICK rows : rows = IF a = c THEN MovedWithin(c, p, q) ELSE MovedAcross(a, p, c, q)
    OBVIOUS
  <1>8. PICK touched : touched = {a} \cup {c} \cup (IF There(t) THEN {tasks[t].column} ELSE {})
    OBVIOUS
  <1>9. \/ a = c /\ q = p /\ movers' = Finished(w) /\ UNCHANGED <<tasks, tangled>>
        \/ /\ There(t) => c \in OnBoard
           /\ tasks' = [rows EXCEPT ![t] = IF @.is = "absent" THEN @
                                           ELSE [@ EXCEPT !.column = c, !.position = q]]
           /\ \A s \in KanbanTasks : tasks'[s].is = "there" => tasks'[s].position <= MaxPosition
           /\ movers' = Outdated(Finished(w), Movers \ {w}, touched)
           /\ tangled' = IF movers[w].stale THEN tangled \cup touched ELSE tangled
    <2>1. \E u \in movers[w].task, b \in movers[w].from, d \in movers[w].column :
            Moves(w, u, b, d, movers[w].position, movers[w].dest, movers[w].max)
      BY DEF MoveTask, Moves
    <2>2. Moves(w, t, a, c, p, e, m)
      BY <1>3, <1>4, <2>1
    <2>3. movers[w].from \cup movers[w].column \cup (IF There(t) THEN {tasks[t].column} ELSE {}) = touched
      BY <1>3, <1>8
    <2> QED
      BY <1>5, <1>7, <2>2, <2>3 DEF Moves
  <1>10. PICK h : h = [movers EXCEPT ![w] = NoRequest]
    OBVIOUS
  <1>11. /\ h \in [Movers -> Mover \cup {NoRequest}] /\ h[w] = NoRequest
         /\ \A v \in Movers : v # w => MarkedAs(movers[v], h[v])
    BY <1>2, <1>10, SameIsMarked DEF TaskTypes
  <1>12. CASE a = c /\ q = p /\ movers' = Finished(w) /\ UNCHANGED <<tasks, tangled>>
    <2>1. /\ movers' \in [Movers -> Mover \cup {NoRequest}] /\ movers'[w] = NoRequest
          /\ \A v \in Movers : v # w => MarkedAs(movers[v], movers'[v])
      BY <1>10, <1>11, <1>12 DEF Finished
    <2>2. \A v \in Movers : AsksFor(movers'[v])
      BY <1>2, <2>1, MarkedAsksFor, NobodyAsks
    <2>3. Quiet(w, {})
      BY <1>1, <2>1 DEF Quiet
    <2>4. CarriesOn(w) /\ SameColumnRequest(w) /\ SamePlacement(w, {}) /\ SameHands(w) /\ SamePick(w)
      BY <2>3, QuietIs
    <2>5. TaskTypes'
      BY <1>1, <1>2, <1>12, <2>1, RequestTypes
    <2>6. IdsAreFresh' /\ ColumnsKept' /\ PlacesKept' /\ HandsKept' /\ TurnsKept'
      BY <1>1, <1>12, <2>1, <2>4, ActsAlone
    <2> QED
      BY <2>2, <2>5, <2>6 DEF TaskBoardInv
  <1>13. CASE /\ There(t) => c \in OnBoard
              /\ tasks' = [rows EXCEPT ![t] = IF @.is = "absent" THEN @
                                              ELSE [@ EXCEPT !.column = c, !.position = q]]
              /\ \A s \in KanbanTasks : tasks'[s].is = "there" => tasks'[s].position <= MaxPosition
              /\ movers' = Outdated(Finished(w), Movers \ {w}, touched)
              /\ tangled' = IF movers[w].stale THEN tangled \cup touched ELSE tangled
    <2>0. TaskTypes /\ q \in Nat /\ q > 0
      BY <1>2, <1>6
    <2>0b. Moved(rows, a, c, p, q)
      BY ONLY <1>4, <1>7, <2>0, MovedIs
    <2>1. /\ rows \in [KanbanTasks -> Row \cup {NoTask}]
          /\ \A s \in KanbanTasks :
               /\ rows[s].is = tasks[s].is
               /\ There(s) =>
                    /\ tasks[s] \in Task /\ rows[s] \in Row
                    /\ rows[s].column = tasks[s].column /\ rows[s].assignee = tasks[s].assignee
               /\ There(s) /\ tasks[s].column \notin {a, c} => rows[s] = tasks[s]
      BY <2>0b DEF Moved
    <2>2. \A s \in KanbanTasks :
            /\ There(s) /\ tasks[s].column = c /\ a = c /\ q < p =>
                 rows[s].position = IF tasks[s].position \in q..(p - 1) THEN tasks[s].position + 1
                                    ELSE tasks[s].position
            /\ There(s) /\ tasks[s].column = c /\ a = c /\ ~ (q < p) =>
                 rows[s].position = IF tasks[s].position \in (p + 1)..q THEN tasks[s].position - 1
                                    ELSE tasks[s].position
            /\ There(s) /\ tasks[s].column = a /\ a # c =>
                 rows[s].position = IF tasks[s].position > p THEN tasks[s].position - 1 ELSE tasks[s].position
            /\ There(s) /\ tasks[s].column = c /\ a # c =>
                 rows[s].position = IF tasks[s].position >= q THEN tasks[s].position + 1 ELSE tasks[s].position
      BY <2>0b DEF Moved
    <2>3. /\ \A s \in KanbanTasks : s # t => tasks'[s] = rows[s]
          /\ There(t) => /\ tasks'[t] \in Row /\ tasks'[t].column = c /\ tasks'[t].position = q
                         /\ tasks'[t].assignee = tasks[t].assignee
          /\ ~There(t) => tasks'[t] = rows[t]
      <3>1. \A s \in KanbanTasks : s # t => tasks'[s] = rows[s]
        BY <1>13, <2>1
      <3>2. CASE There(t)
        <4>1. rows[t] \in Row /\ rows[t].assignee = tasks[t].assignee /\ rows[t].is # "absent"
          BY <2>1, <3>2 DEF There
        <4>2. tasks'[t] = [rows[t] EXCEPT !.column = c, !.position = q]
          BY <1>13, <2>1, <4>1
        <4>3. /\ tasks'[t] \in Row /\ tasks'[t].column = c /\ tasks'[t].position = q
              /\ tasks'[t].assignee = rows[t].assignee
          <5>1. PICK r, z : r = rows[t] /\ z = q
            OBVIOUS
          <5>2. r \in Row /\ z \in Nat \ {0}
            BY <1>6, <4>1, <5>1
          <5>3. tasks'[t] = [r EXCEPT !.column = c, !.position = z]
            BY <4>2, <5>1
          <5> QED
            BY <5>1, <5>2, <5>3 DEF Row
        <4> QED
          BY <3>1, <3>2, <4>1, <4>3
      <3>3. CASE ~There(t)
        <4>1. rows[t] = NoTask
          BY <2>1, <3>3 DEF There, Row
        <4>2. tasks'[t] = rows[t]
          BY <1>13, <2>1, <4>1 DEF NoTask
        <4> QED
          BY <3>1, <3>3, <4>2
      <3> QED
        BY <3>2, <3>3
    <2>4. ASSUME NEW s \in KanbanTasks
          PROVE  /\ There(s)' = There(s)
                 /\ There(s) => tasks'[s].assignee = tasks[s].assignee
                 /\ tasks'[s] \in Task \cup {NoTask}
      <3>1. CASE There(s)
        <4>1. tasks'[s] \in Row /\ tasks'[s].assignee = tasks[s].assignee
          BY <2>1, <2>3, <3>1
        <4>2. tasks'[s].is = "there"
          BY <4>1 DEF Row
        <4>3. tasks'[s].position <= MaxPosition
          BY <1>13, <4>2
        <4> QED
          BY <3>1, <4>1, <4>2, <4>3, RowIs DEF There
      <3>2. CASE ~There(s)
        <4>1. rows[s] = NoTask
          BY <2>1, <3>2 DEF There, Row
        <4>2. tasks'[s] = NoTask
          BY <2>3, <3>2, <4>1
        <4> QED
          BY <3>2, <4>2 DEF There, NoTask
      <3> QED
        BY <3>1, <3>2
    <2>5. tasks' \in [KanbanTasks -> Task \cup {NoTask}]
      <3>1. tasks' = [s \in KanbanTasks |-> tasks'[s]]
        BY <1>13, <2>1
      <3> QED
        BY <2>4, <3>1
    <2>6. /\ movers' \in [Movers -> Mover \cup {NoRequest}]
          /\ movers'[w] = NoRequest
          /\ \A v \in Movers : v # w =>
               MarkedAs(movers[v], movers'[v]) /\ (ReadBefore(v, touched) => movers'[v].stale)
      <3>1. movers' = Outdated(h, Movers \ {w}, touched)
        BY <1>10, <1>13 DEF Finished
      <3>2. \A v \in Movers : v \in Movers \ {w} => MarkedAs(movers[v], h[v])
        BY <1>11
      <3>3. /\ movers' \in [Movers -> Mover \cup {NoRequest}]
            /\ \A v \in Movers : v \notin Movers \ {w} => movers'[v] = h[v]
            /\ \A v \in Movers : v \in Movers \ {w} =>
                 MarkedAs(movers[v], movers'[v]) /\ (ReadBefore(v, touched) => movers'[v].stale)
        BY <1>11, <3>1, <3>2, OutdatedIs
      <3> QED
        BY <1>11, <3>3
    <2>7. \A v \in Movers : AsksFor(movers'[v])
      BY <1>2, <2>6, MarkedAsksFor, NobodyAsks
    <2>8. touched \subseteq KanbanColumns
      BY <1>2, <1>8, TaskIs DEF Task
    <2>9. tangled' \subseteq KanbanColumns
      BY <1>2, <1>13, <2>8 DEF TaskTypes
    <2>10. TaskTypes'
      BY <1>1, <1>2, <2>5, <2>6, <2>9 DEF TaskTypes
    <2>11. ASSUME NEW v \in Movers
           PROVE  CarriesOn(v) /\ SameColumnRequest(v) /\ SamePlacement(v, touched) /\ SameHands(v) /\ SamePick(v)
      <3>1. CASE v = w
        BY <1>1, <2>6, <3>1, QuietIs DEF Quiet
      <3>2. CASE v # w
        BY <2>6, <3>2, QuietIs DEF Quiet
      <3> QED
        BY <3>1, <3>2
    <2>12. OnBoard' = OnBoard
      BY <1>1 DEF OnBoard
    <2>13. IdsAreFresh'
      <3>1. ASSUME NEW s \in KanbanTasks, There(s)'
            PROVE  tasks'[s].column \in OnBoard'
        <4>1. There(s)
          BY <2>4, <3>1
        <4>2. CASE s = t
          BY <1>13, <2>3, <2>12, <4>1, <4>2
        <4>3. CASE s # t
          BY <2>1, <2>3, <2>12, <4>1, <4>3 DEF TaskBoardInv, IdsAreFresh
        <4> QED
          BY <4>2, <4>3
      <3> QED
        BY <1>2, <2>4, <2>11, <2>12, <3>1, IdsGoOn DEF TaskBoardInv
    <2>14. ColumnsKept'
      BY <1>1, <2>11, ColumnsStay DEF TaskBoardInv
    <2>15. TurnsKept'
      BY <1>1, <2>11, TurnsStay DEF TaskBoardInv
    <2>16. HandsKept'
      BY <1>1, <1>2, <2>4, <2>11, HandsStay DEF TaskBoardInv
    <2>17. ASSUME NEW d \in KanbanColumns \ touched
           PROVE  SameTasks(d)
      <3>1. d # a /\ d # c
        BY <1>8, <2>17
      <3>2. \A s \in TasksOf(d) : s # t /\ tasks'[s] = tasks[s]
        BY <1>8, <2>1, <2>3, <2>17, <3>1 DEF TasksOf
      <3>3. \A s \in KanbanTasks : s \in TasksOf(d)' <=> s \in TasksOf(d)
        BY <2>1, <2>3, <2>4, <3>1, <3>2 DEF TasksOf
      <3>4. TasksOf(d)' = TasksOf(d)
        BY <3>3 DEF TasksOf
      <3> QED
        BY <3>2, <3>4 DEF SameTasks
    <2>18. ASSUME NEW d \in touched \ tangled'
           PROVE  InPlace(d)'
      <3>1. ~movers[w].stale /\ d \notin tangled
        BY <1>13, <2>18
      <3>2. There(t) /\ tasks[t].column = a /\ tasks[t].position = p
        BY <1>1, <1>3, <1>4, <3>1 DEF TaskBoardInv, PlacesKept, ReadsHold
      <3>3. d \in {a, c} /\ InPlace(d) /\ t \in TasksOf(a)
        BY <1>8, <2>18, <3>1, <3>2 DEF TaskBoardInv, PlacesKept, TasksOf
      <3>4. PICK T, f, g : T = TasksOf(d) /\ f = Position /\ g = Position'
        OBVIOUS
      <3>5. IsFiniteSet(T) /\ InOrder(T, f) /\ T \subseteq KanbanTasks
        BY <3>3, <3>4, TasksOfIsFinite, InPlaceIs DEF TasksOf
      <3>6. \A s \in T : f[s] \in Nat \ {0}
        BY <1>2, <3>4, PositionIs
      <3>7. /\ \A s \in T : f[s] = tasks[s].position /\ There(s) /\ tasks[s].column = d
            /\ \A s \in KanbanTasks : s # t => g[s] = rows[s].position
            /\ g[t] = q
        BY <2>3, <3>2, <3>4 DEF Position, TasksOf
      <3>8. d = c => m = Cardinality(T)
        BY <1>1, <1>3, <1>4, <3>1, <3>4 DEF TaskBoardInv, PlacesKept, ReadsHold
      <3>9. \A s \in KanbanTasks : /\ s # t => (s \in TasksOf(d)' <=> s \in T)
                                   /\ t \in TasksOf(d)' <=> d = c
        BY <2>1, <2>3, <2>4, <3>2, <3>4 DEF TasksOf
      <3>10. TasksOf(d)' \subseteq KanbanTasks
        BY DEF TasksOf
      <3>11. CASE a = c
        <4>1. d = c /\ t \in T /\ f[t] = p
          BY <3>2, <3>3, <3>4, <3>7, <3>11
        <4>2. q <= Cardinality(T)
          <5>1. Cardinality(T) # 0
            BY <3>5, <4>1, FS_EmptySet
          <5> QED
            BY <1>6, <3>8, <3>11, <4>1, <5>1
        <4>3. q < f[t] => \A s \in T \ {t} : g[s] = IF f[s] \in q..(f[t] - 1) THEN f[s] + 1 ELSE f[s]
          BY <2>2, <3>5, <3>7, <3>11, <4>1
        <4>4. ~ (q < f[t]) => \A s \in T \ {t} : g[s] = IF f[s] \in (f[t] + 1)..q THEN f[s] - 1 ELSE f[s]
          BY <2>2, <3>5, <3>7, <3>11, <4>1
        <4>5. g[t] = q
          BY <3>7
        <4>6. InOrder(T, g)
          BY <1>6, <3>5, <3>6, <4>1, <4>2, <4>3, <4>4, <4>5, MovedInOrder
        <4>7. TasksOf(d)' = T
          BY <3>5, <3>9, <3>10, <4>1
        <4> QED
          BY <3>4, <4>6, <4>7, InPlaceAfter
      <3>12. CASE a # c /\ d = a
        <4>1. t \in T /\ f[t] = p
          BY <3>2, <3>3, <3>4, <3>7, <3>12
        <4>2. \A s \in T \ {t} : g[s] = IF f[s] > f[t] THEN f[s] - 1 ELSE f[s]
          BY <2>2, <3>5, <3>7, <3>12, <4>1
        <4>3. InOrder(T \ {t}, g)
          BY <3>5, <3>6, <4>1, <4>2, RemovedInOrder
        <4>4. TasksOf(d)' = T \ {t}
          BY <3>5, <3>9, <3>10, <3>12
        <4> QED
          BY <3>4, <4>3, <4>4, InPlaceAfter
      <3>13. CASE a # c /\ d = c
        <4>1. t \notin T
          BY <3>2, <3>4, <3>13 DEF TasksOf
        <4>2. \A s \in T : g[s] = IF f[s] >= q THEN f[s] + 1 ELSE f[s]
          BY <2>2, <3>5, <3>7, <3>13, <4>1
        <4>3. q <= Cardinality(T) + 1
          BY <1>6, <3>8, <3>13
        <4>4. q \in Nat /\ q > 0 /\ g[t] = q
          BY <1>6, <3>7
        <4>5. IsFiniteSet(T) /\ InOrder(T, f)
          BY <3>5
        <4>6. InOrder(T \cup {t}, g)
          BY <3>6, <4>1, <4>2, <4>3, <4>4, <4>5, InsertedInOrder
        <4>7. TasksOf(d)' = T \cup {t}
          BY <3>5, <3>9, <3>10, <3>13
        <4> QED
          BY <3>4, <4>6, <4>7, InPlaceAfter
      <3> QED
        BY <3>3, <3>11, <3>12, <3>13
    <2>19. tangled \ touched \subseteq tangled'
      BY <1>13
    <2>20. PlacesKept'
      BY <1>2, <2>11, <2>17, <2>18, <2>19, PlacesStay DEF TaskBoardInv
    <2> QED
      BY <2>7, <2>10, <2>13, <2>14, <2>15, <2>16, <2>20 DEF TaskBoardInv
  <1> QED
    BY <1>9, <1>12, <1>13

-------------------------------------------------------------------------------
(* The board *)

LEMMA TaskBoardBegins ==
  ASSUME TaskBoardInit
  PROVE  TaskBoardInv
  <1> DEFINE D == DefaultColumns
             first(c) == CHOOSE i \in DOMAIN D : D[i] = c
  <1>1. PICK n : n = Len(D)
    OBVIOUS
  <1>2. /\ D \in Seq(KanbanColumns) /\ n \in Nat /\ DOMAIN D = 1..n /\ n <= MaxPosition
        /\ \A i \in 1..n : D[i] \in KanbanColumns
        /\ \A i, j \in 1..n : D[i] = D[j] => i = j
    BY <1>1, TaskBoardAssumption DEF IsInjective
  <1>3. /\ columns = [c \in KanbanColumns |-> IF c \in Range(D) THEN first(c) ELSE 0]
        /\ tasks = [t \in KanbanTasks |-> NoTask]
        /\ team = <<>> /\ cursor = 0
        /\ mode \in {"off", "round_robin", "least_busy"}
        /\ movers = [w \in Movers |-> NoRequest]
        /\ notified = [t \in KanbanTasks |-> {}]
        /\ hushed = {} /\ tangled = {} /\ skewed = FALSE
        /\ turns = [m \in Teammates |-> 0]
    BY DEF TaskBoardInit, NobodysTurn
  <1>4. \A c \in Range(D) : first(c) \in 1..n /\ D[first(c)] = c
    BY <1>2 DEF Range
  <1>5. /\ \A c \in Range(D) : columns[c] = first(c) /\ columns[c] \in 1..n
        /\ \A c \in KanbanColumns : c \notin Range(D) => columns[c] = 0
        /\ Range(D) \subseteq KanbanColumns
    <2>1. Range(D) \subseteq KanbanColumns
      BY <1>2 DEF Range
    <2> QED
      BY <1>3, <1>4, <2>1
  <1>6. OnBoard = Range(D)
    <2>1. \A c \in KanbanColumns : columns[c] # 0 <=> c \in Range(D)
      BY <1>2, <1>5
    <2> QED
      BY <1>5, <2>1 DEF OnBoard
  <1>7. columns \in [KanbanColumns -> 0..MaxPosition]
    <2>1. \A c \in KanbanColumns : columns[c] \in 0..MaxPosition
      BY <1>2, <1>5, TaskBoardAssumption
    <2> QED
      BY <1>3, <2>1
  <1>8. n <= Cardinality(OnBoard)
    <2>1. D \in Injection(1..n, OnBoard)
      <3>1. D \in [1..n -> OnBoard]
        <4>1. \A i \in 1..n : D[i] \in OnBoard
          BY <1>2, <1>6 DEF Range
        <4>2. D = [i \in 1..n |-> D[i]]
          BY <1>2
        <4> QED
          BY <4>1, <4>2
      <3> QED
        BY <1>2, <3>1 DEF Injection, IsInjective
    <2>2. Cardinality(1..n) <= Cardinality(OnBoard)
      BY <2>1, OnBoardIsFinite, FS_Injection
    <2>3. Cardinality(1..n) = IF 1 > n THEN 0 ELSE n - 1 + 1
      BY <1>2, FS_Interval
    <2>4. Cardinality(1..n) = n
      BY <1>2, <2>3
    <2> QED
      BY <2>2, <2>4
  <1>9. TaskTypes
    <2>1. movers \in [Movers -> Mover \cup {NoRequest}]
      BY <1>3
    <2>2. team \in Seq(Teammates) /\ turns \in [Teammates -> Nat]
      BY <1>3
    <2> QED
      BY <1>3, <1>7, <2>1, <2>2 DEF TaskTypes
  <1>10. \A w \in Movers : movers[w] = NoRequest /\ movers[w].op = "none"
    BY <1>3, NobodyAsks
  <1>11. \A t \in KanbanTasks : ~There(t)
    BY <1>3 DEF There, NoTask
  <1>12. \A w \in Movers : AsksFor(movers[w])
    BY <1>10, NobodyAsks
  <1>13. IdsAreFresh
    BY <1>10, <1>11 DEF IdsAreFresh
  <1>14. ColumnsKept
    <2>1. ASSUME NEW c \in OnBoard, NEW d \in OnBoard, columns[c] = columns[d]
          PROVE  c = d
      <3>1. first(c) = first(d) /\ D[first(c)] = c /\ D[first(d)] = d
        BY <1>4, <1>5, <1>6, <2>1
      <3> QED
        BY <3>1
    <2>2. ASSUME NEW c \in OnBoard
          PROVE  columns[c] <= Cardinality(OnBoard)
      <3>1. PICK x \in 1..n : x = columns[c]
        BY <1>5, <1>6
      <3> QED
        BY <1>2, <1>8, <3>1, OnBoardIsFinite
    <2> QED
      BY <1>10, <2>1, <2>2 DEF ColumnsKept
  <1>15. PlacesKept
    BY <1>10, <1>11 DEF PlacesKept, InPlace, ReadsHold, TasksOf
  <1>16. HandsKept
    BY <1>10, <1>11 DEF HandsKept
  <1>17. TurnsKept
    <2>1. Len(team) = 0 /\ team = <<>>
      BY <1>3
    <2>2. \A i : i \notin 1..Len(team)
      BY <2>1
    <2>3. \A m \in Teammates : turns[m] = 0
      BY <1>3
    <2> QED
      BY <1>10, <2>1, <2>2, <2>3 DEF TurnsKept
  <1> QED
    BY <1>9, <1>12, <1>13, <1>14, <1>15, <1>16, <1>17 DEF TaskBoardInv

LEMMA TaskBoardRests ==
  ASSUME TaskBoardInv, UNCHANGED taskBoardVars
  PROVE  TaskBoardInv'
  <1>1. /\ UNCHANGED <<columns, tasks, team, mode, cursor, notified, hushed, turns, tangled, skewed>>
        /\ movers' = movers
    BY DEF taskBoardVars
  <1>2. \A v \in Movers : MarkedAs(movers[v], movers'[v])
    BY <1>1, SameIsMarked
  <1>3. ASSUME NEW w \in Movers
        PROVE  CarriesOn(w) /\ SameColumnRequest(w) /\ SamePlacement(w, {}) /\ SameHands(w) /\ SamePick(w)
    <2>1. ~ReadBefore(w, {})
      BY DEF ReadBefore
    <2> QED
      BY <1>2, <2>1, QuietIs DEF Quiet
  <1>4. TaskTypes' /\ \A v \in Movers : AsksFor(movers'[v])
    BY <1>1, RequestTypes DEF TaskBoardInv, TaskTypes
  <1>5. PICK w : w = Movers
    OBVIOUS
  <1>6. IdsAreFresh' /\ ColumnsKept' /\ PlacesKept' /\ HandsKept' /\ TurnsKept'
    BY <1>1, <1>2, <1>3, ActsAlone
  <1> QED
    BY <1>4, <1>6 DEF TaskBoardInv

LEMMA TaskBoardGoesOn ==
  ASSUME TaskBoardInv, [TaskBoardNext]_taskBoardVars
  PROVE  TaskBoardInv'
  <1>1. CASE UNCHANGED taskBoardVars
    BY <1>1, TaskBoardRests
  <1>2. ASSUME NEW w \in Movers,
               \/ FailRequest(w) \/ ReadProject(w) \/ PickMember(w) \/ CheckAssignee(w)
               \/ CreateTask(w) \/ UpdateTask(w) \/ MoveTask(w) \/ InsertColumn(w)
               \/ SendTaskAssignedNotification(w)
        PROVE  TaskBoardInv'
    BY <1>2, FailRequestKeeps, ReadProjectKeeps, PickMemberKeeps, CheckAssigneeKeeps, CreateTaskKeeps,
       UpdateTaskKeeps, MoveTaskKeeps, InsertColumnKeeps, SendKeeps
  <1>3. ASSUME NEW w \in Movers, NEW t \in KanbanTasks, NEW S \in Assignee, NEW by \in Teammates,
               StartUpdate(w, t, S, by) \/ \E c \in OnBoard : StartCreate(w, t, c, S, by)
        PROVE  TaskBoardInv'
    BY <1>3, StartUpdateKeeps, StartCreateKeeps
  <1>4. ASSUME NEW w \in Movers, NEW c \in KanbanColumns, NEW q \in 1..MaxPosition,
               ReadColumns(w, c, q) \/ \E t \in KanbanTasks : StartMove(w, t, c, q)
        PROVE  TaskBoardInv'
    BY <1>4, ReadColumnsKeeps, StartMoveKeeps
  <1>5. ASSUME NEW t \in KanbanTasks, DeleteTask(t)
        PROVE  TaskBoardInv'
    BY <1>5, DeleteTaskKeeps
  <1>6. ASSUME NEW c \in KanbanColumns, RemoveColumn(c)
        PROVE  TaskBoardInv'
    BY <1>6, RemoveColumnKeeps
  <1>7. ASSUME NEW order \in Orders, OrderColumns(order)
        PROVE  TaskBoardInv'
    BY <1>7, OrderColumnsKeeps
  <1>8. ASSUME NEW m \in Teammates, NEW operation, MutateProjectMember(m, operation)
        PROVE  TaskBoardInv'
    BY <1>8, MutateProjectMemberKeeps
  <1> QED
    BY <1>1, <1>2, <1>3, <1>4, <1>5, <1>6, <1>7, <1>8 DEF TaskBoardNext

LEMMA TaskBoardStaysKept == TaskBoardSpec => []TaskBoardInv
  <1>1. TaskBoardInit => TaskBoardInv
    BY TaskBoardBegins
  <1>2. TaskBoardInv /\ [TaskBoardNext]_taskBoardVars => TaskBoardInv'
    BY TaskBoardGoesOn
  <1> QED
    BY <1>1, <1>2, PTL DEF TaskBoardSpec

(* However many requests add, move, delete, assign and announce tasks, or change the    *)
(* columns and the team, on any board: the numbers of columns and of tasks have no gap   *)
(* and no double, an assignee has been told, and the turns go round.                  *)
THEOREM TaskBoardAlwaysKept == TaskBoardSpec => []BoardIsKept
  <1>1. ASSUME TaskBoardInv
        PROVE  BoardIsKept
    <2>1. TaskTypes /\ IdsAreFresh /\ ColumnsKept /\ PlacesKept /\ HandsKept /\ TurnsKept
      BY <1>1 DEF TaskBoardInv
    <2>2. ColumnsInOrder
      <3>1. ASSUME ~skewed
            PROVE  {columns[c] : c \in OnBoard} = 1..Cardinality(OnBoard)
        <4>1. PICK S, f : S = OnBoard /\ f = [c \in S |-> columns[c]]
          OBVIOUS
        <4>2. IsFiniteSet(S) /\ Cardinality(S) \in Nat
          BY <4>1, OnBoardIsFinite
        <4>3. ASSUME NEW c \in S
              PROVE  f[c] \in 1..Cardinality(S)
          <5>1. columns[c] \in 0..MaxPosition /\ columns[c] # 0 /\ columns[c] <= Cardinality(S)
            BY <2>1, <3>1, <4>1 DEF TaskTypes, OnBoard, ColumnsKept
          <5> QED
            BY <4>1, <4>2, <5>1, TaskBoardAssumption
        <4>4. f \in [S -> 1..Cardinality(S)] /\ \A c, d \in S : c # d => f[c] # f[d]
          BY <2>1, <4>1, <4>3 DEF ColumnsKept
        <4>5. {f[c] : c \in S} = 1..Cardinality(S)
          BY <4>2, <4>4, NumbersAreAllTaken
        <4>6. {f[c] : c \in S} = {columns[c] : c \in OnBoard}
          BY <4>1
        <4> QED
          BY <4>1, <4>5, <4>6
      <3> QED
        BY <3>1 DEF ColumnsInOrder, Numbered
    <2>3. TasksInOrder
      <3>1. ASSUME NEW c \in KanbanColumns \ tangled
            PROVE  Numbered(TasksOf(c), [t \in TasksOf(c) |-> tasks[t].position])
        <4>1. InPlace(c)
          BY <2>1 DEF PlacesKept
        <4>2. {tasks[t].position : t \in TasksOf(c)} = 1..Cardinality(TasksOf(c))
          BY <2>1, <4>1, TasksOfIsNumbered
        <4> QED
          BY <4>2 DEF Numbered
      <3> QED
        BY <3>1 DEF TasksInOrder
    <2>4. AssigneesAreTold
      BY <2>1 DEF HandsKept, Tells, AssigneesAreTold, AtWork
    <2>5. TurnsAreFair
      <3>1. ASSUME NEW m \in Range(team), NEW k \in Range(team)
            PROVE  turns[m] <= turns[k] + 1
        <4>1. m \in Teammates /\ k \in Teammates
          BY <2>1 DEF TaskTypes, Range
        <4>2. turns[m] \in {0, 1} /\ turns[k] \in {0, 1}
          BY <2>1, <4>1 DEF TurnsKept
        <4> QED
          BY <4>2
      <3> QED
        BY <3>1 DEF TurnsAreFair
    <2> QED
      BY <2>2, <2>3, <2>4, <2>5 DEF BoardIsKept
  <1> QED
    BY <1>1, TaskBoardStaysKept, PTL

LEMMA TeamIsSmall ==
  ASSUME TaskBoardInv
  PROVE  Len(team) \in Nat /\ Cardinality(Teammates) \in Nat /\ Len(team) <= Cardinality(Teammates)
  <1>1. PICK n : n = Len(team)
    OBVIOUS
  <1>2. n \in Nat /\ DOMAIN team = 1..n /\ (\A i \in 1..n : team[i] \in Teammates) /\ team \in Seq(Teammates)
    BY <1>1 DEF TaskBoardInv, TaskTypes
  <1>3. team \in Injection(1..n, Teammates)
    <2>1. team \in [1..n -> Teammates]
      BY <1>2
    <2>2. \A i, j \in 1..n : team[i] = team[j] => i = j
      BY <1>1 DEF TaskBoardInv, TurnsKept
    <2> QED
      BY <2>1, <2>2 DEF Injection, IsInjective
  <1>4. Cardinality(1..n) = IF 1 > n THEN 0 ELSE n - 1 + 1
    BY <1>2, FS_Interval
  <1>5. Cardinality(1..n) = n
    BY <1>2, <1>4
  <1>6. Cardinality(1..n) <= Cardinality(Teammates)
    BY <1>3, FS_Injection, TaskBoardAssumption
  <1> QED
    BY <1>1, <1>2, <1>5, <1>6, FS_CardinalityType, TaskBoardAssumption

LEMMA CursorGoesOn ==
  ASSUME TaskBoardInv, cursor \in 0..Cardinality(Teammates), [TaskBoardNext]_taskBoardVars
  PROVE  cursor' \in 0..Cardinality(Teammates)
  <1>1. UNCHANGED cursor \/ \E w \in Movers : movers[w].op # "none" /\ PickInTurn(w)
    <2> SUFFICES ASSUME cursor' # cursor
                 PROVE  \E w \in Movers : movers[w].op # "none" /\ PickInTurn(w)
      OBVIOUS
    <2>1. ASSUME NEW w \in Movers
          PROVE  ~FailRequest(w) /\ ~ReadProject(w) /\ ~CheckAssignee(w) /\ ~CreateTask(w)
      BY DEF FailRequest, ReadProject, CheckAssignee, CreateTask
    <2>2. ASSUME NEW w \in Movers
          PROVE  ~UpdateTask(w) /\ ~MoveTask(w) /\ ~InsertColumn(w) /\ ~SendTaskAssignedNotification(w)
      BY DEF UpdateTask, MoveTask, InsertColumn, SendTaskAssignedNotification
    <2>3. ASSUME NEW w, NEW t, NEW a, NEW by
          PROVE  ~StartUpdate(w, t, a, by) /\ \A c : ~StartCreate(w, t, c, a, by)
      BY DEF StartUpdate, StartCreate
    <2>4. ASSUME NEW w, NEW c, NEW dest
          PROVE  ~ReadColumns(w, c, dest) /\ \A t : ~StartMove(w, t, c, dest)
      BY DEF ReadColumns, StartMove
    <2>5. ASSUME NEW x, NEW y
          PROVE  ~DeleteTask(x) /\ ~RemoveColumn(x) /\ ~OrderColumns(x) /\ ~MutateProjectMember(x, y)
      BY DEF DeleteTask, RemoveColumn, OrderColumns, MutateProjectMember
    <2>6. \E w \in Movers : PickMember(w)
      <3>1. TaskBoardNext
        BY DEF taskBoardVars
      <3> QED
        BY ONLY <2>1, <2>2, <2>3, <2>4, <2>5, <3>1 DEF TaskBoardNext
    <2>7. PICK w \in Movers : PickMember(w)
      BY <2>6
    <2>8. movers[w].op # "none" /\ PickInTurn(w)
      BY <2>7 DEF PickMember, Reaches
    <2> QED
      BY <2>8
  <1>2. ASSUME NEW w \in Movers, movers[w].op # "none", PickInTurn(w), cursor' # cursor
        PROVE  cursor' \in 0..Cardinality(Teammates)
    <2>1. PICK n, k, r : n = Len(team) /\ k = Cardinality(Teammates) /\ r = movers[w].turn
      OBVIOUS
    <2>2. n \in Nat /\ k \in Nat /\ n <= k
      BY <2>1, TeamIsSmall
    <2>3. cursor' = (r % n) + 1 /\ team # <<>>
      BY <1>2, <2>1 DEF PickInTurn, NextCursor
    <2>4. n > 0
      BY <2>1, <2>2, <2>3 DEF TaskBoardInv, TaskTypes
    <2>5. r \in Nat
      <3>1. movers[w] \in Mover
        BY <1>2, MoverIs DEF TaskBoardInv
      <3> QED
        BY <2>1, <3>1 DEF Mover
    <2>6. r % n \in 0..(n - 1)
      BY ONLY <2>2, <2>4, <2>5, ModRange
    <2> QED
      BY ONLY <2>1, <2>2, <2>3, <2>6
  <1> QED
    BY <1>1, <1>2

(* Rows, requests and histories of the board keep their types, and the cursor of the turns *)
(* never passes the greatest team.                                               *)
THEOREM TaskBoardTypesCorrect == TaskBoardSpec => []TaskBoardTypeOK
  <1>1. ASSUME TaskBoardInv, cursor \in 0..Cardinality(Teammates)
        PROVE  TaskBoardTypeOK
    <2>1. TaskTypes
      BY <1>1 DEF TaskBoardInv
    <2>2. ASSUME NEW w \in AtWork
          PROVE  movers[w].step \in {"project", "pick", "check", "write", "tell"} /\ movers[w].assignee \in Assignee
      <3>1. w \in Movers /\ movers[w].op # "none"
        BY DEF AtWork
      <3>2. movers[w] \in Mover
        BY <2>1, <3>1, MoverIs
      <3> QED
        BY <3>2 DEF Mover, MoverSteps
    <2> QED
      BY <1>1, <2>1, <2>2 DEF TaskTypes, TaskBoardTypeOK
  <1>2. TaskBoardInit => cursor \in 0..Cardinality(Teammates)
    BY FS_CardinalityType, TaskBoardAssumption DEF TaskBoardInit
  <1>3. /\ TaskBoardInv /\ cursor \in 0..Cardinality(Teammates) /\ [TaskBoardNext]_taskBoardVars
        => cursor' \in 0..Cardinality(Teammates)
    BY CursorGoesOn
  <1>4. (cursor \in 0..Cardinality(Teammates))' <=> cursor' \in 0..Cardinality(Teammates)
    OBVIOUS
  <1> QED
    BY <1>1, <1>2, <1>3, <1>4, TaskBoardStaysKept, PTL DEF TaskBoardSpec
=============================================================================
