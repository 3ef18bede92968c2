--------------------------- MODULE PayAndClaims_proofs ---------------------------
(***************************************************************************)
(* Types of PayslipCarryOver and the window a reissue keeps, whatever happens;     *)
(* NothingSweptIn, where no draft is edited and rebuilt at once; NothingLost, in   *)
(* the circumstances where the selection keeps its promise.                       *)
(*                                                                         *)
(* BooksAgree and ReceiptsAreKept of Reimbursements, for any number of claims,    *)
(* records, receipts and requests.                                             *)
(***************************************************************************)
EXTENDS PayslipCarryOver, Reimbursements, WellFoundedInduction, TLAPS

LEMMA SlipOrder ==
  ASSUME NEW d \in Slips
  PROVE  /\ d[1] \in Months /\ d[2] \in Nat /\ d = <<d[1], d[2]>>
         /\ d[2] > 0 => Replaced(d) \in Slips /\ Replaced(d)[1] = d[1] /\ Replaced(d)[2] < d[2]
         /\ d[2] < MaxRevision => /\ Reissue(d) \in Slips /\ Replaced(Reissue(d)) = d
                                  /\ Reissue(d)[1] = d[1] /\ Reissue(d)[2] = d[2] + 1
         /\ \A c \in Slips : c[1] = d[1] /\ c[2] = d[2] => c = d
  <1>1. d[1] \in Months /\ d[2] \in 0..MaxRevision /\ d = <<d[1], d[2]>>
    BY DEF Slips
  <1>2. MaxRevision \in Nat
    BY BoundsAssumption
  <1>3. d[2] > 0 => Replaced(d) \in Slips /\ Replaced(d)[1] = d[1] /\ Replaced(d)[2] < d[2]
    BY <1>1, <1>2 DEF Slips, Replaced
  <1>4. d[2] < MaxRevision => /\ Reissue(d) \in Slips /\ Replaced(Reissue(d)) = d
                              /\ Reissue(d)[1] = d[1] /\ Reissue(d)[2] = d[2] + 1
    BY <1>1, <1>2 DEF Slips, Replaced, Reissue
  <1>5. ASSUME NEW c \in Slips, c[1] = d[1], c[2] = d[2] PROVE c = d
    <2>1. c = <<c[1], c[2]>>
      BY DEF Slips
    <2> QED
      BY <1>1, <1>5, <2>1
  <1> QED
    BY <1>1, <1>2, <1>3, <1>4, <1>5

Typed ==
    /\ now \in Nat
    /\ records \in [Items -> Record]
    /\ slips \in [Slips -> Slip]
    /\ requests \in [Requests -> Request]

(* What the steps read and build is well typed. *)
LEMMA Built ==
  /\ NoSlip \in Slip /\ NoSlip.status = "absent" /\ NoAnchor \in Anchor
  /\ \A gen \in Nat, items \in SUBSET Items : /\ SlipOf("draft", gen, items) \in Slip
                                              /\ SlipOf("draft", gen, items).status = "draft"
                                              /\ SlipOf("draft", gen, items).gen = gen
                                              /\ SlipOf("draft", gen, items).items = items
  <1>1. NoAnchor \in Anchor
    BY TimeAssumption DEF NoAnchor, Anchor
  <1> QED
    BY <1>1 DEF NoSlip, Slip, SlipOf

LEMMA IdleRequest ==
  /\ NoRequest \in Request /\ NoRequest.step = "idle" /\ ~NoRequest.creates
  /\ NoRequest.slip[2] = 0
  <1>1. <<1, 0>> \in Slips
    BY TimeAssumption, BoundsAssumption DEF Slips, Months
  <1> QED
    BY <1>1, Built DEF NoRequest, Request

LEMMA AnchorType ==
  ASSUME Typed, NEW month \in Months
  PROVE  LatestSentBefore(month) \subseteq Anchor
  <1>1. ASSUME NEW d \in Slips PROVE [month |-> d[1], gen |-> slips[d].gen] \in Anchor
    BY SlipOrder, TimeAssumption DEF Typed, Anchor, Slip, Months
  <1> QED
    BY <1>1, Built DEF LatestSentBefore, SentBefore

LEMMA RequestOfType ==
  ASSUME Typed, NEW d \in Slips, NEW clock \in Nat, NEW items \in SUBSET Items,
         NEW step \in {"records", "storing", "editing"}
  PROVE  RequestOf(step, d, clock, items) \in Request
  BY Built DEF RequestOf, Request

(* Moves of one request, point by point. *)
LEMMA MoveType ==
  ASSUME Typed, NEW r \in Requests, NEW q \in Request, MovesTo(r, q)
  PROVE  /\ requests' \in [Requests -> Request]
         /\ requests'[r] = q
         /\ \A p \in Requests : p # r => requests'[p] = requests[p]
  BY DEF Typed, MovesTo

-----------------------------------------------------------------------------
(* How a row may change *)

(* A draft is stored: a new first revision, or over the draft of any; that  *)
(* of a reissue has the items and the clock of the slip it replaces.        *)
Stores(d, gen, items) ==
    /\ slips' = [slips EXCEPT ![d] = SlipOf("draft", gen, items)]
    /\ gen \in Nat /\ items \in SUBSET Items
    /\ slips[d].status = "absent" => d[2] = 0
    /\ slips[d].status \in {"absent", "draft"}
    /\ d[2] > 0 => items = slips[Replaced(d)].items /\ gen = slips[Replaced(d)].gen

(* What every change of the table keeps. *)
RowsKept ==
    /\ slips' \in [Slips -> Slip]
    /\ OneActive' /\ Chain' /\ ReissueKeepsWindow'
    /\ \A d \in Slips : slips[d].status # "absent" => slips'[d].status # "absent"
    /\ \A d \in Slips : slips[d].status = "void" => slips'[d] = slips[d]

LEMMA StoreKeepsRows ==
  ASSUME TypeOK, ReissueKeepsWindow, NEW d \in Slips, NEW gen, NEW items, Stores(d, gen, items)
  PROVE  RowsKept
  <1>1. /\ slips \in [Slips -> Slip] /\ OneActive /\ Chain
        /\ slips' \in [Slips -> Slip]
        /\ slips'[d].status = "draft" /\ slips'[d].items = items /\ slips'[d].gen = gen
        /\ \A c \in Slips : c # d => slips'[c] = slips[c]
    BY Built DEF TypeOK, Stores
  <1>2. ASSUME NEW c \in Slips, c[1] = d[1], c # d PROVE ~Active(slips[c])
    <2>1. CASE slips[d].status = "draft"
      BY <1>1, <1>2, <2>1 DEF OneActive, Active
    <2>2. CASE slips[d].status = "absent"
      <3>1. d[2] < c[2]
        BY <1>2, <2>2, SlipOrder DEF Stores
      <3> QED
        BY <1>1, <1>2, <2>2, <3>1 DEF Chain, Active
    <2> QED
      BY <2>1, <2>2 DEF Stores
  <1>3. OneActive'
    BY <1>1, <1>2 DEF OneActive, Active
  <1>4. ASSUME NEW b \in Slips, NEW c \in Slips, b[1] = c[1], b[2] < c[2],
               slips'[c].status # "absent"
        PROVE  slips'[b].status = "void"
    <2>1. c[2] > 0
      BY <1>4, SlipOrder
    <2>2. slips[c].status # "absent"
      BY <1>1, <1>4, <2>1 DEF Stores
    <2>3. slips[b].status = "void"
      BY <1>1, <1>4, <2>2 DEF Chain
    <2> QED
      BY <1>1, <2>3 DEF Stores
  <1>5. ASSUME NEW c \in Slips, c[2] > 0, slips'[c].status # "absent"
        PROVE  /\ slips'[c].items = slips'[Replaced(c)].items
               /\ slips'[c].gen = slips'[Replaced(c)].gen
    <2>1. /\ Replaced(c) \in Slips /\ Replaced(c)[1] = c[1] /\ Replaced(c)[2] < c[2]
      BY <1>5, SlipOrder
    <2>2. slips[c].status # "absent"
      BY <1>1, <1>5 DEF Stores
    <2>3. slips[Replaced(c)].status = "void"
      BY <1>1, <2>1, <2>2 DEF Chain
    <2>4. Replaced(c) # d
      BY <2>3 DEF Stores
    <2>5. slips'[Replaced(c)] = slips[Replaced(c)]
      BY <1>1, <2>1, <2>4
    <2>6. CASE c = d
      BY <1>1, <1>5, <2>5, <2>6 DEF Stores
    <2>7. CASE c # d
      BY <1>1, <1>5, <2>2, <2>5, <2>7 DEF ReissueKeepsWindow
    <2> QED
      BY <2>6, <2>7
  <1>6. \A c \in Slips : /\ slips[c].status # "absent" => slips'[c].status # "absent"
                         /\ slips[c].status = "void" => slips'[c] = slips[c]
    BY <1>1 DEF Stores
  <1> QED
    BY <1>1, <1>3, <1>4, <1>5, <1>6 DEF RowsKept, Chain, ReissueKeepsWindow

LEMMA SendKeepsRows ==
  ASSUME TypeOK, ReissueKeepsWindow, NEW d \in Slips, Send(d)
  PROVE  RowsKept
  <1>1. /\ slips \in [Slips -> Slip] /\ OneActive /\ Chain
        /\ slips' \in [Slips -> Slip]
        /\ slips[d].status = "draft" /\ slips'[d].status = "sent"
        /\ slips'[d].items = slips[d].items /\ slips'[d].gen = slips[d].gen
        /\ \A c \in Slips : c # d => slips'[c] = slips[c]
    BY DEF TypeOK, Send, Slip
  <1>2. OneActive'
    BY <1>1 DEF OneActive, Active
  <1>3. \A c \in Slips : /\ slips[c].status # "absent" <=> slips'[c].status # "absent"
                         /\ slips'[c].items = slips[c].items /\ slips'[c].gen = slips[c].gen
                         /\ slips[c].status = "void" => slips'[c] = slips[c]
    BY <1>1
  <1>4. Chain'
    BY <1>1, <1>3 DEF Chain
  <1>5. ReissueKeepsWindow'
    BY <1>3, SlipOrder DEF ReissueKeepsWindow
  <1> QED
    BY <1>1, <1>2, <1>3, <1>4, <1>5 DEF RowsKept

LEMMA VoidKeepsRows ==
  ASSUME TypeOK, ReissueKeepsWindow, NEW d \in Slips, VoidReissue(d)
  PROVE  RowsKept
  <1>0. /\ Reissue(d) \in Slips /\ Replaced(Reissue(d)) = d /\ Reissue(d) # d
        /\ Reissue(d)[1] = d[1] /\ Reissue(d)[2] = d[2] + 1 /\ d[2] \in Nat
    BY SlipOrder DEF VoidReissue
  <1>1. /\ slips \in [Slips -> Slip] /\ OneActive /\ Chain /\ slips[d].status = "sent"
    BY DEF TypeOK, VoidReissue
  <1>2. /\ slips' \in [Slips -> Slip]
        /\ slips'[d].status = "void" /\ slips'[d].items = slips[d].items
        /\ slips'[d].gen = slips[d].gen
        /\ slips'[Reissue(d)] = SlipOf("draft", slips[d].gen, slips[d].items)
        /\ \A c \in Slips : c # d /\ c # Reissue(d) => slips'[c] = slips[c]
    <2>1. slips[d] \in Slip /\ [slips[d] EXCEPT !.status = "void"] \in Slip
      BY <1>1 DEF Slip
    <2>2. SlipOf("draft", slips[d].gen, slips[d].items) \in Slip
      BY <2>1, Built DEF Slip
    <2>3. slips' = [slips EXCEPT ![d] = [slips[d] EXCEPT !.status = "void"],
                                 ![Reissue(d)] = SlipOf("draft", slips[d].gen, slips[d].items)]
      BY <1>0, <1>1 DEF VoidReissue
    <2> QED
      BY <1>0, <1>1, <2>1, <2>2, <2>3 DEF Slip
  <1>3. ASSUME NEW c \in Slips, c[1] = d[1], d[2] < c[2] PROVE slips[c].status = "absent"
    BY <1>1, <1>3 DEF Chain
  <1>4. /\ slips[Reissue(d)].status = "absent" /\ slips'[Reissue(d)].status = "draft"
        /\ slips'[Reissue(d)].gen = slips[d].gen /\ slips'[Reissue(d)].items = slips[d].items
    <2>1. slips[d].gen \in Nat /\ slips[d].items \in SUBSET Items
      BY <1>1 DEF Slip
    <2> QED
      BY <1>0, <1>2, <1>3, <2>1, Built
  <1>5. ASSUME NEW c \in Slips, c[1] = d[1], c # d PROVE ~Active(slips[c])
    BY <1>1, <1>5 DEF OneActive, Active
  <1>6. OneActive'
    BY <1>0, <1>2, <1>1, <1>5 DEF OneActive, Active
  <1>7. ASSUME NEW b \in Slips, NEW c \in Slips, b[1] = c[1], b[2] < c[2],
               slips'[c].status # "absent"
        PROVE  slips'[b].status = "void"
    <2>1. CASE c = Reissue(d)
      <3>1. CASE b = d
        BY <1>2, <3>1
      <3>2. CASE b # d
        <4>1. b[2] < d[2]
          BY <1>0, <1>7, <2>1, <3>2, SlipOrder
        <4>2. slips[b].status = "void" /\ b # Reissue(d)
          BY <1>0, <1>1, <1>7, <2>1, <4>1 DEF Chain
        <4> QED
          BY <1>2, <3>2, <4>2
      <3> QED
        BY <3>1, <3>2
    <2>2. CASE c # Reissue(d)
      <3>1. slips[c].status # "absent"
        BY <1>1, <1>2, <1>7, <2>2
      <3>2. slips[b].status = "void"
        BY <1>1, <1>7, <3>1 DEF Chain
      <3> QED
        BY <1>1, <1>2, <1>4, <3>2
    <2> QED
      BY <2>1, <2>2
  <1>8. ASSUME NEW c \in Slips, c[2] > 0, slips'[c].status # "absent"
        PROVE  /\ slips'[c].items = slips'[Replaced(c)].items
               /\ slips'[c].gen = slips'[Replaced(c)].gen
    <2>1. CASE c = Reissue(d)
      BY <1>0, <1>2, <1>4, <2>1
    <2>2. CASE c # Reissue(d)
      <3>1. Replaced(c) \in Slips /\ Replaced(c)[1] = c[1] /\ Replaced(c)[2] < c[2]
        BY <1>8, SlipOrder
      <3>2. slips[c].status # "absent"
        BY <1>1, <1>2, <1>8, <2>2
      <3>3. slips[Replaced(c)].status = "void"
        BY <1>1, <3>1, <3>2 DEF Chain
      <3>4. slips'[Replaced(c)] = slips[Replaced(c)]
        BY <1>1, <1>2, <1>4, <3>1, <3>3
      <3>5. slips'[c].items = slips[c].items /\ slips'[c].gen = slips[c].gen
        BY <1>2, <2>2
      <3> QED
        BY <1>8, <3>2, <3>4, <3>5 DEF ReissueKeepsWindow
    <2> QED
      BY <2>1, <2>2
  <1>9. \A c \in Slips : /\ slips[c].status # "absent" => slips'[c].status # "absent"
                         /\ slips[c].status = "void" => slips'[c] = slips[c]
    BY <1>1, <1>2, <1>4
  <1> QED
    BY <1>2, <1>6, <1>7, <1>8, <1>9 DEF RowsKept, Chain, ReissueKeepsWindow

-----------------------------------------------------------------------------
(* How a request may move *)

(* What a request took from the rows outlives every change of the table: a  *)
(* replaced slip is void, and void rows are final.                          *)
LEMMA PreparedStays ==
  ASSUME WindowInv, RowsKept, NEW r \in Requests
  PROVE  Prepared(requests[r])'  \/ requests'[r] # requests[r]
  <1> SUFFICES ASSUME requests'[r] = requests[r] PROVE Prepared(requests[r])'
    OBVIOUS
  <1> DEFINE q == requests[r]
  <1>1. q \in Request /\ q.slip \in Slips /\ Prepared(q) /\ Chain
    BY DEF WindowInv, TypeOK, RequestsInv, Request
  <1>2. ASSUME q.slip[2] > 0, q.step \in {"storing", "editing"}
        PROVE  slips'[Replaced(q.slip)] = slips[Replaced(q.slip)]
    <2>1. /\ Replaced(q.slip) \in Slips /\ Replaced(q.slip)[1] = q.slip[1]
          /\ Replaced(q.slip)[2] < q.slip[2]
      BY <1>1, <1>2, SlipOrder
    <2>2. slips[q.slip].status # "absent"
      BY <1>1, <1>2 DEF Prepared
    <2>3. slips[Replaced(q.slip)].status = "void"
      BY <1>1, <2>1, <2>2 DEF Chain
    <2> QED
      BY <2>1, <2>3 DEF RowsKept
  <1> QED
    BY <1>1, <1>2 DEF Prepared, RowsKept

LEMMA UnchangedRows ==
  ASSUME TypeOK, ReissueKeepsWindow, UNCHANGED slips
  PROVE  RowsKept
  <1>1. OneActive' /\ Chain' /\ ReissueKeepsWindow'
    BY DEF TypeOK, OneActive, Chain, ReissueKeepsWindow, Active
  <1> QED
    BY <1>1 DEF RowsKept, TypeOK

(* So it is enough to look at the request that moves: when it reads, what   *)
(* it took is checked against rows that did not change; *)
LEMMA ReadingStep ==
  ASSUME WindowInv, UNCHANGED <<now, records, slips>>,
         NEW r \in Requests, NEW q \in Request, MovesTo(r, q), Prepared(q)
  PROVE  WindowInv'
  <1>1. Typed /\ RowsKept
    BY UnchangedRows DEF WindowInv, TypeOK, Typed
  <1>2. /\ requests' \in [Requests -> Request]
        /\ requests'[r] = q
        /\ \A p \in Requests : p # r => requests'[p] = requests[p]
    BY <1>1, MoveType
  <1>3. Prepared(requests[r])'
    BY <1>2 DEF Prepared
  <1>4. ASSUME NEW p \in Requests PROVE Prepared(requests[p])'
    BY <1>1, <1>2, <1>3, PreparedStays
  <1> QED
    BY <1>1, <1>2, <1>4 DEF WindowInv, TypeOK, RequestsInv, RowsKept, Typed

(* when it is done, it relies on nothing. *)
LEMMA FinishingStep ==
  ASSUME WindowInv, RowsKept, UNCHANGED <<now, records>>,
         NEW r \in Requests, MovesTo(r, NoRequest)
  PROVE  WindowInv'
  <1>1. Typed
    BY DEF WindowInv, TypeOK, Typed
  <1>2. /\ requests' \in [Requests -> Request]
        /\ requests'[r] = NoRequest
        /\ \A p \in Requests : p # r => requests'[p] = requests[p]
    BY <1>1, MoveType, IdleRequest
  <1>3. Prepared(requests[r])'
    BY <1>2, IdleRequest DEF Prepared
  <1>4. ASSUME NEW p \in Requests PROVE Prepared(requests[p])'
    BY <1>2, <1>3, PreparedStays
  <1> QED
    BY <1>1, <1>2, <1>4 DEF WindowInv, TypeOK, RequestsInv, RowsKept, Typed

LEMMA TableStep ==
  ASSUME WindowInv, RowsKept, now' \in Nat, records' \in [Items -> Record], UNCHANGED requests
  PROVE  WindowInv'
  <1>1. requests' \in [Requests -> Request]
    BY DEF WindowInv, TypeOK
  <1>2. \A p \in Requests : Prepared(requests[p])'
    BY PreparedStays
  <1> QED
    BY <1>1, <1>2 DEF WindowInv, TypeOK, RequestsInv, RowsKept

-----------------------------------------------------------------------------
(* The steps *)

LEMMA GenerateStep ==
  ASSUME WindowInv, NEW r \in Requests, NEW d \in Slips, Generate(r, d)
  PROVE  WindowInv'
  <1>1. Typed /\ RowsKept /\ UNCHANGED <<now, records, slips>>
    BY UnchangedRows DEF WindowInv, TypeOK, Typed, Generate
  <1>2. d[2] \in Nat /\ slips[d] \in Slip
    BY <1>1, SlipOrder DEF Typed
  <1>3. CASE d[2] = 0
    <2> DEFINE q == RequestOf("records", d, now, {})
    <2>1. q \in Request
      BY <1>1, RequestOfType DEF Typed
    <2>2. MovesTo(r, q)
      BY <1>3 DEF Generate, GeneratedAt
    <2>3. /\ q.step = "records" /\ q.slip = d /\ (q.creates <=> slips[d].status = "absent")
      BY DEF RequestOf
    <2>4. Prepared(q)
      BY <1>1, <1>3, <2>3 DEF Prepared, RequestOf
    <2> HIDE DEF q
    <2> QED
      BY <1>1, <2>1, <2>2, <2>4, ReadingStep
  <1>4. CASE d[2] # 0
    <2> DEFINE gen == slips[Replaced(d)].gen
               items == slips[Replaced(d)].items
               q == RequestOf("storing", d, gen, items)
    <2>1. Replaced(d) \in Slips /\ slips[d].status = "draft"
      BY <1>2, <1>4, SlipOrder DEF Generate
    <2>2. gen \in Nat /\ items \in SUBSET Items
      BY <1>1, <2>1 DEF Typed, Slip
    <2>3. q \in Request
      BY <1>1, <2>2, RequestOfType
    <2>4. MovesTo(r, q)
      BY <1>4 DEF Generate, GeneratedAt
    <2>5. /\ q.step = "storing" /\ q.slip = d /\ ~q.creates /\ q.seen = items /\ q.clock = gen
      BY <2>1 DEF RequestOf
    <2>6. Prepared(q)
      BY <1>1, <2>1, <2>5 DEF Prepared, RequestOf
    <2> HIDE DEF q
    <2> QED
      BY <1>1, <2>3, <2>4, <2>6, ReadingStep
  <1> QED
    BY <1>3, <1>4

LEMMA UpdateStep ==
  ASSUME WindowInv, NEW r \in Requests, NEW d \in Slips, Update(r, d)
  PROVE  WindowInv'
  <1> DEFINE q == RequestOf("editing", d, 0, slips[d].items)
  <1>1. Typed /\ RowsKept /\ UNCHANGED <<now, records, slips>>
    BY UnchangedRows DEF WindowInv, TypeOK, Typed, Update
  <1>2. q \in Request
    <2>1. slips[d].items \in SUBSET Items
      BY <1>1 DEF Typed, Slip
    <2> QED
      BY <1>1, <2>1, RequestOfType
  <1>3. MovesTo(r, q) /\ slips[d].status = "draft"
    BY DEF Update
  <1>4. q.step = "editing" /\ q.slip = d /\ ~q.creates /\ q.seen = slips[d].items
    BY <1>3 DEF RequestOf
  <1>5. d[2] > 0 => slips[d].items = slips[Replaced(d)].items
    BY <1>3 DEF WindowInv, ReissueKeepsWindow
  <1>6. Prepared(q)
    BY <1>1, <1>3, <1>4, <1>5 DEF Prepared, RequestOf
  <1> HIDE DEF q
  <1> QED
    BY <1>1, <1>2, <1>3, <1>6, ReadingStep

(* The reads belong to first revisions. *)
LEMMA ReadStep ==
  ASSUME WindowInv, NEW r \in Requests, ReadRecords(r) \/ ReadAnchor(r) \/ ReadConsumed(r)
  PROVE  WindowInv'
  <1>1. Typed /\ RowsKept /\ UNCHANGED <<now, records, slips>>
    BY UnchangedRows DEF WindowInv, TypeOK, Typed, ReadRecords, ReadAnchor, ReadConsumed
  <1>2. /\ requests[r] \in Request /\ requests[r].slip \in Slips /\ requests[r].slip[2] = 0
        /\ ~requests[r].creates => slips[requests[r].slip].status # "absent"
        /\ requests[r].seen \in SUBSET Items
    BY <1>1 DEF WindowInv, RequestsInv, Prepared, Request, Typed,
       ReadRecords, ReadAnchor, ReadConsumed
  <1>3. ASSUME NEW step \in {"anchor", "consumed", "storing"},
               NEW seen \in SUBSET Items, NEW anchor \in Anchor,
               MovesTo(r, [requests[r] EXCEPT !.step = step, !.seen = seen, !.anchor = anchor])
        PROVE  WindowInv'
    <2> DEFINE q == [requests[r] EXCEPT !.step = step, !.seen = seen, !.anchor = anchor]
    <2>1. q \in Request /\ q.slip = requests[r].slip /\ q.creates = requests[r].creates
      BY <1>2 DEF Request
    <2>2. q.step # "idle" /\ q.slip[2] = 0
      BY <1>2, <2>1 DEF Request
    <2>3. Prepared(q)
      BY <1>1, <1>2, <2>1, <2>2 DEF Prepared
    <2>4. MovesTo(r, q)
      BY <1>3
    <2> HIDE DEF q
    <2> QED
      BY <1>1, <2>1, <2>3, <2>4, ReadingStep
  <1>4. CASE ReadRecords(r)
    <2>1. [requests[r] EXCEPT !.step = "anchor", !.seen = Settled]
            = [requests[r] EXCEPT !.step = "anchor", !.seen = Settled, !.anchor = requests[r].anchor]
      BY <1>2 DEF Request
    <2>2. requests[r].anchor \in Anchor /\ Settled \in SUBSET Items
      BY <1>2 DEF Request, Settled
    <2> QED
      BY <1>3, <1>4, <2>1, <2>2 DEF ReadRecords
  <1>5. CASE ReadAnchor(r)
    <2>1. PICK anchor \in LatestSentBefore(requests[r].slip[1]) :
             MovesTo(r, [requests[r] EXCEPT !.step = "consumed", !.anchor = anchor])
      BY <1>5 DEF ReadAnchor
    <2>2. anchor \in Anchor
      BY <1>1, <1>2, AnchorType, SlipOrder
    <2>3. [requests[r] EXCEPT !.step = "consumed", !.anchor = anchor]
            = [requests[r] EXCEPT !.step = "consumed", !.seen = requests[r].seen, !.anchor = anchor]
      BY <1>2 DEF Request
    <2> QED
      BY <1>2, <1>3, <2>1, <2>2, <2>3
  <1>6. CASE ReadConsumed(r)
    <2> DEFINE selected == {i \in requests[r].seen \ Consumed(requests[r].slip[1]) :
                 Takes(i, requests[r].slip[1], requests[r].clock, requests[r].anchor)}
    <2>1. selected \in SUBSET Items
      BY <1>2
    <2>2. MovesTo(r, [requests[r] EXCEPT !.step = "storing", !.seen = selected, !.anchor = NoAnchor])
      BY <1>6 DEF ReadConsumed
    <2> HIDE DEF selected
    <2> QED
      BY <1>3, <2>1, <2>2, Built
  <1> QED
    BY <1>4, <1>5, <1>6

LEMMA StoreStep ==
  ASSUME WindowInv, NEW r \in Requests, Create(r) \/ Rebuild(r) \/ StoreEdit(r)
  PROVE  WindowInv'
  <1> DEFINE q == requests[r]
             d == q.slip
  <1>1. TypeOK /\ ReissueKeepsWindow /\ Prepared(q)
    BY DEF WindowInv, RequestsInv
  <1>2. q \in Request /\ d \in Slips /\ q.clock \in Nat /\ q.seen \in SUBSET Items /\ slips[d] \in Slip
    BY <1>1 DEF TypeOK, Request
  <1>3. UNCHANGED slips => RowsKept
    BY <1>1, UnchangedRows
  <1>4. CASE Create(r)
    <2>1. UNCHANGED slips \/ Stores(d, q.clock, q.seen)
      BY <1>1, <1>2, <1>4 DEF Create, Stores, Prepared, NumberFree
    <2> QED
      BY <1>1, <1>2, <1>3, <2>1, <1>4, StoreKeepsRows, FinishingStep DEF Create
  <1>5. CASE Rebuild(r)
    <2>1. UNCHANGED slips \/ Stores(d, q.clock, q.seen)
      BY <1>1, <1>2, <1>5 DEF Rebuild, Stores, Prepared
    <2> QED
      BY <1>1, <1>2, <1>3, <2>1, <1>5, StoreKeepsRows, FinishingStep DEF Rebuild
  <1>6. CASE StoreEdit(r)
    <2>1. slips[d].status = "draft" => Stores(d, slips[d].gen, q.seen)
      <3>1. slips[d].status = "draft" =>
              [slips[d] EXCEPT !.items = q.seen] = SlipOf("draft", slips[d].gen, q.seen)
        BY <1>2 DEF Slip, SlipOf
      <3>2. slips[d].status = "draft" =>
              slips' = [slips EXCEPT ![d] = [slips[d] EXCEPT !.items = q.seen]]
        BY <1>1, <1>2, <1>6 DEF StoreEdit, TypeOK
      <3>3. slips[d].status = "draft" /\ d[2] > 0 =>
              q.seen = slips[Replaced(d)].items /\ slips[d].gen = slips[Replaced(d)].gen
        BY <1>1, <1>2, <1>6 DEF StoreEdit, Prepared, ReissueKeepsWindow
      <3>4. slips[d].gen \in Nat
        BY <1>2 DEF Slip
      <3> QED
        BY <1>2, <3>1, <3>2, <3>3, <3>4 DEF Stores
    <2> QED
      BY <1>1, <1>2, <1>3, <2>1, <1>6, StoreKeepsRows, FinishingStep DEF StoreEdit
  <1> QED
    BY <1>4, <1>5, <1>6

(* The inductive invariant: rows, requests in flight, reissues. *)
THEOREM WindowCorrect == Spec => []WindowInv
  <1>1. Init => WindowInv
    <2> SUFFICES ASSUME Init PROVE WindowInv
      OBVIOUS
    <2>1. TypeOK
      BY Built, IdleRequest DEF Init, TypeOK, Record, OneActive, Chain, Active
    <2>2. RequestsInv
      BY IdleRequest DEF Init, RequestsInv, Prepared
    <2>3. ReissueKeepsWindow
      BY Built DEF Init, ReissueKeepsWindow
    <2> QED
      BY <2>1, <2>2, <2>3 DEF WindowInv
  <1>2. WindowInv /\ [Next]_vars => WindowInv'
    <2> SUFFICES ASSUME WindowInv, [Next]_vars PROVE WindowInv'
      OBVIOUS
    <2>0. TypeOK /\ ReissueKeepsWindow /\ Typed
      BY DEF WindowInv, TypeOK, Typed
    <2>1. CASE Tick
      BY <2>0, <2>1, UnchangedRows, TableStep DEF Tick, Typed
    <2>2. ASSUME NEW i \in Items, Stamp(i) \/ Commit(i) PROVE WindowInv'
      <3>1. records' \in [Items -> Record]
        BY <2>0, <2>2 DEF Stamp, Commit, Typed, Record
      <3> QED
        BY <2>0, <2>2, <3>1, UnchangedRows, TableStep DEF Stamp, Commit, Typed
    <2>3. ASSUME NEW r \in Requests, Build(r) PROVE WindowInv'
      BY <2>3, ReadStep, StoreStep DEF Build
    <2>4. ASSUME NEW r \in Requests, NEW d \in Slips, Generate(r, d) \/ Update(r, d) PROVE WindowInv'
      BY <2>4, GenerateStep, UpdateStep
    <2>5. ASSUME NEW d \in Slips, Send(d) \/ VoidReissue(d) PROVE WindowInv'
      <3>1. RowsKept
        BY <2>0, <2>5, SendKeepsRows, VoidKeepsRows
      <3> QED
        BY <2>0, <2>5, <3>1, TableStep DEF Send, VoidReissue, Typed
    <2>6. CASE UNCHANGED vars
      BY <2>0, <2>6, UnchangedRows, TableStep DEF vars, Typed
    <2> QED
      BY <2>1, <2>2, <2>3, <2>4, <2>5, <2>6 DEF Next
  <1> QED
    BY <1>1, <1>2, PTL DEF Spec

(* Types, one active slip per month, revisions in order. *)
THEOREM CarryTypeCorrect == Spec => []TypeOK
  BY WindowCorrect, PTL DEF WindowInv

(* A reissue keeps the items and the generated_at of the slip it replaces,   *)
(* through any rebuild or edit of it, with any of the mishaps let in.       *)
THEOREM WindowKept == Spec => []ReissueKeepsWindow
  BY WindowCorrect, PTL DEF WindowInv
-----------------------------------------------------------------------------
(* Nothing is swept in: what a slip lists, a request carries what it will    *)
(* store, and as long as a draft is edited nothing else rebuilds it.         *)
Fits(i, month, clock) ==
    /\ records[i].status = "settled" /\ records[i].at <= clock
    /\ \E o \in Slips : slips[o].status # "absent" /\ o[1] <= month /\ Start(o[1]) <= records[i].at

Selected(r) ==
    LET q == requests[r]
        paid == q.seen \cap Reimbursements
    IN /\ q.step \in {"anchor", "consumed"} => \A i \in q.seen : records[i].status = "settled"
       /\ q.step = "consumed" =>
             \/ q.anchor = NoAnchor
             \/ \E o \in Slips : /\ slips[o].status # "absent"
                                 /\ o[1] = q.anchor.month /\ o[1] <= q.slip[1]
       /\ q.step = "storing" => \A i \in paid :
             \/ Fits(i, q.slip[1], q.clock)
             \/ records[i].status = "settled" /\ records[i].at <= q.clock /\ Start(q.slip[1]) <= records[i].at
       /\ q.step = "editing" => slips[q.slip].status # "absent"
                               /\ \A i \in paid : Fits(i, q.slip[1], slips[q.slip].gen)

EditsAlone == \A p, r \in Requests :
    requests[p].step = "editing" /\ Busy(r) /\ requests[r].slip = requests[p].slip => p = r

Listed(d) == \A i \in slips[d].items \cap Reimbursements : Fits(i, d[1], slips[d].gen)

SweptInv ==
    /\ WindowInv /\ EditsAlone
    /\ \A d \in Slips : Listed(d)
    /\ \A r \in Requests : Selected(r)

(* What every step keeps. *)
Kept ==
    /\ \A i \in Items : records[i].status = "settled" => records'[i] = records[i]
    /\ \A d \in Slips : slips[d].status # "absent" => slips'[d].status # "absent"

LEMMA SweptTypes ==
  ASSUME SweptInv
  PROVE  /\ Typed /\ Chain
         /\ \A i \in Items : records[i] \in Record /\ records[i].at \in Nat
         /\ \A d \in Slips : slips[d] \in Slip /\ slips[d].items \subseteq Items /\ slips[d].gen \in Nat
         /\ \A r \in Requests : /\ requests[r] \in Request /\ requests[r].slip \in Slips
                                /\ requests[r].seen \subseteq Items /\ requests[r].clock \in Nat
                                /\ requests[r].anchor \in Anchor
         /\ \A d \in Slips : d[1] \in Nat /\ d[1] > 0 /\ Start(d[1]) \in Nat
         /\ \A a \in Anchor : Start(a.month) \in Nat /\ a.gen \in Nat
  <1>1. Typed /\ Chain
    BY DEF SweptInv, WindowInv, TypeOK, Typed
  <1>2. \A d \in Slips : d[1] \in Nat /\ d[1] > 0 /\ Start(d[1]) \in Nat
    BY SlipOrder, TimeAssumption DEF Months, Start
  <1>3. \A a \in Anchor : Start(a.month) \in Nat /\ a.gen \in Nat
    BY TimeAssumption DEF Anchor, Start
  <1> QED
    BY <1>1, <1>2, <1>3 DEF Typed, Record, Slip, Request

LEMMA FitsStays ==
  ASSUME Kept, NEW i \in Items, NEW month, NEW clock, Fits(i, month, clock)
  PROVE  Fits(i, month, clock)'
  BY DEF Kept, Fits

LEMMA ListedStays ==
  ASSUME SweptInv, Kept, NEW d \in Slips, slips'[d].items = slips[d].items, slips'[d].gen = slips[d].gen
  PROVE  Listed(d)'
  <1>1. \A i \in slips[d].items \cap Reimbursements : i \in Items /\ Fits(i, d[1], slips[d].gen)
    BY SweptTypes DEF SweptInv, Listed
  <1>2. \A i \in slips[d].items \cap Reimbursements : Fits(i, d[1], slips[d].gen)'
    BY <1>1 DEF Kept, Fits
  <1> QED
    BY <1>2 DEF Listed

LEMMA SelectedStays ==
  ASSUME SweptInv, Kept, NEW r \in Requests, requests'[r] = requests[r],
         requests[r].step = "editing" => slips'[requests[r].slip].gen = slips[requests[r].slip].gen
  PROVE  Selected(r)'
  <1> DEFINE q == requests[r]
  <1>1. q.seen \subseteq Items /\ q.slip \in Slips /\ Selected(r)
    BY SweptTypes DEF SweptInv
  <1>2. \A i \in q.seen : records[i].status = "settled" => records'[i] = records[i]
    BY <1>1 DEF Kept
  <1>3. q.step = "consumed" /\ q.anchor # NoAnchor =>
           \E o \in Slips : slips'[o].status # "absent" /\ o[1] = q.anchor.month /\ o[1] <= q.slip[1]
    BY <1>1 DEF Selected, Kept
  <1>4. \A o \in Slips : slips[o].status # "absent" => slips'[o].status # "absent"
    BY DEF Kept
  <1> QED
    BY <1>1, <1>2, <1>3, <1>4 DEF Selected, Fits

LEMMA EveryStepKeeps ==
  ASSUME SweptInv, [Next]_vars
  PROVE  Kept
  <1>0. Typed
    BY SweptTypes
  <1>1. CASE UNCHANGED vars \/ Tick
    BY <1>1 DEF vars, Tick, Kept
  <1>2. ASSUME NEW i \in Items, Stamp(i) \/ Commit(i) PROVE Kept
    BY <1>0, <1>2 DEF Stamp, Commit, Kept, Typed
  <1>3. ASSUME NEW d \in Slips, Send(d) PROVE Kept
    BY <1>0, <1>3, SendKeepsRows DEF Send, Kept, RowsKept, SweptInv, WindowInv
  <1>4. ASSUME NEW d \in Slips, VoidReissue(d) PROVE Kept
    BY <1>0, <1>4, VoidKeepsRows DEF VoidReissue, Kept, RowsKept, SweptInv, WindowInv
  <1>5. ASSUME NEW r \in Requests, Create(r) \/ Rebuild(r) \/ StoreEdit(r) PROVE Kept
    <2>1. requests[r].slip \in Slips /\ requests[r].clock \in Nat /\ requests[r].seen \in SUBSET Items
      BY SweptTypes
    <2>2. SlipOf("draft", requests[r].clock, requests[r].seen).status = "draft"
      BY <2>1, Built
    <2>3. records' = records /\ \A d \in Slips : slips[d].status # "absent" => slips'[d].status # "absent"
      BY <1>0, <1>5, <2>1, <2>2 DEF Create, Rebuild, StoreEdit, Typed, Slip
    <2> QED
      BY <2>3 DEF Kept
  <1>6. ASSUME NEW r \in Requests, ReadRecords(r) \/ ReadAnchor(r) \/ ReadConsumed(r) PROVE Kept
    BY <1>6 DEF ReadRecords, ReadAnchor, ReadConsumed, Kept
  <1>7. ASSUME NEW r \in Requests, NEW d \in Slips, Generate(r, d) \/ Update(r, d) PROVE Kept
    BY <1>7 DEF Generate, Update, Kept
  <1> QED
    BY <1>1, <1>2, <1>3, <1>4, <1>5, <1>6, <1>7 DEF Next, Build

(* A request reads; *)
LEMMA SweptRead ==
  ASSUME SweptInv, WindowInv', Kept, UNCHANGED slips, NEW r \in Requests, NEW q \in Request, MovesTo(r, q),
         Selected(r)', q.step = "editing" => \A p \in Requests : Busy(p) => requests[p].slip # q.slip,
         \A p \in Requests : requests[p].step = "editing" => requests[p].slip # q.slip
  PROVE  SweptInv'
  <1>1. /\ requests'[r] = q /\ \A p \in Requests : p # r => requests'[p] = requests[p]
    BY SweptTypes, MoveType
  <1>2. EditsAlone'
    BY <1>1 DEF SweptInv, EditsAlone, Busy
  <1>3. \A d \in Slips : Listed(d)'
    BY ListedStays
  <1>4. \A p \in Requests : Selected(p)'
    BY <1>1, SelectedStays
  <1> QED
    BY <1>2, <1>3, <1>4 DEF SweptInv

(* it goes on reading; *)
LEMMA SweptReads ==
  ASSUME SweptInv, WindowInv', NEW r \in Requests, ReadRecords(r) \/ ReadAnchor(r) \/ ReadConsumed(r), Kept
  PROVE  SweptInv'
  <1> DEFINE x == requests[r]
  <1>0. /\ Typed /\ x \in Request /\ x.slip \in Slips /\ x.seen \subseteq Items /\ x.clock \in Nat
        /\ x.anchor \in Anchor /\ Selected(r) /\ UNCHANGED <<now, records, slips>>
        /\ x.step \in {"records", "anchor", "consumed"}
    BY SweptTypes DEF SweptInv, ReadRecords, ReadAnchor, ReadConsumed
  <1>1. ASSUME NEW q \in Request, MovesTo(r, q), Selected(r)', q.slip = x.slip,
               q.step \in {"anchor", "consumed", "storing"}
        PROVE  SweptInv'
    <2>1. \A p \in Requests : requests[p].step = "editing" => requests[p].slip # q.slip
      BY <1>0, <1>1 DEF SweptInv, EditsAlone, Busy
    <2> QED
      BY <1>0, <1>1, <2>1, SweptRead
  <1>2. CASE ReadRecords(r)
    <2> DEFINE q == [x EXCEPT !.step = "anchor", !.seen = Settled]
    <2>1. q \in Request /\ q.step = "anchor" /\ q.seen = Settled /\ q.slip = x.slip
      BY <1>0 DEF Request, Settled
    <2>2. MovesTo(r, q)
      BY <1>2 DEF ReadRecords
    <2>3. requests'[r] = q
      BY <1>0, <2>1, <2>2, MoveType
    <2>4. Selected(r)'
      BY <1>0, <2>1, <2>3 DEF Selected, Settled
    <2> QED
      BY <1>1, <2>1, <2>2, <2>4
  <1>3. CASE ReadAnchor(r)
    <2>1. PICK anchor \in LatestSentBefore(x.slip[1]) :
             MovesTo(r, [x EXCEPT !.step = "consumed", !.anchor = anchor])
      BY <1>3 DEF ReadAnchor
    <2>2. anchor \in Anchor
      BY <1>0, AnchorType, SlipOrder
    <2>3. anchor = NoAnchor \/ \E o \in Slips : /\ slips[o].status # "absent"
                                                /\ o[1] = anchor.month /\ o[1] <= x.slip[1]
      <3>1. anchor = NoAnchor \/ \E o \in SentBefore(x.slip[1]) : anchor = [month |-> o[1], gen |-> slips[o].gen]
        BY DEF LatestSentBefore
      <3> QED
        BY <1>0, <3>1, SweptTypes DEF SentBefore
    <2> DEFINE q == [x EXCEPT !.step = "consumed", !.anchor = anchor]
    <2>4. q \in Request /\ q.step = "consumed" /\ q.seen = x.seen /\ q.slip = x.slip /\ q.anchor = anchor
      BY <1>0, <2>2 DEF Request
    <2>5. requests'[r] = q
      BY <1>0, <2>1, <2>4, MoveType
    <2>6. \A i \in x.seen : records[i].status = "settled"
      BY <1>0, <1>3 DEF Selected, ReadAnchor
    <2>7. Selected(r)'
      BY <1>0, <2>3, <2>4, <2>5, <2>6 DEF Selected
    <2> QED
      BY <1>1, <2>1, <2>4, <2>7
  <1>4. CASE ReadConsumed(r)
    <2> DEFINE month == x.slip[1]
               seen == {i \in x.seen \ Consumed(month) : Takes(i, month, x.clock, x.anchor)}
               q == [x EXCEPT !.step = "storing", !.seen = seen, !.anchor = NoAnchor]
    <2>1. q \in Request /\ q.step = "storing" /\ q.seen = seen /\ q.slip = x.slip /\ q.clock = x.clock
      BY <1>0, Built DEF Request
    <2>2. MovesTo(r, q)
      BY <1>4 DEF ReadConsumed
    <2>3. requests'[r] = q
      BY <1>0, <2>1, <2>2, MoveType
    <2>4. ASSUME NEW i \in seen \cap Reimbursements
          PROVE  Fits(i, month, x.clock) \/
                 (records[i].status = "settled" /\ records[i].at <= x.clock /\ Start(month) <= records[i].at)
      <3>1. i \in x.seen /\ i \in Items /\ i \notin Bonuses /\ records[i].status = "settled" /\ records[i].at \in Nat
        BY <1>0, <1>4, ItemsAssumption, SweptTypes DEF Selected, ReadConsumed
      <3>2. Floor(month, x.anchor) <= records[i].at /\ records[i].at <= x.clock
        BY <3>1 DEF Takes, TakesReimbursement
      <3>3. CASE x.anchor = NoAnchor
        BY <3>1, <3>2, <3>3 DEF Floor
      <3>4. CASE x.anchor # NoAnchor
        <4>1. PICK o \in Slips : slips[o].status # "absent" /\ o[1] = x.anchor.month /\ o[1] <= month
          BY <1>0, <1>4, <3>4 DEF Selected, ReadConsumed
        <4>2. Start(x.anchor.month) \in Nat /\ x.anchor.gen \in Nat
          BY <1>0, SweptTypes
        <4>3. Start(x.anchor.month) <= records[i].at
          BY <3>1, <3>2, <3>4, <4>2, TimeAssumption DEF Floor
        <4> QED
          BY <1>0, <3>1, <3>2, <4>1, <4>3 DEF Fits
      <3> QED
        BY <3>3, <3>4
    <2>5. Selected(r)'
      <3> HIDE DEF seen
      <3> QED
        BY <1>0, <2>1, <2>3, <2>4 DEF Selected, Fits
    <2> HIDE DEF q
    <2> QED
      BY <1>1, <2>1, <2>2, <2>5
  <1> QED
    BY <1>2, <1>3, <1>4
(* it begins, from a draft nobody edits; *)
LEMMA SweptBegins ==
  ASSUME "edit" \notin Mishaps, SweptInv, WindowInv', Kept,
         NEW r \in Requests, NEW d \in Slips, Generate(r, d) \/ Update(r, d)
  PROVE  SweptInv'
  <1>0. /\ Typed /\ slips[d] \in Slip /\ slips[d].items \subseteq Items /\ Listed(d) /\ now \in Nat
        /\ UNCHANGED <<now, records, slips>>
    BY SweptTypes DEF SweptInv, Typed, Generate, Update
  <1>1. CASE Update(r, d)
    <2> DEFINE q == RequestOf("editing", d, 0, slips[d].items)
    <2>1. q \in Request /\ q.step = "editing" /\ q.slip = d /\ q.seen = slips[d].items
      <3>1. q \in Request
        BY <1>0, RequestOfType
      <3> QED
        BY <3>1 DEF RequestOf
    <2>2. MovesTo(r, q) /\ slips[d].status = "draft" /\ \A p \in Requests : Busy(p) => requests[p].slip # d
      BY <1>1 DEF Update
    <2> HIDE DEF q
    <2>3. requests'[r] = q
      BY <1>0, <2>1, <2>2, MoveType
    <2>4. Selected(r)'
      BY <1>0, <2>1, <2>2, <2>3 DEF Selected, Listed, Fits
    <2>5. \A p \in Requests : requests[p].step = "editing" => requests[p].slip # d
      BY <2>2 DEF Busy
    <2> QED
      BY <1>0, <2>1, <2>2, <2>4, <2>5, SweptRead
  <1>2. ASSUME Generate(r, d), NEW q \in Request, MovesTo(r, q), q.slip = d, q.step # "editing", Selected(r)'
        PROVE  SweptInv'
    BY <1>0, <1>2, SweptRead DEF Generate
  <1>3. CASE Generate(r, d) /\ d[2] = 0
    <2> DEFINE q == RequestOf("records", d, now, {})
    <2>1. q \in Request /\ q.step = "records" /\ q.slip = d
      <3>1. q \in Request
        BY <1>0, RequestOfType
      <3> QED
        BY <3>1 DEF RequestOf
    <2>2. MovesTo(r, q)
      BY <1>3 DEF Generate, GeneratedAt
    <2> HIDE DEF q
    <2>3. requests'[r] = q
      BY <1>0, <2>1, <2>2, MoveType
    <2>4. Selected(r)'
      BY <2>1, <2>3 DEF Selected
    <2> QED
      BY <1>2, <1>3, <2>1, <2>2, <2>4
  <1>4. CASE Generate(r, d) /\ d[2] # 0
    <2> DEFINE c == Replaced(d)
               q == RequestOf("storing", d, slips[c].gen, slips[c].items)
    <2>1. c \in Slips /\ c[1] = d[1] /\ slips[c].gen \in Nat /\ slips[c].items \subseteq Items /\ Listed(c)
      <3>1. d[2] \in Nat /\ d[2] > 0
        BY <1>4, SlipOrder
      <3> QED
        BY <3>1, SlipOrder, SweptTypes DEF SweptInv
    <2>2. /\ q \in Request /\ q.step = "storing" /\ q.slip = d
          /\ q.seen = slips[c].items /\ q.clock = slips[c].gen
      <3>1. q \in Request
        BY <1>0, <2>1, RequestOfType
      <3> QED
        BY <3>1 DEF RequestOf
    <2>3. MovesTo(r, q)
      BY <1>4 DEF Generate, GeneratedAt
    <2> HIDE DEF q, c
    <2>4. requests'[r] = q
      BY <1>0, <2>2, <2>3, MoveType
    <2>5. Selected(r)'
      BY <1>0, <2>1, <2>2, <2>4 DEF Selected, Listed, Fits
    <2> QED
      BY <1>2, <1>4, <2>2, <2>3, <2>5
  <1> QED
    BY <1>1, <1>3, <1>4

(* and it stores what it carries. *)
LEMMA SweptStores ==
  ASSUME SweptInv, WindowInv', Kept, NEW r \in Requests, Create(r) \/ Rebuild(r) \/ StoreEdit(r)
  PROVE  SweptInv'
  <1> DEFINE q == requests[r]
  <1>a. PICK d \in Slips, clock \in Nat, seen \in SUBSET Items :
           d = q.slip /\ clock = q.clock /\ seen = q.seen
    BY SweptTypes
  <1>0. /\ Typed /\ q \in Request /\ Selected(r) /\ Listed(d) /\ slips[d] \in Slip /\ slips[d].gen \in Nat /\ d[1] \in Nat
        /\ MovesTo(r, NoRequest) /\ UNCHANGED records /\ Busy(r)
    BY <1>a, SweptTypes DEF SweptInv, Create, Rebuild, StoreEdit, Busy
  <1>1. /\ requests'[r] = NoRequest /\ NoRequest.step = "idle"
        /\ \A p \in Requests : p # r => requests'[p] = requests[p]
    BY <1>a, <1>0, MoveType, IdleRequest
  <1>2. EditsAlone'
    BY <1>1 DEF SweptInv, EditsAlone, Busy
  <1>3. /\ \A c \in Slips : c # d => slips'[c] = slips[c]
        /\ \/ slips' = slips
           \/ /\ slips'[d].status = "draft" /\ slips'[d].items = seen /\ slips'[d].gen = clock
              /\ q.step = "storing"
           \/ /\ slips'[d].status = "draft" /\ slips'[d].items = seen /\ slips'[d].gen = slips[d].gen
              /\ q.step = "editing"
    <2>1. LET row == SlipOf("draft", clock, seen) IN
          row.status = "draft" /\ row.items = seen /\ row.gen = clock
      BY <1>a, <1>0, Built
    <2>2. CASE Create(r) \/ Rebuild(r)
      BY <1>a, <1>0, <2>1, <2>2 DEF Create, Rebuild, Typed
    <2>3. CASE StoreEdit(r)
      BY <1>a, <1>0, <2>3 DEF StoreEdit, Typed, Slip
    <2> QED
      BY <2>2, <2>3
  <1>4. Listed(d)'
    <2>1. CASE slips' = slips
      BY <1>a, <2>1, <1>0, ListedStays
    <2>2. CASE slips'[d].items = seen /\ slips'[d].gen = clock /\ q.step = "storing" /\ slips'[d].status = "draft"
      <3>1. ASSUME NEW i \in seen \cap Reimbursements PROVE Fits(i, d[1], clock)'
        <4>1. i \in Items
          BY <1>a, <1>0
        <4>2. CASE Fits(i, d[1], clock)
          BY <4>1, <4>2, <1>a, <1>0 DEF Fits, Kept
        <4>3. CASE ~Fits(i, d[1], clock)
          <5>1. records[i].status = "settled" /\ records[i].at <= clock /\ Start(d[1]) <= records[i].at
            BY <1>a, <1>0, <2>2, <4>3 DEF Selected
          <5> QED
            BY <1>a, <1>0, <2>2, <5>1 DEF Fits
        <4> QED
          BY <4>2, <4>3
      <3> QED
        BY <2>2, <3>1 DEF Listed, Fits
    <2>3. CASE slips'[d].items = seen /\ slips'[d].gen = slips[d].gen /\ q.step = "editing"
      <3>1. \A i \in seen \cap Reimbursements : Fits(i, d[1], slips[d].gen)
        BY <1>a, <1>0, <2>3 DEF Selected
      <3> QED
        BY <1>a, <1>0, <2>3, <3>1 DEF Listed, Fits, Kept
    <2> QED
      BY <1>3, <2>1, <2>2, <2>3
  <1>5. \A c \in Slips : Listed(c)'
    BY <1>3, <1>4, ListedStays
  <1>6. ASSUME NEW p \in Requests PROVE Selected(p)'
    <2>1. CASE p = r
      BY <1>1, <2>1 DEF Selected
    <2>2. CASE p # r
      <3>1. requests[p].step = "editing" => requests[p].slip # d
        BY <1>a, <1>0, <2>2 DEF SweptInv, EditsAlone
      <3>2. requests[p].slip \in Slips
        BY SweptTypes
      <3> QED
        BY <1>1, <1>3, <2>2, <3>1, <3>2, SelectedStays
    <2> QED
      BY <2>1, <2>2
  <1> QED
    BY <1>2, <1>5, <1>6 DEF SweptInv

LEMMA SweptTable ==
  ASSUME SweptInv, WindowInv', Kept, UNCHANGED requests,
         \/ UNCHANGED slips
         \/ \E d \in Slips : Send(d) \/ VoidReissue(d)
  PROVE  SweptInv'
  <1>0. Typed /\ Chain /\ EditsAlone'
    BY SweptTypes DEF SweptInv, EditsAlone, Busy
  <1>1. ASSUME \A d \in Slips : Listed(d)',
               \A r \in Requests : requests[r].step = "editing" =>
                     slips'[requests[r].slip].gen = slips[requests[r].slip].gen
        PROVE  SweptInv'
    BY <1>0, <1>1, SelectedStays DEF SweptInv
  <1>2. ASSUME \A d \in Slips : slips'[d].items = slips[d].items /\ slips'[d].gen = slips[d].gen
        PROVE  SweptInv'
    BY <1>1, <1>2, ListedStays, SweptTypes
  <1>3. ASSUME NEW d \in Slips, Send(d) PROVE SweptInv'
    BY <1>0, <1>2, <1>3 DEF Send, Typed, Slip
  <1>4. ASSUME NEW d \in Slips, VoidReissue(d) PROVE SweptInv'
    <2> DEFINE n == Reissue(d)
    <2>1. /\ n \in Slips /\ n[1] = d[1] /\ d[2] < n[2] /\ slips[d].status = "sent" /\ d[2] \in Nat
          /\ slips[d] \in Slip /\ slips[d].gen \in Nat /\ slips[d].items \in SUBSET Items
      BY <1>4, SlipOrder, SweptTypes DEF VoidReissue
    <2>2. slips[n].status = "absent"
      BY <1>0, <2>1 DEF Chain
    <2>3. LET row == SlipOf("draft", slips[d].gen, slips[d].items) IN
          row.status = "draft" /\ row.items = slips[d].items /\ row.gen = slips[d].gen
      BY <2>1, Built
    <2>4. /\ \A c \in Slips : c # n => slips'[c].items = slips[c].items /\ slips'[c].gen = slips[c].gen
          /\ slips'[n].items = slips[d].items /\ slips'[n].gen = slips[d].gen
          /\ records' = records
      BY <1>0, <1>4, <2>1, <2>3 DEF VoidReissue, Typed, Slip
    <2>5. \A c \in Slips : c # n => Listed(c)'
      BY <2>4, ListedStays
    <2>6. Listed(n)'
      BY <2>1, <2>4 DEF SweptInv, Listed, Fits, Kept
    <2>7. \A r \in Requests : requests[r].step = "editing" => requests[r].slip \in Slips \ {n}
      BY <2>2, SweptTypes DEF SweptInv, Selected
    <2> QED
      BY <1>1, <2>4, <2>5, <2>6, <2>7
  <1> QED
    BY <1>2, <1>3, <1>4

LEMMA SweptAlways ==
  ASSUME "edit" \notin Mishaps
  PROVE  Spec => []SweptInv
  <1>1. WindowInv /\ Init => SweptInv
    <2> SUFFICES ASSUME WindowInv, Init PROVE SweptInv
      OBVIOUS
    <2>1. \A d \in Slips : slips[d].items = {}
      BY DEF Init, NoSlip, SlipOf
    <2>2. \A r \in Requests : requests[r].step = "idle"
      BY IdleRequest DEF Init
    <2> QED
      BY <2>1, <2>2 DEF SweptInv, EditsAlone, Listed, Selected
  <1>2. SweptInv /\ [Next]_vars /\ WindowInv' => SweptInv'
    <2> SUFFICES ASSUME SweptInv, [Next]_vars, WindowInv' PROVE SweptInv'
      OBVIOUS
    <2>1. Kept
      BY EveryStepKeeps
    <2>2. CASE UNCHANGED vars \/ Tick
      BY <2>1, <2>2, SweptTable DEF vars, Tick
    <2>3. ASSUME NEW i \in Items, Stamp(i) \/ Commit(i) PROVE SweptInv'
      BY <2>1, <2>3, SweptTable DEF Stamp, Commit
    <2>4. ASSUME NEW r \in Requests, Build(r) PROVE SweptInv'
      BY <2>1, <2>4, SweptReads, SweptStores DEF Build
    <2>5. ASSUME NEW r \in Requests, NEW d \in Slips, Generate(r, d) \/ Update(r, d) PROVE SweptInv'
      BY <2>1, <2>5, SweptBegins
    <2>6. ASSUME NEW d \in Slips, Send(d) \/ VoidReissue(d) PROVE SweptInv'
      BY <2>1, <2>6, SweptTable DEF Send, VoidReissue
    <2> QED
      BY <2>2, <2>3, <2>4, <2>5, <2>6 DEF Next
  <1>3. Spec => []WindowInv
    BY WindowCorrect
  <1> QED
    BY <1>1, <1>2, <1>3, PTL DEF Spec

(* No slip lists a reimbursement from before the first month with a slip, or *)
(* paid after the slip was generated, however slips are voided, reissued and *)
(* rebuilt; a slip that is edited and rebuilt at once can list one too late.  *)
THEOREM NothingIsSweptIn ==
  ASSUME "edit" \notin Mishaps
  PROVE  Spec => []NothingSweptIn
  <1>1. SweptInv => NothingSweptIn
    BY DEF SweptInv, Listed, Fits, NothingSweptIn
  <1> QED
    BY <1>1, SweptAlways, PTL

-----------------------------------------------------------------------------
(* Nothing is lost, in orderly circumstances (no mishap): what the slip of a *)
(* month leaves behind is on it, or on a slip that no rebuild empties.       *)

At(i) == records[i].at

(* The next slip, when that of month l, of clock g, is the last one sent,    *)
(* would not take i;                                                         *)
Behind(i, l, g) ==
    IF i \in Bonuses
    THEN BonusMonth[i] <= l /\ At(i) <= g /\ ~(BonusMonth[i] = l /\ At(i) > g - Grace)
    ELSE At(i) < Start(l) \/ At(i) < g - Grace

(* it would, because the grace reaches back to i.                            *)
Later(i, l, g) == At(i) > g - Grace /\ (i \in Bonuses /\ BonusMonth[i] < l => At(i) > g)

(* i counts from the first month on that has a slip or gets one.             *)
Since(i, m) == IF i \in Bonuses THEN m <= BonusMonth[i] ELSE Start(m) <= At(i)
Counted(i) == records[i].status = "settled" /\ \E m \in Months : Underway(m) /\ Since(i, m)

(* Rows whose items no request changes any more, and the rows that hold an   *)
(* item for month l: those, and the drafts up to l.                          *)
Final(o) == slips[o].status = "sent" \/ (slips[o].status = "draft" /\ o[2] > 0)
Holds(o, l) == Final(o) \/ (slips[o].status = "draft" /\ o[1] <= l)
Held(i, l) == \E o \in Slips : Holds(o, l) /\ i \in slips[o].items

(* A request that builds a first revision, and whether it is over a draft.   *)
Fresh(q) == q.step \notin {"idle", "editing"} /\ q.slip[2] = 0
OverDraft(q) == ~q.creates /\ slips[q.slip].status = "draft"

(* Clocks that were read, and what can be on a slip.                         *)
Dated(l, g) == g <= now /\ Start(l) + Grace <= g + 1
Listable(i, l, g) == /\ records[i].status = "settled"
                     /\ i \in Bonuses => BonusMonth[i] <= l
                     /\ i \in Reimbursements => At(i) <= g

(* A stamp that is not committed is within the grace of every clock.         *)
StampedLater(l, g) == \A i \in Items : records[i].status = "stamped" => Later(i, l, g)

ClocksInv ==
    /\ \A i \in Items : records[i].status # "open" => At(i) <= now
    /\ \A i \in Items : records[i].status = "stamped" => now < At(i) + Grace
    /\ \A d \in Slips : slips[d].status # "absent" => Dated(d[1], slips[d].gen)
    /\ \A r \in Requests : Fresh(requests[r]) => Dated(requests[r].slip[1], requests[r].clock)

RowInv(d) ==
    slips[d].status # "absent" =>
        /\ \A i \in slips[d].items : Listable(i, d[1], slips[d].gen)
        /\ StampedLater(d[1], slips[d].gen)
        /\ \E o \in Slips : o[1] = d[1] /\ Active(slips[o])

(* What a slip leaves behind is held. *)
CoverInv(d) ==
    Active(slips[d]) => \A i \in Items : Counted(i) /\ Behind(i, d[1], slips[d].gen) => Held(i, d[1])

(* What a request read, *)
ReadInv(q) ==
    /\ \A i \in q.seen : records[i].status = "settled"
    /\ \A i \in Items \ q.seen : records[i].status = "settled" => Later(i, q.slip[1], q.clock)
    /\ OverDraft(q) => slips[q.slip].items \subseteq q.seen

(* its anchor, *)
AnchorInv(q) ==
    IF q.anchor = NoAnchor THEN \A m \in Months : m < q.slip[1] => ~Underway(m)
    ELSE \E o \in Slips : Final(o) /\ o[1] < q.slip[1] /\ q.anchor = [month |-> o[1], gen |-> slips[o].gen]

(* and what it carries: all that its slip would leave behind, and all that   *)
(* was on the draft it replaces, unless another slip holds it.               *)
CarryInv(q) ==
    /\ \A i \in q.seen : Listable(i, q.slip[1], q.clock)
    /\ \A i \in Items : Counted(i) /\ Behind(i, q.slip[1], q.clock) => i \in q.seen \/ Held(i, q.slip[1] - 1)
    /\ OverDraft(q) => \A i \in slips[q.slip].items : Counted(i) => i \in q.seen \/ Held(i, q.slip[1] - 1)

RequestInv(q) ==
    /\ q.step = "editing" /\ slips[q.slip].status = "draft" => q.seen = slips[q.slip].items
    /\ Fresh(q) => StampedLater(q.slip[1], q.clock) /\ (OverDraft(q) => slips[q.slip].gen <= q.clock)
    /\ q.step \in {"anchor", "consumed"} => ReadInv(q)
    /\ q.step = "consumed" => AnchorInv(q)
    /\ Fresh(q) /\ q.step = "storing" => CarryInv(q)

RebuildsAlone == \A p, r \in Requests, d \in Slips : Rebuilding(p, d) /\ Rebuilding(r, d) => p = r

LossInv ==
    /\ SweptInv /\ RebuildsAlone /\ ClocksInv
    /\ \A d \in Slips : RowInv(d) /\ CoverInv(d)
    /\ \A r \in Requests : RequestInv(requests[r])

LEMMA StartGrows ==
  ASSUME NEW k \in Nat, NEW m \in Nat
  PROVE  Start(k) \in Nat /\ (k <= m => Start(k) <= Start(m))
  <1>1. PICK n \in Nat : n = MonthLength
    BY TimeAssumption
  <1>2. k * n \in Nat /\ m * n \in Nat
    OBVIOUS
  <1>3. ASSUME k <= m PROVE k * n <= m * n
    <2>1. PICK e \in Nat : m = k + e
      BY <1>3
    <2>2. m * n = k * n + e * n /\ e * n \in Nat
      BY <2>1
    <2> QED
      BY <1>2, <2>2
  <1> QED
    BY <1>1, <1>2, <1>3 DEF Start

LEMMA LossTypes ==
  ASSUME SweptInv
  PROVE  /\ now \in Nat /\ Grace \in Nat /\ Grace > 0
         /\ \A i \in Items : /\ records[i] \in Record /\ At(i) \in Nat
                             /\ i \in Bonuses => i \notin Reimbursements /\ BonusMonth[i] \in Nat
                             /\ i \notin Bonuses => i \in Reimbursements
         /\ \A d \in Slips : /\ d[1] \in Months /\ d[1] \in Nat /\ d[2] \in Nat /\ Start(d[1]) \in Nat
                             /\ slips[d] \in Slip /\ slips[d].gen \in Nat /\ slips[d].items \subseteq Items
         /\ \A r \in Requests : /\ requests[r] \in Request /\ requests[r].slip \in Slips
                                /\ requests[r].clock \in Nat /\ requests[r].seen \subseteq Items
                                /\ requests[r].anchor \in Anchor
         /\ \A m \in Months : m \in Nat /\ m > 0
  <1>1. \A i \in Items : /\ i \in Bonuses => i \notin Reimbursements /\ BonusMonth[i] \in Nat
                         /\ i \notin Bonuses => i \in Reimbursements
    BY ItemsAssumption, TimeAssumption DEF Items
  <1>2. \A i \in Items : records[i] \in Record /\ At(i) \in Nat
    BY SweptTypes DEF At
  <1>3. \A d \in Slips : /\ d[1] \in Months /\ d[1] \in Nat /\ d[2] \in Nat /\ Start(d[1]) \in Nat
                         /\ slips[d] \in Slip /\ slips[d].gen \in Nat /\ slips[d].items \subseteq Items
    BY SweptTypes, SlipOrder
  <1>4. now \in Nat
    BY SweptTypes DEF Typed
  <1>5. \A m \in Months : m \in Nat /\ m > 0
    BY TimeAssumption DEF Months
  <1> QED
    BY <1>1, <1>2, <1>3, <1>4, <1>5, SweptTypes, TimeAssumption

(* What the grace reaches is not behind. *)
LEMMA LaterIsNotBehind ==
  ASSUME SweptInv, NEW i \in Items, NEW l \in Nat, NEW g \in Nat, Later(i, l, g), Start(l) + Grace <= g + 1
  PROVE  ~Behind(i, l, g)
  <1>1. At(i) \in Nat /\ Grace \in Nat /\ (i \in Bonuses => BonusMonth[i] \in Nat) /\ Start(l) \in Nat
    BY LossTypes, StartGrows
  <1> QED
    BY <1>1 DEF Later, Behind

(* What is held for a month is held for the later ones. *)
LEMMA HeldLonger ==
  ASSUME NEW i, NEW k \in Int, NEW l \in Int, k <= l, Held(i, k)
  PROVE  Held(i, l)
  <1>1. PICK o \in Slips : Holds(o, k) /\ i \in slips[o].items
    BY DEF Held
  <1>2. o[1] \in Int
    BY SlipOrder, TimeAssumption DEF Months
  <1>3. Holds(o, l)
    BY <1>1, <1>2 DEF Holds
  <1> QED
    BY <1>1, <1>3 DEF Held

(* A month that has a slip, or whose slip is being built, is underway. *)
LEMMA UnderwayIs ==
  /\ \A d \in Slips : slips[d].status # "absent" /\ RowInv(d) => Underway(d[1])
  /\ \A r \in Requests : Busy(r) => Underway(requests[r].slip[1])
  BY DEF RowInv, Underway


(* What the steps of the slips and the requests keep for the others: months  *)
(* begin in order, what is held stays held, final rows keep their clock.     *)
Progress ==
    /\ UNCHANGED <<now, records>>
    /\ \A m \in Months : Underway(m)' => Underway(m) \/ \A k \in Months : Underway(k) => k < m
    /\ \A i \in Items, l \in Int : Counted(i) /\ Held(i, l) => Held(i, l)'
    /\ \A o \in Slips : Final(o) =>
          \E n \in Slips : Final(n)' /\ n[1] = o[1] /\ slips'[n].gen = slips[o].gen

LEMMA SameItems ==
  ASSUME NEW i \in Items, records'[i] = records[i], NEW l, NEW g
  PROVE  /\ Behind(i, l, g)' <=> Behind(i, l, g)
         /\ Later(i, l, g)' <=> Later(i, l, g)
         /\ Listable(i, l, g)' <=> Listable(i, l, g)
         /\ Since(i, l)' <=> Since(i, l)
  BY DEF Behind, Later, Listable, Since, At

(* Once a month is underway, only later ones begin: nothing counts anew. *)
LEMMA CountedBefore ==
  ASSUME SweptInv, Progress, NEW k \in Months, Underway(k), NEW i \in Items, Counted(i)'
  PROVE  Counted(i)
  <1>1. records' = records /\ records[i].status = "settled"
    BY DEF Progress, Counted
  <1>2. PICK m \in Months : Underway(m)' /\ Since(i, m)'
    BY DEF Counted
  <1>3. Since(i, m)
    BY <1>1, <1>2, SameItems
  <1>4. CASE Underway(m)
    BY <1>1, <1>3, <1>4 DEF Counted
  <1>5. CASE ~Underway(m)
    <2>1. k < m
      BY <1>2, <1>5 DEF Progress
    <2>2. k \in Nat /\ m \in Nat /\ At(i) \in Nat /\ (i \in Bonuses => BonusMonth[i] \in Nat)
      BY LossTypes
    <2>3. Start(k) \in Nat /\ Start(m) \in Nat /\ Start(k) <= Start(m)
      BY <2>1, <2>2, StartGrows
    <2>4. Since(i, k)
      BY <1>3, <2>1, <2>2, <2>3 DEF Since
    <2> QED
      BY <1>1, <2>4 DEF Counted
  <1> QED
    BY <1>4, <1>5

LEMMA RowStays ==
  ASSUME SweptInv, Progress, NEW c \in Slips, NEW d \in Slips, RowInv(c), slips[c].status # "absent",
         c[1] = d[1], slips'[d].items = slips[c].items, slips'[d].gen = slips[c].gen,
         \E o \in Slips : o[1] = d[1] /\ Active(slips'[o])
  PROVE  RowInv(d)'
  <1>0. PICK g \in Nat, l \in Nat, items \in SUBSET Items :
           g = slips[c].gen /\ l = d[1] /\ items = slips[c].items
    BY LossTypes
  <1>1. (\A i \in items : Listable(i, l, g)) /\ StampedLater(l, g)
    BY <1>0 DEF RowInv
  <1>2. records' = records
    BY DEF Progress
  <1>3. (\A i \in items : Listable(i, l, g)') /\ StampedLater(l, g)'
    <2>1. \A i \in items : i \in Items
      OBVIOUS
    <2>2. \A i \in items : Listable(i, l, g)'
      BY <1>1, <1>2, <2>1, SameItems
    <2>3. StampedLater(l, g)'
      BY <1>1, <1>2 DEF StampedLater, Later, At
    <2> QED
      BY <2>2, <2>3
  <1>4. (\A i \in slips'[d].items : Listable(i, d[1], slips[d].gen)') /\ StampedLater(d[1], slips[d].gen)'
    BY <1>0, <1>3
  <1> QED
    BY <1>4 DEF RowInv, Active

LEMMA CoverStays ==
  ASSUME SweptInv, Progress, NEW c \in Slips, NEW d \in Slips, RowInv(c), CoverInv(c), Active(slips[c]),
         c[1] = d[1], slips'[d].gen = slips[c].gen
  PROVE  CoverInv(d)'
  <1>0. PICK g \in Nat, l \in Months : g = slips[c].gen /\ l = d[1] /\ l \in Int
    BY LossTypes
  <1>1. Underway(l)
    BY <1>0 DEF Underway
  <1>2. ASSUME NEW i \in Items, Counted(i)', Behind(i, l, g)' PROVE Held(i, l)'
    <2>1. Counted(i)
      BY <1>1, <1>2, CountedBefore
    <2>2. Behind(i, l, g)
      BY <1>2, SameItems DEF Progress
    <2>3. Held(i, l)
      BY <1>0, <2>1, <2>2 DEF CoverInv
    <2> QED
      BY <1>0, <2>1, <2>3 DEF Progress
  <1>3. \A i \in Items : Counted(i)' /\ Behind(i, d[1], slips[d].gen)' => Held(i, d[1])'
    BY <1>0, <1>2
  <1> QED
    BY <1>3 DEF CoverInv


(* The slip of a request that builds or edits over it is as it was, or has   *)
(* been sent.                                                                *)
SlipStays(q) ==
    \/ q.creates /\ q.step # "editing"
    \/ slips'[q.slip].status # "draft"
    \/ slips'[q.slip] = slips[q.slip]

LEMMA RequestStays ==
  ASSUME SweptInv, Progress, NEW r \in Requests, NEW q \in Request, q = requests[r], RequestInv(q),
         q.step # "idle" => SlipStays(q)
  PROVE  RequestInv(q)'
  <1>0. PICK d \in Slips, l \in Months, g \in Nat, seen \in SUBSET Items :
           d = q.slip /\ l = d[1] /\ g = q.clock /\ seen = q.seen /\ l \in Int /\ l - 1 \in Int
    BY LossTypes
  <1>1. records' = records
    BY DEF Progress
  <1>2. q.step # "idle" => Underway(l)
    BY <1>0, UnderwayIs DEF Busy
  <1>3. /\ q.step = "editing" /\ slips'[d].status = "draft" => seen = slips'[d].items
        /\ q.step # "idle" /\ OverDraft(q)' => OverDraft(q) /\ slips'[d] = slips[d]
    BY <1>0 DEF SlipStays, OverDraft, RequestInv
  <1>4. Fresh(q) => StampedLater(l, g)' /\ (OverDraft(q)' => slips'[d].gen <= g)
    <2>1. StampedLater(l, g)' <=> StampedLater(l, g)
      BY <1>1 DEF StampedLater, Later, At
    <2> QED
      BY <1>0, <1>3, <2>1 DEF RequestInv, Fresh
  <1>5. ASSUME q.step \in {"anchor", "consumed"} PROVE ReadInv(q)'
    <2>1. ReadInv(q)
      BY <1>5 DEF RequestInv
    <2>2. \A i \in Items \ seen : records[i].status = "settled" => Later(i, l, g)'
      BY <1>0, <1>1, <2>1, SameItems DEF ReadInv
    <2> QED
      BY <1>0, <1>1, <1>3, <1>5, <2>1, <2>2 DEF ReadInv
  <1>6. ASSUME q.step = "consumed" PROVE AnchorInv(q)'
    <2>1. AnchorInv(q)
      BY <1>6 DEF RequestInv
    <2>2. CASE q.anchor = NoAnchor
      <3>1. ASSUME NEW m \in Months, m < l, Underway(m)' PROVE FALSE
        <4>1. ~Underway(m)
          BY <1>0, <2>1, <2>2, <3>1 DEF AnchorInv
        <4>2. l < m
          BY <1>2, <1>6, <3>1, <4>1 DEF Progress
        <4>3. l \in Nat /\ m \in Nat
          BY LossTypes
        <4> QED
          BY <3>1, <4>2, <4>3
      <3> QED
        BY <1>0, <2>2, <3>1 DEF AnchorInv
    <2>3. CASE q.anchor # NoAnchor
      <3>1. PICK o \in Slips : Final(o) /\ o[1] < l /\ q.anchor = [month |-> o[1], gen |-> slips[o].gen]
        BY <1>0, <2>1, <2>3 DEF AnchorInv
      <3>2. PICK n \in Slips : Final(n)' /\ n[1] = o[1] /\ slips'[n].gen = slips[o].gen
        BY <3>1 DEF Progress
      <3> QED
        BY <1>0, <2>3, <3>1, <3>2 DEF AnchorInv
    <2> QED
      BY <2>2, <2>3
  <1>7. ASSUME Fresh(q), q.step = "storing" PROVE CarryInv(q)'
    <2>1. CarryInv(q) /\ Underway(l)
      BY <1>2, <1>7 DEF RequestInv
    <2>2. ASSUME NEW i \in Items, Counted(i)' PROVE Counted(i) /\ (Held(i, l - 1) => Held(i, l - 1)')
      <3>1. Counted(i)
        BY <2>1, <2>2, CountedBefore
      <3> QED
        BY <1>0, <3>1 DEF Progress
    <2>3. \A i \in seen : Listable(i, l, g)'
      <3>1. \A i \in seen : i \in Items /\ Listable(i, l, g)
        BY <1>0, <2>1 DEF CarryInv
      <3> QED
        BY <1>1, <3>1, SameItems
    <2>4. ASSUME NEW i \in Items, Counted(i)', Behind(i, l, g)' PROVE i \in seen \/ Held(i, l - 1)'
      <3>1. Behind(i, l, g)
        BY <1>1, <2>4, SameItems
      <3> QED
        BY <1>0, <2>1, <2>2, <2>4, <3>1 DEF CarryInv
    <2>5. ASSUME OverDraft(q)', NEW i \in slips'[d].items, Counted(i)' PROVE i \in seen \/ Held(i, l - 1)'
      <3>1. OverDraft(q) /\ i \in slips[d].items
        BY <1>3, <1>7, <2>5
      <3>2. i \in Items
        BY <3>1, LossTypes
      <3> QED
        BY <1>0, <2>1, <2>2, <2>5, <3>1, <3>2 DEF CarryInv
    <2> QED
      BY <1>0, <2>3, <2>4, <2>5 DEF CarryInv
  <1> QED
    <2>1. Fresh(q)' <=> Fresh(q)
      BY DEF Fresh
    <2> QED
      BY <1>0, <1>3, <1>4, <1>5, <1>6, <1>7, <2>1 DEF RequestInv


(* So it is enough to look at the request that goes on: the rows stay; *)
LEMMA RequestMoves ==
  ASSUME LossInv, SweptInv', UNCHANGED <<now, records, slips>>,
         NEW r \in Requests, NEW q \in Request, MovesTo(r, q), q.step # "idle",
         RequestInv(requests[r])',
         Underway(q.slip[1]) \/ \A k \in Months : Underway(k) => k < q.slip[1],
         Fresh(q) => Dated(q.slip[1], q.clock),
         q.creates \/ q.step = "editing" \/ \A p \in Requests : Rebuilding(p, q.slip) => p = r
  PROVE  LossInv'
  <1>0. SweptInv /\ Typed
    BY SweptTypes DEF LossInv
  <1>1. requests'[r] = q /\ \A p \in Requests : p # r => requests'[p] = requests[p]
    BY <1>0, MoveType
  <1>2. Progress
    <2>1. \A m \in Months : Underway(m)' => Underway(m) \/ \A k \in Months : Underway(k) => k < m
      <3> SUFFICES ASSUME NEW m \in Months, Underway(m)', ~Underway(m), NEW k \in Months, Underway(k)
                   PROVE  k < m
        OBVIOUS
      <3>1. \E p \in Requests : Busy(p)' /\ requests'[p].slip[1] = m /\ ~(Busy(p) /\ requests[p].slip[1] = m)
        BY DEF Underway, Active
      <3>2. q.slip[1] = m
        BY <1>1, <3>1 DEF Busy
      <3> QED
        BY <3>2
    <2> QED
      BY <2>1 DEF Progress, Held, Holds, Final
  <1>3. ASSUME NEW d \in Slips PROVE RowInv(d)' /\ CoverInv(d)'
    <2>1. RowInv(d) /\ CoverInv(d)
      BY DEF LossInv
    <2>2. slips[d].status # "absent" => RowInv(d)'
      <3>1. slips[d].status # "absent" => \E o \in Slips : o[1] = d[1] /\ Active(slips'[o])
        BY <2>1 DEF RowInv
      <3> QED
        BY <1>0, <1>2, <2>1, <3>1, RowStays
    <2>3. Active(slips[d]) => CoverInv(d)'
      BY <1>0, <1>2, <2>1, CoverStays
    <2> QED
      BY <2>2, <2>3 DEF RowInv, CoverInv, Active
  <1>4. ASSUME NEW p \in Requests PROVE RequestInv(requests[p])'
    <2>1. CASE p # r
      <3>1. PICK x \in Request : x = requests[p]
        BY <1>0, LossTypes
      <3>2. RequestInv(x)
        BY <3>1 DEF LossInv
      <3>3. RequestInv(x)'
        BY <1>0, <1>2, <3>1, <3>2, RequestStays DEF SlipStays
      <3> QED
        BY <1>1, <2>1, <3>1, <3>3
    <2> QED
      BY <2>1
  <1>5. ClocksInv'
    <2>1. \A p \in Requests : Fresh(requests'[p]) => Dated(requests'[p].slip[1], requests'[p].clock)
      BY <1>1 DEF LossInv, ClocksInv
    <2> QED
      BY <2>1 DEF LossInv, ClocksInv, Dated, At, Fresh
  <1>6. RebuildsAlone'
    <2>1. \A p \in Requests, d \in Slips : p # r => (Rebuilding(p, d)' <=> Rebuilding(p, d))
      BY <1>1 DEF Rebuilding
    <2>2. \A d \in Slips : Rebuilding(r, d)' => ~q.creates /\ q.step # "editing" /\ d = q.slip
      BY <1>1 DEF Rebuilding
    <2> QED
      BY <2>1, <2>2 DEF LossInv, RebuildsAlone
  <1> QED
    BY <1>3, <1>4, <1>5, <1>6 DEF LossInv

(* and at the rows that change: the requests stay, or are done. *)
LEMMA RowsMove ==
  ASSUME LossInv, SweptInv', Progress,
         \A p \in Requests : \/ requests'[p].step = "idle"
                             \/ /\ requests'[p] = requests[p]
                                /\ requests[p].step # "idle" => SlipStays(requests[p]),
         \A d \in Slips : RowInv(d)' /\ CoverInv(d)',
         \A d \in Slips : slips'[d].status # "absent" => Dated(d[1], slips[d].gen)'
  PROVE  LossInv'
  <1>0. SweptInv
    BY DEF LossInv
  <1>1. ASSUME NEW p \in Requests PROVE RequestInv(requests[p])'
    <2>1. CASE requests'[p].step = "idle"
      BY <2>1 DEF RequestInv, Fresh
    <2>2. CASE requests'[p] = requests[p] /\ (requests[p].step # "idle" => SlipStays(requests[p]))
      <3>1. PICK x \in Request : x = requests[p]
        BY <1>0, LossTypes
      <3>2. RequestInv(x) /\ (x.step # "idle" => SlipStays(x))
        BY <2>2, <3>1 DEF LossInv
      <3>3. RequestInv(x)'
        BY <1>0, <3>1, <3>2, RequestStays
      <3> QED
        BY <2>2, <3>1, <3>3
    <2> QED
      BY <2>1, <2>2
  <1>2. ClocksInv'
    <2>1. now' = now /\ records' = records
      BY DEF Progress
    <2>2. \A p \in Requests : Fresh(requests'[p]) => Fresh(requests[p]) /\ requests'[p] = requests[p]
      BY DEF Fresh
    <2> QED
      BY <2>1, <2>2 DEF LossInv, ClocksInv, Dated, At, Fresh
  <1>3. RebuildsAlone'
    <2>1. \A p \in Requests, d \in Slips : Rebuilding(p, d)' => Rebuilding(p, d)
      BY DEF Rebuilding
    <2> QED
      BY <2>1 DEF LossInv, RebuildsAlone
  <1> QED
    BY <1>1, <1>2, <1>3 DEF LossInv


(* Time passes; *)
LEMMA TickLoses ==
  ASSUME LossInv, SweptInv', UNCHANGED <<records, slips, requests>>, now' = now \/ Tick
  PROVE  LossInv'
  <1>1. \A d \in Slips : RowInv(d)' /\ CoverInv(d)'
    BY DEF LossInv, RowInv, CoverInv, Listable, StampedLater, Later, Active, Counted, Underway, Busy, Since,
           Behind, Held, Holds, Final, At
  <1>2. \A r \in Requests : RequestInv(requests[r])'
    <2>1. ASSUME NEW r \in Requests PROVE RequestInv(requests[r])'
      <3>1. RequestInv(requests[r])
        BY DEF LossInv
      <3>2. ReadInv(requests[r])' <=> ReadInv(requests[r])
        BY DEF ReadInv, Later, At, OverDraft
      <3>3. AnchorInv(requests[r])' <=> AnchorInv(requests[r])
        BY DEF AnchorInv, Final, Underway, Busy, Active
      <3>4. CarryInv(requests[r])' <=> CarryInv(requests[r])
        BY DEF CarryInv, Listable, Counted, Underway, Busy, Active, Since, Behind, Held, Holds, Final, At, OverDraft
      <3> QED
        BY <3>1, <3>2, <3>3, <3>4 DEF RequestInv, StampedLater, Later, At, OverDraft, Fresh
    <2> QED
      BY <2>1
  <1>3. RebuildsAlone'
    BY DEF LossInv, RebuildsAlone, Rebuilding
  <1>4. ClocksInv'
    <2>1. ClocksInv /\ now \in Nat /\ now <= now' /\ now' \in Nat
      BY LossTypes DEF LossInv, Tick
    <2>2. \A i \in Items : records'[i].status = "stamped" => now' < records'[i].at + Grace
      BY <2>1 DEF ClocksInv, Tick, At
    <2>3. \A i \in Items : records[i].at \in Nat
      BY LossTypes DEF LossInv, At
    <2>4. \A i \in Items : records'[i].status # "open" => records'[i].at <= now'
      BY <2>1, <2>3 DEF ClocksInv, At
    <2>5. ASSUME NEW l, NEW g \in Nat, Dated(l, g) PROVE Dated(l, g)'
      BY <2>1, <2>5 DEF Dated
    <2>6. ASSUME NEW d \in Slips, slips'[d].status # "absent" PROVE Dated(d[1], slips[d].gen)'
      <3>1. PICK g \in Nat : g = slips[d].gen
        BY LossTypes DEF LossInv
      <3> QED
        BY <2>1, <2>5, <2>6, <3>1 DEF ClocksInv
    <2>7. ASSUME NEW r \in Requests, Fresh(requests'[r])
          PROVE  Dated(requests[r].slip[1], requests[r].clock)'
      <3>1. PICK g \in Nat : g = requests[r].clock
        BY LossTypes DEF LossInv
      <3> QED
        BY <2>1, <2>5, <2>7, <3>1 DEF ClocksInv
    <2> QED
      BY <2>2, <2>4, <2>6, <2>7 DEF ClocksInv, At, Fresh
  <1> QED
    BY <1>1, <1>2, <1>3, <1>4 DEF LossInv

LEMMA LaterIsNotBehindThen ==
  ASSUME NEW i \in Items, NEW l \in Nat, NEW g \in Nat, Later(i, l, g)', Start(l) + Grace <= g + 1,
         records'[i].at \in Nat
  PROVE  ~Behind(i, l, g)'
  <1>1. Grace \in Nat /\ (i \in Bonuses => BonusMonth[i] \in Nat) /\ Start(l) \in Nat
    BY ItemsAssumption, TimeAssumption, StartGrows
  <1> QED
    BY <1>1 DEF Later, Behind, At


(* and an item j is stamped or committed, within the grace of every clock.   *)
LEMMA RecordMoves ==
  ASSUME LossInv, SweptInv', UNCHANGED <<now, slips, requests>>, NEW j \in Items,
         \A i \in Items : i # j => records'[i] = records[i],
         records[j].status # "settled", records'[j].status # "open",
         records'[j].at <= now, records'[j].status = "stamped" => now < records'[j].at + Grace,
         \A d \in Slips : slips[d].status # "absent" => Later(j, d[1], slips[d].gen)',
         \A r \in Requests : Fresh(requests[r]) => Later(j, requests[r].slip[1], requests[r].clock)'
  PROVE  LossInv'
  <1>0. SweptInv /\ ClocksInv /\ records'[j].at \in Nat
    <2>1. records' \in [Items -> Record]
      BY DEF SweptInv, WindowInv, TypeOK
    <2> QED
      BY <2>1 DEF LossInv, Record
  <1>1. ASSUME NEW i \in Items, i # j
        PROVE  /\ records'[i] = records[i] /\ (Counted(i)' <=> Counted(i))
               /\ \A l \in Int : Held(i, l)' <=> Held(i, l)
    BY <1>1 DEF Counted, Since, At, Underway, Busy, Active, Held, Holds, Final
  <1>2. ASSUME NEW l \in Nat, NEW g \in Nat, StampedLater(l, g), Later(j, l, g)' PROVE StampedLater(l, g)'
    <2>1. \A i \in Items : i # j => (Later(i, l, g)' <=> Later(i, l, g))
      BY SameItems
    <2> QED
      BY <1>2, <2>1 DEF StampedLater
  <1>3. ASSUME NEW d \in Slips PROVE RowInv(d)' /\ CoverInv(d)'
    <2>1. PICK l \in Nat, g \in Nat, items \in SUBSET Items : l = d[1] /\ g = slips[d].gen /\ items = slips[d].items
      BY <1>0, LossTypes
    <2>2. RowInv(d) /\ CoverInv(d)
      BY DEF LossInv
    <2>3. ASSUME slips[d].status # "absent" PROVE RowInv(d)'
      <3>1. \A i \in items : i # j /\ i \in Items /\ Listable(i, l, g)
        BY <2>1, <2>2, <2>3 DEF RowInv, Listable
      <3>2. \A i \in items : Listable(i, l, g)'
        BY <3>1, <1>1, SameItems
      <3>3. StampedLater(l, g)'
        BY <1>2, <2>1, <2>2, <2>3 DEF RowInv
      <3>4. \E o \in Slips : o[1] = d[1] /\ Active(slips'[o])
        BY <2>2, <2>3 DEF RowInv
      <3> QED
        BY <2>1, <3>2, <3>3, <3>4 DEF RowInv, Active
    <2>4. ASSUME Active(slips[d]), NEW i \in Items, Counted(i)', Behind(i, l, g)' PROVE Held(i, l)'
      <3>1. Dated(l, g) /\ Later(j, l, g)'
        BY <1>0, <2>1, <2>4 DEF ClocksInv, Active
      <3>2. i # j
        BY <1>0, <2>4, <3>1, LaterIsNotBehindThen DEF Dated
      <3>3. Counted(i) /\ Behind(i, l, g)
        BY <1>1, <2>4, <3>2, SameItems
      <3> QED
        BY <1>1, <2>1, <2>2, <2>4, <3>2, <3>3 DEF CoverInv
    <2>5. Active(slips[d]) => \A i \in Items : Counted(i)' /\ Behind(i, d[1], slips[d].gen)' => Held(i, d[1])'
      BY <2>1, <2>4
    <2> QED
      BY <2>3, <2>5 DEF RowInv, CoverInv, Active
  <1>4. ASSUME NEW r \in Requests PROVE RequestInv(requests[r])'
    <2>1. PICK q \in Request, d \in Slips, l \in Nat, g \in Nat, seen \in SUBSET Items :
             q = requests[r] /\ d = q.slip /\ l = d[1] /\ g = q.clock /\ seen = q.seen
      BY <1>0, LossTypes
    <2>2. RequestInv(q) /\ (Fresh(q) => Dated(l, g) /\ Later(j, l, g)')
      BY <1>0, <2>1 DEF LossInv, ClocksInv
    <2>3. ASSUME q.step \in {"anchor", "consumed"} PROVE ReadInv(q)'
      <3>1. ReadInv(q) /\ Fresh(q)
        <4>1. q.slip[2] = 0
          BY <2>1, <2>3 DEF LossInv, SweptInv, WindowInv, RequestsInv, Prepared
        <4> QED
          BY <2>2, <2>3, <4>1 DEF RequestInv, Fresh
      <3>2. \A i \in seen : i \in Items /\ i # j /\ records[i].status = "settled"
        BY <2>1, <3>1 DEF ReadInv
      <3>3. ASSUME NEW i \in Items \ seen, records'[i].status = "settled" PROVE Later(i, l, g)'
        BY <2>1, <2>2, <3>1, <3>3, SameItems DEF ReadInv
      <3> QED
        BY <2>1, <3>1, <3>2, <3>3, <1>1 DEF ReadInv, OverDraft
    <2>4. q.step = "consumed" => AnchorInv(q)'
      BY <2>2 DEF RequestInv, AnchorInv, Final, Underway, Busy, Active
    <2>5. ASSUME Fresh(q), q.step = "storing" PROVE CarryInv(q)'
      <3>1. CarryInv(q)
        BY <2>2, <2>5 DEF RequestInv
      <3>2. \A i \in seen : Listable(i, l, g)'
        <4>1. \A i \in seen : i \in Items /\ i # j /\ Listable(i, l, g)
          BY <2>1, <3>1 DEF CarryInv, Listable
        <4> QED
          BY <4>1, <1>1, SameItems
      <3>3. ASSUME NEW i \in Items, Counted(i)', Behind(i, l, g)' PROVE i \in seen \/ Held(i, l - 1)'
        <4>1. i # j
          BY <1>0, <2>2, <2>5, <3>3, LaterIsNotBehindThen DEF Dated
        <4>2. Counted(i) /\ Behind(i, l, g) /\ (Held(i, l - 1) => Held(i, l - 1)')
          BY <1>1, <3>3, <4>1, SameItems
        <4> QED
          BY <2>1, <3>1, <4>2 DEF CarryInv
      <3>4. ASSUME OverDraft(q), NEW i \in slips[d].items, Counted(i)' PROVE i \in seen \/ Held(i, l - 1)'
        <4>1. i \in Items /\ RowInv(d) /\ slips[d].status = "draft"
          BY <1>0, <2>1, <3>4, LossTypes DEF LossInv, OverDraft
        <4>2. i # j
          BY <4>1, <3>4 DEF RowInv, Listable
        <4>3. Counted(i) /\ (Held(i, l - 1) => Held(i, l - 1)')
          BY <1>1, <3>4, <4>1, <4>2
        <4> QED
          BY <2>1, <3>1, <3>4, <4>3 DEF CarryInv
      <3> QED
        BY <2>1, <3>2, <3>3, <3>4 DEF CarryInv, OverDraft
    <2>6. Fresh(q) => StampedLater(l, g)' /\ (OverDraft(q)' => slips'[d].gen <= g)
      BY <1>2, <2>1, <2>2 DEF RequestInv, OverDraft
    <2>7. RequestInv(q)'
      BY <2>1, <2>2, <2>3, <2>4, <2>5, <2>6 DEF RequestInv, Fresh
    <2> QED
      BY <2>1, <2>7
  <1>5. RebuildsAlone'
    BY DEF LossInv, RebuildsAlone, Rebuilding
  <1>6. ClocksInv'
    <2>1. \A i \in Items : records'[i].status # "open" => records'[i].at <= now
      BY <1>0 DEF ClocksInv, At
    <2>2. \A i \in Items : records'[i].status = "stamped" => now < records'[i].at + Grace
      BY <1>0 DEF ClocksInv, At
    <2> QED
      BY <1>0, <2>1, <2>2 DEF ClocksInv, At, Fresh, Dated
  <1> QED
    BY <1>3, <1>4, <1>5, <1>6 DEF LossInv

LEMMA CommitLoses ==
  ASSUME LossInv, SweptInv', NEW j \in Items, Commit(j)
  PROVE  LossInv'
  <1>1. /\ SweptInv /\ ClocksInv /\ records[j].status = "stamped" /\ UNCHANGED <<now, slips, requests>>
        /\ records \in [Items -> Record] /\ records' = [records EXCEPT ![j].status = "settled"]
    BY DEF LossInv, SweptInv, WindowInv, TypeOK, Commit
  <1>2. /\ \A i \in Items : i # j => records'[i] = records[i]
        /\ records'[j].status = "settled" /\ records'[j].at = records[j].at
    BY <1>1 DEF Record
  <1>3. ASSUME NEW l, NEW g, StampedLater(l, g) PROVE Later(j, l, g)'
    BY <1>1, <1>2, <1>3 DEF StampedLater, Later, At
  <1>4. ASSUME NEW d \in Slips, slips[d].status # "absent" PROVE Later(j, d[1], slips[d].gen)'
    <2>1. PICK g \in Nat : g = slips[d].gen
      BY <1>1, LossTypes
    <2>2. Later(j, d[1], g)'
      BY <1>3, <1>4, <2>1 DEF LossInv, RowInv
    <2> QED
      BY <1>1, <2>1, <2>2
  <1>5. ASSUME NEW r \in Requests, Fresh(requests[r])
        PROVE  Later(j, requests[r].slip[1], requests[r].clock)'
    <2>1. PICK l \in Nat, g \in Nat : l = requests[r].slip[1] /\ g = requests[r].clock
      BY <1>1, LossTypes
    <2>2. Later(j, l, g)'
      BY <1>3, <1>5, <2>1 DEF LossInv, RequestInv
    <2> QED
      BY <1>1, <2>1, <2>2
  <1>6. records'[j].at <= now
    BY <1>1, <1>2 DEF ClocksInv, At
  <1> QED
    BY <1>1, <1>2, <1>4, <1>5, <1>6, RecordMoves

LEMMA StampLoses ==
  ASSUME Mishaps = {}, LossInv, SweptInv', NEW j \in Items, Stamp(j)
  PROVE  LossInv'
  <1>1. /\ SweptInv /\ ClocksInv /\ records[j].status = "open" /\ UNCHANGED <<now, slips, requests>>
        /\ records \in [Items -> Record] /\ now \in Nat /\ Grace \in Nat /\ Grace > 0
        /\ records' = [records EXCEPT ![j] = [status |-> "stamped", at |-> now]]
        /\ j \in Bonuses => ~DatedNow(BonusMonth[j])
    BY LossTypes DEF LossInv, SweptInv, WindowInv, TypeOK, Stamp
  <1>2. /\ \A i \in Items : i # j => records'[i] = records[i]
        /\ records'[j].status = "stamped" /\ records'[j].at = now
    BY <1>1
  <1>3. ASSUME NEW l \in Nat, NEW g \in Nat, g <= now, j \in Bonuses /\ BonusMonth[j] < l => g # now
        PROVE  Later(j, l, g)'
    BY <1>1, <1>2, <1>3 DEF Later, At
  <1>4. ASSUME NEW d \in Slips, slips[d].status # "absent" PROVE Later(j, d[1], slips[d].gen)'
    <2>1. PICK g \in Nat, l \in Nat : g = slips[d].gen /\ l = d[1]
      BY <1>1, LossTypes
    <2>2. g <= now
      BY <1>1, <1>4, <2>1 DEF ClocksInv, Dated
    <2>3. j \in Bonuses /\ BonusMonth[j] < l => g # now
      BY <1>1, <1>4, <2>1 DEF DatedNow
    <2>4. Later(j, l, g)'
      BY <1>3, <2>2, <2>3
    <2> QED
      BY <1>1, <2>1, <2>4
  <1>5. ASSUME NEW r \in Requests, Fresh(requests[r])
        PROVE  Later(j, requests[r].slip[1], requests[r].clock)'
    <2>1. PICK l \in Nat, g \in Nat : l = requests[r].slip[1] /\ g = requests[r].clock
      BY <1>1, LossTypes
    <2>2. g <= now
      BY <1>1, <1>5, <2>1 DEF ClocksInv, Dated
    <2>3. j \in Bonuses /\ BonusMonth[j] < l => g # now
      BY <1>1, <1>5, <2>1 DEF DatedNow, Fresh, Busy
    <2>4. Later(j, l, g)'
      BY <1>3, <2>2, <2>3
    <2> QED
      BY <1>1, <2>1, <2>4
  <1> QED
    BY <1>1, <1>2, <1>4, <1>5, RecordMoves


(* A request begins: an edit of a draft, *)
LEMMA UpdateLoses ==
  ASSUME LossInv, SweptInv', NEW r \in Requests, NEW d \in Slips, Update(r, d)
  PROVE  LossInv'
  <1>1. SweptInv /\ Typed /\ slips[d].status = "draft" /\ UNCHANGED <<now, records, slips>>
    BY SweptTypes DEF LossInv, Update
  <1>2. PICK q \in Request : q = RequestOf("editing", d, 0, slips[d].items)
    <2>1. slips[d].items \in SUBSET Items
      BY <1>1, LossTypes
    <2> QED
      BY <1>1, <2>1, RequestOfType
  <1>3. q.step = "editing" /\ q.slip = d /\ q.seen = slips[d].items
    BY <1>2 DEF RequestOf
  <1>4. MovesTo(r, q)
    BY <1>2 DEF Update
  <1>5. requests'[r] = q
    BY <1>1, <1>4, MoveType
  <1>6. RequestInv(requests[r])'
    BY <1>1, <1>3, <1>5 DEF RequestInv, Fresh
  <1>7. Underway(d[1])
    BY <1>1 DEF Underway, Active
  <1>8. ~Fresh(q)
    BY <1>3 DEF Fresh
  <1> QED
    BY <1>1, <1>3, <1>4, <1>6, <1>7, <1>8, RequestMoves

(* a reissue, which keeps what it replaces, or a first revision: its clock   *)
(* is the present, and no older bonus is being approved.                     *)
LEMMA GenerateLoses ==
  ASSUME Mishaps = {}, LossInv, SweptInv', NEW r \in Requests, NEW d \in Slips, Generate(r, d)
  PROVE  LossInv'
  <1>1. /\ SweptInv /\ Typed /\ ClocksInv /\ UNCHANGED <<now, records, slips>>
        /\ now \in Nat /\ Grace \in Nat /\ d[1] \in Nat /\ d[2] \in Nat
        /\ now + 1 >= Start(d[1]) + Grace /\ ~\E q \in Requests : Rebuilding(q, d)
        /\ slips[d].status = "draft" \/ \A m \in Months : d[1] < m => ~Underway(m)
        /\ \A b \in Bonuses : records[b].status = "stamped" => d[1] <= BonusMonth[b]
    BY LossTypes, SweptTypes DEF LossInv, Generate
  <1>2. Underway(d[1]) \/ \A k \in Months : Underway(k) => k < d[1]
    <2>1. CASE slips[d].status = "draft"
      BY <2>1 DEF Underway, Active
    <2>2. CASE slips[d].status # "draft"
      <3> SUFFICES ASSUME ~Underway(d[1]), NEW k \in Months, Underway(k) PROVE k < d[1]
        OBVIOUS
      <3>1. ~(d[1] < k) /\ k # d[1] /\ k \in Nat
        BY <1>1, <2>2, LossTypes
      <3> QED
        BY <1>1, <3>1
    <2> QED
      BY <2>1, <2>2
  <1>3. CASE d[2] = 0
    <2>1. PICK q \in Request : q = RequestOf("records", d, now, {})
      BY <1>1, RequestOfType
    <2>2. q.step = "records" /\ q.slip = d /\ q.clock = now
      BY <2>1 DEF RequestOf
    <2>3. MovesTo(r, q)
      BY <1>3, <2>1 DEF Generate, GeneratedAt
    <2>4. requests'[r] = q
      BY <1>1, <2>3, MoveType
    <2>5. StampedLater(d[1], now)
      <3> SUFFICES ASSUME NEW i \in Items, records[i].status = "stamped" PROVE Later(i, d[1], now)
        BY DEF StampedLater
      <3>1. now < At(i) + Grace /\ At(i) \in Nat
        BY <1>1, LossTypes DEF ClocksInv
      <3>2. i \in Bonuses => d[1] <= BonusMonth[i] /\ BonusMonth[i] \in Nat
        BY <1>1, LossTypes
      <3> QED
        BY <1>1, <3>1, <3>2 DEF Later
    <2>6. StampedLater(d[1], now)'
      BY <1>1, <2>5 DEF StampedLater, Later, At
    <2>7. OverDraft(q)' => slips'[d].gen <= now
      BY <1>1, <2>2 DEF OverDraft, ClocksInv, Dated
    <2>8. RequestInv(requests[r])'
      BY <1>1, <2>2, <2>4, <2>6, <2>7 DEF RequestInv
    <2>9. Dated(d[1], now)
      BY <1>1, StartGrows DEF Dated
    <2> QED
      BY <1>1, <1>2, <2>2, <2>3, <2>8, <2>9, RequestMoves
  <1>4. CASE d[2] # 0
    <2>1. Replaced(d) \in Slips
      BY <1>1, <1>4, SlipOrder
    <2>2. PICK q \in Request : q = RequestOf("storing", d, slips[Replaced(d)].gen, slips[Replaced(d)].items)
      BY <1>1, <2>1, RequestOfType, LossTypes
    <2>3. q.step = "storing" /\ q.slip = d /\ ~Fresh(q)
      BY <1>4, <2>2 DEF RequestOf, Fresh
    <2>4. MovesTo(r, q)
      BY <1>4, <2>2 DEF Generate, GeneratedAt
    <2>5. requests'[r] = q
      BY <1>1, <2>4, MoveType
    <2>6. RequestInv(requests[r])'
      BY <2>3, <2>5 DEF RequestInv, Fresh
    <2> QED
      BY <1>1, <1>2, <2>3, <2>4, <2>6, RequestMoves
  <1> QED
    BY <1>3, <1>4

(* A request reads on. *)
LEMMA ReadMoves ==
  ASSUME LossInv, SweptInv', UNCHANGED <<now, records, slips>>, NEW r \in Requests,
         requests[r].step \in {"records", "anchor", "consumed"},
         NEW q \in Request, MovesTo(r, q), q.step \in {"anchor", "consumed", "storing"},
         q.slip = requests[r].slip, q.clock = requests[r].clock, q.creates = requests[r].creates,
         q.step \in {"anchor", "consumed"} => ReadInv(q)',
         q.step = "consumed" => AnchorInv(q)',
         q.step = "storing" => CarryInv(q)'
  PROVE  LossInv'
  <1>1. SweptInv /\ Typed /\ ClocksInv
    BY SweptTypes DEF LossInv
  <1>2. q.slip[2] = 0 /\ Fresh(q) /\ Fresh(requests[r]) /\ Busy(r)
    BY <1>1 DEF SweptInv, WindowInv, RequestsInv, Prepared, Fresh, Busy
  <1>3. PICK l \in Nat, g \in Nat : l = q.slip[1] /\ g = q.clock
    BY <1>1, LossTypes
  <1>4. StampedLater(l, g) /\ (OverDraft(q) => slips[q.slip].gen <= g)
    BY <1>2, <1>3 DEF LossInv, RequestInv, OverDraft
  <1>5. StampedLater(l, g)' /\ (OverDraft(q)' => slips'[q.slip].gen <= g)
    BY <1>4 DEF StampedLater, Later, At, OverDraft
  <1>6. requests'[r] = q
    BY <1>1, MoveType
  <1>7. RequestInv(q)'
    BY <1>2, <1>3, <1>5 DEF RequestInv, Fresh
  <1>8. Underway(q.slip[1])
    BY <1>2, UnderwayIs
  <1>9. q.creates \/ \A p \in Requests : Rebuilding(p, q.slip) => p = r
    <2>1. Rebuilding(r, q.slip) \/ q.creates
      BY DEF Rebuilding
    <2>2. q.slip \in Slips
      BY <1>1, LossTypes
    <2> QED
      BY <2>1, <2>2 DEF LossInv, RebuildsAlone
  <1>10. Dated(q.slip[1], q.clock)
    BY <1>1, <1>2 DEF ClocksInv
  <1> QED
    BY <1>6, <1>7, <1>8, <1>9, <1>10, RequestMoves


LEMMA ReadRecordsLoses ==
  ASSUME LossInv, SweptInv', NEW r \in Requests, ReadRecords(r)
  PROVE  LossInv'
  <1>1. SweptInv /\ UNCHANGED <<now, records, slips>> /\ requests[r].step = "records"
    BY DEF LossInv, ReadRecords
  <1>2. PICK x \in Request, q \in Request, d \in Slips :
           x = requests[r] /\ q = [x EXCEPT !.step = "anchor", !.seen = Settled] /\ d = x.slip
    <2>1. requests[r] \in Request /\ Settled \in SUBSET Items /\ requests[r].slip \in Slips
      BY <1>1, LossTypes DEF Settled
    <2>2. [requests[r] EXCEPT !.step = "anchor", !.seen = Settled] \in Request
      BY <2>1 DEF Request
    <2> QED
      BY <2>1, <2>2
  <1>3. /\ q.step = "anchor" /\ q.seen = Settled /\ q.slip = d /\ q.clock = x.clock /\ q.creates = x.creates
    BY <1>2 DEF Request
  <1>4. MovesTo(r, q)
    BY <1>2 DEF ReadRecords
  <1>5. ReadInv(q)'
    <2>1. OverDraft(q) => slips[d].items \subseteq Settled
      <3>1. RowInv(d) /\ slips[d].items \subseteq Items
        BY <1>1, <1>2, LossTypes DEF LossInv
      <3> QED
        BY <1>3, <3>1 DEF OverDraft, RowInv, Listable, Settled
    <2>2. \A i \in Items : i \in q.seen <=> records[i].status = "settled"
      BY <1>3 DEF Settled
    <2>3. \A i \in q.seen : records'[i].status = "settled"
      BY <1>1, <1>3 DEF Settled
    <2>4. \A i \in Items \ q.seen : records'[i].status # "settled"
      BY <1>1, <2>2
    <2>5. OverDraft(q)' => slips'[q.slip].items \subseteq q.seen
      BY <1>1, <1>3, <2>1 DEF OverDraft
    <2> QED
      BY <2>3, <2>4, <2>5 DEF ReadInv
  <1> QED
    BY <1>1, <1>2, <1>3, <1>4, <1>5, ReadMoves

LEMMA ReadAnchorLoses ==
  ASSUME Mishaps = {}, LossInv, SweptInv', NEW r \in Requests, ReadAnchor(r)
  PROVE  LossInv'
  <1>1. SweptInv /\ Typed /\ UNCHANGED <<now, records, slips>> /\ requests[r].step = "anchor"
    BY SweptTypes DEF LossInv, ReadAnchor
  <1>2. PICK x \in Request, l \in Months : x = requests[r] /\ l = x.slip[1]
    BY <1>1, LossTypes
  <1>3. PICK anchor \in Anchor : /\ anchor \in LatestSentBefore(l)
                                 /\ MovesTo(r, [x EXCEPT !.step = "consumed", !.anchor = anchor])
    BY <1>1, <1>2, AnchorType DEF ReadAnchor
  <1>4. PICK q \in Request : q = [x EXCEPT !.step = "consumed", !.anchor = anchor]
    BY <1>2, <1>3 DEF Request
  <1>5. /\ q.step = "consumed" /\ q.seen = x.seen /\ q.slip = x.slip /\ q.clock = x.clock
        /\ q.creates = x.creates /\ q.anchor = anchor
    BY <1>4 DEF Request
  <1>6. ReadInv(q)'
    <2>1. ReadInv(x)
      BY <1>1, <1>2 DEF LossInv, RequestInv
    <2> QED
      BY <1>1, <1>5, <2>1 DEF ReadInv, OverDraft, Later, At
  <1>7. AnchorInv(q)
    <2>1. CASE anchor = NoAnchor
      <3>1. ASSUME NEW o \in SentBefore(l) PROVE anchor # [month |-> o[1], gen |-> slips[o].gen]
        <4>1. o[1] # 0
          BY <1>1, LossTypes DEF SentBefore
        <4> QED
          BY <2>1, <4>1 DEF NoAnchor
      <3>2. SentBefore(l) = {}
        BY <1>3, <3>1 DEF LatestSentBefore
      <3>3. \A m \in Months : m < l => ~Underway(m)
        BY <1>2, <3>2 DEF ReadAnchor
      <3> QED
        BY <1>2, <1>5, <2>1, <3>3 DEF AnchorInv
    <2>2. CASE anchor # NoAnchor
      <3>1. PICK o \in SentBefore(l) : anchor = [month |-> o[1], gen |-> slips[o].gen]
        BY <1>3, <2>2 DEF LatestSentBefore
      <3> QED
        BY <1>2, <1>5, <2>2, <3>1 DEF AnchorInv, SentBefore, Final
    <2> QED
      BY <2>1, <2>2
  <1>8. AnchorInv(q)'
    <2>1. \A m \in Months : m < q.slip[1] => (Underway(m)' <=> Underway(m)) \/ m = q.slip[1]
      <3>1. \A p \in Requests : p # r => requests'[p] = requests[p]
        BY <1>1, <1>3, <1>4, MoveType
      <3>2. requests'[r] = q /\ Busy(r)
        BY <1>1, <1>3, <1>4, MoveType DEF Busy
      <3>3. \A p \in Requests : (Busy(p)' <=> Busy(p)) /\ requests'[p].slip = requests[p].slip
        BY <1>2, <1>5, <3>1, <3>2 DEF Busy
      <3> QED
        BY <1>1, <3>3 DEF Underway, Active
    <2>2. q.slip[1] \in Nat /\ \A m \in Months : m \in Nat
      BY <1>1, <1>2, <1>5, LossTypes
    <2> QED
      BY <1>1, <1>7, <2>1, <2>2 DEF AnchorInv, Final
  <1> QED
    BY <1>1, <1>2, <1>3, <1>4, <1>5, <1>6, <1>8, ReadMoves

(* What another slip has consumed is held; *)
LEMMA ConsumedIsHeld ==
  ASSUME NEW l \in Nat, NEW i \in Consumed(l)
  PROVE  Held(i, l - 1)
  <1>1. PICK o \in Slips : /\ i \in slips[o].items
                           /\ slips[o].status = "sent" \/ (slips[o].status = "draft" /\ o[1] < l)
    BY DEF Consumed
  <1>2. o[1] \in Int
    BY SlipOrder, TimeAssumption DEF Months
  <1> QED
    BY <1>1, <1>2 DEF Held, Holds, Final

(* so is what the anchor's slip left behind, and nothing that counts is from *)
(* before the first slip: what the selection leaves out is held, or later.   *)
LEMMA LeftOut ==
  ASSUME LossInv, NEW r \in Requests, requests[r].step = "consumed", NEW l \in Months, NEW g \in Nat,
         l = requests[r].slip[1], g = requests[r].clock,
         NEW i \in Items, Counted(i), ~Takes(i, l, g, requests[r].anchor)
  PROVE  \/ Held(i, l - 1)
         \/ i \in Reimbursements /\ At(i) > g
         \/ i \in Bonuses /\ BonusMonth[i] > l
  <1>1. /\ SweptInv /\ AnchorInv(requests[r]) /\ l \in Nat /\ At(i) \in Nat /\ Grace \in Nat
        /\ i \in Bonuses => i \notin Reimbursements /\ BonusMonth[i] \in Nat
        /\ i \notin Bonuses => i \in Reimbursements
    BY LossTypes DEF LossInv, RequestInv
  <1>2. PICK a \in Anchor : a = requests[r].anchor
    BY <1>1, LossTypes
  <1>3. i \in Reimbursements => At(i) < Floor(l, a) \/ At(i) > g
    <2>1. Floor(l, a) \in Int
      BY <1>1, <1>2, StartGrows, TimeAssumption DEF Floor, Anchor
    <2> QED
      BY <1>1, <1>2, <2>1 DEF Takes, TakesReimbursement, At
  <1>4. i \in Bonuses => ~TakesBonus(i, l, a)
    BY <1>2 DEF Takes
  <1>5. CASE a = NoAnchor
    <2>1. PICK m \in Months : Underway(m) /\ Since(i, m)
      BY DEF Counted
    <2>2. ~(m < l) /\ m \in Nat
      BY <1>1, <1>2, <1>5, <2>1, LossTypes DEF AnchorInv
    <2>3. Start(l) \in Nat /\ Start(m) \in Nat /\ Start(l) <= Start(m)
      BY <1>1, <2>2, StartGrows
    <2>4. CASE i \in Bonuses
      <3>1. m <= BonusMonth[i] /\ BonusMonth[i] # l
        BY <1>4, <2>1, <2>4 DEF Since, TakesBonus
      <3> QED
        BY <1>1, <2>2, <2>4, <3>1
    <2>5. CASE i \notin Bonuses
      <3>1. Start(m) <= At(i)
        BY <2>1, <2>5 DEF Since
      <3>2. Floor(l, a) = Start(l)
        BY <1>5 DEF Floor
      <3> QED
        BY <1>1, <1>3, <2>3, <2>5, <3>1, <3>2
    <2> QED
      BY <2>4, <2>5
  <1>6. CASE a # NoAnchor
    <2>1. PICK o \in Slips : Final(o) /\ o[1] < l /\ a = [month |-> o[1], gen |-> slips[o].gen]
      BY <1>1, <1>2, <1>6 DEF AnchorInv
    <2>2. PICK k \in Nat, h \in Nat : k = o[1] /\ h = slips[o].gen /\ k = a.month /\ h = a.gen
      BY <1>1, <2>1, LossTypes
    <2>3. Active(slips[o]) /\ CoverInv(o)
      BY <2>1 DEF Final, Active, LossInv
    <2>4. CASE Behind(i, k, h)
      <3>1. Held(i, k)
        BY <2>2, <2>3, <2>4 DEF CoverInv
      <3> QED
        BY <1>1, <2>1, <2>2, <3>1, HeldLonger
    <2>5. CASE ~Behind(i, k, h)
      <3>1. CASE i \in Bonuses
        <4>1. ~TakesBonus(i, l, a)
          BY <1>4, <3>1
        <4>2. BonusMonth[i] # l /\ (BonusMonth[i] < l => Behind(i, k, h))
          BY <1>1, <1>6, <2>2, <3>1, <4>1 DEF TakesBonus, Behind, At
        <4> QED
          BY <1>1, <2>5, <3>1, <4>2
      <3>2. CASE i \notin Bonuses
        <4>1. Start(k) \in Nat
          BY StartGrows
        <4>2. At(i) < Floor(l, a) => Behind(i, k, h)
          BY <1>1, <1>6, <2>2, <3>2, <4>1 DEF Floor, Behind
        <4> QED
          BY <1>1, <1>3, <2>5, <3>2, <4>2
      <3> QED
        BY <3>1, <3>2
    <2> QED
      BY <2>4, <2>5
  <1> QED
    BY <1>5, <1>6


LEMMA ReadConsumedLoses ==
  ASSUME LossInv, SweptInv', NEW r \in Requests, ReadConsumed(r)
  PROVE  LossInv'
  <1>1. SweptInv /\ Typed /\ UNCHANGED <<now, records, slips>> /\ requests[r].step = "consumed"
    BY SweptTypes DEF LossInv, ReadConsumed
  <1>2. PICK x \in Request, d \in Slips, l \in Months, g \in Nat :
           x = requests[r] /\ d = x.slip /\ l = d[1] /\ g = x.clock /\ l \in Nat
    BY <1>1, LossTypes
  <1>3. PICK seen \in SUBSET Items : seen = {i \in x.seen \ Consumed(l) : Takes(i, l, g, x.anchor)}
    BY <1>2 DEF Request
  <1>4. MovesTo(r, [x EXCEPT !.step = "storing", !.seen = seen, !.anchor = NoAnchor])
    BY <1>2, <1>3 DEF ReadConsumed
  <1>5. PICK q \in Request : q = [x EXCEPT !.step = "storing", !.seen = seen, !.anchor = NoAnchor]
    BY <1>2, Built DEF Request
  <1>6. q.step = "storing" /\ q.seen = seen /\ q.slip = d /\ q.clock = g /\ q.creates = x.creates
    BY <1>2, <1>5 DEF Request
  <1>7. ReadInv(x) /\ Dated(l, g) /\ (OverDraft(x) => slips[d].gen <= g)
    <2>1. Fresh(x)
      BY <1>1, <1>2 DEF SweptInv, WindowInv, RequestsInv, Prepared, Fresh
    <2> QED
      BY <1>1, <1>2, <2>1 DEF LossInv, RequestInv, ClocksInv
  <1>8. ASSUME NEW i \in Items, Counted(i), i \in x.seen, i \notin seen
        PROVE  \/ Held(i, l - 1)
               \/ i \in Reimbursements /\ At(i) > g
               \/ i \in Bonuses /\ BonusMonth[i] > l
    <2>1. CASE i \in Consumed(l)
      BY <1>2, <2>1, ConsumedIsHeld
    <2>2. CASE ~Takes(i, l, g, requests[r].anchor)
      BY <1>1, <1>2, <1>8, <2>2, LeftOut
    <2> QED
      BY <1>2, <1>3, <1>8, <2>1, <2>2
  <1>9. ASSUME NEW i \in seen PROVE Listable(i, l, g)
    <2>1. i \in Items /\ i \in x.seen /\ Takes(i, l, g, x.anchor)
      BY <1>3
    <2>2. /\ records[i].status = "settled"
          /\ i \in Bonuses => i \notin Reimbursements /\ BonusMonth[i] \in Nat
      BY <1>1, <1>7, <2>1, LossTypes DEF ReadInv
    <2> QED
      BY <1>2, <2>1, <2>2 DEF Takes, TakesReimbursement, TakesBonus, Listable, At
  <1>10. ASSUME NEW i \in Items, Counted(i), Behind(i, l, g) PROVE i \in seen \/ Held(i, l - 1)
    <2>1. /\ At(i) \in Nat /\ Grace \in Nat /\ Start(l) \in Nat /\ Start(l) + Grace <= g + 1 /\ Grace > 0
          /\ i \in Bonuses => i \notin Reimbursements
      BY <1>1, <1>2, <1>7, LossTypes, StartGrows DEF Dated
    <2>2. i \in x.seen
      <3>1. ~Later(i, l, g)
        BY <1>1, <1>2, <1>10, <2>1, LaterIsNotBehind
      <3> QED
        BY <1>2, <1>7, <1>10, <3>1 DEF ReadInv, Counted
    <2>3. CASE i \in Reimbursements /\ At(i) > g
      <3>1. i \notin Bonuses
        BY <2>1, <2>3
      <3> QED
        BY <1>2, <1>10, <2>1, <2>3, <3>1 DEF Behind
    <2>4. CASE i \in Bonuses /\ BonusMonth[i] > l
      <3>1. BonusMonth[i] \in Nat /\ BonusMonth[i] <= l
        BY <1>1, <1>10, <2>4, LossTypes DEF Behind
      <3> QED
        BY <1>2, <2>4, <3>1
    <2> QED
      BY <1>8, <1>10, <2>2, <2>3, <2>4
  <1>11. ASSUME OverDraft(x), NEW i \in slips[d].items, Counted(i) PROVE i \in seen \/ Held(i, l - 1)
    <2>1. i \in Items /\ i \in x.seen
      BY <1>1, <1>2, <1>7, <1>11, LossTypes DEF ReadInv
    <2>2. Listable(i, l, slips[d].gen) /\ slips[d].gen \in Nat /\ slips[d].gen <= g /\ At(i) \in Nat
      <3>1. slips[d].status # "absent" /\ RowInv(d)
        BY <1>2, <1>11 DEF OverDraft, LossInv
      <3> QED
        BY <1>1, <1>2, <1>7, <1>11, <2>1, <3>1, LossTypes DEF RowInv
    <2>3. ~(i \in Reimbursements /\ At(i) > g) /\ ~(i \in Bonuses /\ BonusMonth[i] > l)
      <3>1. i \in Bonuses => BonusMonth[i] \in Nat
        BY <1>1, <2>1, LossTypes
      <3> QED
        BY <1>2, <2>2, <3>1 DEF Listable
    <2> QED
      BY <1>8, <1>11, <2>1, <2>3
  <1>12. CarryInv(q)
    <2>1. OverDraft(q) => OverDraft(x)
      BY <1>2, <1>6 DEF OverDraft
    <2> QED
      BY <1>2, <1>6, <1>9, <1>10, <1>11, <2>1 DEF CarryInv
  <1>13. CarryInv(q)'
    <2>1. /\ requests'[r] = q /\ \A p \in Requests : p # r => requests'[p] = requests[p]
      BY <1>1, <1>4, <1>5, MoveType
    <2>2. \A p \in Requests : (Busy(p)' <=> Busy(p)) /\ requests'[p].slip = requests[p].slip
      BY <1>1, <1>2, <1>6, <2>1 DEF Busy
    <2>3. \A m \in Months : Underway(m)' <=> Underway(m)
      BY <1>1, <2>2 DEF Underway, Active
    <2>4. \A i \in Items : Counted(i)' <=> Counted(i)
      BY <1>1, <2>3 DEF Counted, Since, At
    <2>5. slips[d].items \subseteq Items
      BY <1>1, LossTypes
    <2> QED
      BY <1>1, <1>6, <1>12, <2>4, <2>5 DEF CarryInv, Listable, Behind, Held, Holds, Final, OverDraft, At
  <1> QED
    BY <1>1, <1>2, <1>4, <1>5, <1>6, <1>13, ReadMoves


(* A request is done without a change, *)
LEMMA DoneMoves ==
  ASSUME LossInv, SweptInv', UNCHANGED <<now, records, slips>>, NEW r \in Requests, MovesTo(r, NoRequest)
  PROVE  LossInv'
  <1>1. SweptInv /\ Typed /\ ClocksInv
    BY SweptTypes DEF LossInv
  <1>2. requests'[r].step = "idle" /\ \A p \in Requests : p # r => requests'[p] = requests[p]
    BY <1>1, MoveType, IdleRequest
  <1>3. Progress
    <2>1. \A m \in Months : Underway(m)' => Underway(m)
      BY <1>2 DEF Underway, Active, Busy
    <2> QED
      BY <2>1 DEF Progress, Held, Holds, Final
  <1>4. ASSUME NEW d \in Slips PROVE RowInv(d)' /\ CoverInv(d)'
    <2>1. RowInv(d) /\ CoverInv(d)
      BY DEF LossInv
    <2>2. slips[d].status # "absent" => RowInv(d)'
      <3>1. slips[d].status # "absent" => \E o \in Slips : o[1] = d[1] /\ Active(slips'[o])
        BY <2>1 DEF RowInv
      <3> QED
        BY <1>1, <1>3, <2>1, <3>1, RowStays
    <2>3. Active(slips[d]) => CoverInv(d)'
      BY <1>1, <1>3, <2>1, CoverStays
    <2> QED
      BY <2>2, <2>3 DEF RowInv, CoverInv, Active
  <1>5. \A d \in Slips : slips'[d].status # "absent" => Dated(d[1], slips[d].gen)'
    BY <1>1 DEF ClocksInv, Dated
  <1>6. \A p \in Requests : SlipStays(requests[p])
    BY DEF SlipStays
  <1> QED
    BY <1>2, <1>3, <1>4, <1>5, <1>6, RowsMove

(* or the draft d of a first revision is stored, with what request r carries. *)
LEMMA StoreMoves ==
  ASSUME LossInv, SweptInv', UNCHANGED <<now, records>>, NEW r \in Requests, MovesTo(r, NoRequest),
         NEW d \in Slips, NEW l \in Months, NEW g \in Nat, NEW seen \in SUBSET Items,
         d = requests[r].slip, l = d[1], g = requests[r].clock, seen = requests[r].seen,
         requests[r].step = "storing", d[2] = 0, slips[d].status \in {"absent", "draft"},
         slips[d].status = "draft" => ~requests[r].creates,
         slips' = [slips EXCEPT ![d] = SlipOf("draft", g, seen)],
         \A p \in Requests : p # r /\ requests[p].step # "idle" => SlipStays(requests[p])
  PROVE  LossInv'
  <1>1. SweptInv /\ Typed /\ ClocksInv /\ slips \in [Slips -> Slip] /\ l \in Nat /\ l \in Int /\ l - 1 \in Int
    BY SweptTypes, LossTypes DEF LossInv, Typed
  <1>2. requests'[r].step = "idle" /\ \A p \in Requests : p # r => requests'[p] = requests[p]
    BY <1>1, MoveType, IdleRequest
  <1>3. /\ slips'[d].status = "draft" /\ slips'[d].gen = g /\ slips'[d].items = seen
        /\ \A c \in Slips : c # d => slips'[c] = slips[c]
    BY <1>1, Built
  <1>4. Fresh(requests[r]) /\ Busy(r) /\ Underway(l)
    BY UnderwayIs DEF Fresh, Busy
  <1>5. CarryInv(requests[r]) /\ StampedLater(l, g) /\ Dated(l, g)
    BY <1>1, <1>4 DEF LossInv, RequestInv, ClocksInv
  <1>6. /\ \A i \in seen : Listable(i, l, g)
        /\ \A i \in Items : Counted(i) /\ Behind(i, l, g) => i \in seen \/ Held(i, l - 1)
        /\ \A i \in Items : Counted(i) /\ slips[d].status = "draft" /\ i \in slips[d].items
              => i \in seen \/ Held(i, l - 1)
    BY <1>5 DEF CarryInv, OverDraft
  <1>7. Progress
    <2>1. \A m \in Months : Underway(m)' => Underway(m)
      BY <1>2, <1>3, <1>4 DEF Underway, Active, Busy
    <2>2. \A o \in Slips : Final(o) => o # d /\ Final(o)' /\ slips'[o].gen = slips[o].gen
      BY <1>3 DEF Final
    <2>3. ASSUME NEW i \in Items, NEW m \in Int, Counted(i), Held(i, m) PROVE Held(i, m)'
      <3>1. PICK o \in Slips : Holds(o, m) /\ i \in slips[o].items
        BY <2>3 DEF Held
      <3>2. CASE o # d
        BY <1>3, <3>1, <3>2 DEF Held, Holds, Final
      <3>3. CASE o = d
        <4>1. slips[d].status = "draft" /\ l <= m
          BY <3>1, <3>3 DEF Holds, Final
        <4>2. CASE i \in seen
          BY <1>3, <4>1, <4>2 DEF Held, Holds
        <4>3. CASE Held(i, l - 1)
          <5>1. PICK c \in Slips : Holds(c, l - 1) /\ i \in slips[c].items
            BY <4>3 DEF Held
          <5>2. c # d
            BY <1>1, <5>1 DEF Holds, Final
          <5>3. c[1] \in Nat
            BY <1>1, LossTypes
          <5>4. Holds(c, m)
            BY <1>1, <4>1, <5>1, <5>3 DEF Holds
          <5> QED
            BY <1>3, <5>1, <5>2, <5>4 DEF Held, Holds, Final
        <4> QED
          BY <1>6, <2>3, <3>1, <3>3, <4>1, <4>2, <4>3
      <3> QED
        BY <3>2, <3>3
    <2> QED
      BY <2>1, <2>2, <2>3 DEF Progress
  <1>8. RowInv(d)'
    <2>1. \A i \in seen : Listable(i, l, g)'
      BY <1>6, SameItems
    <2>2. StampedLater(l, g)'
      BY <1>5 DEF StampedLater, Later, At
    <2> QED
      BY <1>3, <2>1, <2>2 DEF RowInv, Active
  <1>9. CoverInv(d)'
    <2>1. ASSUME NEW i \in Items, Counted(i)', Behind(i, l, g)' PROVE Held(i, l)'
      <3>1. Counted(i) /\ Behind(i, l, g)
        BY <1>1, <1>4, <1>7, <2>1, CountedBefore, SameItems
      <3>2. CASE i \in seen
        BY <1>1, <1>3, <3>2 DEF Held, Holds
      <3>3. CASE Held(i, l - 1)
        <4>1. Held(i, l)
          BY <1>1, <3>3, HeldLonger
        <4> QED
          BY <1>1, <1>7, <3>1, <4>1 DEF Progress
      <3> QED
        BY <1>6, <3>1, <3>2, <3>3
    <2> QED
      BY <1>3, <2>1 DEF CoverInv
  <1>10. ASSUME NEW c \in Slips, c # d PROVE RowInv(c)' /\ CoverInv(c)'
    <2>1. RowInv(c) /\ CoverInv(c) /\ slips'[c] = slips[c]
      BY <1>3, <1>10 DEF LossInv
    <2>2. slips[c].status # "absent" => RowInv(c)'
      <3>1. slips[c].status # "absent" => \E o \in Slips : o[1] = c[1] /\ Active(slips'[o])
        BY <1>3, <2>1 DEF RowInv, Active
      <3> QED
        BY <1>1, <1>7, <2>1, <3>1, RowStays
    <2>3. Active(slips[c]) => CoverInv(c)'
      BY <1>1, <1>7, <2>1, CoverStays
    <2> QED
      BY <2>1, <2>2, <2>3 DEF RowInv, CoverInv, Active
  <1>11. \A c \in Slips : slips'[c].status # "absent" => Dated(c[1], slips[c].gen)'
    BY <1>1, <1>3, <1>5 DEF ClocksInv, Dated
  <1> QED
    BY <1>2, <1>7, <1>8, <1>9, <1>10, <1>11, RowsMove


LEMMA CreateLoses ==
  ASSUME LossInv, SweptInv', NEW r \in Requests, Create(r)
  PROVE  LossInv'
  <1>1. /\ SweptInv /\ requests[r].step = "storing" /\ requests[r].creates /\ MovesTo(r, NoRequest)
        /\ UNCHANGED <<now, records>>
    BY DEF LossInv, Create
  <1>2. PICK d \in Slips, l \in Months, g \in Nat, seen \in SUBSET Items :
           d = requests[r].slip /\ l = d[1] /\ g = requests[r].clock /\ seen = requests[r].seen
    BY <1>1, LossTypes
  <1>3. d[2] = 0
    BY <1>1, <1>2 DEF SweptInv, WindowInv, RequestsInv, Prepared
  <1>4. CASE slips[d].status # "absent"
    <2>1. UNCHANGED slips
      BY <1>2, <1>4 DEF Create, NumberFree
    <2> QED
      BY <1>1, <2>1, DoneMoves
  <1>5. CASE slips[d].status = "absent"
    <2>1. slips' = [slips EXCEPT ![d] = SlipOf("draft", g, seen)]
      BY <1>2, <1>5 DEF Create, NumberFree
    <2>2. ASSUME NEW p \in Requests, requests[p].step # "idle" PROVE SlipStays(requests[p])
      <3>1. requests[p].slip \in Slips /\ slips \in [Slips -> Slip]
        BY <1>1, LossTypes, SweptTypes DEF Typed
      <3>2. CASE requests[p].slip = d
        <4>1. Prepared(requests[p]) /\ Selected(p)
          BY <1>1 DEF SweptInv, WindowInv, RequestsInv
        <4> QED
          BY <1>5, <2>2, <3>2, <4>1 DEF Prepared, Selected, SlipStays
      <3>3. CASE requests[p].slip # d
        BY <2>1, <3>1, <3>3 DEF SlipStays
      <3> QED
        BY <3>2, <3>3
    <2> QED
      BY <1>1, <1>2, <1>3, <1>5, <2>1, <2>2, StoreMoves
  <1> QED
    BY <1>4, <1>5

LEMMA RebuildLoses ==
  ASSUME LossInv, SweptInv', NEW r \in Requests, Rebuild(r)
  PROVE  LossInv'
  <1>1. /\ SweptInv /\ requests[r].step = "storing" /\ ~requests[r].creates /\ MovesTo(r, NoRequest)
        /\ UNCHANGED <<now, records>>
    BY DEF LossInv, Rebuild
  <1>2. PICK d \in Slips, l \in Months, g \in Nat, seen \in SUBSET Items :
           d = requests[r].slip /\ l = d[1] /\ g = requests[r].clock /\ seen = requests[r].seen
    BY <1>1, LossTypes
  <1>3. d[2] \in Nat /\ slips \in [Slips -> Slip]
    BY <1>1, LossTypes, SweptTypes DEF Typed
  <1>4. CASE slips[d].status # "draft"
    <2>1. UNCHANGED slips
      BY <1>2, <1>4 DEF Rebuild
    <2> QED
      BY <1>1, <2>1, DoneMoves
  <1>5. CASE slips[d].status = "draft" /\ d[2] > 0
    <2>1. /\ seen = slips[Replaced(d)].items /\ g = slips[Replaced(d)].gen
          /\ slips[d].items = slips[Replaced(d)].items /\ slips[d].gen = slips[Replaced(d)].gen
      BY <1>1, <1>2, <1>5 DEF SweptInv, WindowInv, RequestsInv, Prepared, ReissueKeepsWindow
    <2>2. slips[d] = SlipOf("draft", g, seen)
      BY <1>3, <1>5, <2>1 DEF Slip, SlipOf
    <2>3. UNCHANGED slips
      BY <1>2, <1>3, <1>5, <2>2 DEF Rebuild
    <2> QED
      BY <1>1, <2>3, DoneMoves
  <1>6. CASE slips[d].status = "draft" /\ d[2] = 0
    <2>1. slips' = [slips EXCEPT ![d] = SlipOf("draft", g, seen)]
      BY <1>2, <1>6 DEF Rebuild
    <2>2. ASSUME NEW p \in Requests, p # r, requests[p].step # "idle" PROVE SlipStays(requests[p])
      <3>1. requests[p].slip \in Slips
        BY <1>1, LossTypes
      <3>2. CASE requests[p].slip = d
        <4>1. Rebuilding(r, d) /\ Busy(r)
          BY <1>1, <1>2 DEF Rebuilding, Busy
        <4>2. ~Rebuilding(p, d)
          BY <2>2, <4>1 DEF LossInv, RebuildsAlone
        <4>3. requests[p].step # "editing"
          BY <1>1, <1>2, <2>2, <3>2, <4>1 DEF SweptInv, EditsAlone
        <4> QED
          BY <2>2, <3>2, <4>2, <4>3 DEF Rebuilding, SlipStays
      <3>3. CASE requests[p].slip # d
        BY <1>3, <2>1, <3>1, <3>3 DEF SlipStays
      <3> QED
        BY <3>2, <3>3
    <2> QED
      BY <1>1, <1>2, <1>6, <2>1, <2>2, StoreMoves
  <1> QED
    BY <1>3, <1>4, <1>5, <1>6

(* Nothing else has touched a draft that was being edited. *)
LEMMA StoreEditLoses ==
  ASSUME LossInv, SweptInv', NEW r \in Requests, StoreEdit(r)
  PROVE  LossInv'
  <1>1. /\ SweptInv /\ requests[r].step = "editing" /\ MovesTo(r, NoRequest) /\ UNCHANGED <<now, records>>
        /\ RequestInv(requests[r])
    BY DEF LossInv, StoreEdit
  <1>2. PICK d \in Slips : d = requests[r].slip
    BY <1>1, LossTypes
  <1>3. slips \in [Slips -> Slip]
    BY <1>1, SweptTypes DEF Typed
  <1>4. UNCHANGED slips
    <2>1. CASE slips[d].status = "draft"
      <3>1. requests[r].seen = slips[d].items
        BY <1>1, <1>2, <2>1 DEF RequestInv
      <3>2. slips' = [slips EXCEPT ![d].items = slips[d].items]
        BY <1>2, <2>1, <3>1 DEF StoreEdit
      <3> QED
        BY <1>3, <3>2 DEF Slip
    <2>2. CASE slips[d].status # "draft"
      BY <1>2, <2>2 DEF StoreEdit
    <2> QED
      BY <2>1, <2>2
  <1> QED
    BY <1>1, <1>4, DoneMoves

LEMMA SendLoses ==
  ASSUME LossInv, SweptInv', NEW d \in Slips, Send(d)
  PROVE  LossInv'
  <1>1. SweptInv /\ Typed /\ ClocksInv /\ slips \in [Slips -> Slip] /\ UNCHANGED <<now, records, requests>>
    BY SweptTypes DEF LossInv, Typed, Send
  <1>2. /\ slips[d].status = "draft" /\ slips'[d].status = "sent"
        /\ \A c \in Slips : /\ slips'[c].gen = slips[c].gen /\ slips'[c].items = slips[c].items
                            /\ c # d => slips'[c] = slips[c]
    BY <1>1 DEF Send, Slip
  <1>3. Progress
    <2>1. \A m \in Months : Underway(m)' => Underway(m)
      BY <1>1, <1>2 DEF Underway, Active, Busy
    <2>2. \A o \in Slips : Final(o) => Final(o)' /\ slips'[o].gen = slips[o].gen
      BY <1>2 DEF Final
    <2>3. \A i \in Items, m \in Int : Held(i, m) => Held(i, m)'
      <3>1. \A o \in Slips, m \in Int : Holds(o, m) => Holds(o, m)'
        BY <1>2 DEF Holds, Final
      <3> QED
        BY <1>2, <3>1 DEF Held
    <2> QED
      BY <1>1, <2>1, <2>2, <2>3 DEF Progress
  <1>4. ASSUME NEW c \in Slips PROVE RowInv(c)' /\ CoverInv(c)'
    <2>1. RowInv(c) /\ CoverInv(c) /\ (slips'[c].status = "absent" <=> slips[c].status = "absent")
          /\ (Active(slips'[c]) <=> Active(slips[c]))
      BY <1>2 DEF LossInv, Active
    <2>2. slips[c].status # "absent" => RowInv(c)'
      <3>1. slips[c].status # "absent" => \E o \in Slips : o[1] = c[1] /\ Active(slips'[o])
        BY <1>2, <2>1 DEF RowInv, Active
      <3> QED
        BY <1>1, <1>2, <1>3, <2>1, <3>1, RowStays
    <2>3. Active(slips[c]) => CoverInv(c)'
      BY <1>1, <1>2, <1>3, <2>1, CoverStays
    <2> QED
      BY <2>1, <2>2, <2>3 DEF RowInv, CoverInv
  <1>5. \A c \in Slips : slips'[c].status # "absent" => Dated(c[1], slips[c].gen)'
    BY <1>1, <1>2 DEF ClocksInv, Dated
  <1>6. ASSUME NEW p \in Requests PROVE SlipStays(requests[p])
    <2>1. requests[p].slip \in Slips
      BY <1>1, LossTypes
    <2> QED
      BY <1>2, <2>1 DEF SlipStays
  <1> QED
    BY <1>1, <1>3, <1>4, <1>5, <1>6, RowsMove


(* The reissue holds what the voided slip held. *)
LEMMA VoidLoses ==
  ASSUME LossInv, SweptInv', NEW d \in Slips, VoidReissue(d)
  PROVE  LossInv'
  <1>1. /\ SweptInv /\ Typed /\ ClocksInv /\ slips \in [Slips -> Slip] /\ UNCHANGED <<now, records, requests>>
        /\ slips[d].status = "sent" /\ d[2] < MaxRevision /\ Chain
        /\ slips[d].gen \in Nat /\ slips[d].items \in SUBSET Items
    BY SweptTypes DEF LossInv, Typed, VoidReissue
  <1>2. PICK n \in Slips : n = Reissue(d) /\ n[1] = d[1] /\ n[2] > 0 /\ d[2] < n[2] /\ n # d
    BY <1>1, SlipOrder
  <1>3. slips[n].status = "absent"
    BY <1>1, <1>2 DEF Chain
  <1>4. PICK row \in Slip : /\ row = SlipOf("draft", slips[d].gen, slips[d].items)
                            /\ row.status = "draft" /\ row.gen = slips[d].gen /\ row.items = slips[d].items
    BY <1>1, Built
  <1>5. slips' = [slips EXCEPT ![d] = [slips[d] EXCEPT !.status = "void"], ![n] = row]
    BY <1>1, <1>2, <1>4 DEF VoidReissue
  <1>6. /\ slips'[d].status = "void" /\ slips'[d].gen = slips[d].gen /\ slips'[d].items = slips[d].items
        /\ slips'[n].status = "draft" /\ slips'[n].gen = slips[d].gen /\ slips'[n].items = slips[d].items
        /\ \A c \in Slips : c # d /\ c # n => slips'[c] = slips[c]
    BY <1>1, <1>2, <1>4, <1>5 DEF Slip
  <1>7. Progress
    <2>1. \A m \in Months : Underway(m)' => Underway(m)
      BY <1>1, <1>2, <1>6 DEF Underway, Active, Busy
    <2>2. ASSUME NEW o \in Slips, Final(o)
          PROVE  \E c \in Slips : Final(c)' /\ c[1] = o[1] /\ slips'[c].gen = slips[o].gen
      <3>1. CASE o = d
        <4>1. Final(n)'
          BY <1>2, <1>6 DEF Final
        <4> QED
          BY <1>2, <1>6, <3>1, <4>1
      <3>2. CASE o # d
        <4>1. o # n
          BY <1>3, <2>2 DEF Final
        <4>2. slips'[o] = slips[o]
          BY <1>6, <3>2, <4>1
        <4> QED
          BY <2>2, <4>2 DEF Final
      <3> QED
        BY <3>1, <3>2
    <2>3. ASSUME NEW i \in Items, NEW m \in Int, Held(i, m) PROVE Held(i, m)'
      <3>1. PICK o \in Slips : Holds(o, m) /\ i \in slips[o].items
        BY <2>3 DEF Held
      <3>2. CASE o = d
        BY <1>2, <1>6, <3>1, <3>2 DEF Held, Holds, Final
      <3>3. CASE o # d
        <4>1. o # n
          BY <1>3, <3>1 DEF Holds, Final
        <4>2. slips'[o] = slips[o]
          BY <1>6, <3>3, <4>1
        <4> QED
          BY <3>1, <4>2 DEF Held, Holds, Final
      <3> QED
        BY <3>2, <3>3
    <2> QED
      BY <1>1, <2>1, <2>2, <2>3 DEF Progress
  <1>8. \A c \in Slips : RowInv(c) /\ CoverInv(c)
    BY DEF LossInv
  <1>9. RowInv(d)' /\ CoverInv(d)'
    <2>1. RowInv(d)'
      <3>1. \E o \in Slips : o[1] = d[1] /\ Active(slips'[o])
        BY <1>2, <1>6 DEF Active
      <3> QED
        BY <1>1, <1>6, <1>7, <1>8, <3>1, RowStays
    <2> QED
      BY <1>6, <2>1 DEF CoverInv, Active
  <1>10. RowInv(n)' /\ CoverInv(n)'
    <2>1. \E o \in Slips : o[1] = n[1] /\ Active(slips'[o])
      BY <1>6 DEF Active
    <2>2. RowInv(n)'
      BY <1>1, <1>2, <1>6, <1>7, <1>8, <2>1, RowStays
    <2>3. Active(slips[d])
      BY <1>1 DEF Active
    <2>4. CoverInv(n)'
      BY <1>1, <1>2, <1>6, <1>7, <1>8, <2>3, CoverStays
    <2> QED
      BY <2>2, <2>4
  <1>11. ASSUME NEW c \in Slips, c # d, c # n PROVE RowInv(c)' /\ CoverInv(c)'
    <2>1. slips'[c] = slips[c]
      BY <1>6, <1>11
    <2>2. slips[c].status # "absent" => RowInv(c)'
      <3>1. ASSUME slips[c].status # "absent" PROVE \E o \in Slips : o[1] = c[1] /\ Active(slips'[o])
        <4>1. PICK o \in Slips : o[1] = c[1] /\ Active(slips[o])
          BY <1>8, <3>1 DEF RowInv
        <4> QED
          BY <1>2, <1>6, <4>1 DEF Active
      <3> QED
        BY <1>1, <1>7, <1>8, <2>1, <3>1, RowStays
    <2>3. Active(slips[c]) => CoverInv(c)'
      BY <1>1, <1>7, <1>8, <2>1, CoverStays
    <2> QED
      BY <2>1, <2>2, <2>3 DEF RowInv, CoverInv, Active
  <1>12. \A c \in Slips : slips'[c].status # "absent" => Dated(c[1], slips[c].gen)'
    <2>1. \A c \in Slips : slips[c].status # "absent" => slips[c].gen <= now /\ Start(c[1]) + Grace <= slips[c].gen + 1
      BY <1>1 DEF ClocksInv, Dated
    <2>2. ASSUME NEW c \in Slips, slips'[c].status # "absent"
          PROVE  slips'[c].gen <= now /\ Start(c[1]) + Grace <= slips'[c].gen + 1
      BY <1>1, <1>2, <1>6, <2>1, <2>2
    <2> QED
      BY <1>1, <2>2 DEF Dated
  <1>13. ASSUME NEW p \in Requests, requests[p].step # "idle" PROVE SlipStays(requests[p])
    <2>1. requests[p].slip \in Slips /\ Prepared(requests[p]) /\ Selected(p)
      BY <1>1, LossTypes DEF SweptInv, WindowInv, RequestsInv
    <2>2. CASE requests[p].slip = n
      BY <1>3, <1>13, <2>1, <2>2 DEF Prepared, Selected, SlipStays
    <2>3. CASE requests[p].slip # n
      BY <1>6, <2>1, <2>3 DEF SlipStays
    <2> QED
      BY <2>2, <2>3
  <1>14. \A c \in Slips : RowInv(c)' /\ CoverInv(c)'
    BY <1>9, <1>10, <1>11
  <1> QED
    BY <1>1, <1>7, <1>12, <1>13, <1>14, RowsMove

(* Of some months, one is the last. *)
LEMMA LatestOf ==
  ASSUME NEW S, S \subseteq Months, S # {}
  PROVE  \E l \in S : \A k \in S : k <= l
  <1> DEFINE R == {p \in Nat \X Nat : p[1] < p[2]}
             T == {LastMonth - m : m \in S}
  <1>1. IsWellFoundedOn(R, Nat)
    BY NatLessThanWellFounded DEF OpToRel
  <1>2. \A x, y \in Nat : (<<y, x>> \in R) <=> y < x
    OBVIOUS
  <1> HIDE DEF R
  <1>3. LastMonth \in Nat /\ \A m \in S : m \in Nat /\ LastMonth - m \in Nat
    BY TimeAssumption DEF Months
  <1>4. T \subseteq Nat /\ T # {}
    BY <1>3
  <1>5. PICK x \in T : \A y \in T : ~ (<<y, x>> \in R)
    BY <1>1, <1>4, WFMin
  <1>6. PICK l \in S : x = LastMonth - l
    OBVIOUS
  <1>7. ASSUME NEW k \in S PROVE k <= l
    <2>1. PICK y \in T : y = LastMonth - k
      OBVIOUS
    <2>2. ~(y < x) /\ x \in Nat /\ y \in Nat
      BY <1>2, <1>4, <1>5
    <2>3. k \in Nat /\ l \in Nat
      BY <1>3
    <2> QED
      BY <1>3, <1>6, <2>1, <2>2, <2>3
  <1> QED
    BY <1>7

(* When no draft waits, what counts is on a sent slip, or the next slip's    *)
(* anchor lets it be taken.                                                  *)
LEMMA LossInvSuffices ==
  ASSUME LossInv
  PROVE  NothingLost
  <1> SUFFICES ASSUME \A d \in Slips : slips[d].status # "draft", NEW i \in Items, Due(i),
                      ~\E d \in Slips : slips[d].status = "sent" /\ i \in slips[d].items
               PROVE  \E next \in LatestSentBefore(LastMonth + 1) : Takes(i, LastMonth + 1, now, next)
    BY DEF NothingLost
  <1>1. /\ SweptInv /\ ClocksInv /\ At(i) \in Nat /\ At(i) <= now /\ Grace \in Nat /\ LastMonth \in Nat
        /\ i \in Bonuses => i \notin Reimbursements /\ BonusMonth[i] \in 0..LastMonth
        /\ i \notin Bonuses => i \in Reimbursements
    BY LossTypes, TimeAssumption, ItemsAssumption DEF LossInv, ClocksInv, Due
  <1>2. PICK o \in Slips : slips[o].status \in {"sent", "void"} /\ Since(i, o[1])
    BY DEF Due, Begun, Since, At
  <1>3. PICK c \in Slips : c[1] = o[1] /\ slips[c].status = "sent"
    BY <1>2 DEF LossInv, RowInv, Active
  <1>4. Counted(i)
    <2>1. Underway(o[1]) /\ o[1] \in Months
      BY <1>1, <1>3, LossTypes DEF Underway, Active
    <2> QED
      BY <1>2, <2>1 DEF Counted, Due
  <1>5. \A d \in Slips : d \in SentBefore(LastMonth + 1) <=> slips[d].status = "sent"
    BY <1>1, LossTypes DEF SentBefore, Months
  <1>6. PICK d \in Slips : slips[d].status = "sent" /\ \A e \in SentBefore(LastMonth + 1) : e[1] <= d[1]
    <2> DEFINE S == {e[1] : e \in SentBefore(LastMonth + 1)}
    <2>1. S \subseteq Months /\ S # {}
      BY <1>1, <1>3, <1>5, LossTypes DEF SentBefore
    <2>2. PICK l \in S : \A k \in S : k <= l
      BY <2>1, LatestOf
    <2>3. PICK e \in SentBefore(LastMonth + 1) : e[1] = l
      OBVIOUS
    <2> QED
      BY <2>2, <2>3 DEF SentBefore
  <1>7. PICK l \in Months, g \in Nat : l = d[1] /\ g = slips[d].gen /\ l \in Nat /\ l > 0 /\ l < LastMonth + 1
    BY <1>1, LossTypes DEF Months
  <1>8. PICK next \in Anchor : next = [month |-> l, gen |-> g]
    <2>1. l \in 0..LastMonth
      BY <1>1, <1>7
    <2> QED
      BY <1>7, <2>1 DEF Anchor
  <1>9. next \in LatestSentBefore(LastMonth + 1) /\ next.month = l /\ next.gen = g /\ next # NoAnchor
    BY <1>5, <1>6, <1>7, <1>8 DEF LatestSentBefore, NoAnchor
  <1>10. ~Behind(i, l, g)
    <2>1. Behind(i, l, g) => Held(i, l)
      BY <1>4, <1>6, <1>7 DEF LossInv, CoverInv, Active
    <2>2. ~Held(i, l)
      BY DEF Held, Holds, Final
    <2> QED
      BY <2>1, <2>2
  <1>11. Takes(i, LastMonth + 1, now, next)
    <2>1. Start(l) \in Nat
      BY <1>7, StartGrows
    <2>2. CASE i \in Bonuses
      <3>1. BonusMonth[i] \in Nat /\ BonusMonth[i] < LastMonth + 1
        BY <1>1, <2>2
      <3>2. BonusMonth[i] > l \/ At(i) > g \/ (BonusMonth[i] = l /\ At(i) > g - Grace)
        BY <1>1, <1>7, <1>10, <2>2, <3>1 DEF Behind
      <3> QED
        BY <1>9, <2>2, <3>1, <3>2 DEF Takes, TakesBonus, At
    <2>3. CASE i \notin Bonuses
      <3>1. ~(At(i) < Start(l)) /\ ~(At(i) < g - Grace)
        BY <1>10, <2>3 DEF Behind
      <3>2. Floor(LastMonth + 1, next) <= At(i)
        BY <1>1, <1>7, <1>9, <2>1, <3>1 DEF Floor
      <3> QED
        BY <1>1, <2>3, <3>2 DEF Takes, TakesReimbursement, At
    <2> QED
      BY <2>2, <2>3
  <1> QED
    BY <1>9, <1>11

(* The six circumstances are all there are: without them, when no draft      *)
(* waits to be sent, each payment since the first month with a slip, and     *)
(* each bonus of such a month, is on a sent slip, or the slip after the last *)
(* month would take it, for any number of months, items and requests.        *)
(* Nothing in the code keeps them from happening.                            *)
LEMMA LostByMishapOnly ==
  ASSUME Mishaps = {}
  PROVE  Spec => []NothingLost
  <1>1. SweptInv /\ Init => LossInv
    <2> SUFFICES ASSUME SweptInv, Init PROVE LossInv
      OBVIOUS
    <2>1. \A d \in Slips : slips[d].status = "absent"
      BY Built DEF Init
    <2>2. \A r \in Requests : requests[r].step = "idle"
      BY IdleRequest DEF Init
    <2>3. \A i \in Items : records[i].status = "open"
      BY DEF Init
    <2>4. ClocksInv
      BY <2>1, <2>2, <2>3 DEF ClocksInv, Fresh
    <2>5. \A d \in Slips : RowInv(d) /\ CoverInv(d)
      BY <2>1 DEF RowInv, CoverInv, Active
    <2>6. \A r \in Requests : RequestInv(requests[r])
      BY <2>2 DEF RequestInv, Fresh
    <2>7. RebuildsAlone
      BY <2>2 DEF RebuildsAlone, Rebuilding
    <2> QED
      BY <2>4, <2>5, <2>6, <2>7 DEF LossInv
  <1>2. LossInv /\ [Next]_vars /\ SweptInv' => LossInv'
    <2> SUFFICES ASSUME LossInv, [Next]_vars, SweptInv' PROVE LossInv'
      OBVIOUS
    <2>1. CASE UNCHANGED vars \/ Tick
      BY <2>1, TickLoses DEF vars, Tick
    <2>2. ASSUME NEW i \in Items, Stamp(i) \/ Commit(i) PROVE LossInv'
      BY <2>2, StampLoses, CommitLoses
    <2>3. ASSUME NEW r \in Requests, Build(r) PROVE LossInv'
      BY <2>3, ReadRecordsLoses, ReadAnchorLoses, ReadConsumedLoses, CreateLoses, RebuildLoses,
         StoreEditLoses DEF Build
    <2>4. ASSUME NEW r \in Requests, NEW d \in Slips, Generate(r, d) \/ Update(r, d) PROVE LossInv'
      BY <2>4, GenerateLoses, UpdateLoses
    <2>5. ASSUME NEW d \in Slips, Send(d) \/ VoidReissue(d) PROVE LossInv'
      BY <2>5, SendLoses, VoidLoses
    <2> QED
      BY <2>1, <2>2, <2>3, <2>4, <2>5 DEF Next
  <1>3. LossInv => NothingLost
    BY LossInvSuffices
  <1>4. Spec => []SweptInv
    BY SweptAlways
  <1> QED
    BY <1>1, <1>2, <1>3, <1>4, PTL DEF Spec

-----------------------------------------------------------------------------
(* Claims. *)

(* Who edits a claim has read it, and named an amount; a payment holds the rows   *)
(* of approved claims, each for itself.                                         *)
Changing(w, c) == /\ clerks[w].op \in {"edit", "delete"} /\ clerks[w].step = "read"
                  /\ c \in clerks[w].of

ClerkInv(w) ==
    /\ clerks[w].op = "edit" => clerks[w].amount \in Amounts
    /\ clerks[w].op = "pay" =>
         \A c \in clerks[w].of :
             /\ claims[c].status = "approved"
             /\ \A v \in Clerks \ {w} : clerks[v].op = "pay" => c \notin clerks[v].of
    /\ \A c \in Claims \ stale :
         Changing(w, c) => claims[c].status \in {"submitted", "deleted"}

BookInv(c) ==
    /\ claims[c].status # "none" => claims[c].amount \in Amounts
    /\ Len(books[c]) <= 1
    /\ claims[c].status \notin {"paid", "deleted"} => books[c] = <<>>
    /\ c \notin stale =>
         /\ claims[c].status = "deleted" => books[c] = <<>>
         /\ claims[c].status \in {"approved", "paid"} => granted[c] = claims[c].amount
         /\ claims[c].status = "paid" => books[c] = <<granted[c]>>

EntryShown(e) ==
    entries[e].status \in {"pending_review", "approved"} => entries[e].amount = entries[e].shown

BooksInv ==
    /\ ClaimTypeOK
    /\ \A c \in Claims : BookInv(c)
    /\ \A w \in Clerks : ClerkInv(w)
    /\ \A e \in Entries : EntryShown(e)

-------------------------------------------------------------------------------

InHand(w) == clerks[w].old \cup clerks[w].new

(* About to change the receipts of c. *)
Opening(w, c) == clerks[w].step \in {"saved", "read"} /\ c \in clerks[w].of

(* A claim lists files that are there, unless its changes crossed, and no other claim does. *)
FileInv(c) ==
    /\ claims[c].status = "none" => claims[c].receipts = {}
    /\ \A r \in claims[c].receipts : files[r] # "new"
    /\ c \notin crossed => \A r \in claims[c].receipts : files[r] = "saved"
    /\ \A d \in Claims \ {c} : claims[c].receipts \cap claims[d].receipts = {}

(* A request that touches receipts does so for one claim that exists; an edit keeps *)
(* some of those it read, and what it takes off the claim does not list any more.     *)
FilerInv(w) ==
    /\ clerks[w].op \in {"none", "pay"} => InHand(w) = {} /\ clerks[w].step = "idle"
    /\ clerks[w].op \in {"edit", "delete"} => clerks[w].new \subseteq clerks[w].old
    /\ clerks[w].op = "delete" => clerks[w].new = {}
    /\ clerks[w].op = "attach" => clerks[w].step \in {"saved", "read"}
    /\ clerks[w].op \in {"edit", "delete", "attach"} => clerks[w].of # {}
    /\ \A r \in InHand(w) : files[r] # "new"
    /\ \A c \in clerks[w].of :
         /\ claims[c].status # "none"
         /\ clerks[w].op # "pay" => clerks[w].of = {c}
         /\ c \notin crossed =>
              /\ Changing(w, c) => clerks[w].old = claims[c].receipts
              /\ clerks[w].step = "after" =>
                   (clerks[w].old \ clerks[w].new) \cap claims[c].receipts = {}
              /\ Opening(w, c) => \A v \in Clerks \ {w} : ~Opening(v, c)
         /\ \A d \in Claims \ {c} : InHand(w) \cap claims[d].receipts = {}

(* The files of an upload are nobody else's before its claim lists them. *)
UploadInv(w) ==
    clerks[w].op = "attach" =>
        /\ \A r \in clerks[w].new : files[r] = "saved"
        /\ \A c \in Claims : clerks[w].new \cap claims[c].receipts = {}
        /\ \A v \in Clerks \ {w} : clerks[w].new \cap InHand(v) = {}

(* Requests on two claims have no file in common. *)
Apart(w, v) ==
    \A c \in clerks[w].of, d \in clerks[v].of : c # d => InHand(w) \cap InHand(v) = {}

ReceiptsInv ==
    /\ \A c \in Claims : FileInv(c)
    /\ \A w \in Clerks : FilerInv(w) /\ UploadInv(w)
    /\ \A w, v \in Clerks : Apart(w, v)

-------------------------------------------------------------------------------
(* Types *)

LEMMA ClaimTypes ==
  ASSUME ClaimTypeOK
  PROVE  /\ \A c \in Claims : /\ claims[c] \in Claim /\ claims[c].receipts \subseteq Receipts
                              /\ claims[c].amount \in Amounts \cup {0} /\ books[c] \in Seq(Amounts)
                              /\ granted[c] \in Amounts \cup {0}
         /\ \A w \in Clerks : /\ clerks[w] \in Clerk /\ clerks[w].of \subseteq Claims
                              /\ clerks[w].done \subseteq Claims /\ clerks[w].amount \in Amounts \cup {0}
                              /\ clerks[w].old \subseteq Receipts /\ clerks[w].new \subseteq Receipts
         /\ \A e \in Entries : entries[e] \in Entry
         /\ DOMAIN claims = Claims /\ DOMAIN clerks = Clerks /\ DOMAIN files = Receipts
  BY DEF ClaimTypeOK, Claim, Clerk

LEMMA NoClerkIs ==
  /\ NoClerk \in Clerk /\ NoClerk.op = "none" /\ NoClerk.step = "idle" /\ NoClerk.of = {}
  /\ NoClerk.old = {} /\ NoClerk.new = {} /\ NoClerk.done = {} /\ NoClerk.amount = 0
  BY DEF NoClerk, Clerk

LEMMA ClerkUpdates ==
  ASSUME NEW k \in Clerk
  PROVE  /\ [k EXCEPT !.step = "after"] \in Clerk /\ [k EXCEPT !.step = "read"] \in Clerk
         /\ \A S \in SUBSET Claims : [k EXCEPT !.done = S] \in Clerk
  BY DEF Clerk

(* What a request that has just begun has in hand. *)
Reader(op, c, a, kept) ==
    [op |-> op, step |-> "read", of |-> {c}, done |-> {}, amount |-> a,
     old |-> claims[c].receipts, new |-> kept]
Uploader(c, new) ==
    [op |-> "attach", step |-> "saved", of |-> {c}, done |-> {}, amount |-> 0, old |-> {}, new |-> new]

LEMMA ReaderIs ==
  ASSUME ClaimTypeOK, NEW w \in Clerks, NEW op \in {"edit", "delete"}, NEW c \in Claims,
         NEW a \in Amounts \cup {0}, NEW kept \in SUBSET Receipts, ReadForChange(w, op, c, a, kept)
  PROVE  Reader(op, c, a, kept) \in Clerk /\ clerks' = [clerks EXCEPT ![w] = Reader(op, c, a, kept)]
<1>1. PICK z, none, idle, read, no, nil :
        z = NoClerk /\ none = "none" /\ idle = "idle" /\ read = "read" /\ no = {} /\ nil = 0
  OBVIOUS
<1>2. z = [op |-> none, step |-> idle, of |-> no, done |-> no, amount |-> nil, old |-> no, new |-> no]
  BY <1>1, Zenon DEF NoClerk
<1>3. PICK S, listed, k : /\ S = {c} /\ listed = claims[c].receipts
                          /\ k = [z EXCEPT !.op = op, !.step = read, !.of = S, !.amount = a,
                                          !.old = listed, !.new = kept]
  OBVIOUS
<1>4. k = [op |-> op, step |-> read, of |-> S, done |-> no, amount |-> a, old |-> listed, new |-> kept]
  BY ONLY <1>2, <1>3
<1>5. clerks' = [clerks EXCEPT ![w] = k]
  BY <1>1, <1>3 DEF ReadForChange
<1>6. listed \subseteq Receipts /\ kept \subseteq Receipts
  BY <1>3, ClaimTypes DEF ReadForChange
<1>7. Reader(op, c, a, kept) \in Clerk
  BY <1>3, <1>6 DEF Clerk, Reader
<1>8. k = Reader(op, c, a, kept)
  BY <1>1, <1>3, <1>4, Zenon DEF Reader
<1> QED BY <1>5, <1>7, <1>8

LEMMA UploaderIs ==
  ASSUME ClaimTypeOK, NEW w \in Clerks, NEW c \in Claims, NEW new \in SUBSET Receipts, SaveFiles(w, c, new)
  PROVE  Uploader(c, new) \in Clerk /\ clerks' = [clerks EXCEPT ![w] = Uploader(c, new)]
<1>1. PICK z, none, idle, attach, saved, no, nil :
        /\ z = NoClerk /\ none = "none" /\ idle = "idle" /\ attach = "attach" /\ saved = "saved"
        /\ no = {} /\ nil = 0
  OBVIOUS
<1>2. z = [op |-> none, step |-> idle, of |-> no, done |-> no, amount |-> nil, old |-> no, new |-> no]
  BY <1>1, Zenon DEF NoClerk
<1>3. PICK S, k : S = {c} /\ k = [z EXCEPT !.op = attach, !.step = saved, !.of = S, !.new = new]
  OBVIOUS
<1>4. k = [op |-> attach, step |-> saved, of |-> S, done |-> no, amount |-> nil, old |-> no, new |-> new]
  BY ONLY <1>2, <1>3
<1>5. clerks' = [clerks EXCEPT ![w] = k]
  BY <1>1, <1>3 DEF SaveFiles
<1>6. Uploader(c, new) \in Clerk
  BY DEF Clerk, Uploader
<1>7. k = Uploader(c, new)
  BY <1>1, <1>3, <1>4, Zenon DEF Uploader
<1> QED BY <1>5, <1>6, <1>7

LEMMA PayerIs ==
  ASSUME ClaimTypeOK, NEW w \in Clerks, NEW S \in SUBSET Claims, MarkPaid(w, S)
  PROVE  \E k \in Clerk :
            /\ clerks' = [clerks EXCEPT ![w] = k]
            /\ k.op = "pay" /\ k.step = "idle" /\ k.of = {c \in S : Payable(c)}
            /\ k.done = {} /\ k.old = {} /\ k.new = {}
<1>1. PICK payable, k : payable = {c \in S : Payable(c)} /\ k = [NoClerk EXCEPT !.op = "pay", !.of = payable]
  OBVIOUS
<1>2. k = [op |-> "pay", step |-> "idle", of |-> payable, done |-> {}, amount |-> 0, old |-> {}, new |-> {}]
  BY <1>1 DEF NoClerk
<1>3. clerks' = [clerks EXCEPT ![w] = k]
  BY <1>1 DEF MarkPaid
<1>4. k \in Clerk
  <2>1. payable \subseteq Claims
    BY <1>1
  <2>2. [op |-> "pay", step |-> "idle", of |-> payable, done |-> {}, amount |-> 0, old |-> {}, new |-> {}] \in Clerk
    BY <2>1 DEF Clerk
  <2> QED BY <2>2, <1>2, Zenon
<1>5. /\ k.op = "pay" /\ k.step = "idle" /\ k.of = payable /\ k.done = {} /\ k.old = {} /\ k.new = {}
  BY <1>2
<1> QED BY <1>1, <1>3, <1>4, <1>5, Zenon

LEMMA ClaimUpdates ==
  ASSUME NEW row \in Claim
  PROVE  /\ \A s \in {"approved", "rejected", "paid", "deleted"} : [row EXCEPT !.status = s] \in Claim
         /\ \A S \in SUBSET Receipts : [row EXCEPT !.receipts = S] \in Claim
         /\ \A a \in Amounts, S \in SUBSET Receipts : [row EXCEPT !.amount = a, !.receipts = S] \in Claim
         /\ [row EXCEPT !.status = "deleted", !.receipts = {}] \in Claim
  BY DEF Claim

-------------------------------------------------------------------------------
(* The books *)

(* A request that goes on, or is over, or uploads files: nothing more is promised of it. *)
Weaker(v) ==
    \/ clerks'[v].op \in {"none", "attach"}
    \/ /\ clerks'[v].op = clerks[v].op /\ clerks'[v].of = clerks[v].of
       /\ clerks'[v].amount = clerks[v].amount
       /\ clerks'[v].step = "read" => clerks[v].step = "read"

LEMMA WeakerClerks ==
  ASSUME BooksInv, stale' = stale, \A v \in Clerks : Weaker(v),
         \A c \in Claims : \/ claims'[c].status = claims[c].status
                           \/ claims'[c].status = "deleted" /\ FreeOfPayments(c)
  PROVE  \A v \in Clerks : ClerkInv(v)'
<1>1. SUFFICES ASSUME NEW v \in Clerks PROVE ClerkInv(v)'
  OBVIOUS
<1>2. /\ Weaker(v) /\ ClerkInv(v) /\ clerks[v].of \subseteq Claims
  BY ClaimTypes DEF BooksInv
<1>3. (clerks'[v].op = "edit" => clerks'[v].amount \in Amounts)
  BY <1>2 DEF Weaker, ClerkInv
<1>4. ASSUME clerks'[v].op = "pay", NEW c \in clerks'[v].of
      PROVE  /\ claims'[c].status = "approved"
             /\ \A u \in Clerks \ {v} : clerks'[u].op = "pay" => c \notin clerks'[u].of
  <2>1. /\ clerks[v].op = "pay" /\ c \in clerks[v].of /\ c \in Claims
    BY <1>2, <1>4 DEF Weaker
  <2>2. claims'[c].status = "approved"
    BY <2>1, <1>2 DEF ClerkInv, FreeOfPayments
  <2>3. ASSUME NEW u \in Clerks \ {v}, clerks'[u].op = "pay" PROVE c \notin clerks'[u].of
    <3>1. Weaker(u)
      OBVIOUS
    <3>2. clerks[u].op = "pay" /\ clerks'[u].of = clerks[u].of
      BY <3>1, <2>3 DEF Weaker
    <3> QED BY <3>2, <2>1, <1>2 DEF ClerkInv
  <2> QED BY <2>2, <2>3
<1>5. ASSUME NEW c \in Claims \ stale', Changing(v, c)'
      PROVE  claims'[c].status \in {"submitted", "deleted"}
  <2>1. Changing(v, c)
    BY <1>2, <1>5 DEF Weaker, Changing
  <2> QED BY <2>1, <1>2, <1>5 DEF ClerkInv
<1> QED BY <1>3, <1>4, <1>5 DEF ClerkInv

(* Steps that leave the rows as they are. *)
LEMMA QuietBooks ==
  ASSUME BooksInv, UNCHANGED <<claims, entries, books, granted, stale>>,
         clerks' \in [Clerks -> Clerk], files' \in [Receipts -> {"new", "saved", "removed"}],
         crossed' \subseteq Claims, \A v \in Clerks : Weaker(v)
  PROVE  BooksInv'
<1>1. ClaimTypeOK'
  BY DEF BooksInv, ClaimTypeOK
<1>2. \A v \in Clerks : ClerkInv(v)'
  BY WeakerClerks
<1>3. (\A c \in Claims : BookInv(c)') /\ (\A e \in Entries : EntryShown(e)')
  BY DEF BooksInv, BookInv, EntryShown
<1> QED BY <1>1, <1>2, <1>3 DEF BooksInv

LEMMA FinishWeakens ==
  ASSUME ClaimTypeOK, NEW w \in Clerks, Finish(w)
  PROVE  clerks' \in [Clerks -> Clerk] /\ \A v \in Clerks : Weaker(v)
  BY NoClerkIs, ClaimTypes DEF Finish, Weaker, ClaimTypeOK

LEMMA GoingOnWeakens ==
  ASSUME ClaimTypeOK, NEW w \in Clerks,
         \/ clerks' = [clerks EXCEPT ![w].step = "after"]
         \/ clerks[w].op = "attach" /\ clerks' = [clerks EXCEPT ![w].step = "read"]
         \/ \E c \in Claims : clerks' = [clerks EXCEPT ![w].done = @ \cup {c}]
  PROVE  clerks' \in [Clerks -> Clerk] /\ \A v \in Clerks : Weaker(v)
<1>1. /\ clerks[w] \in Clerk /\ DOMAIN clerks = Clerks /\ clerks \in [Clerks -> Clerk]
      /\ clerks[w].done \subseteq Claims
  BY ClaimTypes DEF ClaimTypeOK
<1>2. CASE clerks' = [clerks EXCEPT ![w].step = "after"]
  <2>1. clerks' = [clerks EXCEPT ![w] = [clerks[w] EXCEPT !.step = "after"]]
    BY <1>2
  <2> QED BY <2>1, <1>1, ClerkUpdates DEF Weaker, Clerk
<1>3. CASE clerks[w].op = "attach" /\ clerks' = [clerks EXCEPT ![w].step = "read"]
  <2>1. clerks' = [clerks EXCEPT ![w] = [clerks[w] EXCEPT !.step = "read"]]
    BY <1>3
  <2>2. [clerks[w] EXCEPT !.step = "read"].op = "attach" /\ [clerks[w] EXCEPT !.step = "read"] \in Clerk
    BY <1>1, <1>3, ClerkUpdates DEF Clerk
  <2> QED BY <2>1, <2>2, <1>1 DEF Weaker
<1>4. CASE \E c \in Claims : clerks' = [clerks EXCEPT ![w].done = @ \cup {c}]
  <2>1. PICK c \in Claims : clerks' = [clerks EXCEPT ![w].done = @ \cup {c}]
    BY <1>4
  <2>2. clerks' = [clerks EXCEPT ![w] = [clerks[w] EXCEPT !.done = clerks[w].done \cup {c}]]
    BY <2>1
  <2>3. clerks[w].done \cup {c} \in SUBSET Claims
    BY <1>1
  <2> QED BY <2>2, <2>3, <1>1, ClerkUpdates DEF Weaker, Clerk
<1> QED BY <1>2, <1>3, <1>4

(* Steps that change rows of claims. *)
LEMMA CreateKeepsBooks ==
  ASSUME BooksInv, NEW c \in Claims, NEW a \in Amounts, CreateClaim(c, a)
  PROVE  BooksInv'
<1>1. ClaimTypeOK /\ c \in Claims /\ BookInv(c) /\ claims[c].status = "none"
  BY DEF BooksInv, CreateClaim
<1>2. PICK row \in Claim : /\ claims' = [claims EXCEPT ![c] = row]
                           /\ row.status = "submitted" /\ row.amount = a
  <2>1. [status |-> "submitted", amount |-> a, receipts |-> {}] \in Claim
    BY DEF Claim
  <2> QED BY <2>1 DEF CreateClaim
<1>3. ClaimTypeOK'
  BY <1>1, <1>2 DEF CreateClaim, ClaimTypeOK
<1>4. \A d \in Claims : BookInv(d)'
  BY <1>1, <1>2 DEF BooksInv, BookInv, CreateClaim, ClaimTypeOK
<1>5. ASSUME NEW w \in Clerks PROVE ClerkInv(w)'
  <2>1. ClerkInv(w) /\ clerks[w].of \subseteq Claims /\ clerks' = clerks /\ stale' = stale
    BY <1>1, ClaimTypes DEF BooksInv, CreateClaim
  <2>2. \A d \in Claims : claims'[d].status = claims[d].status \/ (d = c /\ claims'[d].status = "submitted")
    BY <1>1, <1>2 DEF ClaimTypeOK
  <2> QED BY <2>1, <2>2, <1>1 DEF ClerkInv, Changing
<1>6. \A e \in Entries : EntryShown(e)'
  BY DEF BooksInv, CreateClaim, EntryShown
<1> QED BY <1>3, <1>4, <1>5, <1>6 DEF BooksInv

LEMMA ReadKeepsBooks ==
  ASSUME BooksInv, NEW w \in Clerks, NEW c \in Claims, NEW a \in Amounts \cup {0}, NEW kept \in SUBSET Receipts,
         NEW op \in {"edit", "delete"}, op = "edit" => a \in Amounts, ReadForChange(w, op, c, a, kept)
  PROVE  BooksInv'
<1>1. ClaimTypeOK /\ claims[c].status = "submitted" /\ claims[c].receipts \subseteq Receipts
  BY ClaimTypes DEF BooksInv, ReadForChange
<1>2. PICK k \in Clerk : /\ clerks' = [clerks EXCEPT ![w] = k]
                         /\ k.op = op /\ k.of = {c} /\ k.amount = a /\ k.step = "read"
  <2>1. Reader(op, c, a, kept) \in Clerk /\ clerks' = [clerks EXCEPT ![w] = Reader(op, c, a, kept)]
    BY <1>1, ReaderIs
  <2>2. /\ Reader(op, c, a, kept).op = op /\ Reader(op, c, a, kept).of = {c}
        /\ Reader(op, c, a, kept).amount = a /\ Reader(op, c, a, kept).step = "read"
    BY DEF Reader
  <2> QED BY <2>1, <2>2
<1>3. ClaimTypeOK'
  BY <1>1, <1>2 DEF ReadForChange, ClaimTypeOK, Crossing
<1>4. (\A d \in Claims : BookInv(d)') /\ (\A e \in Entries : EntryShown(e)')
  BY DEF BooksInv, BookInv, EntryShown, ReadForChange
<1>5. ASSUME NEW v \in Clerks PROVE ClerkInv(v)'
  <2>1. claims' = claims /\ stale' = stale /\ ClerkInv(v) /\ DOMAIN clerks = Clerks
    BY <1>1, ClaimTypes DEF BooksInv, ReadForChange
  <2>2. CASE v = w
    BY <2>1, <2>2, <1>1, <1>2 DEF ClerkInv, Changing
  <2>3. CASE v # w
    <3>1. clerks'[v] = clerks[v]
      BY <2>3, <2>1, <1>2
    <3>2. \A u \in Clerks : clerks'[u].op = "pay" => clerks'[u] = clerks[u]
      BY <2>1, <1>2
    <3> QED BY <3>1, <3>2, <2>1 DEF ClerkInv, Changing
  <2> QED BY <2>2, <2>3
<1> QED BY <1>3, <1>4, <1>5 DEF BooksInv

LEMMA StoreKeepsBooks ==
  ASSUME BooksInv, NEW w \in Clerks, StoreChange(w)
  PROVE  BooksInv'
<1>1. /\ ClaimTypeOK /\ clerks[w].op \in {"edit", "delete"} /\ clerks[w].step = "read"
      /\ clerks[w].of \subseteq Claims /\ ClerkInv(w) /\ clerks[w].new \subseteq Receipts
      /\ UNCHANGED <<entries, books, files, granted, stale, crossed>>
  BY ClaimTypes DEF BooksInv, StoreChange
<1>2. PICK c \in clerks[w].of :
         \/ Finish(w) /\ UNCHANGED claims
         \/ /\ Exists(c) /\ FreeOfPayments(c)
            /\ claims' = [claims EXCEPT ![c] = Changed(w, @)]
            /\ \/ clerks' = [clerks EXCEPT ![w].step = "after"]
               \/ clerks[w].op = "edit" /\ Finish(w)
  BY DEF StoreChange
<1>3. /\ clerks' \in [Clerks -> Clerk] /\ \A v \in Clerks : Weaker(v)
  BY <1>1, <1>2, FinishWeakens, GoingOnWeakens
<1>4. CASE UNCHANGED claims
  BY <1>1, <1>3, <1>4, QuietBooks DEF BooksInv, ClaimTypeOK
<1>5. CASE /\ Exists(c) /\ FreeOfPayments(c)
           /\ claims' = [claims EXCEPT ![c] = Changed(w, @)]
  <2>1. c \in Claims /\ BookInv(c) /\ claims[c] \in Claim /\ DOMAIN claims = Claims
    BY <1>1, ClaimTypes DEF BooksInv
  <2>2. PICK row \in Claim :
           /\ claims' = [claims EXCEPT ![c] = row]
           /\ \/ /\ row.status = claims[c].status /\ row.amount \in Amounts
                 /\ clerks[w].op = "edit"
              \/ row.status = "deleted" /\ row.amount = claims[c].amount
    <3>1. CASE clerks[w].op = "edit"
      <4>1. clerks[w].amount \in Amounts
        BY <3>1, <1>1 DEF ClerkInv
      <4> DEFINE row0 == [claims[c] EXCEPT !.amount = clerks[w].amount, !.receipts = clerks[w].new]
      <4>2. row0 \in Claim /\ row0.status = claims[c].status /\ row0.amount = clerks[w].amount
        BY <4>1, <2>1, <1>1 DEF Claim
      <4>3. claims' = [claims EXCEPT ![c] = row0]
        BY <3>1, <1>5, <2>1 DEF Changed
      <4> HIDE DEF row0
      <4> QED BY <3>1, <4>1, <4>2, <4>3
    <3>2. CASE clerks[w].op = "delete"
      <4> DEFINE row0 == [claims[c] EXCEPT !.status = "deleted", !.receipts = {}]
      <4>2. row0 \in Claim /\ row0.status = "deleted" /\ row0.amount = claims[c].amount
        BY <2>1 DEF Claim
      <4>3. claims' = [claims EXCEPT ![c] = row0]
        BY <3>2, <1>5, <2>1 DEF Changed
      <4> HIDE DEF row0
      <4> QED BY <4>2, <4>3
    <3> QED BY <3>1, <3>2, <1>1
  <2>3. ClaimTypeOK'
    BY <1>1, <1>3, <2>2 DEF ClaimTypeOK
  <2>4. c \notin stale => claims[c].status = "submitted"
    BY <1>1, <1>5, <2>1 DEF ClerkInv, Changing, Exists
  <2>5. BookInv(c)'
    BY <1>1, <1>5, <2>1, <2>2, <2>4 DEF BookInv, Exists
  <2>6. ASSUME NEW d \in Claims, d # c PROVE BookInv(d)'
    BY <1>1, <2>6, <2>1, <2>2 DEF BooksInv, BookInv
  <2>7. \A d \in Claims : \/ claims'[d].status = claims[d].status
                          \/ claims'[d].status = "deleted" /\ FreeOfPayments(d)
    BY <1>5, <2>1, <2>2
  <2>8. \A v \in Clerks : ClerkInv(v)'
    BY <1>1, <1>3, <2>7, WeakerClerks
  <2>9. \A e \in Entries : EntryShown(e)'
    BY <1>1 DEF BooksInv, EntryShown
  <2> QED BY <2>3, <2>5, <2>6, <2>8, <2>9 DEF BooksInv
<1> QED BY <1>2, <1>4, <1>5

LEMMA AddKeepsBooks ==
  ASSUME BooksInv, NEW w \in Clerks, AddAttachments(w)
  PROVE  BooksInv'
<1>1. /\ ClaimTypeOK /\ clerks[w].of \subseteq Claims /\ clerks[w].new \subseteq Receipts
      /\ UNCHANGED <<entries, books, granted, stale>>
  BY ClaimTypes DEF BooksInv, AddAttachments
<1>2. PICK c \in clerks[w].of :
         /\ UNCHANGED claims \/ claims' = [claims EXCEPT ![c].receipts = @ \cup clerks[w].new]
         /\ Finish(w) /\ crossed' \subseteq Claims
         /\ files' \in [Receipts -> {"new", "saved", "removed"}]
  BY <1>1 DEF AddAttachments, DiscardFiles, Removed, ClaimTypeOK
<1>3. /\ clerks' \in [Clerks -> Clerk] /\ \A v \in Clerks : Weaker(v)
  BY <1>1, <1>2, FinishWeakens
<1>4. CASE UNCHANGED claims
  BY <1>1, <1>2, <1>3, <1>4, QuietBooks
<1>5. CASE claims' = [claims EXCEPT ![c].receipts = @ \cup clerks[w].new]
  <2>1. c \in Claims /\ claims[c] \in Claim /\ claims[c].receipts \subseteq Receipts /\ DOMAIN claims = Claims
    BY <1>1, ClaimTypes
  <2>2. PICK row \in Claim :
           /\ claims' = [claims EXCEPT ![c] = row]
           /\ row.status = claims[c].status /\ row.amount = claims[c].amount
    <3> DEFINE row0 == [claims[c] EXCEPT !.receipts = claims[c].receipts \cup clerks[w].new]
    <3>1. row0 \in Claim /\ row0.status = claims[c].status /\ row0.amount = claims[c].amount
      BY <1>1, <2>1 DEF Claim
    <3>2. claims' = [claims EXCEPT ![c] = row0]
      BY <1>5, <2>1
    <3> HIDE DEF row0
    <3> QED BY <3>1, <3>2
  <2>3. \A d \in Claims : claims'[d].status = claims[d].status /\ claims'[d].amount = claims[d].amount
    BY <2>1, <2>2
  <2>4. ClaimTypeOK'
    BY <1>1, <1>2, <1>3, <2>2 DEF ClaimTypeOK
  <2>5. \A v \in Clerks : ClerkInv(v)'
    BY <1>1, <1>3, <2>3, WeakerClerks
  <2>6. (\A d \in Claims : BookInv(d)') /\ (\A e \in Entries : EntryShown(e)')
    BY <1>1, <2>3 DEF BooksInv, BookInv, EntryShown
  <2> QED BY <2>4, <2>5, <2>6 DEF BooksInv
<1> QED BY <1>2, <1>4, <1>5

LEMMA ReviewKeepsBooks ==
  ASSUME BooksInv, NEW S \in SUBSET Claims, NEW decision \in Decisions, ReviewClaims(S, decision)
  PROVE  BooksInv'
<1> DEFINE reviewed == {c \in S : Reviewable(c)}
<1>1. /\ ClaimTypeOK /\ UNCHANGED <<entries, books, files, clerks, crossed>>
      /\ reviewed \subseteq Claims /\ \A c \in reviewed : claims[c].status = "submitted"
      /\ stale' = stale \cup {c \in reviewed : BeingChanged(c)}
  BY DEF BooksInv, ReviewClaims, Reviewable
<1>2. ASSUME NEW c \in Claims
      PROVE  /\ claims'[c] \in Claim /\ claims'[c].amount = claims[c].amount
             /\ claims'[c].status = (IF c \in reviewed THEN decision ELSE claims[c].status)
             /\ granted'[c] = (IF c \in reviewed /\ decision = "approved" THEN claims[c].amount
                               ELSE granted[c])
  <2>1. claims[c] \in Claim /\ claims'[c] = IF c \in reviewed THEN [claims[c] EXCEPT !.status = decision] ELSE claims[c]
    BY <1>1, ClaimTypes DEF ReviewClaims
  <2>2. decision \in {"approved", "rejected", "paid", "deleted"}
    BY DEF Decisions
  <2>3. [claims[c] EXCEPT !.status = decision] \in Claim
    BY <2>1, <2>2, ClaimUpdates
  <2>4. granted'[c] = (IF c \in reviewed /\ decision = "approved" THEN claims[c].amount ELSE granted[c])
    BY DEF ReviewClaims
  <2>5. /\ [claims[c] EXCEPT !.status = decision].status = decision
        /\ [claims[c] EXCEPT !.status = decision].amount = claims[c].amount
    BY <2>1 DEF Claim
  <2> HIDE DEF reviewed
  <2> QED BY <2>1, <2>3, <2>4, <2>5
<1>3. /\ DOMAIN claims' = Claims /\ claims' = [c \in Claims |-> claims'[c]]
      /\ granted' = [c \in Claims |-> granted'[c]]
  BY DEF ReviewClaims
<1> HIDE DEF reviewed
<1>4. ClaimTypeOK'
  <2>1. claims' \in [Claims -> Claim]
    BY <1>2, <1>3
  <2>2. granted' \in [Claims -> Amounts \cup {0}]
    <3>1. \A c \in Claims : granted'[c] \in Amounts \cup {0}
      BY <1>1, <1>2, ClaimTypes
    <3> QED BY <3>1, <1>3
  <2>3. stale' \subseteq Claims
    BY <1>1 DEF ClaimTypeOK
  <2> QED BY <1>1, <2>1, <2>2, <2>3 DEF ClaimTypeOK
<1>5. ASSUME NEW c \in Claims PROVE BookInv(c)'
  <2>1. BookInv(c) /\ books'[c] = books[c] /\ stale \subseteq stale'
    BY <1>1 DEF BooksInv
  <2>2. CASE c \in reviewed
    BY <1>1, <1>2, <2>1, <2>2 DEF BookInv, Decisions
  <2>3. CASE c \notin reviewed
    <3>1. claims'[c].status = claims[c].status /\ claims'[c].amount = claims[c].amount /\ granted'[c] = granted[c]
      BY <1>2, <2>3
    <3> QED BY <3>1, <2>1 DEF BookInv
  <2> QED BY <2>2, <2>3
<1>6. ASSUME NEW w \in Clerks PROVE ClerkInv(w)'
  <2>1. ClerkInv(w) /\ clerks' = clerks /\ clerks[w].of \subseteq Claims
    BY <1>1, ClaimTypes DEF BooksInv
  <2>2. ASSUME clerks[w].op = "pay", NEW c \in clerks[w].of PROVE claims'[c].status = "approved"
    <3>1. c \in Claims /\ claims[c].status = "approved"
      BY <2>1, <2>2 DEF ClerkInv
    <3> QED BY <3>1, <1>1, <1>2
  <2>3. ASSUME NEW c \in Claims \ stale', Changing(w, c)
        PROVE  claims'[c].status \in {"submitted", "deleted"}
    <3>1. c \notin reviewed /\ c \notin stale
      BY <1>1, <2>3 DEF Changing, BeingChanged
    <3> QED BY <3>1, <1>2, <2>1, <2>3 DEF ClerkInv
  <2>4. (\A c \in Claims : Changing(w, c)' <=> Changing(w, c))
    BY <2>1 DEF Changing
  <2> QED BY <2>1, <2>2, <2>3, <2>4 DEF ClerkInv
<1>7. \A e \in Entries : EntryShown(e)'
  BY <1>1 DEF BooksInv, EntryShown
<1> QED BY <1>4, <1>5, <1>6, <1>7 DEF BooksInv

LEMMA MarkKeepsBooks ==
  ASSUME BooksInv, NEW w \in Clerks, NEW S \in SUBSET Claims, MarkPaid(w, S)
  PROVE  BooksInv'
<1>1. ClaimTypeOK /\ UNCHANGED <<claims, entries, books, files, granted, stale, crossed>>
  BY DEF BooksInv, MarkPaid
<1>2. PICK k \in Clerk : /\ clerks' = [clerks EXCEPT ![w] = k]
                         /\ k.op = "pay" /\ k.of = {c \in S : Payable(c)} /\ k.step = "idle"
  BY <1>1, PayerIs
<1>3. ClaimTypeOK'
  BY <1>1, <1>2 DEF ClaimTypeOK
<1>4. (\A d \in Claims : BookInv(d)') /\ (\A e \in Entries : EntryShown(e)')
  BY <1>1 DEF BooksInv, BookInv, EntryShown
<1>5. ASSUME NEW v \in Clerks PROVE ClerkInv(v)'
  <2>1. /\ ClerkInv(v) /\ \A u \in Clerks : clerks'[u] = IF u = w THEN k ELSE clerks[u]
    BY <1>1, <1>2, ClaimTypes DEF BooksInv
  <2>2. \A c \in k.of : claims[c].status = "approved" /\ FreeOfPayments(c)
    BY <1>2 DEF MarkPaid, Payable
  <2>3. CASE v = w
    BY <2>1, <2>2, <2>3, <1>1, <1>2 DEF ClerkInv, FreeOfPayments, Changing
  <2>4. CASE v # w
    <3>1. clerks'[v] = clerks[v]
      BY <2>1, <2>4
    <3>2. ASSUME clerks[v].op = "pay", NEW c \in clerks[v].of, NEW u \in Clerks \ {v}, clerks'[u].op = "pay"
          PROVE  c \notin clerks'[u].of
      BY <2>1, <2>2, <3>2 DEF ClerkInv, FreeOfPayments
    <3> QED BY <1>1, <2>1, <3>1, <3>2 DEF ClerkInv, Changing
  <2> QED BY <2>3, <2>4
<1> QED BY <1>3, <1>4, <1>5 DEF BooksInv

LEMMA CommitKeepsBooks ==
  ASSUME BooksInv, NEW w \in Clerks, CommitPayment(w)
  PROVE  BooksInv'
<1> DEFINE paid == clerks[w].of
<1>1. /\ ClaimTypeOK /\ UNCHANGED <<entries, files, granted, stale, crossed>> /\ Finish(w)
      /\ paid \subseteq Claims /\ clerks[w].op = "pay"
      /\ \A c \in paid : claims[c].status = "approved"
  BY ClaimTypes DEF BooksInv, CommitPayment, ClerkInv
<1>2. ASSUME NEW c \in Claims
      PROVE  /\ claims'[c] \in Claim /\ claims'[c].amount = claims[c].amount
             /\ claims'[c].status = (IF c \in paid THEN "paid" ELSE claims[c].status)
             /\ books'[c] = (IF c \in paid THEN <<claims[c].amount>> ELSE books[c])
             /\ c \in paid => claims[c].amount \in Amounts
  <2>1. /\ claims[c] \in Claim /\ BookInv(c)
        /\ claims'[c] = IF c \in paid THEN [claims[c] EXCEPT !.status = "paid"] ELSE claims[c]
        /\ books'[c] = IF c \in paid THEN Append(books[c], claims[c].amount) ELSE books[c]
    BY <1>1, ClaimTypes DEF BooksInv, CommitPayment
  <2>2. /\ [claims[c] EXCEPT !.status = "paid"] \in Claim
        /\ [claims[c] EXCEPT !.status = "paid"].status = "paid"
        /\ [claims[c] EXCEPT !.status = "paid"].amount = claims[c].amount
    BY <2>1 DEF Claim
  <2>3. ASSUME c \in paid PROVE books[c] = <<>> /\ claims[c].amount \in Amounts
    BY <1>1, <2>1, <2>3 DEF BookInv
  <2>4. Append(<<>>, claims[c].amount) = <<claims[c].amount>>
    OBVIOUS
  <2> HIDE DEF paid
  <2> QED BY <2>1, <2>2, <2>3, <2>4
<1>3. claims' = [c \in Claims |-> claims'[c]] /\ books' = [c \in Claims |-> books'[c]]
  BY DEF CommitPayment
<1>4. /\ clerks' \in [Clerks -> Clerk] /\ \A v \in Clerks : Weaker(v)
  BY <1>1, FinishWeakens
<1> HIDE DEF paid
<1>5. ClaimTypeOK'
  <2>1. claims' \in [Claims -> Claim]
    BY <1>2, <1>3
  <2>2. \A c \in Claims : books'[c] \in Seq(Amounts)
    <3>1. SUFFICES ASSUME NEW c \in Claims PROVE books'[c] \in Seq(Amounts)
      OBVIOUS
    <3>2. books[c] \in Seq(Amounts)
      BY <1>1, ClaimTypes
    <3>3. CASE c \in paid
      <4>1. books'[c] = <<claims[c].amount>> /\ claims[c].amount \in Amounts
        BY <1>2, <3>3
      <4> QED BY <4>1
    <3>4. CASE c \notin paid
      BY <1>2, <3>2, <3>4
    <3> QED BY <3>3, <3>4
  <2>3. books' \in [Claims -> Seq(Amounts)]
    BY <2>2, <1>3
  <2> QED BY <1>1, <1>4, <2>1, <2>3 DEF ClaimTypeOK
<1>6. ASSUME NEW c \in Claims PROVE BookInv(c)'
  <2>1. BookInv(c) /\ granted' = granted /\ stale' = stale
    BY <1>1 DEF BooksInv
  <2>2. CASE c \in paid
    <3>1. /\ claims[c].status = "approved" /\ claims'[c].status = "paid"
          /\ claims'[c].amount = claims[c].amount /\ books'[c] = <<claims[c].amount>>
      BY <1>1, <1>2, <2>2
    <3>2. Len(<<claims[c].amount>>) = 1
      OBVIOUS
    <3> QED BY <3>1, <3>2, <2>1 DEF BookInv
  <2>3. CASE c \notin paid
    <3>1. claims'[c].status = claims[c].status /\ claims'[c].amount = claims[c].amount /\ books'[c] = books[c]
      BY <1>2, <2>3
    <3> QED BY <3>1, <2>1 DEF BookInv
  <2> QED BY <2>2, <2>3
<1>7. ASSUME NEW v \in Clerks PROVE ClerkInv(v)'
  <2>1. /\ ClerkInv(v) /\ ClerkInv(w) /\ clerks[v].of \subseteq Claims /\ stale' = stale
        /\ \A u \in Clerks : clerks'[u] = IF u = w THEN NoClerk ELSE clerks[u]
    BY <1>1, ClaimTypes DEF BooksInv, Finish
  <2>2. CASE v = w
    BY <2>1, <2>2, NoClerkIs DEF ClerkInv, Changing
  <2>3. CASE v # w
    <3>1. clerks'[v] = clerks[v]
      BY <2>1, <2>3
    <3>2. ASSUME clerks[v].op = "pay", NEW c \in clerks[v].of
          PROVE  /\ claims'[c].status = "approved"
                 /\ \A u \in Clerks \ {v} : clerks'[u].op = "pay" => c \notin clerks'[u].of
      <4>1. c \in Claims /\ claims[c].status = "approved" /\ c \notin paid
        BY <1>1, <2>1, <2>3, <3>2 DEF ClerkInv, paid
      <4>2. claims'[c].status = "approved"
        BY <4>1, <1>2
      <4> QED BY <4>2, <2>1, <3>2, NoClerkIs DEF ClerkInv
    <3>3. ASSUME NEW c \in Claims \ stale, Changing(v, c)
          PROVE  claims'[c].status \in {"submitted", "deleted"}
      <4>1. claims[c].status \in {"submitted", "deleted"}
        BY <2>1, <3>3 DEF ClerkInv
      <4> QED BY <4>1, <1>1, <1>2
    <3>4. \A c \in Claims : Changing(v, c)' <=> Changing(v, c)
      BY <3>1 DEF Changing
    <3> QED BY <2>1, <3>1, <3>2, <3>3, <3>4 DEF ClerkInv
  <2> QED BY <2>2, <2>3
<1>8. \A e \in Entries : EntryShown(e)'
  BY <1>1 DEF BooksInv, EntryShown
<1> QED BY <1>5, <1>6, <1>7, <1>8 DEF BooksInv

(* Records entered by hand. *)
SetsShown(e) ==
    \E row \in Entry :
        /\ SetEntry(e, row)
        /\ row.status \in {"pending_review", "approved"} => row.amount = row.shown

LEMMA EntryKeepsBooks ==
  ASSUME BooksInv, NEW e \in Entries,
         \/ DeleteRecord(e) \/ SubmitRecord(e)
         \/ \E a \in Amounts : CreateRecord(e, a) \/ UpdateRecord(e, a)
         \/ \E decision \in Decisions : ReviewRecord(e, decision)
  PROVE  BooksInv'
<1>1. /\ ClaimTypeOK /\ entries[e] \in Entry /\ entries \in [Entries -> Entry] /\ EntryShown(e)
  BY ClaimTypes DEF BooksInv, ClaimTypeOK
<1>2. SetsShown(e)
  <2>1. ASSUME DeleteRecord(e) PROVE SetsShown(e)
    <3>1. [entries[e] EXCEPT !.status = "deleted"] \in Entry /\ [entries[e] EXCEPT !.status = "deleted"].status = "deleted"
      BY <1>1 DEF Entry
    <3> QED BY <2>1, <3>1 DEF DeleteRecord, SetsShown
  <2>2. ASSUME SubmitRecord(e) PROVE SetsShown(e)
    <3> DEFINE row == [entries[e] EXCEPT !.status = "pending_review", !.shown = entries[e].amount]
    <3>1. row \in Entry /\ row.amount = row.shown
      BY <1>1 DEF Entry
    <3>2. SetEntry(e, row)
      BY <2>2 DEF SubmitRecord
    <3> HIDE DEF row
    <3> QED BY <3>1, <3>2 DEF SetsShown
  <2>3. ASSUME NEW a \in Amounts, CreateRecord(e, a) PROVE SetsShown(e)
    <3>1. [status |-> "draft", amount |-> a, shown |-> 0] \in Entry
      BY DEF Entry
    <3>2. [status |-> "draft", amount |-> a, shown |-> 0] \in Entry /\ [status |-> "draft", amount |-> a, shown |-> 0].status = "draft"
      BY <3>1
    <3> QED BY <2>3, <3>2 DEF CreateRecord, SetsShown
  <2>4. ASSUME NEW a \in Amounts, UpdateRecord(e, a) PROVE SetsShown(e)
    <3> DEFINE row == [entries[e] EXCEPT !.amount = a]
    <3>1. row \in Entry /\ row.status = entries[e].status
      BY <1>1 DEF Entry
    <3>2. SetEntry(e, row) /\ entries[e].status \in {"draft", "rejected"}
      BY <2>4 DEF UpdateRecord
    <3> HIDE DEF row
    <3> QED BY <3>1, <3>2 DEF SetsShown
  <2>5. ASSUME NEW decision \in Decisions, ReviewRecord(e, decision) PROVE SetsShown(e)
    <3> DEFINE row == [entries[e] EXCEPT !.status = decision]
    <3>1. row \in Entry /\ row.amount = entries[e].amount /\ row.shown = entries[e].shown
      BY <1>1 DEF Entry, Decisions
    <3>2. SetEntry(e, row) /\ entries[e].status = "pending_review"
      BY <2>5 DEF ReviewRecord
    <3> HIDE DEF row
    <3> QED BY <3>1, <3>2, <1>1 DEF EntryShown, SetsShown
  <2> QED BY <2>1, <2>2, <2>3, <2>4, <2>5
<1>3. PICK row \in Entry :
         /\ SetEntry(e, row)
         /\ row.status \in {"pending_review", "approved"} => row.amount = row.shown
  BY <1>2 DEF SetsShown
<1>4. ClaimTypeOK'
  BY <1>1, <1>3 DEF ClaimTypeOK, SetEntry
<1>5. \A d \in Entries : EntryShown(d)'
  BY <1>1, <1>3 DEF BooksInv, EntryShown, SetEntry
<1>6. (\A c \in Claims : BookInv(c)') /\ (\A w \in Clerks : ClerkInv(w)')
  BY <1>3 DEF BooksInv, BookInv, ClerkInv, Changing, SetEntry
<1> QED BY <1>4, <1>5, <1>6 DEF BooksInv

LEMMA BooksInitially == ASSUME ClaimInit PROVE BooksInv
<1>1. NoClaim \in Claim /\ NoEntry \in Entry /\ NoClaim.status = "none" /\ NoEntry.status = "none"
  BY DEF NoClaim, NoEntry, Claim, Entry
<1>2. ClaimTypeOK
  BY <1>1, NoClerkIs DEF ClaimInit, ClaimTypeOK
<1>3. \A c \in Claims : BookInv(c)
  <2>1. Len(<<>>) = 0
    OBVIOUS
  <2> QED BY <1>1, <2>1 DEF ClaimInit, BookInv
<1>4. \A w \in Clerks : ClerkInv(w)
  BY NoClerkIs DEF ClaimInit, ClerkInv, Changing
<1>5. \A e \in Entries : EntryShown(e)
  BY <1>1 DEF ClaimInit, EntryShown
<1> QED BY <1>2, <1>3, <1>4, <1>5 DEF BooksInv

LEMMA BooksStep == ASSUME BooksInv, [ClaimNext]_claimVars PROVE BooksInv'
<1>0. ClaimTypeOK
  BY DEF BooksInv
<1>1. CASE UNCHANGED claimVars
  <2>1. /\ UNCHANGED <<claims, entries, books, granted, stale>>
        /\ UNCHANGED <<files, crossed, clerks>>
    BY <1>1 DEF claimVars
  <2>2. \A v \in Clerks : Weaker(v)
    BY <2>1 DEF Weaker
  <2> QED BY <1>0, <2>1, <2>2, QuietBooks DEF ClaimTypeOK
<1>2. ASSUME NEW c \in Claims, NEW a \in Amounts, CreateClaim(c, a) PROVE BooksInv'
  BY <1>2, CreateKeepsBooks
<1>3. ASSUME NEW S \in SUBSET Claims, NEW decision \in Decisions, ReviewClaims(S, decision) PROVE BooksInv'
  BY <1>3, ReviewKeepsBooks
<1>4. ASSUME NEW w \in Clerks, StoreChange(w) PROVE BooksInv'
  BY <1>4, StoreKeepsBooks
<1>5. ASSUME NEW w \in Clerks, RemoveFiles(w) PROVE BooksInv'
  <2>1. files' \in [Receipts -> {"new", "saved", "removed"}] /\ UNCHANGED <<claims, entries, books, granted, stale, crossed>>
    BY <1>0, <1>5 DEF RemoveFiles, Removed, ClaimTypeOK
  <2>2. Finish(w) /\ crossed' \subseteq Claims
    BY <1>0, <1>5 DEF RemoveFiles, ClaimTypeOK
  <2> QED BY <1>0, <2>1, <2>2, FinishWeakens, QuietBooks
<1>6. ASSUME NEW w \in Clerks, CheckUpload(w) PROVE BooksInv'
  <2>1. /\ files' \in [Receipts -> {"new", "saved", "removed"}]
        /\ UNCHANGED <<claims, entries, books, granted, stale, crossed>>
        /\ Finish(w) \/ (clerks[w].op = "attach" /\ clerks' = [clerks EXCEPT ![w].step = "read"])
        /\ crossed' \subseteq Claims
    BY <1>0, <1>6 DEF CheckUpload, DiscardFiles, Removed, ClaimTypeOK
  <2>2. clerks' \in [Clerks -> Clerk] /\ \A v \in Clerks : Weaker(v)
    BY <1>0, <2>1, FinishWeakens, GoingOnWeakens
  <2> QED BY <2>1, <2>2, QuietBooks
<1>7. ASSUME NEW w \in Clerks, AddAttachments(w) PROVE BooksInv'
  BY <1>7, AddKeepsBooks
<1>8. ASSUME NEW w \in Clerks, CommitPayment(w) PROVE BooksInv'
  BY <1>8, CommitKeepsBooks
<1>9. ASSUME NEW w \in Clerks, RollBackPayment(w) PROVE BooksInv'
  BY <1>0, <1>9, FinishWeakens, QuietBooks DEF RollBackPayment, ClaimTypeOK
<1>10. ASSUME NEW w \in Clerks, NEW S \in SUBSET Claims, MarkPaid(w, S) PROVE BooksInv'
  BY <1>10, MarkKeepsBooks
<1>11. ASSUME NEW w \in Clerks, NEW c \in Claims, ReadClaimForDelete(w, c) PROVE BooksInv'
  <2>1. ReadForChange(w, "delete", c, 0, {})
    BY <1>11 DEF ReadClaimForDelete
  <2> QED BY <2>1, ReadKeepsBooks
<1>12. ASSUME NEW w \in Clerks, NEW c \in Claims, RecordOutcome(w, c) PROVE BooksInv'
  <2>1. /\ clerks' = [clerks EXCEPT ![w].done = @ \cup {c}]
        /\ UNCHANGED <<claims, entries, books, files, granted, stale, crossed>>
    BY <1>12 DEF RecordOutcome
  <2>2. clerks' \in [Clerks -> Clerk] /\ \A v \in Clerks : Weaker(v)
    BY <1>0, <2>1, GoingOnWeakens
  <2> QED BY <1>0, <2>1, <2>2, QuietBooks DEF ClaimTypeOK
<1>13. ASSUME NEW w \in Clerks, NEW c \in Claims, NEW S \in SUBSET Receipts, SaveFiles(w, c, S) PROVE BooksInv'
  <2>1. /\ UNCHANGED <<claims, entries, books, granted, stale>>
        /\ files' \in [Receipts -> {"new", "saved", "removed"}] /\ crossed' \subseteq Claims
    BY <1>0, <1>13 DEF SaveFiles, ClaimTypeOK, Crossing
  <2>2. Uploader(c, S) \in Clerk /\ clerks' = [clerks EXCEPT ![w] = Uploader(c, S)]
    BY <1>0, <1>13, UploaderIs
  <2>3. Uploader(c, S).op = "attach"
    BY DEF Uploader
  <2>4. clerks' \in [Clerks -> Clerk] /\ \A v \in Clerks : Weaker(v)
    BY <1>0, <2>2, <2>3 DEF ClaimTypeOK, Weaker
  <2> QED BY <2>1, <2>4, QuietBooks
<1>14. ASSUME NEW w \in Clerks, NEW c \in Claims, NEW S \in SUBSET Receipts, NEW a \in Amounts,
              ReadClaimForEdit(w, c, a, S)
       PROVE  BooksInv'
  <2>1. ReadForChange(w, "edit", c, a, S)
    BY <1>14 DEF ReadClaimForEdit
  <2> QED BY <2>1, ReadKeepsBooks
<1>15. ASSUME StopClerks PROVE BooksInv'
  <2>1. /\ UNCHANGED <<claims, entries, books, files, granted, stale, crossed>>
        /\ clerks' = [w \in Clerks |-> NoClerk]
    BY <1>15 DEF StopClerks
  <2>2. clerks' \in [Clerks -> Clerk] /\ \A v \in Clerks : Weaker(v)
    BY <2>1, NoClerkIs DEF Weaker
  <2> QED BY <1>0, <2>1, <2>2, QuietBooks DEF ClaimTypeOK
<1>16. ASSUME NEW e \in Entries,
              \/ DeleteRecord(e) \/ SubmitRecord(e)
              \/ \E a \in Amounts : CreateRecord(e, a) \/ UpdateRecord(e, a)
              \/ \E decision \in Decisions : ReviewRecord(e, decision)
       PROVE  BooksInv'
  BY <1>16, EntryKeepsBooks
<1> QED
  BY <1>1, <1>2, <1>3, <1>4, <1>5, <1>6, <1>7, <1>8, <1>9, <1>10, <1>11, <1>12, <1>13, <1>14, <1>15, <1>16
  DEF ClaimNext

(* The inductive invariant of the books: who edits a claim has read it as submitted   *)
(* unless it was reviewed since, and a payment alone holds the rows it marks, which are *)
(* approved and not booked.                                                     *)
THEOREM BooksAlwaysSound == ClaimSpec => []BooksInv
<1>1. ClaimInit => BooksInv
  BY BooksInitially
<1>2. BooksInv /\ [ClaimNext]_claimVars => BooksInv'
  BY BooksStep
<1> QED BY <1>1, <1>2, PTL DEF ClaimSpec

(* Claims, records, books, files and requests keep their types. *)
THEOREM ClaimsTypeCorrect == ClaimSpec => []ClaimTypeOK
<1>1. BooksInv => ClaimTypeOK
  BY DEF BooksInv
<1> QED BY <1>1, BooksAlwaysSound, PTL

(* A paid claim is booked once, with the amount that was approved, and no other claim *)
(* is, however payments, edits, deletions, reviews, failures and stops interleave.    *)
THEOREM PaidOnceAsGranted == ClaimSpec => []BooksAgree
<1>1. BooksInv => BooksAgree
  <2>1. SUFFICES ASSUME BooksInv PROVE BooksAgree
    OBVIOUS
  <2>2. ASSUME NEW c \in Claims
        PROVE  /\ Len(books[c]) <= 1
               /\ c \notin stale =>
                    /\ claims[c].status = "paid" <=> books[c] # <<>>
                    /\ claims[c].status = "paid" =>
                         books[c] = <<granted[c]>> /\ claims[c].amount = granted[c]
    <3>1. BookInv(c) /\ <<granted[c]>> # <<>>
      BY <2>1 DEF BooksInv
    <3> QED BY <3>1 DEF BookInv
  <2> QED BY <2>1, <2>2 DEF BooksInv, BooksAgree, EntryShown
<1> QED BY <1>1, BooksAlwaysSound, PTL

-------------------------------------------------------------------------------
(* The receipts *)

(* A request that is over, or one that pays. *)
Released(v) ==
    /\ (clerks'[v].op = "none" /\ clerks'[v].of = {}) \/ clerks'[v].op = "pay"
    /\ InHand(v)' = {} /\ clerks'[v].step = "idle"
    /\ \A c \in clerks'[v].of : claims[c].status # "none"

(* A request that goes on with what it has in hand. *)
GoesOn(v) ==
    /\ clerks'[v].op = clerks[v].op /\ clerks'[v].of = clerks[v].of
    /\ clerks'[v].old = clerks[v].old /\ clerks'[v].new = clerks[v].new
    /\ \/ clerks'[v].step = clerks[v].step
       \/ clerks[v].op = "attach" /\ clerks[v].step = "saved" /\ clerks'[v].step = "read"

(* Steps that change what no claim lists, and remove files that no claim lists and no *)
(* upload has.                                                                 *)
LEMMA CalmReceipts ==
  ASSUME ReceiptsInv, ClaimTypeOK, ClaimTypeOK',
         \A c \in Claims : /\ claims'[c].receipts = claims[c].receipts
                           /\ claims'[c].status = "none" => claims[c].status = "none",
         crossed \subseteq crossed',
         \A v \in Clerks : Released(v) \/ GoesOn(v),
         \A r \in Receipts :
            \/ files'[r] = files[r]
            \/ /\ files'[r] = "removed"
               /\ \A c \in Claims \ crossed' : r \notin claims[c].receipts
               /\ \A v \in Clerks : clerks'[v].op = "attach" => r \notin clerks[v].new
  PROVE  ReceiptsInv'
<1>1. /\ \A c \in Claims : claims[c].receipts \subseteq Receipts
      /\ \A v \in Clerks : /\ clerks[v].of \subseteq Claims /\ clerks'[v].of \subseteq Claims
                           /\ clerks[v].old \subseteq Receipts /\ clerks[v].new \subseteq Receipts
  BY ClaimTypes DEF ClaimTypeOK, Clerk
<1>2. \A r \in Receipts : files[r] # "new" => files'[r] # "new"
  OBVIOUS
<1>3. \A v \in Clerks : InHand(v)' = InHand(v) \/ InHand(v)' = {}
  BY DEF Released, GoesOn, InHand
<1>4. \A v \in Clerks, c \in Claims : Opening(v, c)' => Opening(v, c)
  BY DEF Released, GoesOn, Opening
<1>5. ASSUME NEW c \in Claims PROVE FileInv(c)'
  <2>1. FileInv(c) /\ \A d \in Claims : claims'[d].receipts = claims[d].receipts
    BY DEF ReceiptsInv
  <2>2. c \notin crossed' => \A r \in claims[c].receipts : files'[r] = "saved"
    BY <1>1, <2>1 DEF FileInv
  <2>3. claims'[c].status = "none" => claims[c].status = "none"
    OBVIOUS
  <2> QED BY <1>1, <1>2, <2>1, <2>2, <2>3 DEF FileInv
<1>6. ASSUME NEW v \in Clerks PROVE FilerInv(v)'
  <2>1. CASE Released(v)
    <3>1. \A c \in clerks'[v].of : claims'[c].status # "none"
      BY <1>1, <2>1 DEF Released
    <3>2. \A c \in Claims : ~Opening(v, c)' /\ ~Changing(v, c)'
      BY <2>1 DEF Released, Opening, Changing
    <3> QED BY <1>1, <2>1, <3>1, <3>2 DEF Released, FilerInv
  <2>2. CASE GoesOn(v)
    <3>1. FilerInv(v) /\ InHand(v)' = InHand(v) /\ InHand(v) \subseteq Receipts
      BY <1>1, <2>2 DEF ReceiptsInv, GoesOn, InHand
    <3>2. ASSUME NEW c \in clerks'[v].of
          PROVE  /\ c \in clerks[v].of /\ c \in Claims
                 /\ claims'[c].status # "none" /\ (clerks'[v].op # "pay" => clerks'[v].of = {c})
                 /\ \A d \in Claims \ {c} : InHand(v)' \cap claims'[d].receipts = {}
      <4>1. c \in clerks[v].of /\ c \in Claims
        BY <1>1, <2>2 DEF GoesOn
      <4>2. /\ claims[c].status # "none"
            /\ clerks[v].op # "pay" => clerks[v].of = {c}
            /\ \A d \in Claims \ {c} : InHand(v) \cap claims[d].receipts = {}
        BY <3>1, <4>1 DEF FilerInv
      <4>3. clerks'[v].op # "pay" => clerks'[v].of = {c}
        BY <4>2, <2>2 DEF GoesOn
      <4>4. claims'[c].status # "none"
        BY <4>1, <4>2
      <4>5. \A d \in Claims \ {c} : InHand(v)' \cap claims'[d].receipts = {}
        BY <4>2, <3>1
      <4> QED BY <4>1, <4>3, <4>4, <4>5
    <3>3. ASSUME NEW c \in clerks'[v].of, c \notin crossed'
          PROVE  /\ Changing(v, c)' => clerks'[v].old = claims'[c].receipts
                 /\ clerks'[v].step = "after" =>
                      (clerks'[v].old \ clerks'[v].new) \cap claims'[c].receipts = {}
                 /\ Opening(v, c)' => \A u \in Clerks \ {v} : ~Opening(u, c)'
      <4>1. c \in clerks[v].of /\ c \in Claims /\ c \notin crossed
        BY <3>2, <3>3
      <4>2. /\ Changing(v, c) => clerks[v].old = claims[c].receipts
            /\ clerks[v].step = "after" => (clerks[v].old \ clerks[v].new) \cap claims[c].receipts = {}
            /\ Opening(v, c) => \A u \in Clerks \ {v} : ~Opening(u, c)
        BY <3>1, <4>1 DEF FilerInv
      <4>3. Changing(v, c)' => Changing(v, c)
        BY <2>2 DEF GoesOn, Changing
      <4>4. clerks'[v].step = "after" => clerks[v].step = "after"
        BY <2>2 DEF GoesOn
      <4>5. clerks'[v].old = clerks[v].old /\ clerks'[v].new = clerks[v].new /\ claims'[c].receipts = claims[c].receipts
        BY <2>2, <4>1 DEF GoesOn
      <4> QED BY <1>4, <4>1, <4>2, <4>3, <4>4, <4>5
    <3>4. /\ clerks'[v].op \in {"none", "pay"} => InHand(v)' = {} /\ clerks'[v].step = "idle"
          /\ clerks'[v].op \in {"edit", "delete"} => clerks'[v].new \subseteq clerks'[v].old
          /\ clerks'[v].op = "delete" => clerks'[v].new = {}
          /\ clerks'[v].op = "attach" => clerks'[v].step \in {"saved", "read"}
          /\ clerks'[v].op \in {"edit", "delete", "attach"} => clerks'[v].of # {}
      BY <2>2, <3>1 DEF GoesOn, FilerInv
    <3>5. \A r \in InHand(v)' : files'[r] # "new"
      BY <1>2, <3>1 DEF FilerInv
    <3> QED BY <3>2, <3>3, <3>4, <3>5 DEF FilerInv
  <2> QED BY <2>1, <2>2
<1>7. ASSUME NEW v \in Clerks PROVE UploadInv(v)'
  <2>1. SUFFICES ASSUME clerks'[v].op = "attach" PROVE UploadInv(v)'
    BY DEF UploadInv
  <2>2. clerks[v].op = "attach" /\ clerks'[v].new = clerks[v].new /\ clerks[v].new \subseteq Receipts /\ UploadInv(v)
    BY <1>1, <2>1 DEF Released, GoesOn, ReceiptsInv
  <2>3. \A r \in clerks[v].new : files'[r] = "saved"
    BY <2>1, <2>2 DEF UploadInv
  <2>4. \A u \in Clerks \ {v} : clerks[v].new \cap InHand(u)' = {}
    BY <1>3, <2>2 DEF UploadInv
  <2> QED BY <2>2, <2>3, <2>4 DEF UploadInv
<1>8. ASSUME NEW w \in Clerks, NEW v \in Clerks PROVE Apart(w, v)'
  <2>1. ASSUME NEW c \in clerks'[w].of, NEW d \in clerks'[v].of, c # d PROVE InHand(w)' \cap InHand(v)' = {}
    <3>1. CASE Released(w) \/ Released(v)
      BY <3>1 DEF Released
    <3>2. CASE GoesOn(w) /\ GoesOn(v)
      <4>1. c \in clerks[w].of /\ d \in clerks[v].of /\ InHand(w)' = InHand(w) /\ InHand(v)' = InHand(v)
        BY <3>2 DEF GoesOn, InHand
      <4> QED BY <2>1, <4>1 DEF ReceiptsInv, Apart
    <3> QED BY <3>1, <3>2
  <2> QED BY <2>1 DEF Apart
<1> QED BY <1>5, <1>6, <1>7, <1>8 DEF ReceiptsInv

LEMMA SaveKeepsReceipts ==
  ASSUME ReceiptsInv, ClaimTypeOK, NEW w \in Clerks, NEW c \in Claims, NEW new \in SUBSET Receipts,
         SaveFiles(w, c, new)
  PROVE  ReceiptsInv'
<1>1. /\ clerks[w] = NoClerk /\ claims' = claims /\ crossed' = crossed \cup Crossing(w, c)
      /\ claims[c].status # "none" /\ \A r \in new : files[r] = "new"
      /\ \A r \in Receipts : files'[r] = IF r \in new THEN "saved" ELSE files[r]
  BY DEF SaveFiles, Exists
<1>2. /\ \A d \in Claims : claims[d].receipts \subseteq Receipts
      /\ \A v \in Clerks : clerks[v].of \subseteq Claims /\ InHand(v) \subseteq Receipts
  BY ClaimTypes DEF InHand
<1>3. \A v \in Clerks : clerks'[v] = IF v = w THEN Uploader(c, new) ELSE clerks[v]
  BY UploaderIs, ClaimTypes
<1>4. /\ clerks'[w].op = "attach" /\ clerks'[w].step = "saved" /\ clerks'[w].of = {c}
      /\ clerks'[w].new = new /\ InHand(w)' = new
  BY <1>3 DEF Uploader, InHand
<1>5. ASSUME NEW v \in Clerks, v # w
      PROVE  /\ clerks'[v] = clerks[v] /\ InHand(v)' = InHand(v)
             /\ \A d \in Claims : Opening(v, d)' <=> Opening(v, d)
             /\ \A d \in Claims : Changing(v, d)' <=> Changing(v, d)
  BY <1>3, <1>5 DEF InHand, Opening, Changing
<1>6. \A d \in Claims : Opening(w, d)' => d = c
  BY <1>4 DEF Opening
<1>7. \A v \in Clerks : v # w /\ Opening(v, c) => c \in crossed'
  BY <1>1 DEF Opening, Crossing, Rivals
<1>8. (\A d \in Claims : \A r \in claims[d].receipts : r \notin new)
      /\ (\A v \in Clerks : v # w => \A r \in InHand(v) : r \notin new)
  BY <1>1 DEF ReceiptsInv, FileInv, FilerInv
<1>9. ASSUME NEW d \in Claims PROVE FileInv(d)'
  <2>1. FileInv(d) /\ \A r \in claims[d].receipts : files'[r] = files[r]
    BY <1>1, <1>2, <1>8 DEF ReceiptsInv
  <2> QED BY <1>1, <2>1 DEF FileInv
<1>10. FilerInv(w)'
  <2>1. \A d \in Claims \ {c} : new \cap claims[d].receipts = {}
    BY <1>8
  <2>2. c \notin crossed' => \A v \in Clerks \ {w} : ~Opening(v, c)'
    BY <1>5, <1>7
  <2>3. ~Changing(w, c)'
    BY <1>4 DEF Changing
  <2> QED BY <1>1, <1>4, <2>1, <2>2, <2>3 DEF FilerInv
<1>11. ASSUME NEW v \in Clerks, v # w PROVE FilerInv(v)'
  <2>1. FilerInv(v) /\ clerks'[v] = clerks[v] /\ InHand(v)' = InHand(v)
    BY <1>5, <1>11 DEF ReceiptsInv
  <2>2. \A r \in InHand(v) : files'[r] # "new"
    BY <1>1, <1>2, <2>1 DEF FilerInv
  <2>3. ASSUME NEW d \in clerks[v].of, d \notin crossed', Opening(v, d)', NEW u \in Clerks \ {v}
        PROVE  ~Opening(u, d)'
    <3>1. d \in Claims /\ Opening(v, d) /\ d # c /\ d \notin crossed
      BY <1>1, <1>2, <1>5, <1>7, <1>11, <2>3
    <3>2. ~Opening(u, d)
      BY <2>1, <3>1 DEF FilerInv
    <3> QED BY <3>1, <3>2, <1>5, <1>6
  <2>4. \A d \in clerks[v].of : d \in Claims /\ (Changing(v, d)' <=> Changing(v, d))
    BY <1>2, <1>5, <1>11
  <2> QED BY <1>1, <2>1, <2>2, <2>3, <2>4 DEF FilerInv
<1>12. UploadInv(w)'
  BY <1>1, <1>4, <1>5, <1>8 DEF UploadInv
<1>13. ASSUME NEW v \in Clerks, v # w PROVE UploadInv(v)'
  <2>1. UploadInv(v) /\ clerks'[v] = clerks[v] /\ clerks[v].new \subseteq InHand(v)
    BY <1>5, <1>13 DEF ReceiptsInv, InHand
  <2>2. \A r \in clerks[v].new : r \in Receipts /\ r \notin new
    BY <1>2, <1>8, <1>13, <2>1
  <2>3. \A u \in Clerks \ {v} : clerks[v].op = "attach" => clerks[v].new \cap InHand(u)' = {}
    <3>1. SUFFICES ASSUME NEW u \in Clerks \ {v}, clerks[v].op = "attach" PROVE clerks[v].new \cap InHand(u)' = {}
      OBVIOUS
    <3>2. CASE u = w
      BY <1>4, <2>2, <3>2
    <3>3. CASE u # w
      BY <1>5, <2>1, <3>1, <3>3 DEF UploadInv
    <3> QED BY <3>2, <3>3
  <2> QED BY <1>1, <2>1, <2>2, <2>3 DEF UploadInv
<1>14. ASSUME NEW u \in Clerks, NEW v \in Clerks PROVE Apart(u, v)'
  <2>1. CASE u = w /\ v = w
    BY <1>4, <2>1 DEF Apart
  <2>2. CASE u = w /\ v # w
    BY <1>4, <1>5, <1>8, <2>2 DEF Apart
  <2>3. CASE u # w /\ v = w
    BY <1>4, <1>5, <1>8, <2>3 DEF Apart
  <2>4. CASE u # w /\ v # w
    BY <1>5, <2>4 DEF ReceiptsInv, Apart
  <2> QED BY <2>1, <2>2, <2>3, <2>4
<1> QED BY <1>9, <1>10, <1>11, <1>12, <1>13, <1>14 DEF ReceiptsInv

LEMMA ReadKeepsReceipts ==
  ASSUME ReceiptsInv, ClaimTypeOK, NEW w \in Clerks, NEW op \in {"edit", "delete"}, NEW c \in Claims,
         NEW a \in Amounts \cup {0}, NEW kept \in SUBSET Receipts, op = "delete" => kept = {},
         ReadForChange(w, op, c, a, kept)
  PROVE  ReceiptsInv'
<1>1. /\ claims' = claims /\ files' = files /\ crossed' = crossed \cup Crossing(w, c)
      /\ claims[c].status # "none" /\ kept \subseteq claims[c].receipts
  BY DEF ReadForChange
<1>2. \A v \in Clerks : clerks[v].of \subseteq Claims
  BY ClaimTypes
<1>3. \A v \in Clerks : clerks'[v] = IF v = w THEN Reader(op, c, a, kept) ELSE clerks[v]
  <2>1. clerks' = [clerks EXCEPT ![w] = Reader(op, c, a, kept)]
    BY ReaderIs
  <2> QED BY <2>1, ClaimTypes
<1>4. /\ clerks'[w].op = op /\ clerks'[w].step = "read" /\ clerks'[w].of = {c}
      /\ clerks'[w].old = claims[c].receipts /\ clerks'[w].new = kept /\ InHand(w)' = claims[c].receipts
  BY <1>1, <1>3 DEF Reader, InHand
<1>5. ASSUME NEW v \in Clerks, v # w
      PROVE  /\ clerks'[v] = clerks[v] /\ InHand(v)' = InHand(v)
             /\ \A d \in Claims : Opening(v, d)' <=> Opening(v, d)
             /\ \A d \in Claims : Changing(v, d)' <=> Changing(v, d)
  BY <1>3, <1>5 DEF InHand, Opening, Changing
<1>6. \A d \in Claims : Opening(w, d)' => d = c
  BY <1>4 DEF Opening
<1>7. \A v \in Clerks : v # w /\ Opening(v, c) => c \in crossed'
  BY <1>1 DEF Opening, Crossing, Rivals
<1>8. FileInv(c)
  BY DEF ReceiptsInv
<1>9. ASSUME NEW d \in Claims PROVE FileInv(d)'
  BY <1>1 DEF ReceiptsInv, FileInv
<1>10. FilerInv(w)'
  <2>1. \A d \in Claims \ {c} : claims[c].receipts \cap claims[d].receipts = {}
    BY <1>8 DEF FileInv
  <2>2. c \notin crossed' => \A v \in Clerks \ {w} : ~Opening(v, c)'
    BY <1>5, <1>7
  <2>3. \A r \in claims[c].receipts : files[r] # "new"
    BY <1>8 DEF FileInv
  <2> QED BY <1>1, <1>4, <2>1, <2>2, <2>3 DEF FilerInv
<1>11. ASSUME NEW v \in Clerks, v # w PROVE FilerInv(v)'
  <2>1. FilerInv(v) /\ clerks'[v] = clerks[v] /\ InHand(v)' = InHand(v)
    BY <1>5, <1>11 DEF ReceiptsInv
  <2>2. ASSUME NEW d \in clerks[v].of, d \notin crossed', Opening(v, d)', NEW u \in Clerks \ {v}
        PROVE  ~Opening(u, d)'
    <3>1. d \in Claims /\ Opening(v, d) /\ d # c /\ d \notin crossed
      BY <1>1, <1>2, <1>5, <1>7, <1>11, <2>2
    <3>2. ~Opening(u, d)
      BY <2>1, <3>1 DEF FilerInv
    <3> QED BY <3>1, <3>2, <1>5, <1>6
  <2>3. \A d \in clerks[v].of : d \in Claims /\ (Changing(v, d)' <=> Changing(v, d))
    BY <1>2, <1>5, <1>11
  <2> QED BY <1>1, <2>1, <2>2, <2>3 DEF FilerInv
<1>12. UploadInv(w)'
  BY <1>4 DEF UploadInv
<1>13. ASSUME NEW v \in Clerks, v # w PROVE UploadInv(v)'
  <2>1. UploadInv(v) /\ clerks'[v] = clerks[v]
    BY <1>5, <1>13 DEF ReceiptsInv
  <2>2. \A u \in Clerks \ {v} : clerks[v].op = "attach" => clerks[v].new \cap InHand(u)' = {}
    <3>1. SUFFICES ASSUME NEW u \in Clerks \ {v}, clerks[v].op = "attach" PROVE clerks[v].new \cap InHand(u)' = {}
      OBVIOUS
    <3>2. CASE u = w
      BY <1>4, <2>1, <3>1, <3>2 DEF UploadInv
    <3>3. CASE u # w
      BY <1>5, <2>1, <3>1, <3>3 DEF UploadInv
    <3> QED BY <3>2, <3>3
  <2> QED BY <1>1, <2>1, <2>2 DEF UploadInv
<1>14. ASSUME NEW v \in Clerks, v # w, NEW d \in clerks[v].of, d # c PROVE claims[c].receipts \cap InHand(v) = {}
  <2>1. d \in Claims /\ FilerInv(v) /\ c \in Claims \ {d}
    BY <1>2, <1>14 DEF ReceiptsInv
  <2> QED BY <2>1 DEF FilerInv
<1>15. ASSUME NEW u \in Clerks, NEW v \in Clerks PROVE Apart(u, v)'
  <2>1. CASE u = w /\ v = w
    BY <1>4, <2>1 DEF Apart
  <2>2. CASE u = w /\ v # w
    BY <1>4, <1>5, <1>14, <2>2 DEF Apart
  <2>3. CASE u # w /\ v = w
    BY <1>4, <1>5, <1>14, <2>3 DEF Apart
  <2>4. CASE u # w /\ v # w
    BY <1>5, <2>4 DEF ReceiptsInv, Apart
  <2> QED BY <2>1, <2>2, <2>3, <2>4
<1> QED BY <1>9, <1>10, <1>11, <1>12, <1>13, <1>15 DEF ReceiptsInv

LEMMA StoreKeepsReceipts ==
  ASSUME ReceiptsInv, ClaimTypeOK, NEW w \in Clerks, NEW c \in clerks[w].of,
         clerks[w].op \in {"edit", "delete"}, clerks[w].step = "read",
         Exists(c), claims' = [claims EXCEPT ![c] = Changed(w, @)],
         clerks' = [clerks EXCEPT ![w].step = "after"] \/ Finish(w),
         files' = files, crossed' = crossed
  PROVE  ReceiptsInv'
<1>1. /\ c \in Claims /\ claims[c].status # "none" /\ clerks[w].of = {c}
      /\ clerks[w].op # "pay" /\ FilerInv(w)
      /\ \A v \in Clerks : clerks[v].of \subseteq Claims
  BY ClaimTypes DEF ReceiptsInv, FilerInv, Exists
<1>2. PICK R : /\ claims'[c].receipts = R /\ claims'[c].status # "none" /\ R \subseteq clerks[w].new
               /\ \A d \in Claims \ {c} : claims'[d] = claims[d]
  <2>1. /\ claims[c] \in Claim /\ claims'[c] = Changed(w, claims[c]) /\ \A d \in Claims \ {c} : claims'[d] = claims[d]
    BY <1>1, ClaimTypes
  <2>2. CASE clerks[w].op = "edit"
    <3>1. claims'[c] = [claims[c] EXCEPT !.amount = clerks[w].amount, !.receipts = clerks[w].new]
      BY <2>1, <2>2 DEF Changed
    <3>2. PICK row, a, N : row = claims[c] /\ a = clerks[w].amount /\ N = clerks[w].new
      OBVIOUS
    <3>3. row \in Claim /\ claims'[c] = [row EXCEPT !.amount = a, !.receipts = N]
      BY <2>1, <3>1, <3>2
    <3>4. claims'[c].receipts = N /\ claims'[c].status = row.status
      BY ONLY <3>3 DEF Claim
    <3> QED BY <1>1, <2>1, <3>2, <3>4
  <2>3. CASE clerks[w].op = "delete"
    <3>1. claims'[c] = [claims[c] EXCEPT !.status = "deleted", !.receipts = {}]
      BY <2>1, <2>3 DEF Changed
    <3>2. PICK row : row = claims[c]
      OBVIOUS
    <3>3. row \in Claim /\ claims'[c] = [row EXCEPT !.status = "deleted", !.receipts = {}]
      BY <2>1, <3>1, <3>2
    <3>4. claims'[c].receipts = {} /\ claims'[c].status = "deleted"
      BY ONLY <3>3 DEF Claim
    <3> QED BY <2>1, <3>4
  <2> QED BY <2>2, <2>3
<1>3. /\ R \subseteq clerks[w].old /\ R \subseteq InHand(w)
  BY <1>1, <1>2 DEF FilerInv, InHand
<1>4. Opening(w, c) /\ Changing(w, c)
  BY DEF Opening, Changing
<1>5. ASSUME NEW v \in Clerks, v # w
      PROVE  /\ clerks'[v] = clerks[v] /\ InHand(v)' = InHand(v)
             /\ \A d \in Claims : Opening(v, d)' <=> Opening(v, d)
             /\ \A d \in Claims : Changing(v, d)' <=> Changing(v, d)
  <2>1. clerks'[v] = clerks[v]
    BY <1>5, ClaimTypes DEF Finish
  <2> QED BY <2>1 DEF InHand, Opening, Changing
<1>6. \/ /\ clerks'[w].op = clerks[w].op /\ clerks'[w].of = clerks[w].of /\ clerks'[w].step = "after"
         /\ clerks'[w].old = clerks[w].old /\ clerks'[w].new = clerks[w].new
      \/ clerks'[w] = NoClerk
  <2>1. clerks[w] \in Clerk /\ w \in DOMAIN clerks
    BY ClaimTypes
  <2>2. CASE clerks' = [clerks EXCEPT ![w].step = "after"]
    BY <2>1, <2>2 DEF Clerk
  <2>3. CASE Finish(w)
    BY <2>1, <2>3 DEF Finish
  <2> QED BY <2>2, <2>3
<1>7. InHand(w)' = InHand(w) \/ InHand(w)' = {}
  BY <1>6, NoClerkIs DEF InHand
<1>8. \A d \in Claims : ~Opening(w, d)' /\ ~Changing(w, d)'
  BY <1>6, NoClerkIs DEF Opening, Changing
<1>9. c \notin crossed => R \subseteq claims[c].receipts
  BY <1>1, <1>3, <1>4 DEF FilerInv
<1>10. FileInv(c)'
  <2>1. FileInv(c)
    BY <1>1 DEF ReceiptsInv
  <2>2. (\A r \in R : files[r] # "new") /\ (\A d \in Claims \ {c} : R \cap claims[d].receipts = {})
    BY <1>1, <1>3 DEF FilerInv
  <2>3. c \notin crossed => \A r \in R : files[r] = "saved"
    BY <1>9, <2>1 DEF FileInv
  <2> QED BY <1>2, <2>2, <2>3 DEF FileInv
<1>11. ASSUME NEW d \in Claims, d # c PROVE FileInv(d)'
  <2>1. FileInv(d) /\ claims'[d] = claims[d]
    BY <1>2, <1>11 DEF ReceiptsInv
  <2>2. \A e \in Claims \ {d} : claims[d].receipts \cap claims'[e].receipts = {}
    <3>1. SUFFICES ASSUME NEW e \in Claims \ {d} PROVE claims[d].receipts \cap claims'[e].receipts = {}
      OBVIOUS
    <3>2. CASE e = c
      BY <1>1, <1>2, <1>3, <1>11, <3>2 DEF FilerInv
    <3>3. CASE e # c
      BY <1>2, <2>1, <3>3 DEF FileInv
    <3> QED BY <3>2, <3>3
  <2> QED BY <2>1, <2>2 DEF FileInv
<1>12. FilerInv(w)'
  <2>1. CASE clerks'[w] = NoClerk
    BY <1>7, <2>1, NoClerkIs DEF FilerInv, InHand
  <2>2. CASE /\ clerks'[w].op = clerks[w].op /\ clerks'[w].of = clerks[w].of /\ clerks'[w].step = "after"
             /\ clerks'[w].old = clerks[w].old /\ clerks'[w].new = clerks[w].new
    <3>1. InHand(w)' = InHand(w) /\ (\A d \in Claims \ {c} : InHand(w) \cap claims'[d].receipts = {})
      BY <1>1, <1>2, <2>2 DEF FilerInv, InHand
    <3>2. (clerks[w].old \ clerks[w].new) \cap R = {}
      BY <1>2
    <3> QED BY <1>1, <1>2, <1>8, <2>2, <3>1, <3>2 DEF FilerInv
  <2> QED BY <1>6, <2>1, <2>2
<1>13. ASSUME NEW v \in Clerks, v # w PROVE FilerInv(v)'
  <2>1. FilerInv(v) /\ clerks'[v] = clerks[v] /\ InHand(v)' = InHand(v)
    BY <1>5, <1>13 DEF ReceiptsInv
  <2>2. ASSUME NEW d \in clerks[v].of
        PROVE  /\ claims'[d].status # "none"
               /\ \A e \in Claims \ {d} : InHand(v) \cap claims'[e].receipts = {}
    <3>1. d \in Claims /\ claims[d].status # "none"
      BY <1>1, <2>1, <2>2 DEF FilerInv
    <3>2. claims'[d].status # "none"
      BY <1>2, <3>1
    <3>3. ASSUME NEW e \in Claims \ {d} PROVE InHand(v) \cap claims'[e].receipts = {}
      <4>1. CASE e = c
        <5>1. InHand(v) \cap InHand(w) = {}
          BY <1>1, <2>2, <4>1 DEF ReceiptsInv, Apart
        <5> QED BY <5>1, <4>1, <1>2, <1>3
      <4>2. CASE e # c
        BY <1>2, <2>1, <2>2, <4>2 DEF FilerInv
      <4> QED BY <4>1, <4>2
    <3> QED BY <3>2, <3>3
  <2>3. ASSUME NEW d \in clerks[v].of, d \notin crossed
        PROVE  /\ Changing(v, d)' => clerks[v].old = claims'[d].receipts
               /\ clerks[v].step = "after" => (clerks[v].old \ clerks[v].new) \cap claims'[d].receipts = {}
               /\ Opening(v, d)' => \A u \in Clerks \ {v} : ~Opening(u, d)'
    <3>1. /\ d \in Claims
          /\ Changing(v, d)' <=> Changing(v, d)
          /\ Opening(v, d)' <=> Opening(v, d)
      BY <1>1, <1>5, <1>13, <2>3
    <3>2. /\ Changing(v, d) => clerks[v].old = claims[d].receipts
          /\ clerks[v].step = "after" => (clerks[v].old \ clerks[v].new) \cap claims[d].receipts = {}
          /\ Opening(v, d) => \A u \in Clerks \ {v} : ~Opening(u, d)
      BY <2>1, <2>3 DEF FilerInv
    <3>3. Opening(v, d)' => \A u \in Clerks \ {v} : ~Opening(u, d)'
      BY <1>1, <1>5, <1>8, <1>13, <2>3, <3>2
    <3>4. CASE d # c
      BY <1>1, <1>2, <1>5, <1>13, <2>3, <3>2, <3>3, <3>4
    <3>5. CASE d = c
      <4>1. ~Opening(v, c) /\ ~Changing(v, c)
        <5>1. ~Opening(v, c)
          BY <1>1, <1>4, <1>13, <2>3, <3>5 DEF FilerInv
        <5> QED BY <5>1 DEF Opening, Changing
      <4> QED BY <1>1, <1>2, <1>5, <1>9, <1>13, <2>3, <3>2, <3>3, <3>5, <4>1
    <3> QED BY <3>4, <3>5
  <2> QED BY <2>1, <2>2, <2>3 DEF FilerInv
<1>14. ASSUME NEW v \in Clerks PROVE UploadInv(v)'
  <2>1. SUFFICES ASSUME clerks'[v].op = "attach" PROVE UploadInv(v)'
    BY DEF UploadInv
  <2>2. v # w
    BY <1>6, <2>1, NoClerkIs
  <2>3. clerks'[v] = clerks[v] /\ UploadInv(v)
    BY <1>5, <2>2 DEF ReceiptsInv
  <2>4. \A u \in Clerks \ {v} : clerks[v].new \cap InHand(u)' = {}
    BY <1>5, <1>7, <2>1, <2>3 DEF UploadInv
  <2>5. \A d \in Claims : clerks[v].new \cap claims'[d].receipts = {}
    <3>1. clerks[v].new \cap InHand(w) = {}
      BY <2>1, <2>2, <2>3 DEF UploadInv
    <3> QED BY <1>2, <1>3, <2>1, <2>3, <3>1 DEF UploadInv
  <2> QED BY <2>1, <2>3, <2>4, <2>5 DEF UploadInv
<1>15. ASSUME NEW u \in Clerks, NEW v \in Clerks PROVE Apart(u, v)'
  <2>1. ASSUME NEW x \in Clerks PROVE InHand(x)' = {} \/ (InHand(x)' = InHand(x) /\ clerks'[x].of \subseteq clerks[x].of)
    BY <1>5, <1>6, <1>7, NoClerkIs DEF InHand
  <2> QED BY <2>1 DEF ReceiptsInv, Apart
<1> QED BY <1>10, <1>11, <1>12, <1>13, <1>14, <1>15 DEF ReceiptsInv

LEMMA AddKeepsReceipts ==
  ASSUME ReceiptsInv, ClaimTypeOK, NEW w \in Clerks, NEW c \in clerks[w].of,
         clerks[w].op = "attach", Exists(c),
         claims' = [claims EXCEPT ![c].receipts = @ \cup clerks[w].new], Finish(w),
         \/ files' = files /\ crossed' = crossed
         \/ files' = Removed(clerks[w].new) /\ crossed' = crossed \cup {c}
  PROVE  ReceiptsInv'
<1> DEFINE N == clerks[w].new
<1>1. /\ c \in Claims /\ claims[c].status # "none" /\ clerks[w].of = {c} /\ FilerInv(w) /\ UploadInv(w)
      /\ \A v \in Clerks : /\ clerks[v].of \subseteq Claims /\ InHand(v) \subseteq Receipts
                           /\ clerks[v].new \subseteq InHand(v)
      /\ \A d \in Claims : claims[d].receipts \subseteq Receipts
  BY ClaimTypes DEF ReceiptsInv, FilerInv, Exists, InHand
<1>2. /\ claims'[c].receipts = claims[c].receipts \cup N /\ claims'[c].status = claims[c].status
      /\ \A d \in Claims \ {c} : claims'[d] = claims[d]
  <2>1. claims[c] \in Claim /\ DOMAIN claims = Claims
    BY <1>1, ClaimTypes
  <2> QED BY <1>1, <2>1 DEF Claim
<1>3. Opening(w, c)
  BY <1>1 DEF Opening, FilerInv
<1>4. /\ (\A r \in N : files[r] = "saved") /\ (\A d \in Claims : N \cap claims[d].receipts = {})
      /\ (\A v \in Clerks \ {w} : N \cap InHand(v) = {})
  BY <1>1 DEF UploadInv
<1>5. ASSUME NEW v \in Clerks, v # w
      PROVE  /\ clerks'[v] = clerks[v] /\ InHand(v)' = InHand(v)
             /\ \A d \in Claims : Opening(v, d)' <=> Opening(v, d)
             /\ \A d \in Claims : Changing(v, d)' <=> Changing(v, d)
  <2>1. clerks'[v] = clerks[v]
    BY <1>5, ClaimTypes DEF Finish
  <2> QED BY <2>1 DEF InHand, Opening, Changing
<1>6. /\ clerks'[w] = NoClerk /\ InHand(w)' = {}
      /\ \A d \in Claims : ~Opening(w, d)' /\ ~Changing(w, d)'
  BY NoClerkIs, ClaimTypes DEF Finish, InHand, Opening, Changing
<1>7. \A r \in Receipts : files'[r] = files[r] \/ (files'[r] = "removed" /\ r \in N /\ c \in crossed')
  BY DEF Removed
<1>8. crossed \subseteq crossed'
  OBVIOUS
<1> HIDE DEF N
<1>9. FileInv(c)'
  <2>1. FileInv(c)
    BY <1>1 DEF ReceiptsInv
  <2>2. N \subseteq Receipts /\ N \subseteq InHand(w)
    BY <1>1 DEF N
  <2>3. \A r \in claims[c].receipts \cup N : files'[r] # "new"
    BY <1>1, <1>4, <1>7, <2>1, <2>2 DEF FileInv
  <2>4. c \notin crossed' => \A r \in claims[c].receipts \cup N : files'[r] = "saved"
    BY <1>1, <1>4, <1>7, <1>8, <2>1, <2>2 DEF FileInv
  <2>5. \A d \in Claims \ {c} : (claims[c].receipts \cup N) \cap claims'[d].receipts = {}
    BY <1>2, <1>4, <2>1 DEF FileInv
  <2> QED BY <1>1, <1>2, <2>3, <2>4, <2>5 DEF FileInv
<1>10. ASSUME NEW d \in Claims, d # c PROVE FileInv(d)'
  <2>1. FileInv(d) /\ claims'[d] = claims[d] /\ \A r \in claims[d].receipts : files'[r] = files[r]
    BY <1>1, <1>2, <1>4, <1>7, <1>10 DEF ReceiptsInv
  <2>2. \A e \in Claims \ {d} : claims[d].receipts \cap claims'[e].receipts = {}
    BY <1>2, <1>4, <2>1 DEF FileInv
  <2> QED BY <1>8, <2>1, <2>2 DEF FileInv
<1>11. FilerInv(w)'
  BY <1>6, NoClerkIs DEF FilerInv
<1>12. ASSUME NEW v \in Clerks, v # w PROVE FilerInv(v)'
  <2>1. FilerInv(v) /\ clerks'[v] = clerks[v] /\ InHand(v)' = InHand(v)
    BY <1>5, <1>12 DEF ReceiptsInv
  <2>2. \A r \in InHand(v) : files'[r] # "new"
    BY <1>1, <1>7, <2>1 DEF FilerInv
  <2>3. ASSUME NEW d \in clerks[v].of
        PROVE  /\ claims'[d].status # "none"
               /\ \A e \in Claims \ {d} : InHand(v) \cap claims'[e].receipts = {}
    <3>1. d \in Claims /\ claims[d].status # "none"
      BY <1>1, <2>1, <2>3 DEF FilerInv
    <3>2. claims'[d].status # "none"
      BY <1>2, <3>1
    <3>3. ASSUME NEW e \in Claims \ {d} PROVE InHand(v) \cap claims'[e].receipts = {}
      <4>1. InHand(v) \cap claims[e].receipts = {} /\ N \cap InHand(v) = {}
        BY <1>4, <1>12, <2>1, <2>3 DEF FilerInv
      <4> QED BY <4>1, <1>2
    <3> QED BY <3>2, <3>3
  <2>4. ASSUME NEW d \in clerks[v].of, d \notin crossed'
        PROVE  /\ Changing(v, d)' => clerks[v].old = claims'[d].receipts
               /\ clerks[v].step = "after" => (clerks[v].old \ clerks[v].new) \cap claims'[d].receipts = {}
               /\ Opening(v, d)' => \A u \in Clerks \ {v} : ~Opening(u, d)'
    <3>1. /\ d \in Claims /\ d \notin crossed
          /\ Changing(v, d)' <=> Changing(v, d)
          /\ Opening(v, d)' <=> Opening(v, d)
      BY <1>1, <1>5, <1>8, <1>12, <2>4
    <3>2. /\ Changing(v, d) => clerks[v].old = claims[d].receipts
          /\ clerks[v].step = "after" => (clerks[v].old \ clerks[v].new) \cap claims[d].receipts = {}
          /\ Opening(v, d) => \A u \in Clerks \ {v} : ~Opening(u, d)
      BY <2>1, <2>4, <3>1 DEF FilerInv
    <3>3. Opening(v, d)' => \A u \in Clerks \ {v} : ~Opening(u, d)'
      BY <1>5, <1>6, <1>12, <3>1, <3>2
    <3>4. CASE d # c
      BY <1>2, <3>1, <3>2, <3>3, <3>4
    <3>5. CASE d = c
      <4>1. ~Opening(v, c) /\ ~Changing(v, c)
        <5>1. ~Opening(v, c)
          BY <1>1, <1>3, <1>12, <3>1, <3>5 DEF FilerInv
        <5> QED BY <5>1 DEF Opening, Changing
      <4>2. (clerks[v].old \ clerks[v].new) \cap N = {}
        BY <1>4, <1>12 DEF InHand
      <4> QED BY <1>2, <3>1, <3>2, <3>3, <3>5, <4>1, <4>2
    <3> QED BY <3>4, <3>5
  <2> QED BY <2>1, <2>2, <2>3, <2>4 DEF FilerInv
<1>13. ASSUME NEW v \in Clerks PROVE UploadInv(v)'
  <2>1. SUFFICES ASSUME clerks'[v].op = "attach" PROVE UploadInv(v)'
    BY DEF UploadInv
  <2>2. v # w
    BY <1>6, <2>1, NoClerkIs
  <2>3. clerks'[v] = clerks[v] /\ UploadInv(v)
    BY <1>5, <2>2 DEF ReceiptsInv
  <2>4. clerks[v].new \cap N = {} /\ clerks[v].new \subseteq Receipts
    BY <1>1, <1>4, <2>2
  <2>5. \A r \in clerks[v].new : files'[r] = "saved"
    BY <1>7, <2>1, <2>3, <2>4 DEF UploadInv
  <2>6. \A u \in Clerks \ {v} : clerks[v].new \cap InHand(u)' = {}
    BY <1>5, <1>6, <2>1, <2>3 DEF UploadInv
  <2>7. \A d \in Claims : clerks[v].new \cap claims'[d].receipts = {}
    BY <1>2, <2>1, <2>3, <2>4 DEF UploadInv
  <2> QED BY <2>1, <2>3, <2>5, <2>6, <2>7 DEF UploadInv
<1>14. ASSUME NEW u \in Clerks, NEW v \in Clerks PROVE Apart(u, v)'
  <2>1. ASSUME NEW x \in Clerks PROVE InHand(x)' = {} \/ (InHand(x)' = InHand(x) /\ clerks'[x].of \subseteq clerks[x].of)
    BY <1>5, <1>6
  <2> QED BY <2>1 DEF ReceiptsInv, Apart
<1> QED BY <1>9, <1>10, <1>11, <1>12, <1>13, <1>14 DEF ReceiptsInv

LEMMA FinishReleases ==
  ASSUME ClaimTypeOK, NEW w \in Clerks, Finish(w)
  PROVE  \A v \in Clerks : Released(v) \/ GoesOn(v)
<1>1. SUFFICES ASSUME NEW v \in Clerks PROVE Released(v) \/ GoesOn(v)
  OBVIOUS
<1>2. clerks'[v] = IF v = w THEN NoClerk ELSE clerks[v]
  BY ClaimTypes DEF Finish
<1> QED BY <1>2, NoClerkIs DEF Released, GoesOn, InHand

(* Removing the files of an upload, or what an edit took off the claim. *)
LEMMA DiscardCalm ==
  ASSUME ReceiptsInv, ClaimTypeOK, ClaimTypeOK', NEW w \in Clerks, clerks[w].op = "attach",
         DiscardFiles(w), claims' = claims, crossed' = crossed
  PROVE  ReceiptsInv'
<1>1. UploadInv(w) /\ Finish(w) /\ files' = Removed(clerks[w].new)
  BY DEF ReceiptsInv, DiscardFiles
<1>2. \A v \in Clerks : clerks'[v] = IF v = w THEN NoClerk ELSE clerks[v]
  BY <1>1, ClaimTypes DEF Finish
<1>3. ASSUME NEW r \in Receipts
      PROVE  \/ files'[r] = files[r]
             \/ /\ files'[r] = "removed"
                /\ \A c \in Claims \ crossed' : r \notin claims[c].receipts
                /\ \A v \in Clerks : clerks'[v].op = "attach" => r \notin clerks[v].new
  <2>1. CASE r \notin clerks[w].new
    BY <1>1, <2>1 DEF Removed
  <2>2. CASE r \in clerks[w].new
    BY <1>1, <1>2, <2>2, NoClerkIs DEF Removed, UploadInv, InHand
  <2> QED BY <2>1, <2>2
<1>4. \A v \in Clerks : Released(v) \/ GoesOn(v)
  BY <1>1, FinishReleases
<1> QED BY <1>3, <1>4, CalmReceipts

LEMMA RemoveCalm ==
  ASSUME ReceiptsInv, ClaimTypeOK, ClaimTypeOK', NEW w \in Clerks, RemoveFiles(w)
  PROVE  ReceiptsInv'
<1>1. /\ FilerInv(w) /\ Finish(w) /\ files' = Removed(clerks[w].old \ clerks[w].new)
      /\ clerks[w].step = "after" /\ UNCHANGED <<claims, crossed>>
  BY DEF ReceiptsInv, RemoveFiles
<1>2. \A v \in Clerks : clerks'[v] = IF v = w THEN NoClerk ELSE clerks[v]
  BY <1>1, ClaimTypes DEF Finish
<1>3. ASSUME NEW r \in Receipts
      PROVE  \/ files'[r] = files[r]
             \/ /\ files'[r] = "removed"
                /\ \A c \in Claims \ crossed' : r \notin claims[c].receipts
                /\ \A v \in Clerks : clerks'[v].op = "attach" => r \notin clerks[v].new
  <2>1. CASE r \notin clerks[w].old \ clerks[w].new
    BY <1>1, <2>1 DEF Removed
  <2>2. CASE r \in clerks[w].old \ clerks[w].new
    <3>1. r \in InHand(w) /\ files'[r] = "removed"
      BY <1>1, <2>2 DEF Removed, InHand
    <3>2. PICK c \in Claims : clerks[w].of = {c}
      <4>1. clerks[w] \in Clerk /\ clerks[w].of \subseteq Claims /\ clerks[w].op \notin {"none", "pay"}
        BY <1>1, <3>1, ClaimTypes DEF FilerInv
      <4>2. clerks[w].of # {}
        BY <1>1, <4>1 DEF FilerInv, Clerk
      <4> QED BY <1>1, <4>1, <4>2 DEF FilerInv
    <3>3. ASSUME NEW d \in Claims \ crossed PROVE r \notin claims[d].receipts
      <4>1. CASE d = c
        BY <1>1, <2>2, <3>2, <4>1 DEF FilerInv
      <4>2. CASE d # c
        BY <1>1, <3>1, <3>2, <4>2 DEF FilerInv
      <4> QED BY <4>1, <4>2
    <3>4. ASSUME NEW v \in Clerks, clerks'[v].op = "attach" PROVE r \notin clerks[v].new
      <4>1. v # w /\ clerks[v].op = "attach" /\ UploadInv(v)
        BY <1>2, <3>4, NoClerkIs DEF ReceiptsInv
      <4> QED BY <4>1, <3>1 DEF UploadInv
    <3> QED BY <1>1, <3>1, <3>3, <3>4
  <2> QED BY <2>1, <2>2
<1>4. \A v \in Clerks : Released(v) \/ GoesOn(v)
  BY <1>1, FinishReleases
<1> QED BY <1>1, <1>3, <1>4, CalmReceipts

LEMMA ReceiptsInitially == ASSUME ClaimInit PROVE ReceiptsInv
<1>1. /\ \A c \in Claims : claims[c] = NoClaim
      /\ \A w \in Clerks : clerks[w] = NoClerk
      /\ NoClaim.receipts = {} /\ NoClaim.status = "none"
  BY DEF ClaimInit, NoClaim
<1>2. \A c \in Claims : FileInv(c)
  BY <1>1 DEF FileInv
<1>3. \A w \in Clerks : InHand(w) = {}
  BY <1>1, NoClerkIs DEF InHand
<1>4. \A w \in Clerks : FilerInv(w) /\ UploadInv(w)
  BY <1>1, <1>3, NoClerkIs DEF FilerInv, UploadInv
<1>5. \A w, v \in Clerks : Apart(w, v)
  BY <1>3 DEF Apart
<1> QED BY <1>2, <1>4, <1>5 DEF ReceiptsInv

LEMMA ReceiptsStep ==
  ASSUME ReceiptsInv, ClaimTypeOK, ClaimTypeOK', [ClaimNext]_claimVars
  PROVE  ReceiptsInv'
<1>1. CASE UNCHANGED claimVars
  <2>1. UNCHANGED <<claims, files, crossed, clerks>>
    BY <1>1 DEF claimVars
  <2>2. \A v \in Clerks : GoesOn(v)
    BY <2>1 DEF GoesOn
  <2> QED BY <2>1, <2>2, CalmReceipts
<1>2. ASSUME NEW c \in Claims, NEW a \in Amounts, CreateClaim(c, a) PROVE ReceiptsInv'
  <2>1. UNCHANGED <<files, clerks, crossed>>
    BY <1>2 DEF CreateClaim
  <2>2. \A d \in Claims : /\ claims'[d].receipts = claims[d].receipts
                          /\ claims'[d].status = "none" => claims[d].status = "none"
    <3>1. /\ FileInv(c) /\ claims[c].status = "none"
          /\ claims' = [claims EXCEPT ![c] = [status |-> "submitted", amount |-> a, receipts |-> {}]]
      BY <1>2 DEF CreateClaim, ReceiptsInv
    <3> QED BY <3>1, ClaimTypes DEF FileInv
  <2>3. \A v \in Clerks : Released(v) \/ GoesOn(v)
    BY <2>1 DEF GoesOn
  <2>4. crossed \subseteq crossed' /\ \A r \in Receipts : files'[r] = files[r]
    BY <2>1
  <2> QED BY <2>2, <2>3, <2>4, CalmReceipts
<1>3. ASSUME NEW S \in SUBSET Claims, NEW decision \in Decisions, ReviewClaims(S, decision) PROVE ReceiptsInv'
  <2>1. UNCHANGED <<files, clerks, crossed>>
    BY <1>3 DEF ReviewClaims
  <2>2. ASSUME NEW d \in Claims
        PROVE  /\ claims'[d].receipts = claims[d].receipts
               /\ claims'[d].status = "none" => claims[d].status = "none"
    <3>1. claims[d] \in Claim /\ (claims'[d] = claims[d] \/ claims'[d] = [claims[d] EXCEPT !.status = decision])
      BY <1>3, ClaimTypes DEF ReviewClaims
    <3> QED BY <3>1 DEF Claim, Decisions
  <2>3. \A v \in Clerks : GoesOn(v)
    BY <2>1 DEF GoesOn
  <2> QED BY <2>1, <2>2, <2>3, CalmReceipts
<1>4. ASSUME NEW w \in Clerks, StoreChange(w) PROVE ReceiptsInv'
  <2>1. /\ clerks[w].op \in {"edit", "delete"} /\ clerks[w].step = "read"
        /\ UNCHANGED <<files, crossed>>
    BY <1>4 DEF StoreChange
  <2>2. PICK c \in clerks[w].of :
         \/ Finish(w) /\ UNCHANGED claims
         \/ /\ Exists(c) /\ FreeOfPayments(c)
            /\ claims' = [claims EXCEPT ![c] = Changed(w, @)]
            /\ \/ clerks' = [clerks EXCEPT ![w].step = "after"]
               \/ clerks[w].op = "edit" /\ Finish(w)
    BY <1>4 DEF StoreChange
  <2>3. CASE Finish(w) /\ UNCHANGED claims
    BY <2>1, <2>3, FinishReleases, CalmReceipts
  <2>4. CASE /\ Exists(c) /\ claims' = [claims EXCEPT ![c] = Changed(w, @)]
             /\ clerks' = [clerks EXCEPT ![w].step = "after"] \/ Finish(w)
    BY <2>1, <2>4, StoreKeepsReceipts
  <2> QED BY <2>2, <2>3, <2>4
<1>5. ASSUME NEW w \in Clerks, RemoveFiles(w) PROVE ReceiptsInv'
  BY <1>5, RemoveCalm
<1>6. ASSUME NEW w \in Clerks, CheckUpload(w) PROVE ReceiptsInv'
  <2>1. /\ clerks[w].op = "attach" /\ clerks[w].step = "saved" /\ claims' = claims /\ crossed' = crossed
        /\ DiscardFiles(w) \/ (clerks' = [clerks EXCEPT ![w].step = "read"] /\ files' = files)
    BY <1>6 DEF CheckUpload
  <2>2. CASE DiscardFiles(w)
    BY <2>1, <2>2, DiscardCalm
  <2>3. CASE clerks' = [clerks EXCEPT ![w].step = "read"] /\ files' = files
    <3>1. ASSUME NEW v \in Clerks PROVE GoesOn(v)
      <4>1. clerks[v] \in Clerk /\ clerks'[v] = IF v = w THEN [clerks[w] EXCEPT !.step = "read"] ELSE clerks[v]
        BY <2>3, ClaimTypes
      <4>2. CASE v = w
        BY <2>1, <4>1, <4>2 DEF GoesOn, Clerk
      <4>3. CASE v # w
        BY <4>1, <4>3 DEF GoesOn
      <4> QED BY <4>2, <4>3
    <3> QED BY <2>1, <2>3, <3>1, CalmReceipts
  <2> QED BY <2>1, <2>2, <2>3
<1>7. ASSUME NEW w \in Clerks, AddAttachments(w) PROVE ReceiptsInv'
  <2>1. clerks[w].op = "attach"
    BY <1>7 DEF AddAttachments
  <2>2. PICK c \in clerks[w].of :
         \/ /\ Exists(c) /\ FreeOfPayments(c)
            /\ claims' = [claims EXCEPT ![c].receipts = @ \cup clerks[w].new]
            /\ \/ Finish(w) /\ UNCHANGED <<files, crossed>>
               \/ DiscardFiles(w) /\ crossed' = crossed \cup {c}
         \/ DiscardFiles(w) /\ UNCHANGED <<claims, crossed>>
    BY <1>7 DEF AddAttachments
  <2>3. CASE DiscardFiles(w) /\ UNCHANGED <<claims, crossed>>
    BY <2>1, <2>3, DiscardCalm
  <2>4. CASE /\ Exists(c) /\ claims' = [claims EXCEPT ![c].receipts = @ \cup clerks[w].new]
             /\ \/ Finish(w) /\ UNCHANGED <<files, crossed>>
                \/ DiscardFiles(w) /\ crossed' = crossed \cup {c}
    <3>1. /\ Finish(w)
          /\ \/ files' = files /\ crossed' = crossed
             \/ files' = Removed(clerks[w].new) /\ crossed' = crossed \cup {c}
      BY <2>4 DEF DiscardFiles
    <3> QED BY <2>1, <2>4, <3>1, AddKeepsReceipts
  <2> QED BY <2>2, <2>3, <2>4
<1>8. ASSUME NEW w \in Clerks, CommitPayment(w) PROVE ReceiptsInv'
  <2>1. Finish(w) /\ UNCHANGED <<files, crossed>>
    BY <1>8 DEF CommitPayment
  <2>2. ASSUME NEW d \in Claims
        PROVE  /\ claims'[d].receipts = claims[d].receipts
               /\ claims'[d].status = "none" => claims[d].status = "none"
    <3>1. claims[d] \in Claim /\ (claims'[d] = claims[d] \/ claims'[d] = [claims[d] EXCEPT !.status = "paid"])
      BY <1>8, ClaimTypes DEF CommitPayment
    <3> QED BY <3>1 DEF Claim
  <2> QED BY <2>1, <2>2, FinishReleases, CalmReceipts
<1>9. ASSUME NEW w \in Clerks, RollBackPayment(w) PROVE ReceiptsInv'
  <2>1. Finish(w) /\ UNCHANGED <<claims, files, crossed>>
    BY <1>9 DEF RollBackPayment
  <2> QED BY <2>1, FinishReleases, CalmReceipts
<1>10. ASSUME NEW w \in Clerks, NEW S \in SUBSET Claims, MarkPaid(w, S) PROVE ReceiptsInv'
  <2>1. UNCHANGED <<claims, files, crossed>>
    BY <1>10 DEF MarkPaid
  <2>2. PICK k \in Clerk :
            /\ clerks' = [clerks EXCEPT ![w] = k]
            /\ k.op = "pay" /\ k.step = "idle" /\ k.of = {c \in S : Payable(c)}
            /\ k.done = {} /\ k.old = {} /\ k.new = {}
    BY <1>10, PayerIs
  <2>3. ASSUME NEW v \in Clerks PROVE Released(v) \/ GoesOn(v)
    <3>1. clerks'[v] = IF v = w THEN k ELSE clerks[v]
      BY <2>2, ClaimTypes
    <3>2. \A c \in k.of : claims[c].status # "none"
      BY <2>2 DEF Payable
    <3>3. CASE v = w
      BY <2>2, <3>1, <3>2, <3>3 DEF Released, InHand
    <3>4. CASE v # w
      BY <3>1, <3>4 DEF GoesOn
    <3> QED BY <3>3, <3>4
  <2> QED BY <2>1, <2>3, CalmReceipts
<1>11. ASSUME NEW w \in Clerks, NEW c \in Claims, ReadClaimForDelete(w, c) PROVE ReceiptsInv'
  <2>1. ReadForChange(w, "delete", c, 0, {})
    BY <1>11 DEF ReadClaimForDelete
  <2> QED BY <2>1, ReadKeepsReceipts
<1>12. ASSUME NEW w \in Clerks, NEW c \in Claims, RecordOutcome(w, c) PROVE ReceiptsInv'
  <2>1. /\ UNCHANGED <<claims, files, crossed>> /\ clerks' = [clerks EXCEPT ![w].done = @ \cup {c}]
    BY <1>12 DEF RecordOutcome
  <2>2. ASSUME NEW v \in Clerks PROVE GoesOn(v)
    <3>1. clerks[v] \in Clerk /\ clerks'[v] = IF v = w THEN [clerks[w] EXCEPT !.done = clerks[w].done \cup {c}] ELSE clerks[v]
      BY <2>1, ClaimTypes
    <3>2. CASE v = w
      BY <3>1, <3>2 DEF GoesOn, Clerk
    <3>3. CASE v # w
      BY <3>1, <3>3 DEF GoesOn
    <3> QED BY <3>2, <3>3
  <2> QED BY <2>1, <2>2, CalmReceipts
<1>13. ASSUME NEW w \in Clerks, NEW c \in Claims, NEW S \in SUBSET Receipts, SaveFiles(w, c, S) PROVE ReceiptsInv'
  BY <1>13, SaveKeepsReceipts
<1>14. ASSUME NEW w \in Clerks, NEW c \in Claims, NEW S \in SUBSET Receipts, NEW a \in Amounts,
              ReadClaimForEdit(w, c, a, S)
       PROVE  ReceiptsInv'
  <2>1. ReadForChange(w, "edit", c, a, S)
    BY <1>14 DEF ReadClaimForEdit
  <2> QED BY <2>1, ReadKeepsReceipts
<1>15. ASSUME StopClerks PROVE ReceiptsInv'
  <2>1. UNCHANGED <<claims, files, crossed>> /\ \A v \in Clerks : clerks'[v] = NoClerk
    BY <1>15 DEF StopClerks
  <2>2. \A v \in Clerks : Released(v)
    BY <2>1, NoClerkIs DEF Released, InHand
  <2> QED BY <2>1, <2>2, CalmReceipts
<1>16. ASSUME NEW e \in Entries,
              \/ DeleteRecord(e) \/ SubmitRecord(e)
              \/ \E a \in Amounts : CreateRecord(e, a) \/ UpdateRecord(e, a)
              \/ \E decision \in Decisions : ReviewRecord(e, decision)
       PROVE  ReceiptsInv'
  <2>1. UNCHANGED <<claims, files, clerks, crossed>>
    BY <1>16 DEF DeleteRecord, SubmitRecord, CreateRecord, UpdateRecord, ReviewRecord, SetEntry
  <2>2. \A v \in Clerks : GoesOn(v)
    BY <2>1 DEF GoesOn
  <2> QED BY <2>1, <2>2, CalmReceipts
<1> QED
  BY <1>1, <1>2, <1>3, <1>4, <1>5, <1>6, <1>7, <1>8, <1>9, <1>10, <1>11, <1>12, <1>13, <1>14, <1>15, <1>16
  DEF ClaimNext

(* The inductive invariant of the receipts: no two claims, no two requests on two claims   *)
(* and no upload with anybody have a file in common, and as long as changes did not cross  *)
(* an edit has read what the claim still lists.                                    *)
THEOREM ReceiptsAlwaysSound == ClaimSpec => []ReceiptsInv
<1>1. ClaimInit => ReceiptsInv
  BY ReceiptsInitially
<1>2. ReceiptsInv /\ ClaimTypeOK /\ ClaimTypeOK' /\ [ClaimNext]_claimVars => ReceiptsInv'
  BY ReceiptsStep
<1> QED BY <1>1, <1>2, ClaimsTypeCorrect, PTL DEF ClaimSpec

(* A receipt a claim lists is on disk, unless two requests changed the claim's receipts  *)
(* at once or an upload reported an error after its commit.                          *)
THEOREM ListedReceiptsAreKept == ClaimSpec => []ReceiptsAreKept
<1>1. ReceiptsInv => ReceiptsAreKept
  BY DEF ReceiptsInv, FileInv, ReceiptsAreKept
<1> QED BY <1>1, ReceiptsAlwaysSound, PTL

===============================================================================
