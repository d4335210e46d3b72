------------------------------ MODULE OrderBook ------------------------------
(***************************************************************************)
(* The order book of one symbol (engine/orderbook.go): Submit and Cancel   *)
(* run under the book's mutex, Submit loop iteration by loop iteration,    *)
(* and Submit sends its trades on a bounded channel before it lets go of   *)
(* the mutex.  The channel is read by the publisher's goroutine.           *)
(*                                                                         *)
(* Under the mutex TryFill and TryCancel are atomic (Order.tla, theorem    *)
(* SerialRefines), so each is part of the action that calls it.            *)
(*                                                                         *)
(* A price level is named by its side and its price: the code makes a      *)
(* level when it enters it in the map and in the heap.  A heap of levels   *)
(* is the set of their prices, since container/heap keeps the best one at  *)
(* index 0.                                                                *)
(***************************************************************************)
EXTENDS SequencesExt, PriceTime

CONSTANTS
  Orders,            (* the orders of this symbol; an order is its own ID  *)
  NoOrder,
  MinPrice,          (* bounds of the prices submitted, for the model only *)
  MaxPrice,
  MaxQty,            (* bound of the quantities submitted                  *)
  TradeChCap         (* the capacity of tradeOutCh                         *)

Prices == MinPrice .. MaxPrice

ASSUME OrderBookAssumption ==
  /\ IsFiniteSet(Orders)
  /\ NoOrder \notin Orders
  /\ MinPrice \in Int /\ MaxPrice \in Int /\ MinPrice <= MaxPrice
  /\ MaxQty \in Nat \ {0}
  /\ TradeChCap \in Nat \ {0}

VARIABLES
  req,               (* Side, Type, Price and Quantity of each order       *)
  rank,              (* history: when Submit took the mutex for it; 0: not yet *)
  status,
  filled,            (* FilledQty                                          *)
  level,             (* the orders of each priceLevel, in queue order      *)
  heap,              (* bids, asks: the prices of the levels in the heap   *)
  levelMap,          (* bidMap, askMap: the prices of the levels in the map *)
  orderMap,          (* the orders a Cancel can find                       *)
  pc,                (* where the call that holds the mutex is             *)
  taker,             (* the order being submitted                          *)
  remaining,         (* the taker's quantity still to match                *)
  best,              (* the price of the level being matched               *)
  skipCount,
  trades,            (* the trades of this Submit not yet sent             *)
  tradeCh,           (* tradeOutCh's buffer                                *)
  published,         (* history: the trades received from tradeOutCh       *)
  reply,             (* the last call was this Cancel and returned this    *)
  cancelledQty       (* history: CancelledQty of the Cancel that succeeded *)

orderVars == <<req, rank, status, filled>>
bookVars == <<level, heap, levelMap, orderMap>>
callVars == <<pc, taker, remaining, best, skipCount>>
outVars == <<trades, tradeCh, published>>
clientVars == <<reply, cancelledQty>>
vars == <<orderVars, bookVars, callVars, outVars, clientVars>>

Sides == {"buy", "sell"}
Opposite(side) == IF side = "buy" THEN "sell" ELSE "buy"

LimitRequests == [side : Sides, type : {"limit"}, price : Prices, qty : 1..MaxQty]
(* A market order's price is never looked at. *)
MarketRequests == [side : Sides, type : {"market"}, price : {MinPrice}, qty : 1..MaxQty]
Requests == LimitRequests \cup MarketRequests
(* The request of an order that is not submitted yet. *)
NoRequest == [side |-> "buy", type |-> "limit", price |-> MinPrice, qty |-> 1]

Trades == [buy : Orders, sell : Orders, price : Prices, qty : 1..MaxQty]

Statuses == {"New", "Partially", "Filled", "Cancelled"}
Answers == {"ok", "ErrOrderAlreadyFilled", "ErrOrderAlreadyCancelled"}
NoReply == [order |-> NoOrder, answer |-> "ok"]

Active == {"New", "Partially"}
IsActive(o) == status[o] \in Active
(* Mutant of RemainingQty: what is filled already is forgotten. *)
RemainingIsQuantity(o) == req[o].qty
RemainingQty(o) == req[o].qty - filled[o]
IsFilled(o) == filled[o] >= req[o].qty

(* The status TryFill leaves when it has filled f of o. *)
StatusAfter(o, f) == IF f >= req[o].qty THEN "Filled" ELSE "Partially"

(* TryFill(q) on o returns nil. *)
CanFill(o, q) == status[o] # "Cancelled" /\ q <= RemainingQty(o)

(* order.TryFill(q): a call with q = 0 or one that fails changes nothing. *)
TryFill(o, q) ==
  IF q > 0 /\ CanFill(o, q)
    THEN /\ filled' = [filled EXCEPT ![o] = @ + q]
         /\ status' = [status EXCEPT ![o] = StatusAfter(o, filled[o] + q)]
    ELSE UNCHANGED <<filled, status>>

Init ==
  /\ req = [o \in Orders |-> NoRequest]
  /\ rank = [o \in Orders |-> 0]
  /\ status = [o \in Orders |-> "New"]
  /\ filled = [o \in Orders |-> 0]
  /\ level = [s \in Sides |-> [p \in Prices |-> <<>>]]
  /\ heap = [s \in Sides |-> {}]
  /\ levelMap = [s \in Sides |-> {}]
  /\ orderMap = {}
  /\ pc = "unlocked"
  /\ taker = NoOrder
  /\ remaining = 0
  /\ best = MinPrice
  /\ skipCount = 0
  /\ trades = <<>>
  /\ tradeCh = <<>>
  /\ published = <<>>
  /\ reply = NoReply
  /\ cancelledQty = [o \in Orders |-> 0]

-----------------------------------------------------------------------------
(* Levels *)

(* Mutant of Before: the sell side is ordered like the buy side. *)
BeforeHighest(side, p, q) == p > q

(* Less of buyHeap and of sellHeap: p goes before q. *)
Before(side, p, q) == IF side = "buy" THEN p > q ELSE p < q

(* The level at index 0 of the heap has price p. *)
IsBest(side, p) ==
  /\ p \in heap[side]
  /\ \A q \in heap[side] : ~Before(side, q, p)

(* The subsequence of the members of A, in their order in s. *)
Keep(s, A) ==
  LET kept == {i \in 1..Len(s) : s[i] \in A}
      position(j) == CHOOSE i \in kept : Cardinality({k \in kept : k <= i}) = j
  IN  [j \in 1..Cardinality(kept) |-> s[position(j)]]

(* Mutant of CleanupLevel: the empty level stays in the heap. *)
CleanupKeepsHeap(side, p, q) ==
  /\ level' = [level EXCEPT ![side][p] = q]
  /\ levelMap' = [levelMap EXCEPT ![side] = IF q = <<>> THEN @ \ {p} ELSE @]
  /\ UNCHANGED heap

(* cleanupLevel, with the level's orders now being q: an empty level leaves *)
(* the map and the heap.                                                    *)
CleanupLevel(side, p, q) ==
  /\ level' = [level EXCEPT ![side][p] = q]
  /\ levelMap' = [levelMap EXCEPT ![side] = IF q = <<>> THEN @ \ {p} ELSE @]
  /\ heap' = [heap EXCEPT ![side] = IF q = <<>> THEN @ \ {p} ELSE @]

(* Mutant of AddOrderToBook: the order goes to the front of its level. *)
AddOrderInFront(o) ==
  LET side == req[o].side
      p == req[o].price
  IN  /\ orderMap' = orderMap \cup {o}
      /\ levelMap' = [levelMap EXCEPT ![side] = @ \cup {p}]
      /\ level' = [level EXCEPT ![side][p] = <<o>> \o @]
      /\ heap' = [heap EXCEPT ![side] = @ \cup {p}]

(* addOrderToBook for an active order: its level is made if it is missing.  *)
AddOrderToBook(o) ==
  LET side == req[o].side
      p == req[o].price
  IN  /\ orderMap' = orderMap \cup {o}
      /\ levelMap' = [levelMap EXCEPT ![side] = @ \cup {p}]
      /\ IF p \in levelMap[side]
           THEN /\ level' = [level EXCEPT ![side][p] = Append(@, o)]
                /\ UNCHANGED heap
           ELSE /\ level' = [level EXCEPT ![side][p] = <<o>>]
                /\ heap' = [heap EXCEPT ![side] = @ \cup {p}]

-----------------------------------------------------------------------------
(* Submit *)

(* order takes the mutex; remaining := order.Quantity. *)
Submit(o, r) ==
  /\ pc = "unlocked"
  /\ rank[o] = 0
  /\ req' = [req EXCEPT ![o] = r]
  /\ rank' = [rank EXCEPT ![o] = 1 + Cardinality({x \in Orders : rank[x] > 0})]
  /\ pc' = "levels"
  /\ taker' = o
  /\ remaining' = r.qty
  /\ reply' = NoReply
  /\ UNCHANGED <<status, filled, bookVars, best, skipCount, outVars, cancelledQty>>

(* The side the taker is matched against. *)
MakerSide == Opposite(req[taker].side)

(* Mutant of Crosses: equal prices do not meet. *)
CrossesStrictly(o, p) ==
  \/ req[o].type = "market"
  \/ req[o].side = "buy" /\ req[o].price > p
  \/ req[o].side = "sell" /\ req[o].price < p

(* Mutant of Crosses: a seller's limit is read as a buyer's. *)
CrossesOneWay(o, p) == req[o].type = "market" \/ req[o].price >= p

(* A limit order stops at the first level beyond its price. *)
Crosses(o, p) ==
  \/ req[o].type = "market"
  \/ req[o].side = "buy" /\ req[o].price >= p
  \/ req[o].side = "sell" /\ req[o].price <= p

(* The level the loop of matchMarketOrder or matchLimitOrder goes on with.  *)
Matchable(p) == remaining > 0 /\ IsBest(MakerSide, p) /\ Crosses(taker, p)

NextLevel ==
  /\ pc = "levels"
  /\ \E p \in Prices : Matchable(p) /\ best' = p
  /\ skipCount' = 0
  /\ pc' = "makers"
  /\ UNCHANGED <<orderVars, bookVars, taker, remaining, outVars, clientVars>>

Queue == level[MakerSide][best]

(* Mutant of MatchQty: the taker's quantity does not bound it. *)
MatchQtyUnbounded(m) == RemainingQty(m)

MatchQty(m) == IF remaining < RemainingQty(m) THEN remaining ELSE RemainingQty(m)

MatchPrice(m) == req[m].price

(* NewTrade(taker, maker, ...): the parameters are named buyOrder, sellOrder. *)
NewTrade(m) ==
  [buy |-> taker, sell |-> m, price |-> MatchPrice(m), qty |-> MatchQty(m)]

(* Mutant of VisitMaker: a filled maker stays in orderMap. *)
VisitMakerKeepsIndex ==
  /\ pc = "makers"
  /\ Len(Queue) > skipCount /\ remaining > 0
  /\ LET m == Queue[skipCount + 1]
         q == MatchQty(m)
     IN  /\ TryFill(m, q)
         /\ trades' = Append(trades, NewTrade(m))
         /\ remaining' = remaining - q
         /\ skipCount' = IF q = RemainingQty(m) THEN skipCount + 1 ELSE skipCount
  /\ UNCHANGED <<req, rank, bookVars, pc, taker, best, tradeCh, published, clientVars>>

(* One iteration of matchAgainstLevel's loop. *)
VisitMaker ==
  /\ pc = "makers"
  /\ Len(Queue) > skipCount /\ remaining > 0
  /\ LET m == Queue[skipCount + 1]
         q == MatchQty(m)
     IN  IF IsActive(m) /\ q > 0 /\ CanFill(m, q)
           THEN /\ TryFill(m, q)
                /\ trades' = Append(trades, NewTrade(m))
                /\ remaining' = remaining - q
                /\ IF q = RemainingQty(m)
                     THEN /\ skipCount' = skipCount + 1
                          /\ orderMap' = orderMap \ {m}
                     ELSE UNCHANGED <<skipCount, orderMap>>
           ELSE /\ skipCount' = skipCount + 1
                /\ UNCHANGED <<status, filled, trades, remaining, orderMap>>
  /\ UNCHANGED <<req, rank, level, heap, levelMap, pc, taker, best,
                 tradeCh, published, clientVars>>

(* The rest of matchAgainstLevel: if any maker was passed over, the queue   *)
(* is rebuilt from the active ones.                                         *)
LeaveLevel ==
  /\ pc = "makers"
  /\ ~(Len(Queue) > skipCount /\ remaining > 0)
  /\ CleanupLevel(MakerSide, best,
       IF skipCount > 0 THEN Keep(Queue, {o \in Orders : IsActive(o)}) ELSE Queue)
  /\ pc' = "levels"
  /\ UNCHANGED <<orderVars, orderMap, taker, remaining, best, skipCount,
                 outVars, clientVars>>

(* Mutant of TakerFill: the rest is filled instead of what was matched. *)
TakerFillRest == remaining

(* The taker's own TryFill(Quantity - remaining). *)
TakerFill == req[taker].qty - remaining

(* No level is left to match: the taker is filled by what it matched, and   *)
(* the rest of a limit order joins the book.                                *)
FinishMatch ==
  /\ pc = "levels"
  /\ \A p \in Prices : ~Matchable(p)
  /\ TryFill(taker, TakerFill)
  /\ IF /\ req[taker].type = "limit"
        /\ filled'[taker] < req[taker].qty
        /\ status'[taker] \in Active
       THEN AddOrderToBook(taker)
       ELSE UNCHANGED bookVars
  /\ pc' = "sending"
  /\ UNCHANGED <<req, rank, taker, remaining, best, skipCount, outVars, clientVars>>

(* ob.tradeOutCh <- t, which blocks while the channel is full. *)
SendTrade ==
  /\ pc = "sending"
  /\ trades # <<>>
  /\ Len(tradeCh) < TradeChCap
  /\ tradeCh' = Append(tradeCh, Head(trades))
  /\ trades' = Tail(trades)
  /\ UNCHANGED <<orderVars, bookVars, callVars, published, clientVars>>

(* Submit returns: the deferred Unlock, and the locals are gone. *)
ReturnSubmit ==
  /\ pc = "sending"
  /\ trades = <<>>
  /\ pc' = "unlocked"
  /\ taker' = NoOrder
  /\ remaining' = 0
  /\ best' = MinPrice
  /\ skipCount' = 0
  /\ UNCHANGED <<orderVars, bookVars, outVars, clientVars>>

-----------------------------------------------------------------------------
(* Cancel: no step of it blocks, so the whole critical section is one step. *)

CancelUnknown(o) ==
  /\ pc = "unlocked"
  /\ rank[o] > 0
  /\ o \notin orderMap
  /\ reply' = [order |-> o, answer |-> "ErrOrderAlreadyFilled"]
  /\ UNCHANGED <<orderVars, bookVars, callVars, outVars, cancelledQty>>

(* TryCancel refuses. *)
CancelRefused(o) ==
  /\ ~IsActive(o)
  /\ reply' = [order |-> o, answer |-> IF status[o] = "Filled"
                                        THEN "ErrOrderAlreadyFilled"
                                        ELSE "ErrOrderAlreadyCancelled"]
  /\ UNCHANGED <<status, bookVars, cancelledQty>>

(* TryCancel succeeds, and the order leaves its level and the maps. *)
CancelAccepted(o) ==
  LET side == req[o].side
      p == req[o].price
  IN  /\ IsActive(o)
      /\ status' = [status EXCEPT ![o] = "Cancelled"]
      /\ cancelledQty' = [cancelledQty EXCEPT ![o] = RemainingQty(o)]
      /\ IF p \in levelMap[side]
           THEN CleanupLevel(side, p, RemoveFirst(level[side][p], o))
           ELSE UNCHANGED <<level, levelMap, heap>>
      /\ orderMap' = orderMap \ {o}
      /\ reply' = [order |-> o, answer |-> "ok"]

CancelKnown(o) ==
  /\ pc = "unlocked"
  /\ o \in orderMap
  /\ IF IsActive(o) THEN CancelAccepted(o) ELSE CancelRefused(o)
  /\ UNCHANGED <<req, rank, filled, callVars, outVars>>

-----------------------------------------------------------------------------
(* BestBid, BestAsk and Depth take the mutex and change nothing: they are   *)
(* read when it is free.                                                    *)
BestBid == {p \in Prices : IsBest("buy", p)}
BestAsk == {p \in Prices : IsBest("sell", p)}

Depth(side) ==
  [p \in heap[side] |-> MapThenSumSet(RemainingQty, ToSet(level[side][p]))]

-----------------------------------------------------------------------------
(* The publisher's goroutine receives a trade. *)
Receive ==
  /\ tradeCh # <<>>
  /\ published' = Append(published, Head(tradeCh))
  /\ tradeCh' = Tail(tradeCh)
  /\ UNCHANGED <<orderVars, bookVars, callVars, trades, clientVars>>

(* The steps of the Submit that holds the mutex. *)
SubmitStep ==
  \/ NextLevel
  \/ VisitMaker
  \/ LeaveLevel
  \/ FinishMatch
  \/ SendTrade
  \/ ReturnSubmit

Next ==
  \/ SubmitStep
  \/ Receive
  \/ \E o \in Orders, r \in Requests : Submit(o, r)
  \/ \E o \in Orders : CancelUnknown(o) \/ CancelKnown(o)

Spec == Init /\ [][Next]_vars

(* The goroutine in Submit and the publisher's are scheduled; the publisher *)
(* keeps receiving.  No client is obliged to call.                          *)
Fairness == WF_vars(SubmitStep) /\ WF_vars(Receive)

FairSpec == Spec /\ Fairness

-----------------------------------------------------------------------------
(* Types of the variables. *)
TypeOK ==
  /\ req \in [Orders -> Requests]
  /\ rank \in [Orders -> Nat]
  /\ status \in [Orders -> Statuses]
  /\ filled \in [Orders -> Nat]
  /\ level \in [Sides -> [Prices -> Seq(Orders)]]
  /\ heap \in [Sides -> SUBSET Prices]
  /\ levelMap \in [Sides -> SUBSET Prices]
  /\ orderMap \subseteq Orders
  /\ pc \in {"unlocked", "levels", "makers", "sending"}
  /\ taker \in Orders \cup {NoOrder}
  /\ pc = "unlocked" <=> taker = NoOrder
  /\ remaining \in 0..MaxQty
  /\ best \in Prices
  /\ skipCount \in Nat
  /\ trades \in Seq(Trades)
  /\ tradeCh \in Seq(Trades)
  /\ published \in Seq(Trades)
  /\ reply \in [order : Orders \cup {NoOrder}, answer : Answers]
  /\ cancelledQty \in [Orders -> 0..MaxQty]

(* The level that matchAgainstLevel is working on. *)
InWork(side, p) == pc = "makers" /\ side = MakerSide /\ p = best

(* Position i of a level holds an order that still rests: all do, but those *)
(* matchAgainstLevel has passed over and not yet removed.                   *)
Live(side, p, i) == InWork(side, p) => i > skipCount

(* The four indexes of the resting orders agree: heap and map hold the same *)
(* levels, the non-empty ones; a level holds orders of its own side and     *)
(* price, none twice, in order of arrival, and the live ones are exactly    *)
(* what orderMap holds, active and with something left to fill.             *)
LevelOK(side, p) ==
  LET q == level[side][p]
  IN  /\ p \in heap[side] <=> q # <<>>
      /\ \A i \in DOMAIN q :
           /\ req[q[i]].side = side
           /\ req[q[i]].price = p
           /\ q[i] \in orderMap <=> Live(side, p, i)
           /\ IsActive(q[i]) <=> Live(side, p, i)
           /\ \A j \in 1..(i - 1) : rank[q[j]] < rank[q[i]]

RestingOK(o) ==
  /\ RemainingQty(o) > 0
  /\ \E i \in DOMAIN level[req[o].side][req[o].price] :
       level[req[o].side][req[o].price][i] = o

BookConsistent ==
  /\ heap = levelMap
  /\ \A side \in Sides, p \in Prices : LevelOK(side, p)
  /\ \A o \in orderMap : RestingOK(o)

(* No order is lost and none lingers: a submitted limit order is in the     *)
(* book exactly while it is active, from the moment its own match is over.  *)
ActiveRests ==
  \A o \in Orders :
    o \in orderMap <=>
      /\ rank[o] > 0
      /\ req[o].type = "limit"
      /\ IsActive(o)
      /\ o = taker => pc = "sending"

(* The book is never crossed: what BestBid reports is below what BestAsk    *)
(* reports, so no two resting orders could have traded with each other.     *)
NotCrossed == \A b \in BestBid, a \in BestAsk : b < a

(* Everything the book ever traded, in order. *)
Tape == published \o tradeCh \o trades

TradedQty(o) ==
  MapThenSumSet(LAMBDA i : Tape[i].qty,
                {i \in DOMAIN Tape : o \in {Tape[i].buy, Tape[i].sell}})

(* Every order is filled by exactly what is on the tape of trades for it;   *)
(* the taker's own fill is entered once its match is over.                  *)
FillsMatchTape ==
  \A o \in Orders :
    IF o = taker /\ pc # "sending"
      THEN filled[o] = 0 /\ TradedQty(o) = req[o].qty - remaining
      ELSE filled[o] = TradedQty(o)

(* Depth reports, price by price, what the active limit orders have open.   *)
DepthIsOpenInterest ==
  pc = "unlocked" =>
    \A side \in Sides, p \in Prices :
      (IF p \in heap[side] THEN Depth(side)[p] ELSE 0)
        = MapThenSumSet(LAMBDA o : req[o].qty - filled[o],
                        {o \in Orders : /\ rank[o] > 0 /\ IsActive(o)
                                        /\ req[o].type = "limit"
                                        /\ req[o].side = side /\ req[o].price = p})

(* The three accounts of the book agree: the orders' own quantities, the    *)
(* tape of trades, and what Depth shows when nobody is matching.            *)
AccountsAgree == FillsMatchTape /\ DepthIsOpenInterest

(* TestOrderBookCancelVsMatch: filled and cancelled quantity never exceed   *)
(* the order's, and of a cancelled order they are all of it.                *)
ExposureBounded ==
  \A o \in Orders :
    /\ filled[o] + cancelledQty[o] <= req[o].qty
    /\ status[o] = "Cancelled" => filled[o] + cancelledQty[o] = req[o].qty

(* A trade is between a buyer and a seller, at the price of the order that  *)
(* was resting, and within the limit of the other, which NewTrade is given  *)
(* first whatever its side: its BuyOrderID is the taker's.                  *)
LimitRespected ==
  \A i \in DOMAIN Tape :
    LET t == Tape[i]
        limit == req[t.buy]
    IN  /\ limit.side # req[t.sell].side
        /\ t.price = req[t.sell].price
        /\ limit.type = "limit" /\ limit.side = "buy" => t.price <= limit.price
        /\ limit.type = "limit" /\ limit.side = "sell" => t.price >= limit.price

(* A resting order is filled only when no resting order of its side has a   *)
(* better price, or the same price and an earlier arrival.                  *)
PriceTimePriority ==
  [][\A m \in Orders \ {taker} : filled'[m] > filled[m] =>
       \A x \in orderMap :
         req[x].side = req[m].side => ~Ahead(req, rank, x, m)]_vars

(* Whoever holds the mutex lets go of it, even when the channel fills up.   *)
SubmitReturns == pc # "unlocked" ~> pc = "unlocked"

-----------------------------------------------------------------------------
(* The book as the atomic one of AtomicBook.  A Submit takes effect when it *)
(* takes the mutex: what the rest of it will still fill is counted already. *)

Open == [o \in Orders |-> RemainingQty(o)]

(* The makers the taker has yet to meet. *)
MakersAhead ==
  {m \in orderMap : Compatible(req[taker], req[m])}

Matching == pc \in {"levels", "makers"}

FilledInTheEnd ==
  [o \in Orders |->
     CASE ~Matching -> filled[o]
       [] Matching /\ o = taker ->
            req[o].qty - remaining + TakerShare(Open, MakersAhead, remaining)
       [] Matching /\ o # taker ->
            filled[o] + IF o \in MakersAhead
                          THEN Share(req, rank, Open, MakersAhead, remaining, o)
                          ELSE 0]

Atomic == INSTANCE AtomicBook WITH
            filled <- FilledInTheEnd,
            cancelled <- {o \in Orders : status[o] = "Cancelled"}

BookIsAtomic == Atomic!Spec

=============================================================================
