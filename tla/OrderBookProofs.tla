--------------------------- MODULE OrderBookProofs ---------------------------
(***************************************************************************)
(* Theorems about OrderBook, for any finite set of orders, any bounds of   *)
(* prices and quantities and any capacity of the trade channel.            *)
(***************************************************************************)
EXTENDS OrderBook, SumTheorems, SequenceTheorems

-----------------------------------------------------------------------------
(* Sequences *)

(* If the members of A in s are those after position k, Keep cuts the first *)
(* k positions off.                                                         *)
LEMMA KeepSuffix ==
  ASSUME NEW T, NEW s \in Seq(T), NEW k \in 0..Len(s), NEW A,
         \A i \in 1..Len(s) : s[i] \in A <=> i > k
  PROVE  /\ Keep(s, A) \in Seq(T)
         /\ Len(Keep(s, A)) = Len(s) - k
         /\ \A j \in 1..(Len(s) - k) : Keep(s, A)[j] = s[k + j]
<1> DEFINE kept == {i \in 1..Len(s) : s[i] \in A}
           upTo(i) == {n \in kept : n <= i}
           position(j) == CHOOSE i \in kept : Cardinality(upTo(i)) = j
<1>1. kept = (k+1)..Len(s)
  OBVIOUS
<1>2. Keep(s, A) = [j \in 1..Cardinality(kept) |-> s[position(j)]]
  BY DEF Keep
<1> HIDE DEF kept
<1>3. Cardinality(kept) = Len(s) - k
  <2>1. Cardinality((k+1)..Len(s)) = IF k + 1 > Len(s) THEN 0 ELSE Len(s) - (k + 1) + 1
    <3>1. k + 1 \in Int /\ Len(s) \in Int
      OBVIOUS
    <3>2. QED
      BY <3>1, FS_Interval
  <2>2. QED
    BY <1>1, <2>1
<1>4. ASSUME NEW i \in kept PROVE Cardinality(upTo(i)) = i - k
  <2>1. upTo(i) = (k+1)..i
    BY <1>1
  <2>2. k + 1 \in Int /\ i \in Int /\ i >= k + 1
    BY <1>1
  <2>3. Cardinality((k+1)..i) = IF k + 1 > i THEN 0 ELSE i - (k + 1) + 1
    BY <2>2, FS_Interval
  <2> HIDE DEF upTo
  <2>4. QED
    BY <2>1, <2>2, <2>3
<1> HIDE DEF upTo
<1>5. ASSUME NEW j \in 1..(Len(s) - k) PROVE position(j) = k + j
  <2>1. k + j \in kept
    BY <1>1
  <2>2. Cardinality(upTo(k + j)) = j
    BY <1>4, <2>1
  <2>3. position(j) \in kept /\ Cardinality(upTo(position(j))) = j
    BY <2>1, <2>2
  <2> HIDE DEF position
  <2>4. position(j) - k = j /\ position(j) \in Int
    BY <1>1, <1>4, <2>3
  <2>5. QED
    BY <2>4
<1> HIDE DEF position
<1>6. Keep(s, A) = [j \in 1..(Len(s) - k) |-> s[k + j]]
  BY <1>2, <1>3, <1>5
<1>7. \A j \in 1..(Len(s) - k) : s[k + j] \in T
  OBVIOUS
<1>8. QED
  BY <1>6, <1>7

(* RemoveFirst closes the gap that the only occurrence of e leaves. *)
LEMMA RemoveOnly ==
  ASSUME NEW T, NEW s \in Seq(T), NEW e, NEW i \in 1..Len(s), s[i] = e,
         \A j \in 1..Len(s) : s[j] = e => j = i
  PROVE  /\ RemoveFirst(s, e) \in Seq(T)
         /\ Len(RemoveFirst(s, e)) = Len(s) - 1
         /\ \A j \in 1..(Len(s) - 1) :
              RemoveFirst(s, e)[j] = IF j < i THEN s[j] ELSE s[j + 1]
<1>1. {j \in 1..Len(s) : s[j] = e} = {i}
  OBVIOUS
<1>2. Min({i}) = i
  BY DEF Min
<1>3. RemoveFirst(s, e) = SubSeq(s, 1, i - 1) \o SubSeq(s, i + 1, Len(s))
  BY <1>1, <1>2 DEF RemoveFirst, RemoveAt, SelectInSeq
<1> DEFINE front == SubSeq(s, 1, i - 1)
           back == SubSeq(s, i + 1, Len(s))
<1>4. /\ front \in Seq(T) /\ Len(front) = i - 1
      /\ \A j \in 1..(i - 1) : front[j] = s[j]
  BY SubSeqProperties
<1>5. /\ back \in Seq(T) /\ Len(back) = Len(s) - i
      /\ \A j \in 1..(Len(s) - i) : back[j] = s[i + j]
  <2>1. i + 1 \in Int /\ Len(s) \in Int /\ \A j \in (i+1)..Len(s) : s[j] \in T
    OBVIOUS
  <2>2. /\ back \in Seq(T)
        /\ Len(back) = IF i + 1 <= Len(s) THEN Len(s) - (i + 1) + 1 ELSE 0
        /\ \A j \in 1..(Len(s) - (i + 1) + 1) : back[j] = s[(i + 1) + j - 1]
    BY <2>1, SubSeqProperties
  <2> HIDE DEF back
  <2>3. QED
    BY <2>2
<1> DEFINE both == front \o back
<1> HIDE DEF front, back
<1>6. /\ both \in Seq(T)
      /\ Len(both) = Len(front) + Len(back)
      /\ \A j \in 1..(Len(front) + Len(back)) :
           both[j] = IF j <= Len(front) THEN front[j] ELSE back[j - Len(front)]
  BY <1>4, <1>5, ConcatProperties
<1>7. RemoveFirst(s, e) = both
  BY <1>3 DEF front, back
<1> HIDE DEF both
<1>8. ASSUME NEW j \in 1..(Len(s) - 1)
      PROVE both[j] = IF j < i THEN s[j] ELSE s[j + 1]
  <2>1. Len(front) + Len(back) = Len(s) - 1
    BY <1>4, <1>5
  <2>2. both[j] = IF j <= i - 1 THEN front[j] ELSE back[j - (i - 1)]
    BY <1>4, <1>6, <2>1
  <2>3. CASE j < i
    BY <1>4, <2>2, <2>3
  <2>4. CASE j >= i
    <3>1. j - (i - 1) \in 1..(Len(s) - i) /\ i + (j - (i - 1)) = j + 1
      BY <2>4
    <3>2. back[j - (i - 1)] = s[j + 1]
      BY <1>5, <3>1
    <3>3. QED
      BY <2>2, <2>4, <3>2
  <2>5. i \in Int /\ j \in Int
    OBVIOUS
  <2>6. QED
    BY <2>3, <2>4, <2>5
<1>9. Len(both) = Len(s) - 1
  BY <1>4, <1>5, <1>6
<1>10. QED
  BY <1>6, <1>7, <1>8, <1>9

-----------------------------------------------------------------------------
(* The inductive invariant *)

Submitted == {o \in Orders : rank[o] > 0}

(* An order that is not submitted has no history; the taker is the latest   *)
(* submitted order, and is filled only when its match is over.              *)
CallInv ==
  /\ \A o \in Orders : rank[o] <= Cardinality(Submitted)
  /\ \A o \in Orders : rank[o] = 0 => filled[o] = 0 /\ status[o] = "New"
  /\ pc # "unlocked" =>
       /\ rank[taker] > 0
       /\ remaining <= req[taker].qty
       /\ \A o \in Orders \ {taker} : rank[o] < rank[taker]
  /\ pc \in {"levels", "makers"} => filled[taker] = 0 /\ status[taker] = "New"
  /\ pc = "makers" =>
       /\ IsBest(MakerSide, best)
       /\ Crosses(taker, best)
       /\ skipCount <= Len(Queue)

(* What an order's status says of its quantities. *)
FillInv ==
  \A o \in Orders :
    /\ filled[o] <= req[o].qty
    /\ status[o] = "Filled" <=> filled[o] = req[o].qty
    /\ cancelledQty[o] = IF status[o] = "Cancelled" THEN req[o].qty - filled[o] ELSE 0

(* No level of the buy side reaches a level of the sell side. *)
Apart == \A b \in heap["buy"], a \in heap["sell"] : b < a

IInv ==
  /\ TypeOK
  /\ CallInv
  /\ FillInv
  /\ BookConsistent
  /\ ActiveRests
  /\ Apart

(* The fields of a request. *)
LEMMA RequestFields ==
  ASSUME NEW r \in Requests
  PROVE  /\ r.side \in Sides
         /\ r.type \in {"limit", "market"}
         /\ r.price \in Prices
         /\ r.qty \in 1..MaxQty
  BY OrderBookAssumption DEF Requests, LimitRequests, MarketRequests, Prices, Sides

(* The types of what the actions read of an order and of the level in work. *)
LEMMA OrderTypes ==
  ASSUME TypeOK, NEW o \in Orders
  PROVE  /\ req[o].side \in Sides
         /\ req[o].type \in {"limit", "market"}
         /\ req[o].price \in Prices
         /\ req[o].price \in Int
         /\ req[o].qty \in 1..MaxQty
         /\ req[o].qty \in Nat
         /\ filled[o] \in Nat
         /\ rank[o] \in Nat
         /\ RemainingQty(o) \in Int
<1>1. req[o] \in Requests /\ filled[o] \in Nat /\ rank[o] \in Nat
  BY DEF TypeOK
<1>2. MaxQty \in Nat /\ MinPrice \in Int /\ MaxPrice \in Int
  BY OrderBookAssumption
<1>3. /\ req[o].side \in Sides
      /\ req[o].type \in {"limit", "market"}
      /\ req[o].price \in Prices
      /\ req[o].qty \in 1..MaxQty
  BY <1>1, RequestFields
<1>4. req[o].price \in Int /\ req[o].qty \in Nat
  BY <1>2, <1>3 DEF Prices
<1>5. QED
  BY <1>1, <1>3, <1>4 DEF RemainingQty

(* The locals of a Submit under way have their types. *)
LEMMA CallTypes ==
  ASSUME TypeOK, pc # "unlocked"
  PROVE  /\ taker \in Orders
         /\ remaining \in 0..MaxQty
         /\ remaining \in Nat
         /\ skipCount \in Nat
         /\ best \in Prices
         /\ best \in Int
         /\ MakerSide \in Sides
         /\ MakerSide # req[taker].side
         /\ Queue \in Seq(Orders)
<1>1. taker \in Orders /\ remaining \in 0..MaxQty /\ skipCount \in Nat /\ best \in Prices
  BY DEF TypeOK
<1>2. MaxQty \in Nat /\ MinPrice \in Int /\ MaxPrice \in Int
  BY OrderBookAssumption
<1>3. remaining \in Nat /\ best \in Int
  BY <1>1, <1>2 DEF Prices
<1>4. MakerSide \in Sides /\ MakerSide # req[taker].side
  BY <1>1, OrderTypes DEF MakerSide, Opposite, Sides
<1>5. Queue \in Seq(Orders)
  BY <1>1, <1>4 DEF Queue, TypeOK
<1>6. QED
  BY <1>1, <1>3, <1>4, <1>5

(* The empty book satisfies the invariant. *)
LEMMA InitInv == Init => IInv
<1> SUFFICES ASSUME Init PROVE IInv
  OBVIOUS
<1> USE OrderBookAssumption DEF Init
<1>1. MinPrice \in Prices /\ 1 \in 1..MaxQty /\ 0 \in 0..MaxQty
  BY DEF Prices
<1>2. NoRequest \in Requests
  BY <1>1 DEF NoRequest, Requests, LimitRequests, Sides
<1>3. TypeOK
  BY <1>1, <1>2 DEF TypeOK, Statuses, Answers, NoReply
<1>4. Cardinality(Submitted) = 0
  <2>1. Submitted = {}
    BY DEF Submitted
  <2>2. QED
    BY <2>1, FS_EmptySet
<1>5. CallInv
  BY <1>4 DEF CallInv
<1>6. FillInv
  BY DEF FillInv, NoRequest
<1>7. BookConsistent
  BY DEF BookConsistent, LevelOK, Sides
<1>8. ActiveRests
  BY DEF ActiveRests
<1>9. Apart
  BY DEF Apart, Sides
<1>10. QED
  BY <1>3, <1>5, <1>6, <1>7, <1>8, <1>9 DEF IInv

-----------------------------------------------------------------------------
(* Steps that leave the book alone *)

(* The invariant but for its types depends on neither the channel nor the   *)
(* trades nor the reply.                                                    *)
LEMMA BookKept ==
  ASSUME IInv, TypeOK',
         UNCHANGED <<orderVars, bookVars, callVars, cancelledQty>>
  PROVE  IInv'
<1> USE DEF orderVars, bookVars, callVars
<1>1. CallInv'
  BY DEF IInv, CallInv, Submitted, IsBest, Before, MakerSide, Opposite, Crosses, Queue
<1>2. FillInv'
  BY DEF IInv, FillInv
<1>3. BookConsistent'
  BY DEF IInv, BookConsistent, LevelOK, RestingOK, RemainingQty, Live, InWork, MakerSide,
         Opposite, IsActive, Active
<1>4. ActiveRests'
  BY DEF IInv, ActiveRests, IsActive, Active
<1>5. Apart'
  BY DEF IInv, Apart
<1>6. QED
  BY <1>1, <1>2, <1>3, <1>4, <1>5 DEF IInv

(* The publisher's receive touches no index of the book. *)
LEMMA ReceiveStep == IInv /\ Receive => IInv'
<1> SUFFICES ASSUME IInv, Receive PROVE IInv'
  OBVIOUS
<1>1. /\ tradeCh' = Tail(tradeCh) /\ published' = Append(published, Head(tradeCh))
      /\ tradeCh \in Seq(Trades) /\ tradeCh # <<>> /\ published \in Seq(Trades)
  BY DEF IInv, TypeOK, Receive
<1>2. tradeCh' \in Seq(Trades) /\ published' \in Seq(Trades)
  BY <1>1
<1>3. UNCHANGED <<orderVars, bookVars, callVars, trades, clientVars>>
  BY DEF Receive
<1>4. TypeOK'
  BY <1>2, <1>3 DEF IInv, TypeOK, orderVars, bookVars, callVars, clientVars
<1>5. QED
  BY <1>3, <1>4, BookKept DEF clientVars

(* A trade that gets room on the channel leaves the book as it is. *)
LEMMA SendTradeStep == IInv /\ SendTrade => IInv'
<1> SUFFICES ASSUME IInv, SendTrade PROVE IInv'
  OBVIOUS
<1>1. /\ trades' = Tail(trades) /\ tradeCh' = Append(tradeCh, Head(trades))
      /\ trades \in Seq(Trades) /\ trades # <<>> /\ tradeCh \in Seq(Trades)
  BY DEF IInv, TypeOK, SendTrade
<1>2. trades' \in Seq(Trades) /\ tradeCh' \in Seq(Trades)
  BY <1>1
<1>3. UNCHANGED <<orderVars, bookVars, callVars, published, clientVars>>
  BY DEF SendTrade
<1>4. TypeOK'
  BY <1>2, <1>3 DEF IInv, TypeOK, orderVars, bookVars, callVars, clientVars
<1>5. QED
  BY <1>3, <1>4, BookKept DEF clientVars

(* A Cancel that orderMap does not know changes nothing that rests. *)
LEMMA CancelUnknownStep ==
  ASSUME IInv, NEW o \in Orders, CancelUnknown(o)
  PROVE  IInv'
<1>1. TypeOK'
  BY DEF IInv, TypeOK, CancelUnknown, Answers, orderVars, bookVars, callVars, outVars
<1>2. QED
  BY <1>1, BookKept DEF CancelUnknown

(* The end of Submit, which lets go of the mutex. *)
LEMMA ReturnStep == IInv /\ ReturnSubmit => IInv'
<1> SUFFICES ASSUME IInv, ReturnSubmit PROVE IInv'
  OBVIOUS
<1> USE DEF ReturnSubmit, orderVars, bookVars, outVars, clientVars
<1>1. TypeOK'
  <2>1. MinPrice \in Prices /\ 0 \in 0..MaxQty
    BY OrderBookAssumption DEF Prices
  <2>2. QED
    BY <2>1 DEF IInv, TypeOK
<1>2. CallInv'
  BY DEF IInv, CallInv, Submitted
<1>3. FillInv'
  BY DEF IInv, FillInv
<1>4. BookConsistent'
  BY DEF IInv, BookConsistent, LevelOK, RestingOK, RemainingQty, Live, InWork, IsActive, Active
<1>5. ActiveRests'
  BY OrderBookAssumption DEF IInv, ActiveRests, IsActive, Active
<1>6. Apart'
  BY DEF IInv, Apart
<1>7. QED
  BY <1>1, <1>2, <1>3, <1>4, <1>5, <1>6 DEF IInv

(* The choice of the next level to match against. *)
LEMMA NextLevelStep == IInv /\ NextLevel => IInv'
<1> SUFFICES ASSUME IInv, NextLevel PROVE IInv'
  OBVIOUS
<1> USE DEF NextLevel, orderVars, bookVars, outVars, clientVars
<1>1. PICK p \in Prices : Matchable(p) /\ best' = p
  OBVIOUS
<1>2. TypeOK'
  BY <1>1 DEF IInv, TypeOK
<1>3. taker \in Orders /\ MakerSide \in Sides
  BY CallTypes DEF IInv
<1>4. CallInv'
  <2>1. (IsBest(MakerSide, best) /\ Crosses(taker, best))'
    BY <1>1 DEF Matchable, IsBest, Before, MakerSide, Opposite, Crosses
  <2>2. (skipCount <= Len(Queue))'
    <3>1. Queue' \in Seq(Orders)
      BY <1>1, <1>3 DEF IInv, TypeOK, Queue, MakerSide
    <3>2. QED
      BY <3>1
  <2>3. QED
    BY <2>1, <2>2 DEF IInv, CallInv, Submitted
<1>5. FillInv'
  BY DEF IInv, FillInv
<1>6. BookConsistent'
  <2>1. ASSUME NEW side \in Sides, NEW q \in Prices PROVE LevelOK(side, q)'
    <3>1. LevelOK(side, q)
      BY DEF IInv, BookConsistent
    <3>2. \A i \in DOMAIN level[side][q] : Live(side, q, i)' = Live(side, q, i)
      <4>1. level[side][q] \in Seq(Orders)
        BY DEF IInv, TypeOK
      <4>2. QED
        BY <4>1 DEF Live, InWork
    <3>3. QED
      BY <3>1, <3>2 DEF LevelOK, IsActive, Active
  <2>2. QED
    BY <2>1 DEF IInv, BookConsistent, RestingOK, RemainingQty
<1>7. ActiveRests'
  BY DEF IInv, ActiveRests, IsActive, Active
<1>8. Apart'
  BY DEF IInv, Apart
<1>9. QED
  BY <1>2, <1>4, <1>5, <1>6, <1>7, <1>8 DEF IInv

-----------------------------------------------------------------------------
(* Submit *)

(* When the mutex is free, every position of a level is live.               *)
LEMMA FreeLevels ==
  ASSUME IInv, pc \in {"unlocked", "levels"}, NEW side \in Sides, NEW p \in Prices,
         NEW i \in DOMAIN level[side][p]
  PROVE  /\ level[side][p][i] \in orderMap
         /\ IsActive(level[side][p][i])
         /\ rank[level[side][p][i]] > 0
<1>1. Live(side, p, i)
  BY DEF Live, InWork
<1>2. level[side][p][i] \in Orders
  BY DEF IInv, TypeOK
<1>3. level[side][p][i] \in orderMap /\ IsActive(level[side][p][i])
  BY <1>1 DEF IInv, BookConsistent, LevelOK
<1>4. QED
  BY <1>2, <1>3 DEF IInv, ActiveRests

(* The start of Submit, with the mutex taken. *)
LEMMA SubmitStepInv ==
  ASSUME IInv, NEW o \in Orders, NEW r \in Requests, Submit(o, r)
  PROVE  IInv'
<1> USE DEF Submit, bookVars, outVars
<1>1. r.qty \in 1..MaxQty /\ MaxQty \in Nat /\ o # NoOrder
  BY OrderBookAssumption, RequestFields
<1>2. /\ IsFiniteSet(Submitted)
      /\ Cardinality(Submitted) \in Nat
      /\ o \notin Submitted
      /\ Submitted' = Submitted \cup {o}
      /\ Cardinality(Submitted') = Cardinality(Submitted) + 1
  <2>1. IsFiniteSet(Submitted)
    BY OrderBookAssumption, FS_Subset DEF Submitted
  <2>2. Cardinality(Submitted) \in Nat
    BY <2>1, FS_CardinalityType
  <2>3. o \notin Submitted
    BY DEF Submitted
  <2>4. rank' = [rank EXCEPT ![o] = 1 + Cardinality(Submitted)]
    BY DEF Submitted
  <2>5. Submitted' = Submitted \cup {o}
    <3>1. \A x \in Orders : rank'[x] = IF x = o THEN 1 + Cardinality(Submitted) ELSE rank[x]
      BY <2>4 DEF IInv, TypeOK
    <3> DEFINE n == Cardinality(Submitted)
    <3> HIDE DEF n
    <3>2. \A x \in Orders : rank'[x] > 0 <=> x = o \/ rank[x] > 0
      BY <2>2, <3>1 DEF n
    <3>3. QED
      BY <3>2 DEF Submitted
  <2>6. Cardinality(Submitted \cup {o}) = Cardinality(Submitted) + 1
    BY <2>1, <2>3, FS_AddElement
  <2>7. QED
    BY <2>1, <2>2, <2>3, <2>5, <2>6
<1>3. rank' = [rank EXCEPT ![o] = 1 + Cardinality(Submitted)]
  BY DEF Submitted
<1>4. TypeOK'
  <2>1. NoReply \in [order : Orders \cup {NoOrder}, answer : Answers]
    BY DEF NoReply, Answers
  <2>2. /\ req' \in [Orders -> Requests] /\ remaining' \in 0..MaxQty
        /\ taker' \in Orders /\ taker' # NoOrder /\ pc' = "levels"
    BY <1>1 DEF IInv, TypeOK
  <2>3. rank' \in [Orders -> Nat]
    <3> DEFINE n == Cardinality(Submitted)
    <3>1. n \in Nat /\ rank' = [rank EXCEPT ![o] = 1 + n] /\ rank \in [Orders -> Nat]
      BY <1>2, <1>3 DEF IInv, TypeOK
    <3> HIDE DEF n
    <3>2. QED
      BY <3>1
  <2>4. /\ UNCHANGED <<status, filled, bookVars, best, skipCount, outVars, cancelledQty>>
        /\ reply' = NoReply
    OBVIOUS
  <2>5. QED
    BY <2>1, <2>2, <2>3, <2>4 DEF IInv, TypeOK
<1>5. rank \in [Orders -> Nat] /\ \A x \in Orders : rank[x] <= Cardinality(Submitted)
  BY DEF IInv, TypeOK, CallInv
<1>6. CallInv'
  <2>1. \A x \in Orders : rank'[x] <= Cardinality(Submitted')
    BY <1>2, <1>3, <1>5
  <2>2. \A x \in Orders : rank'[x] = 0 => filled'[x] = 0 /\ status'[x] = "New"
    BY <1>2, <1>3, <1>5 DEF IInv, CallInv
  <2>3. /\ rank'[taker'] > 0
        /\ remaining' <= req'[taker'].qty
        /\ \A x \in Orders \ {taker'} : rank'[x] < rank'[taker']
    <3>1. rank'[taker'] = 1 + Cardinality(Submitted)
      BY <1>3, <1>5
    <3>2. \A x \in Orders \ {taker'} : rank'[x] = rank[x]
      BY <1>3, <1>5
    <3>3. remaining' <= req'[taker'].qty
      BY <1>1 DEF IInv, TypeOK
    <3>4. QED
      BY <1>2, <1>5, <3>1, <3>2, <3>3
  <2>4. filled'[taker'] = 0 /\ status'[taker'] = "New"
    BY DEF IInv, CallInv
  <2>5. QED
    BY <2>1, <2>2, <2>3, <2>4 DEF CallInv
<1>7. FillInv'
  BY <1>1 DEF IInv, FillInv, CallInv, TypeOK
<1>8. o \notin orderMap
  BY DEF IInv, ActiveRests
<1>9. BookConsistent'
  <2>1. ASSUME NEW side \in Sides, NEW p \in Prices PROVE LevelOK(side, p)'
    <3>1. LevelOK(side, p) /\ level[side][p] \in Seq(Orders)
      BY DEF IInv, BookConsistent, TypeOK
    <3>2. \A i \in DOMAIN level[side][p] : level[side][p][i] # o
      BY <1>8, FreeLevels
    <3>3. pc # "makers" /\ pc' # "makers"
      OBVIOUS
    <3>4. \A i \in DOMAIN level[side][p] :
            LET x == level[side][p][i]
            IN  x \in Orders /\ req'[x] = req[x] /\ rank'[x] = rank[x]
      <4>1. \A x \in Orders \ {o} : req'[x] = req[x] /\ rank'[x] = rank[x]
        BY <1>3, <1>5 DEF IInv, TypeOK
      <4>2. \A i \in DOMAIN level[side][p] : level[side][p][i] \in Orders \ {o}
        BY <3>1, <3>2
      <4>3. QED
        BY <4>1, <4>2
    <3>5. \A i \in DOMAIN level[side][p] : \A j \in 1..(i - 1) : j \in DOMAIN level[side][p]
      BY <3>1
    <3> DEFINE q == level[side][p]
    <3>6. \A i \in DOMAIN q :
            /\ req[q[i]].side = side
            /\ req[q[i]].price = p
            /\ q[i] \in orderMap
            /\ IsActive(q[i])
            /\ \A j \in 1..(i - 1) : rank[q[j]] < rank[q[i]]
      BY <3>1, <3>3 DEF LevelOK, Live, InWork
    <3>7. \A i \in DOMAIN q : \A j \in 1..(i - 1) : rank'[q[j]] < rank'[q[i]]
      <4> HIDE DEF q
      <4>1. QED
        BY <3>4, <3>5, <3>6 DEF q
    <3>8. level' = level /\ heap' = heap /\ status' = status /\ orderMap' = orderMap
      OBVIOUS
    <3>9. p \in heap[side] <=> level[side][p] # <<>>
      BY <3>1 DEF LevelOK
    <3>10. QED
      BY <3>3, <3>4, <3>6, <3>7, <3>8, <3>9 DEF LevelOK, Live, InWork, IsActive
  <2>2. \A x \in orderMap : req'[x] = req[x]
    BY <1>8 DEF IInv, TypeOK
  <2>3. QED
    BY <2>1, <2>2 DEF IInv, BookConsistent, RestingOK, RemainingQty
<1>10. ActiveRests'
  <2>1. ASSUME NEW x \in Orders, x # o
        PROVE req'[x] = req[x] /\ rank'[x] = rank[x]
    BY <1>3, <1>5, <2>1 DEF IInv, TypeOK
  <2>2. QED
    BY <1>8, <2>1, OrderBookAssumption DEF IInv, ActiveRests, IsActive, Active, TypeOK
<1>11. Apart'
  BY DEF IInv, Apart
<1>12. QED
  BY <1>4, <1>6, <1>7, <1>9, <1>10, <1>11 DEF IInv

-----------------------------------------------------------------------------
(* matchAgainstLevel *)

(* Every iteration finds a resting order that can be filled: the iteration  *)
(* that only skips an order never happens.                                  *)
LEMMA MakerFacts ==
  ASSUME IInv, pc = "makers", Len(Queue) > skipCount, remaining > 0,
         NEW m, m = Queue[skipCount + 1]
  PROVE  /\ skipCount + 1 \in DOMAIN Queue
         /\ m \in orderMap /\ m \in Orders /\ m # taker
         /\ IsActive(m)
         /\ req[m].side = MakerSide /\ req[m].price = best
         /\ MatchQty(m) \in 1..remaining
         /\ MatchQty(m) \in 1..MaxQty
         /\ MatchQty(m) <= RemainingQty(m)
         /\ CanFill(m, MatchQty(m))
<1>1. /\ taker \in Orders /\ remaining \in Nat /\ remaining <= MaxQty /\ MaxQty \in Nat
      /\ skipCount \in Nat /\ best \in Prices /\ MakerSide \in Sides
      /\ Queue \in Seq(Orders)
  BY CallTypes, OrderBookAssumption DEF IInv, TypeOK
<1>2. skipCount + 1 \in DOMAIN Queue
  BY <1>1
<1>3. m \in Orders
  BY <1>1, <1>2
<1>4. LevelOK(MakerSide, best) /\ Live(MakerSide, best, skipCount + 1)
  BY <1>1 DEF IInv, BookConsistent, Live, InWork
<1>5. /\ m \in orderMap /\ IsActive(m)
      /\ req[m].side = MakerSide /\ req[m].price = best
  BY <1>2, <1>4 DEF LevelOK, Queue
<1>6. m # taker
  BY <1>3, <1>5 DEF IInv, ActiveRests
<1>7. RemainingQty(m) > 0 /\ RemainingQty(m) \in Int
  BY <1>3, <1>5, OrderTypes DEF IInv, BookConsistent, RestingOK
<1>8. /\ MatchQty(m) \in 1..remaining
      /\ MatchQty(m) \in 1..MaxQty
      /\ MatchQty(m) <= RemainingQty(m)
  BY <1>1, <1>7 DEF MatchQty
<1>9. CanFill(m, MatchQty(m))
  BY <1>5, <1>8 DEF CanFill, IsActive, Active
<1>10. QED
  BY <1>2, <1>3, <1>5, <1>6, <1>8, <1>9

(* The order that a pass over the level in work meets trades before every   *)
(* other one that rests on its side.                                        *)
LEMMA MakerIsFirst ==
  ASSUME IInv, VisitMaker, NEW m, m = Queue[skipCount + 1],
         NEW x \in orderMap, req[x].side = MakerSide, x # m
  PROVE  Ahead(req, rank, m, x) /\ ~Ahead(req, rank, x, m)
<1>1. pc = "makers" /\ Len(Queue) > skipCount /\ remaining > 0 /\ TypeOK
  BY DEF VisitMaker, IInv
<1>2. /\ skipCount + 1 \in DOMAIN Queue
      /\ m \in Orders /\ req[m].side = MakerSide /\ req[m].price = best
  BY <1>1, MakerFacts
<1>3. /\ skipCount \in Nat /\ best \in Prices /\ best \in Int
      /\ MakerSide \in Sides /\ Queue \in Seq(Orders)
  BY <1>1, CallTypes
<1>4. /\ x \in Orders /\ req[x].price \in Prices /\ req[x].price \in Int
      /\ rank[x] \in Nat /\ rank[m] \in Nat
  BY <1>1, <1>2, OrderTypes DEF TypeOK
<1> DEFINE s == level[req[x].side][req[x].price]
<1>5. PICK i \in DOMAIN s : s[i] = x
  BY DEF IInv, BookConsistent, RestingOK
<1>6. /\ req[x].price \in heap[MakerSide]
      /\ Live(req[x].side, req[x].price, i)
      /\ \A j \in 1..(i - 1) : rank[s[j]] < rank[s[i]]
  <2>1. s # <<>> /\ LevelOK(req[x].side, req[x].price)
    BY <1>3, <1>4, <1>5 DEF IInv, BookConsistent
  <2>2. QED
    BY <1>5, <2>1 DEF LevelOK
<1>7. ~Before(MakerSide, req[x].price, best)
  BY <1>1, <1>6 DEF IInv, CallInv, IsBest
<1>8. req[x].price = best => rank[m] < rank[x]
  <2>1. SUFFICES ASSUME req[x].price = best PROVE rank[m] < rank[x]
    OBVIOUS
  <2>2. s = Queue
    BY <2>1 DEF Queue
  <2>3. i > skipCount /\ i \in Nat
    BY <1>1, <1>3, <1>5, <1>6, <2>1, <2>2 DEF Live, InWork
  <2>4. i # skipCount + 1
    BY <1>5, <2>2
  <2>5. skipCount + 1 \in 1..(i - 1)
    BY <1>3, <2>3, <2>4
  <2>6. rank[s[skipCount + 1]] < rank[x]
    BY <1>5, <1>6, <2>5
  <2>7. QED
    BY <2>2, <2>6
<1>9. QED
  BY <1>2, <1>3, <1>4, <1>7, <1>8 DEF Ahead, Before, Sides

(* An order is at one position of one level only. *)
LEMMA OnePlace ==
  ASSUME IInv, NEW side \in Sides, NEW p \in Prices, NEW i \in DOMAIN level[side][p],
         NEW side2 \in Sides, NEW p2 \in Prices, NEW j \in DOMAIN level[side2][p2],
         level[side][p][i] = level[side2][p2][j]
  PROVE  side = side2 /\ p = p2 /\ i = j
<1>1. LevelOK(side, p) /\ LevelOK(side2, p2)
  BY DEF IInv, BookConsistent
<1>2. side = side2 /\ p = p2
  BY <1>1 DEF LevelOK
<1>3. level[side][p] \in Seq(Orders)
  BY DEF IInv, TypeOK
<1>4. i \in 1..Len(level[side][p]) /\ j \in 1..Len(level[side][p])
  BY <1>2, <1>3
<1>5. /\ i < j => rank[level[side][p][i]] < rank[level[side][p][j]]
      /\ j < i => rank[level[side][p][j]] < rank[level[side][p][i]]
  BY <1>1, <1>2, <1>4 DEF LevelOK
<1>6. rank[level[side][p][i]] \in Nat
  BY <1>3, <1>4 DEF IInv, TypeOK
<1>7. QED
  BY <1>2, <1>4, <1>5, <1>6

(* One pass of the loop of matchAgainstLevel. *)
LEMMA VisitMakerStep == IInv /\ VisitMaker => IInv'
<1> SUFFICES ASSUME IInv, VisitMaker PROVE IInv'
  OBVIOUS
<1> DEFINE m == Queue[skipCount + 1]
           q == MatchQty(m)
           full == q = RemainingQty(m)
<1>1. pc = "makers" /\ Len(Queue) > skipCount /\ remaining > 0
  BY DEF VisitMaker
<1>2. /\ skipCount + 1 \in DOMAIN Queue
      /\ m \in orderMap /\ m \in Orders /\ m # taker
      /\ IsActive(m)
      /\ req[m].side = MakerSide /\ req[m].price = best
      /\ q \in 1..remaining
      /\ q \in 1..MaxQty
      /\ q <= RemainingQty(m)
      /\ CanFill(m, q)
  BY <1>1, MakerFacts
<1>3. /\ taker \in Orders /\ remaining \in Nat /\ remaining <= MaxQty /\ MaxQty \in Nat
      /\ skipCount \in Nat /\ best \in Prices /\ MakerSide \in Sides
      /\ Queue \in Seq(Orders)
  BY <1>1, CallTypes, OrderBookAssumption DEF IInv, TypeOK
<1>4. q > 0 /\ q \in Nat /\ RemainingQty(m) \in Int
  BY <1>2, <1>3, OrderTypes DEF IInv
<1>5. /\ filled' = [filled EXCEPT ![m] = @ + q]
      /\ status' = [status EXCEPT ![m] = StatusAfter(m, filled[m] + q)]
      /\ trades' = Append(trades, NewTrade(m))
      /\ remaining' = remaining - q
      /\ IF full THEN skipCount' = skipCount + 1 /\ orderMap' = orderMap \ {m}
                 ELSE UNCHANGED <<skipCount, orderMap>>
  BY <1>2, <1>4 DEF VisitMaker, TryFill
<1>6. UNCHANGED <<req, rank, level, heap, levelMap, pc, taker, best, tradeCh, published,
                  reply, cancelledQty>>
  BY DEF VisitMaker, clientVars
<1>7. /\ filled[m] \in Nat /\ req[m].qty \in Nat
      /\ q <= req[m].qty - filled[m]
      /\ full <=> filled[m] + q = req[m].qty
  BY <1>2, <1>4, OrderTypes DEF IInv, RemainingQty
<1> HIDE DEF m, q
<1>8. /\ status'[m] = IF full THEN "Filled" ELSE "Partially"
      /\ filled'[m] = filled[m] + q
      /\ \A x \in Orders \ {m} : status'[x] = status[x] /\ filled'[x] = filled[x]
  <2>1. status \in [Orders -> Statuses] /\ filled \in [Orders -> Nat]
    BY DEF IInv, TypeOK
  <2>2. StatusAfter(m, filled[m] + q) = IF full THEN "Filled" ELSE "Partially"
    BY <1>4, <1>7 DEF StatusAfter
  <2>3. QED
    BY <1>2, <1>5, <2>1, <2>2
<1>9. NewTrade(m) \in Trades
  <2>1. MatchPrice(m) \in Prices
    BY <1>2, <1>3 DEF MatchPrice
  <2>2. QED
    BY <1>2, <1>3, <2>1 DEF NewTrade, Trades, q
<1>10. (MakerSide)' = MakerSide /\ Queue' = Queue
  BY <1>6 DEF MakerSide, Queue
<1>11. TypeOK'
  <2>1. StatusAfter(m, filled[m] + q) \in Statuses
    BY DEF StatusAfter, Statuses
  <2>2. /\ status' \in [Orders -> Statuses]
        /\ filled' \in [Orders -> Nat]
    <3>1. status \in [Orders -> Statuses] /\ filled \in [Orders -> Nat]
      BY DEF IInv, TypeOK
    <3>2. filled[m] + q \in Nat
      BY <1>4, <1>7
    <3>3. QED
      BY <1>2, <1>5, <2>1, <3>1, <3>2
  <2>3. remaining' \in 0..MaxQty
    BY <1>2, <1>3, <1>5
  <2>4. skipCount' \in Nat /\ orderMap' \subseteq Orders
    BY <1>3, <1>5 DEF IInv, TypeOK
  <2>5. trades' \in Seq(Trades)
    BY <1>5, <1>9 DEF IInv, TypeOK
  <2>6. QED
    BY <1>6, <2>2, <2>3, <2>4, <2>5 DEF IInv, TypeOK
<1>12. rank[m] > 0
  BY <1>2 DEF IInv, ActiveRests
<1>13. CallInv'
  <2>1. \A x \in Orders : rank'[x] <= Cardinality(Submitted')
    BY <1>6 DEF IInv, CallInv, Submitted
  <2>2. \A x \in Orders : rank'[x] = 0 => filled'[x] = 0 /\ status'[x] = "New"
    BY <1>6, <1>8, <1>12 DEF IInv, CallInv, TypeOK
  <2>3. /\ rank'[taker'] > 0
        /\ remaining' <= req'[taker'].qty
        /\ \A x \in Orders \ {taker'} : rank'[x] < rank'[taker']
    <3>1. remaining <= req[taker].qty /\ req[taker].qty \in Nat
      BY <1>1, <1>3, OrderTypes DEF IInv, CallInv
    <3>2. remaining' <= req[taker].qty
      BY <1>3, <1>4, <1>5, <3>1
    <3>3. QED
      BY <1>1, <1>6, <3>2 DEF IInv, CallInv
  <2>4. filled'[taker'] = 0 /\ status'[taker'] = "New"
    BY <1>1, <1>2, <1>3, <1>6, <1>8 DEF IInv, CallInv
  <2>5. (IsBest(MakerSide, best) /\ Crosses(taker, best))'
    BY <1>1, <1>6, <1>10 DEF IInv, CallInv, IsBest, Before, Crosses
  <2>6. skipCount' <= Len(Queue')
    BY <1>1, <1>3, <1>5, <1>10
  <2>7. QED
    BY <2>1, <2>2, <2>3, <2>4, <2>5, <2>6 DEF CallInv
<1>14. FillInv'
  <2>1. ASSUME NEW x \in Orders
        PROVE /\ filled'[x] <= req'[x].qty
              /\ status'[x] = "Filled" <=> filled'[x] = req'[x].qty
              /\ cancelledQty'[x] = IF status'[x] = "Cancelled"
                                      THEN req'[x].qty - filled'[x] ELSE 0
    <3>1. CASE x # m
      BY <1>6, <1>8, <3>1 DEF IInv, FillInv
    <3>2. CASE x = m
      BY <1>2, <1>4, <1>6, <1>7, <1>8, <3>2 DEF IInv, FillInv, IsActive, Active
    <3>3. QED
      BY <3>1, <3>2
  <2>2. QED
    BY <2>1 DEF FillInv
<1>15. BookConsistent'
  <2>1. ASSUME NEW side \in Sides, NEW p \in Prices PROVE LevelOK(side, p)'
    <3> DEFINE s == level[side][p]
               work == side = MakerSide /\ p = best
    <3>1. /\ p \in heap[side] <=> s # <<>>
          /\ \A i \in DOMAIN s :
               /\ req[s[i]].side = side
               /\ req[s[i]].price = p
               /\ s[i] \in orderMap <=> (work => i > skipCount)
               /\ IsActive(s[i]) <=> (work => i > skipCount)
               /\ \A j \in 1..(i - 1) : rank[s[j]] < rank[s[i]]
      BY <1>1 DEF IInv, BookConsistent, LevelOK, Live, InWork
    <3>2. s \in Seq(Orders)
      BY DEF IInv, TypeOK
    <3>3. ASSUME NEW i \in DOMAIN s, s[i] = m PROVE work /\ i = skipCount + 1
      BY <1>2, <1>3, <3>3, OnePlace DEF m, Queue
    <3>4. ASSUME NEW i \in DOMAIN s, work, i = skipCount + 1 PROVE s[i] = m
      BY <3>4 DEF m, Queue
    <3>5. ASSUME NEW i \in DOMAIN s
          PROVE /\ s[i] \in orderMap' <=> (work => i > skipCount')
                /\ status'[s[i]] \in Active <=> (work => i > skipCount')
      <4>1. i \in Nat /\ s[i] \in Orders
        BY <3>2
      <4>2. CASE full
        <5>1. skipCount' = skipCount + 1 /\ orderMap' = orderMap \ {m} /\ status'[m] = "Filled"
          BY <1>5, <1>8, <4>2
        <5>2. CASE s[i] = m
          BY <1>3, <3>3, <5>1, <5>2 DEF Active
        <5>3. CASE s[i] # m
          <6>1. ~(work /\ i = skipCount + 1)
            BY <3>4, <5>3
          <6>2. (work => i > skipCount') <=> (work => i > skipCount)
            BY <1>3, <4>1, <5>1, <6>1
          <6>3. status'[s[i]] = status[s[i]]
            BY <1>8, <4>1, <5>3
          <6> HIDE DEF s, work
          <6>4. QED
            BY <3>1, <5>1, <5>3, <6>2, <6>3 DEF IsActive
        <5>4. QED
          BY <5>2, <5>3
      <4>3. CASE ~full
        <5>1. skipCount' = skipCount /\ orderMap' = orderMap /\ status'[m] = "Partially"
          BY <1>5, <1>8, <4>3
        <5>2. status'[s[i]] \in Active <=> status[s[i]] \in Active
          BY <1>2, <1>8, <4>1, <5>1 DEF IsActive, Active
        <5> HIDE DEF s, work
        <5>3. QED
          BY <3>1, <5>1, <5>2 DEF IsActive
      <4>4. QED
        BY <4>2, <4>3
    <3>6. LevelOK(side, p)' <=>
            /\ p \in heap[side] <=> s # <<>>
            /\ \A i \in DOMAIN s :
                 /\ req[s[i]].side = side
                 /\ req[s[i]].price = p
                 /\ s[i] \in orderMap' <=> (work => i > skipCount')
                 /\ status'[s[i]] \in Active <=> (work => i > skipCount')
                 /\ \A j \in 1..(i - 1) : rank[s[j]] < rank[s[i]]
      BY <1>1, <1>6, <1>10 DEF LevelOK, Live, InWork, IsActive
    <3> HIDE DEF s, work
    <3>7. QED
      BY <3>1, <3>5, <3>6
  <2>2. ASSUME NEW x \in orderMap' PROVE RestingOK(x)'
    <3>1. x \in orderMap /\ x \in Orders /\ (x = m => ~full)
      BY <1>5 DEF IInv, TypeOK
    <3>2. RestingOK(x)
      BY <3>1 DEF IInv, BookConsistent
    <3>3. (RemainingQty(x))' > 0
      BY <1>4, <1>6, <1>7, <1>8, <3>1, <3>2, OrderTypes DEF RestingOK, RemainingQty, IInv
    <3>4. QED
      BY <1>6, <3>2, <3>3 DEF RestingOK
  <2>3. QED
    BY <1>6, <2>1, <2>2 DEF IInv, BookConsistent
<1>16. ActiveRests'
  <2>1. ASSUME NEW x \in Orders
        PROVE x \in orderMap' <=>
                /\ rank[x] > 0
                /\ req[x].type = "limit"
                /\ status'[x] \in Active
                /\ x = taker => pc = "sending"
    <3>1. x \in orderMap <=>
                /\ rank[x] > 0
                /\ req[x].type = "limit"
                /\ status[x] \in Active
                /\ x = taker => pc = "sending"
      BY DEF IInv, ActiveRests, IsActive
    <3>2. CASE x # m
      BY <1>5, <1>8, <3>1, <3>2
    <3>3. CASE x = m
      BY <1>2, <1>5, <1>8, <3>1, <3>3 DEF Active
    <3>4. QED
      BY <3>2, <3>3
  <2>2. QED
    BY <1>6, <2>1 DEF ActiveRests, IsActive
<1>17. Apart'
  BY <1>6 DEF IInv, Apart
<1>18. QED
  BY <1>11, <1>13, <1>14, <1>15, <1>16, <1>17 DEF IInv

(* What cleanupLevel does to the level it is given and to the others.       *)
LEMMA CleanupFacts ==
  ASSUME TypeOK, heap = levelMap,
         NEW side \in Sides, NEW p \in Prices, NEW q \in Seq(Orders),
         CleanupLevel(side, p, q)
  PROVE  /\ level' \in [Sides -> [Prices -> Seq(Orders)]]
         /\ heap' \in [Sides -> SUBSET Prices]
         /\ levelMap' = heap'
         /\ level'[side][p] = q
         /\ \A s2 \in Sides, p2 \in Prices :
              s2 # side \/ p2 # p => level'[s2][p2] = level[s2][p2]
         /\ \A s2 \in Sides, p2 \in Prices :
              p2 \in heap'[s2] <=> p2 \in heap[s2] /\ ~(s2 = side /\ p2 = p /\ q = <<>>)
  BY DEF TypeOK, CleanupLevel

(* The end of matchAgainstLevel, which cuts the filled makers from the level. *)
LEMMA LeaveLevelStep == IInv /\ LeaveLevel => IInv'
<1> SUFFICES ASSUME IInv, LeaveLevel PROVE IInv'
  OBVIOUS
<1> DEFINE new == IF skipCount > 0 THEN Keep(Queue, {o \in Orders : IsActive(o)}) ELSE Queue
<1>1. /\ pc = "makers" /\ pc' = "levels"
      /\ CleanupLevel(MakerSide, best, new)
      /\ UNCHANGED <<req, rank, status, filled, orderMap, taker, remaining, best, skipCount,
                     trades, tradeCh, published, reply, cancelledQty>>
  BY DEF LeaveLevel, orderVars, outVars, clientVars
<1>2. /\ taker \in Orders /\ skipCount \in Nat /\ best \in Prices /\ MakerSide \in Sides
      /\ Queue \in Seq(Orders)
      /\ skipCount <= Len(Queue)
      /\ best \in heap[MakerSide]
  BY <1>1, CallTypes DEF IInv, CallInv, IsBest
<1>3. \A i \in 1..Len(Queue) :
        /\ Queue[i] \in Orders
        /\ IsActive(Queue[i]) <=> i > skipCount
        /\ Queue[i] \in orderMap <=> i > skipCount
        /\ req[Queue[i]].side = MakerSide
        /\ req[Queue[i]].price = best
        /\ \A j \in 1..(i - 1) : rank[Queue[j]] < rank[Queue[i]]
  BY <1>1, <1>2 DEF IInv, BookConsistent, LevelOK, Live, InWork, Queue
<1>4. /\ new \in Seq(Orders)
      /\ Len(new) = Len(Queue) - skipCount
      /\ \A j \in 1..(Len(Queue) - skipCount) : new[j] = Queue[skipCount + j]
  <2>1. CASE skipCount = 0
    BY <1>2, <2>1
  <2>2. CASE skipCount > 0
    <3> DEFINE active == {o \in Orders : IsActive(o)}
    <3>1. \A i \in 1..Len(Queue) : Queue[i] \in active <=> i > skipCount
      BY <1>3
    <3>2. skipCount \in 0..Len(Queue)
      BY <1>2
    <3>3. new = Keep(Queue, active)
      BY <2>2
    <3> HIDE DEF active, new
    <3>4. /\ Keep(Queue, active) \in Seq(Orders)
          /\ Len(Keep(Queue, active)) = Len(Queue) - skipCount
          /\ \A j \in 1..(Len(Queue) - skipCount) :
               Keep(Queue, active)[j] = Queue[skipCount + j]
      BY <1>2, <3>1, <3>2, KeepSuffix
    <3>5. QED
      BY <3>3, <3>4
  <2>3. QED
    BY <1>2, <2>1, <2>2
<1> HIDE DEF new
<1>5. TypeOK /\ heap = levelMap
  BY DEF IInv, BookConsistent
<1>6. /\ level' \in [Sides -> [Prices -> Seq(Orders)]]
      /\ heap' \in [Sides -> SUBSET Prices]
      /\ levelMap' = heap'
      /\ level'[MakerSide][best] = new
      /\ \A s2 \in Sides, p2 \in Prices :
           s2 # MakerSide \/ p2 # best => level'[s2][p2] = level[s2][p2]
      /\ \A s2 \in Sides, p2 \in Prices :
           p2 \in heap'[s2] <=>
             p2 \in heap[s2] /\ ~(s2 = MakerSide /\ p2 = best /\ new = <<>>)
  BY <1>1, <1>2, <1>4, <1>5, CleanupFacts
<1>7. TypeOK'
  BY <1>1, <1>6 DEF IInv, TypeOK
<1>8. CallInv'
  BY <1>1 DEF IInv, CallInv, Submitted
<1>9. FillInv'
  BY <1>1 DEF IInv, FillInv
<1>10. BookConsistent'
  <2>1. ASSUME NEW side \in Sides, NEW p \in Prices PROVE LevelOK(side, p)'
    <3>1. CASE side = MakerSide /\ p = best
      <4>1. p \in heap'[side] <=> new # <<>>
        BY <1>2, <1>6, <3>1
      <4>2. DOMAIN new = 1..(Len(Queue) - skipCount)
        BY <1>4
      <4>3. ASSUME NEW j \in DOMAIN new
            PROVE /\ req[new[j]].side = side
                  /\ req[new[j]].price = p
                  /\ new[j] \in orderMap
                  /\ IsActive(new[j])
                  /\ \A k \in 1..(j - 1) : rank[new[k]] < rank[new[j]]
        <5>1. j \in Nat /\ j >= 1 /\ skipCount + j \in 1..Len(Queue) /\ skipCount + j > skipCount
          BY <1>2, <4>2
        <5>2. \A k \in 1..(j - 1) :
                /\ k \in DOMAIN new
                /\ skipCount + k \in 1..(skipCount + j - 1)
          BY <1>2, <4>2, <5>1
        <5>3. new[j] = Queue[skipCount + j]
          BY <1>4, <4>2
        <5>4. \A k \in 1..(j - 1) : new[k] = Queue[skipCount + k]
          BY <1>4, <4>2, <5>2
        <5> DEFINE i == skipCount + j
        <5>5. /\ req[Queue[i]].side = side
              /\ req[Queue[i]].price = p
              /\ Queue[i] \in orderMap
              /\ IsActive(Queue[i])
              /\ \A k \in 1..(i - 1) : rank[Queue[k]] < rank[Queue[i]]
          BY <1>3, <3>1, <5>1
        <5>6. ASSUME NEW k \in 1..(j - 1) PROVE rank[Queue[skipCount + k]] < rank[Queue[i]]
          <6>1. skipCount + k \in 1..(i - 1)
            BY <1>2, <5>1
          <6> HIDE DEF i
          <6>2. QED
            BY <5>5, <6>1
        <5> HIDE DEF i
        <5>7. new[j] = Queue[i]
          BY <5>3 DEF i
        <5>8. ASSUME NEW k \in 1..(j - 1) PROVE rank[new[k]] < rank[new[j]]
          <6>1. rank[Queue[skipCount + k]] < rank[Queue[i]] /\ new[k] = Queue[skipCount + k]
            BY <5>4, <5>6
          <6>2. QED
            BY <5>7, <6>1
        <5>9. QED
          BY <5>5, <5>7, <5>8 DEF IsActive
      <4>4. level'[side][p] = new
        BY <1>6, <3>1
      <4>5. QED
        BY <1>1, <4>1, <4>3, <4>4 DEF LevelOK, Live, InWork, IsActive
    <3>2. CASE side # MakerSide \/ p # best
      <4>1. level'[side][p] = level[side][p] /\ (p \in heap'[side] <=> p \in heap[side])
        BY <1>6, <3>2
      <4>2. LevelOK(side, p)
        BY DEF IInv, BookConsistent
      <4>3. QED
        BY <1>1, <3>2, <4>1, <4>2 DEF LevelOK, Live, InWork, IsActive
    <3>3. QED
      BY <3>1, <3>2
  <2>2. ASSUME NEW x \in orderMap' PROVE RestingOK(x)'
    <3>1. x \in orderMap /\ x \in Orders
      BY <1>1 DEF IInv, TypeOK
    <3>2. req[x].side \in Sides /\ req[x].price \in Prices
      BY <1>5, <3>1, OrderTypes
    <3> DEFINE s == level[req[x].side][req[x].price]
               t == level'[req[x].side][req[x].price]
    <3>3. PICK i \in DOMAIN s : s[i] = x
      BY <3>1 DEF IInv, BookConsistent, RestingOK
    <3>4. \E j \in DOMAIN t : t[j] = x
      <4>1. CASE req[x].side = MakerSide /\ req[x].price = best
        <5>1. s = Queue /\ t = new
          BY <1>6, <4>1 DEF Queue
        <5>2. i \in 1..Len(Queue) /\ i > skipCount
          BY <1>2, <1>3, <3>1, <3>3, <5>1
        <5>3. i - skipCount \in 1..(Len(Queue) - skipCount) /\ skipCount + (i - skipCount) = i
          BY <1>2, <5>2
        <5>4. i - skipCount \in DOMAIN t /\ t[i - skipCount] = x
          BY <1>4, <3>3, <5>1, <5>3
        <5>5. QED
          BY <5>4
      <4>2. CASE req[x].side # MakerSide \/ req[x].price # best
        BY <1>6, <3>2, <3>3, <4>2
      <4>3. QED
        BY <4>1, <4>2
    <3>5. RemainingQty(x) > 0
      BY <3>1 DEF IInv, BookConsistent, RestingOK
    <3>6. QED
      BY <1>1, <3>4, <3>5 DEF RestingOK, RemainingQty
  <2>3. QED
    BY <1>6, <2>1, <2>2 DEF BookConsistent
<1>11. ActiveRests'
  BY <1>1 DEF IInv, ActiveRests, IsActive
<1>12. Apart'
  <2>1. "buy" \in Sides /\ "sell" \in Sides
    BY DEF Sides
  <2>2. \A side \in Sides : heap'[side] \subseteq heap[side]
    BY <1>6
  <2>3. QED
    BY <2>1, <2>2 DEF IInv, Apart
<1>13. QED
  BY <1>7, <1>8, <1>9, <1>10, <1>11, <1>12 DEF IInv

-----------------------------------------------------------------------------
(* The taker joins the book *)

(* A side of the book with a level in it has a best level.                  *)
LEMMA BestFirst ==
  ASSUME TypeOK, NEW side \in Sides, NEW a \in heap[side]
  PROVE  \E p \in Prices : IsBest(side, p)
<1>1. heap[side] \subseteq Prices /\ MinPrice \in Int /\ MaxPrice \in Int
  BY OrderBookAssumption DEF TypeOK
<1>2. CASE side = "sell"
  <2> DEFINE S == {p - MinPrice : p \in heap[side]}
  <2>1. S \in SUBSET Nat /\ S # {}
    BY <1>1 DEF Prices
  <2> HIDE DEF S
  <2>2. PICK n \in S : \A k \in S : n <= k
    BY <2>1, LeastNat
  <2>3. PICK p \in heap[side] : n = p - MinPrice
    BY DEF S
  <2>4. \A q \in heap[side] : q - MinPrice \in S
    BY DEF S
  <2>5. ASSUME NEW q \in heap[side] PROVE ~(q < p)
    <3>1. p - MinPrice <= q - MinPrice
      BY <2>2, <2>3, <2>4
    <3>2. p \in Int /\ q \in Int
      BY <1>1 DEF Prices
    <3>3. QED
      BY <1>1, <3>1, <3>2
  <2>6. QED
    BY <1>1, <1>2, <2>5 DEF IsBest, Before
<1>3. CASE side = "buy"
  <2> DEFINE S == {MaxPrice - p : p \in heap[side]}
  <2>1. S \in SUBSET Nat /\ S # {}
    BY <1>1 DEF Prices
  <2> HIDE DEF S
  <2>2. PICK n \in S : \A k \in S : n <= k
    BY <2>1, LeastNat
  <2>3. PICK p \in heap[side] : n = MaxPrice - p
    BY DEF S
  <2>4. \A q \in heap[side] : MaxPrice - q \in S
    BY DEF S
  <2>5. ASSUME NEW q \in heap[side] PROVE ~(q > p)
    <3>1. MaxPrice - p <= MaxPrice - q
      BY <2>2, <2>3, <2>4
    <3>2. p \in Int /\ q \in Int
      BY <1>1 DEF Prices
    <3>3. QED
      BY <1>1, <3>1, <3>2
  <2>6. QED
    BY <1>1, <1>3, <2>5 DEF IsBest, Before
<1>4. QED
  BY <1>2, <1>3 DEF Sides

(* When no level is matchable, no level of the other side crosses what is   *)
(* left of the taker.                                                       *)
LEMMA NothingCrosses ==
  ASSUME IInv, pc = "levels", remaining > 0, \A p \in Prices : ~Matchable(p),
         NEW a \in heap[MakerSide]
  PROVE  ~Crosses(taker, a)
<1>1. taker \in Orders /\ MakerSide \in Sides /\ TypeOK
  BY CallTypes DEF IInv
<1>2. PICK p \in Prices : IsBest(MakerSide, p)
  BY <1>1, BestFirst
<1>3. ~Crosses(taker, p)
  BY <1>2 DEF Matchable
<1>4. /\ a \in Int /\ p \in Int
      /\ req[taker].price \in Int
      /\ req[taker].side \in Sides
  <2>1. a \in Prices /\ MinPrice \in Int /\ MaxPrice \in Int
    BY <1>1, OrderBookAssumption DEF TypeOK
  <2>2. QED
    BY <1>1, <2>1, OrderTypes DEF Prices
<1>5. ~Before(MakerSide, a, p)
  BY <1>2 DEF IsBest
<1>6. CASE req[taker].side = "buy"
  BY <1>3, <1>4, <1>5, <1>6 DEF Crosses, Before, MakerSide, Opposite
<1>7. CASE req[taker].side = "sell"
  BY <1>3, <1>4, <1>5, <1>7 DEF Crosses, Before, MakerSide, Opposite
<1>8. QED
  BY <1>4, <1>6, <1>7 DEF Sides

(* Whether the level is there already or not, the order is appended to it.  *)
LEMMA AddFacts ==
  ASSUME IInv, NEW o \in Orders, AddOrderToBook(o)
  PROVE  /\ level' = [level EXCEPT ![req[o].side][req[o].price] = Append(@, o)]
         /\ heap' = [heap EXCEPT ![req[o].side] = @ \cup {req[o].price}]
         /\ levelMap' = heap'
         /\ orderMap' = orderMap \cup {o}
<1> DEFINE side == req[o].side
           p == req[o].price
<1>1. side \in Sides /\ p \in Prices /\ TypeOK
  BY OrderTypes DEF IInv
<1>2. heap = levelMap /\ (p \in heap[side] <=> level[side][p] # <<>>)
  BY <1>1 DEF IInv, BookConsistent, LevelOK
<1>3. Append(<<>>, o) = <<o>>
  OBVIOUS
<1>4. CASE p \in levelMap[side]
  <2>1. level' = [level EXCEPT ![side][p] = Append(@, o)] /\ heap' = heap
    BY <1>4 DEF AddOrderToBook
  <2>2. heap = [heap EXCEPT ![side] = @ \cup {p}]
    BY <1>1, <1>2, <1>4 DEF TypeOK
  <2>3. QED
    BY <1>2, <2>1, <2>2 DEF AddOrderToBook
<1>5. CASE p \notin levelMap[side]
  <2>1. level[side][p] = <<>>
    BY <1>2, <1>5
  <2>2. QED
    BY <1>1, <1>2, <1>3, <1>5, <2>1 DEF AddOrderToBook
<1>6. QED
  BY <1>4, <1>5

(* The end of the match, where a limit order with a rest comes to rest. *)
LEMMA FinishMatchStep == IInv /\ FinishMatch => IInv'
<1> SUFFICES ASSUME IInv, FinishMatch PROVE IInv'
  OBVIOUS
<1> DEFINE fill == TakerFill
           rests == req[taker].type = "limit" /\ remaining > 0
           side == req[taker].side
           p == req[taker].price
<1>1. /\ pc = "levels" /\ pc' = "sending"
      /\ \A x \in Prices : ~Matchable(x)
      /\ TryFill(taker, fill)
      /\ UNCHANGED <<req, rank, taker, remaining, best, skipCount,
                     trades, tradeCh, published, reply, cancelledQty>>
  BY DEF FinishMatch, outVars, clientVars
<1>2. /\ taker \in Orders /\ taker # NoOrder
      /\ side \in Sides /\ p \in Prices /\ p \in Int
      /\ remaining \in Nat /\ req[taker].qty \in Nat /\ req[taker].qty > 0
      /\ remaining <= req[taker].qty
      /\ filled[taker] = 0 /\ status[taker] = "New" /\ rank[taker] > 0
      /\ TypeOK
  BY <1>1, CallTypes, OrderTypes, OrderBookAssumption DEF IInv, CallInv
<1>3. fill \in Nat /\ fill = req[taker].qty - remaining
  BY <1>2 DEF TakerFill
<1>4. /\ filled'[taker] = fill
      /\ status'[taker] = IF remaining = 0 THEN "Filled"
                          ELSE IF fill > 0 THEN "Partially" ELSE "New"
      /\ \A x \in Orders \ {taker} : status'[x] = status[x] /\ filled'[x] = filled[x]
      /\ status' \in [Orders -> Statuses]
      /\ filled' \in [Orders -> Nat]
  <2>1. status \in [Orders -> Statuses] /\ filled \in [Orders -> Nat]
    BY <1>2 DEF TypeOK
  <2> HIDE DEF fill
  <2>2. CASE fill = 0
    <3>1. UNCHANGED <<status, filled>>
      BY <1>1, <2>2 DEF TryFill
    <3>2. QED
      BY <1>2, <1>3, <2>1, <2>2, <3>1
  <2>3. CASE fill > 0
    <3>1. CanFill(taker, fill)
      BY <1>2, <1>3 DEF CanFill, RemainingQty
    <3>2. StatusAfter(taker, filled[taker] + fill)
            = IF remaining = 0 THEN "Filled" ELSE "Partially"
      BY <1>2, <1>3 DEF StatusAfter
    <3>3. /\ filled' = [filled EXCEPT ![taker] = @ + fill]
          /\ status' = [status EXCEPT ![taker] = StatusAfter(taker, filled[taker] + fill)]
      BY <1>1, <2>3, <3>1 DEF TryFill
    <3>4. QED
      BY <1>2, <1>3, <2>1, <2>3, <3>2, <3>3 DEF Statuses
  <2>4. QED
    BY <1>3, <2>2, <2>3
<1> HIDE DEF fill
<1>5. IF rests THEN AddOrderToBook(taker) ELSE UNCHANGED bookVars
  <2>1. rests <=> /\ req[taker].type = "limit"
                  /\ filled'[taker] < req[taker].qty
                  /\ status'[taker] \in Active
    BY <1>2, <1>3, <1>4 DEF Active
  <2>2. QED
    BY <2>1 DEF FinishMatch
<1>6. taker \notin orderMap
  BY <1>1, <1>2 DEF IInv, ActiveRests
<1>7. /\ level' = IF rests THEN [level EXCEPT ![side][p] = Append(@, taker)] ELSE level
      /\ heap' = IF rests THEN [heap EXCEPT ![side] = @ \cup {p}] ELSE heap
      /\ levelMap' = heap'
      /\ orderMap' = IF rests THEN orderMap \cup {taker} ELSE orderMap
  <2>1. CASE rests
    BY <1>2, <1>5, <2>1, AddFacts
  <2>2. CASE ~rests
    BY <1>5, <2>2 DEF bookVars, IInv, BookConsistent
  <2>3. QED
    BY <2>1, <2>2
<1>8. TypeOK'
  <2>1. level' \in [Sides -> [Prices -> Seq(Orders)]] /\ heap' \in [Sides -> SUBSET Prices]
    <3>1. /\ level \in [Sides -> [Prices -> Seq(Orders)]]
          /\ heap \in [Sides -> SUBSET Prices]
      BY <1>2 DEF TypeOK
    <3>2. Append(level[side][p], taker) \in Seq(Orders)
      BY <1>2, <3>1
    <3> HIDE DEF rests, side, p
    <3>3. level' \in [Sides -> [Prices -> Seq(Orders)]]
      BY <1>2, <1>7, <3>1, <3>2
    <3>4. heap' \in [Sides -> SUBSET Prices]
      BY <1>2, <1>7, <3>1
    <3>5. QED
      BY <3>3, <3>4
  <2>2. levelMap' \in [Sides -> SUBSET Prices]
    BY <1>7, <2>1
  <2>3. orderMap' \subseteq Orders
    BY <1>2, <1>7 DEF TypeOK
  <2>4. QED
    BY <1>1, <1>2, <1>4, <2>1, <2>2, <2>3 DEF TypeOK
<1>9. CallInv'
  <2>1. ASSUME NEW x \in Orders
        PROVE rank[x] = 0 => filled'[x] = 0 /\ status'[x] = "New"
    <3>1. CASE x = taker
      BY <1>2, <3>1
    <3>2. CASE x # taker
      BY <1>4, <3>2 DEF IInv, CallInv
    <3>3. QED
      BY <3>1, <3>2
  <2>2. QED
    BY <1>1, <2>1 DEF IInv, CallInv, Submitted
<1>10. FillInv'
  <2>1. ASSUME NEW x \in Orders
        PROVE /\ filled'[x] <= req[x].qty
              /\ status'[x] = "Filled" <=> filled'[x] = req[x].qty
              /\ cancelledQty[x] = IF status'[x] = "Cancelled"
                                     THEN req[x].qty - filled'[x] ELSE 0
    <3>1. /\ filled[x] <= req[x].qty
          /\ status[x] = "Filled" <=> filled[x] = req[x].qty
          /\ cancelledQty[x] = IF status[x] = "Cancelled" THEN req[x].qty - filled[x] ELSE 0
      BY DEF IInv, FillInv
    <3>2. CASE x = taker
      BY <1>2, <1>3, <1>4, <3>1, <3>2
    <3>3. CASE x # taker
      BY <1>4, <3>1, <3>3
    <3>4. QED
      BY <3>2, <3>3
  <2>2. QED
    BY <1>1, <2>1 DEF FillInv
<1>11. BookConsistent'
  <2>1. ASSUME NEW s2 \in Sides, NEW p2 \in Prices PROVE LevelOK(s2, p2)'
    <3> DEFINE s == level[s2][p2]
               t == level'[s2][p2]
    <3>1. /\ s \in Seq(Orders)
          /\ p2 \in heap[s2] <=> s # <<>>
          /\ \A i \in DOMAIN s :
               /\ req[s[i]].side = s2
               /\ req[s[i]].price = p2
               /\ s[i] \in orderMap
               /\ IsActive(s[i])
               /\ s[i] # taker
               /\ s[i] \in Orders
               /\ \A j \in 1..(i - 1) : rank[s[j]] < rank[s[i]]
      <4>1. s \in Seq(Orders) /\ LevelOK(s2, p2)
        BY <1>2 DEF TypeOK, IInv, BookConsistent
      <4>2. \A i \in DOMAIN s : s[i] \in orderMap /\ IsActive(s[i])
        BY <1>1, FreeLevels
      <4>3. QED
        BY <1>6, <4>1, <4>2 DEF LevelOK
    <3>2. CASE rests /\ s2 = side /\ p2 = p
      <4>1. t = Append(s, taker) /\ p2 \in heap'[s2]
        BY <1>2, <1>7, <3>2 DEF TypeOK
      <4>2. /\ Len(t) = Len(s) + 1 /\ t \in Seq(Orders)
            /\ t[Len(s) + 1] = taker
            /\ \A i \in 1..Len(s) : t[i] = s[i]
        BY <1>2, <3>1, <4>1, AppendProperties
      <4> HIDE DEF s, t
      <4>3. ASSUME NEW i \in DOMAIN t
            PROVE /\ req[t[i]].side = s2
                  /\ req[t[i]].price = p2
                  /\ t[i] \in orderMap'
                  /\ status'[t[i]] \in Active
                  /\ \A j \in 1..(i - 1) : rank[t[j]] < rank[t[i]]
        <5>1. i \in 1..(Len(s) + 1) /\ Len(s) \in Nat /\ DOMAIN s = 1..Len(s)
          BY <3>1, <4>2
        <5>2. CASE i = Len(s) + 1
          <6>1. t[i] = taker
            BY <4>2, <5>2
          <6>2. taker \in orderMap' /\ status'[taker] \in Active
            BY <1>4, <1>7, <3>2 DEF Active
          <6>3. ASSUME NEW j \in 1..(i - 1) PROVE rank[t[j]] < rank[t[i]]
            <7>1. j \in 1..Len(s)
              BY <5>1, <5>2
            <7>2. t[j] \in Orders \ {taker}
              BY <3>1, <4>2, <5>1, <7>1
            <7>3. QED
              BY <1>1, <6>1, <7>2 DEF IInv, CallInv
          <6>4. QED
            BY <3>2, <6>1, <6>2, <6>3
        <5>3. CASE i <= Len(s)
          <6>1. i \in 1..Len(s) /\ t[i] = s[i]
            BY <4>2, <5>1, <5>3
          <6>2. s[i] \in orderMap' /\ status'[s[i]] \in Active
            BY <1>4, <1>7, <3>1, <5>1, <6>1 DEF IsActive
          <6>3. ASSUME NEW j \in 1..(i - 1) PROVE rank[t[j]] < rank[t[i]]
            <7>1. j \in 1..Len(s)
              BY <5>1, <5>3
            <7>2. rank[s[j]] < rank[s[i]]
              BY <3>1, <5>1, <6>1
            <7>3. QED
              BY <4>2, <6>1, <7>1, <7>2
          <6>4. QED
            BY <3>1, <5>1, <6>1, <6>2, <6>3
        <5>4. QED
          BY <5>1, <5>2, <5>3
      <4>4. t # <<>>
        BY <3>1, <4>2
      <4>5. QED
        BY <1>1, <4>1, <4>3, <4>4 DEF LevelOK, Live, InWork, IsActive, t
    <3>3. CASE ~(rests /\ s2 = side /\ p2 = p)
      <4>1. t = s /\ (p2 \in heap'[s2] <=> p2 \in heap[s2])
        BY <1>2, <1>7, <3>3 DEF TypeOK
      <4>2. \A i \in DOMAIN s : s[i] \in orderMap' /\ status'[s[i]] \in Active
        BY <1>4, <1>7, <3>1 DEF IsActive
      <4> HIDE DEF s
      <4>3. QED
        BY <1>1, <3>1, <4>1, <4>2 DEF LevelOK, Live, InWork, IsActive
    <3>4. QED
      BY <3>2, <3>3
  <2>2. ASSUME NEW x \in orderMap' PROVE RestingOK(x)'
    <3>1. CASE x = taker /\ rests
      <4>1. level[side][p] \in Seq(Orders)
        BY <1>2 DEF TypeOK
      <4>2. level'[side][p] = Append(level[side][p], taker)
        BY <1>2, <1>7, <3>1 DEF TypeOK
      <4>3. /\ Len(level[side][p]) + 1 \in DOMAIN level'[side][p]
            /\ level'[side][p][Len(level[side][p]) + 1] = taker
        <5> DEFINE s == level[side][p]
        <5>1. s \in Seq(Orders) /\ level'[side][p] = Append(s, taker)
          BY <4>1, <4>2
        <5> HIDE DEF s
        <5>2. /\ Append(s, taker) \in Seq(Orders)
              /\ Len(Append(s, taker)) = Len(s) + 1
              /\ Append(s, taker)[Len(s) + 1] = taker
          BY <1>2, <5>1, AppendProperties
        <5>3. Len(s) + 1 \in DOMAIN Append(s, taker)
          BY <5>1, <5>2
        <5>4. /\ Len(s) + 1 \in DOMAIN level'[side][p]
              /\ level'[side][p][Len(s) + 1] = taker
          BY <5>1, <5>2, <5>3
        <5>5. QED
          BY <5>4 DEF s
      <4>4. (RemainingQty(x))' > 0
        BY <1>1, <1>2, <1>3, <1>4, <3>1 DEF RemainingQty
      <4>5. QED
        BY <1>1, <3>1, <4>3, <4>4 DEF RestingOK
    <3>2. CASE x # taker \/ ~rests
      <4>1. x \in orderMap /\ x \in Orders /\ x # taker
        BY <1>2, <1>6, <1>7, <3>2 DEF TypeOK
      <4>2. req[x].side \in Sides /\ req[x].price \in Prices
        BY <1>2, <4>1, OrderTypes
      <4> DEFINE s == level[req[x].side][req[x].price]
                 t == level'[req[x].side][req[x].price]
      <4>3. PICK i \in DOMAIN s : s[i] = x
        BY <4>1 DEF IInv, BookConsistent, RestingOK
      <4>4. s \in Seq(Orders) /\ (t = s \/ t = Append(s, taker))
        <5>1. level \in [Sides -> [Prices -> Seq(Orders)]]
          BY <1>2 DEF TypeOK
        <5>2. CASE rests
          <6>1. level' = [level EXCEPT ![side][p] = Append(@, taker)]
            BY <1>7, <5>2
          <6> HIDE DEF rests, side, p
          <6>2. QED
            BY <1>2, <4>2, <5>1, <6>1
        <5>3. CASE ~rests
          BY <1>7, <4>2, <5>1, <5>3
        <5>4. QED
          BY <5>2, <5>3
      <4> HIDE DEF s, t
      <4>5. i \in DOMAIN t /\ t[i] = x
        BY <1>2, <4>3, <4>4
      <4>6. (RemainingQty(x))' > 0
        BY <1>1, <1>4, <4>1 DEF IInv, BookConsistent, RestingOK, RemainingQty
      <4>7. QED
        BY <1>1, <4>5, <4>6 DEF RestingOK, t
    <3>3. QED
      BY <3>1, <3>2
  <2>3. QED
    BY <1>7, <2>1, <2>2 DEF BookConsistent
<1>12. ActiveRests'
  <2>1. ASSUME NEW x \in Orders
        PROVE x \in orderMap' <=>
                /\ rank[x] > 0
                /\ req[x].type = "limit"
                /\ status'[x] \in Active
    <3>1. CASE x = taker
      BY <1>2, <1>4, <1>6, <1>7, <3>1 DEF Active
    <3>2. CASE x # taker
      <4>1. x \in orderMap <=>
                /\ rank[x] > 0
                /\ req[x].type = "limit"
                /\ status[x] \in Active
        BY <3>2 DEF IInv, ActiveRests, IsActive
      <4>2. QED
        BY <1>4, <1>7, <3>2, <4>1
    <3>3. QED
      BY <3>1, <3>2
  <2>2. QED
    BY <1>1, <2>1 DEF ActiveRests, IsActive
<1>13. Apart'
  <2>1. CASE ~rests
    BY <1>7, <2>1 DEF IInv, Apart
  <2>2. CASE rests
    <3>1. ASSUME NEW a \in heap[MakerSide] PROVE ~Crosses(taker, a) /\ a \in Int
      <4>1. a \in Prices /\ MinPrice \in Int /\ MaxPrice \in Int
        BY <1>1, <1>2, CallTypes, OrderBookAssumption DEF TypeOK
      <4>2. QED
        BY <1>1, <2>2, <4>1, NothingCrosses DEF Prices
    <3>2. "buy" \in Sides /\ "sell" \in Sides
      BY DEF Sides
    <3>3. CASE side = "buy"
      <4>1. \A a \in heap["sell"] : p < a
        BY <1>2, <2>2, <3>1, <3>3 DEF MakerSide, Opposite, Crosses
      <4>2. heap'["buy"] = heap["buy"] \cup {p} /\ heap'["sell"] = heap["sell"]
        BY <1>2, <1>7, <2>2, <3>2, <3>3 DEF TypeOK
      <4>3. QED
        BY <4>1, <4>2 DEF IInv, Apart
    <3>4. CASE side = "sell"
      <4>1. \A b \in heap["buy"] : b < p
        BY <1>2, <2>2, <3>1, <3>4 DEF MakerSide, Opposite, Crosses
      <4>2. heap'["sell"] = heap["sell"] \cup {p} /\ heap'["buy"] = heap["buy"]
        BY <1>2, <1>7, <2>2, <3>2, <3>4 DEF TypeOK
      <4>3. QED
        BY <4>1, <4>2 DEF IInv, Apart
    <3>5. QED
      BY <1>2, <3>3, <3>4 DEF Sides
  <2>3. QED
    BY <2>1, <2>2
<1>14. QED
  BY <1>8, <1>9, <1>10, <1>11, <1>12, <1>13 DEF IInv

-----------------------------------------------------------------------------
(* Cancel *)

(* An order that Cancel finds is active, and it is in its level.            *)
LEMMA FoundIsActive ==
  ASSUME IInv, NEW o \in orderMap, pc = "unlocked"
  PROVE  /\ o \in Orders /\ IsActive(o)
         /\ req[o].price \in heap[req[o].side]
         /\ \E i \in DOMAIN level[req[o].side][req[o].price] :
              level[req[o].side][req[o].price][i] = o
<1>1. TypeOK /\ o \in Orders /\ req[o].side \in Sides /\ req[o].price \in Prices
  BY OrderTypes DEF IInv, TypeOK
<1>2. IsActive(o)
  BY <1>1 DEF IInv, ActiveRests
<1>3. PICK i \in DOMAIN level[req[o].side][req[o].price] :
             level[req[o].side][req[o].price][i] = o
  BY DEF IInv, BookConsistent, RestingOK
<1>4. level[req[o].side][req[o].price] # <<>>
  BY <1>3
<1>5. QED
  BY <1>1, <1>2, <1>3, <1>4 DEF IInv, BookConsistent, LevelOK

(* A Cancel that takes an order from its level and from orderMap. *)
LEMMA CancelKnownStep ==
  ASSUME IInv, NEW o \in Orders, CancelKnown(o)
  PROVE  IInv'
<1> DEFINE side == req[o].side
           p == req[o].price
           s == level[side][p]
           new == RemoveFirst(s, o)
<1>1. /\ pc = "unlocked" /\ o \in orderMap /\ IsActive(o)
      /\ p \in heap[side]
      /\ \E i \in DOMAIN s : s[i] = o
  BY FoundIsActive DEF CancelKnown
<1>2. /\ TypeOK /\ heap = levelMap /\ side \in Sides /\ p \in Prices
      /\ s \in Seq(Orders)
      /\ req[o].qty \in Nat /\ req[o].qty <= MaxQty /\ MaxQty \in Nat /\ filled[o] \in Nat
      /\ o # NoOrder
  <2>1. TypeOK /\ heap = levelMap
    BY DEF IInv, BookConsistent
  <2>2. side \in Sides /\ p \in Prices /\ filled[o] \in Nat /\ req[o].qty \in 1..MaxQty
    BY <2>1, OrderTypes
  <2>3. s \in Seq(Orders)
    BY <2>1, <2>2 DEF TypeOK
  <2>4. QED
    BY <2>1, <2>2, <2>3, OrderBookAssumption
<1>3. /\ status' = [status EXCEPT ![o] = "Cancelled"]
      /\ cancelledQty' = [cancelledQty EXCEPT ![o] = req[o].qty - filled[o]]
      /\ CleanupLevel(side, p, new)
      /\ orderMap' = orderMap \ {o}
      /\ reply' = [order |-> o, answer |-> "ok"]
  BY <1>1, <1>2 DEF CancelKnown, CancelAccepted, RemainingQty
<1>4. UNCHANGED <<req, rank, filled, pc, taker, remaining, best, skipCount,
                  trades, tradeCh, published>>
  BY DEF CancelKnown, callVars, outVars
<1>5. PICK k \in 1..Len(s) : s[k] = o
  BY <1>1, <1>2
<1>6. \A j \in 1..Len(s) : s[j] = o => j = k
  BY <1>2, <1>5, OnePlace
<1>7. \A i \in 1..Len(s) :
        /\ s[i] \in orderMap
        /\ s[i] \in Orders
        /\ IsActive(s[i])
        /\ req[s[i]].side = side
        /\ req[s[i]].price = p
        /\ \A j \in 1..(i - 1) : rank[s[j]] < rank[s[i]]
  <2>1. LevelOK(side, p) /\ DOMAIN s = 1..Len(s) /\ \A i \in 1..Len(s) : s[i] \in Orders
    BY <1>2 DEF IInv, BookConsistent
  <2>2. \A i \in DOMAIN s : s[i] \in orderMap /\ IsActive(s[i])
    BY <1>1, <1>2, FreeLevels
  <2>3. QED
    BY <2>1, <2>2 DEF LevelOK
<1> HIDE DEF s
<1>8. /\ new \in Seq(Orders)
      /\ Len(new) = Len(s) - 1
      /\ \A j \in 1..(Len(s) - 1) : new[j] = IF j < k THEN s[j] ELSE s[j + 1]
  BY <1>2, <1>5, <1>6, RemoveOnly
<1> HIDE DEF new
<1>9. /\ level' \in [Sides -> [Prices -> Seq(Orders)]]
      /\ heap' \in [Sides -> SUBSET Prices]
      /\ levelMap' = heap'
      /\ level'[side][p] = new
      /\ \A s2 \in Sides, p2 \in Prices :
           s2 # side \/ p2 # p => level'[s2][p2] = level[s2][p2]
      /\ \A s2 \in Sides, p2 \in Prices :
           p2 \in heap'[s2] <=> p2 \in heap[s2] /\ ~(s2 = side /\ p2 = p /\ new = <<>>)
  BY <1>2, <1>3, <1>8, CleanupFacts
<1>10. filled[o] <= req[o].qty /\ filled[o] # req[o].qty /\ rank[o] > 0
  BY <1>1 DEF IInv, FillInv, ActiveRests, IsActive, Active
<1>11. TypeOK'
  <2>1. cancelledQty' \in [Orders -> 0..MaxQty]
    <3>1. req[o].qty - filled[o] \in 0..MaxQty
      BY <1>2, <1>10
    <3>2. QED
      BY <1>2, <1>3, <3>1 DEF TypeOK
  <2>2. reply' \in [order : Orders \cup {NoOrder}, answer : Answers]
    BY <1>3 DEF Answers
  <2>3. status' \in [Orders -> Statuses] /\ orderMap' \subseteq Orders
    BY <1>2, <1>3 DEF TypeOK, Statuses
  <2>4. QED
    BY <1>2, <1>4, <1>9, <2>1, <2>2, <2>3 DEF TypeOK
<1>12. \A x \in Orders \ {o} : status'[x] = status[x] /\ cancelledQty'[x] = cancelledQty[x]
  BY <1>2, <1>3 DEF TypeOK
<1>13. status'[o] = "Cancelled" /\ cancelledQty'[o] = req[o].qty - filled[o]
  BY <1>2, <1>3 DEF TypeOK
<1>14. CallInv'
  BY <1>1, <1>4, <1>10, <1>12 DEF IInv, CallInv, Submitted
<1>15. FillInv'
  <2>1. ASSUME NEW x \in Orders
        PROVE /\ filled[x] <= req[x].qty
              /\ status'[x] = "Filled" <=> filled[x] = req[x].qty
              /\ cancelledQty'[x] = IF status'[x] = "Cancelled"
                                      THEN req[x].qty - filled[x] ELSE 0
    <3>1. CASE x = o
      BY <1>10, <1>13, <3>1
    <3>2. CASE x # o
      BY <1>12, <3>2 DEF IInv, FillInv
    <3>3. QED
      BY <3>1, <3>2
  <2>2. QED
    BY <1>4, <2>1 DEF FillInv
<1>16. BookConsistent'
  <2>1. ASSUME NEW s2 \in Sides, NEW p2 \in Prices PROVE LevelOK(s2, p2)'
    <3>1. CASE s2 = side /\ p2 = p
      <4>1. p2 \in heap'[s2] <=> new # <<>>
        BY <1>1, <1>9, <3>1
      <4>2. level'[s2][p2] = new
        BY <1>9, <3>1
      <4>3. ASSUME NEW j \in DOMAIN new
            PROVE \E i \in 1..Len(s) :
                    /\ new[j] = s[i] /\ i # k
                    /\ \A l \in 1..(j - 1) : \E h \in 1..(i - 1) : new[l] = s[h]
        <5>1. j \in 1..(Len(s) - 1) /\ Len(s) \in Nat
          BY <1>2, <1>8
        <5>2. CASE j < k
          <6>1. j \in 1..Len(s) /\ new[j] = s[j] /\ j # k
            BY <1>5, <1>8, <5>1, <5>2
          <6>2. \A l \in 1..(j - 1) : new[l] = s[l]
            BY <1>5, <1>8, <5>1, <5>2
          <6>3. QED
            BY <6>1, <6>2
        <5>3. CASE j >= k
          <6>1. j + 1 \in 1..Len(s) /\ new[j] = s[j + 1] /\ j + 1 # k
            BY <1>5, <1>8, <5>1, <5>3
          <6>2. ASSUME NEW l \in 1..(j - 1)
                PROVE \E h \in 1..((j + 1) - 1) : new[l] = s[h]
            <7>1. l \in 1..(Len(s) - 1)
              BY <5>1
            <7>2. new[l] = s[l] \/ new[l] = s[l + 1]
              BY <1>8, <7>1
            <7>3. l \in 1..((j + 1) - 1) /\ l + 1 \in 1..((j + 1) - 1)
              BY <5>1
            <7>4. QED
              BY <7>2, <7>3
          <6>3. QED
            BY <6>1, <6>2
        <5>4. QED
          BY <1>5, <5>1, <5>2, <5>3
      <4>4. ASSUME NEW j \in DOMAIN new
            PROVE /\ req[new[j]].side = s2
                  /\ req[new[j]].price = p2
                  /\ new[j] \in orderMap'
                  /\ status'[new[j]] \in Active
                  /\ \A l \in 1..(j - 1) : rank[new[l]] < rank[new[j]]
        <5>1. PICK i \in 1..Len(s) :
                     /\ new[j] = s[i] /\ i # k
                     /\ \A l \in 1..(j - 1) : \E h \in 1..(i - 1) : new[l] = s[h]
          BY <4>3
        <5>2. s[i] # o
          BY <1>6, <5>1
        <5>3. QED
          BY <1>3, <1>7, <1>12, <3>1, <5>1, <5>2 DEF IsActive
      <4>5. QED
        BY <1>1, <1>4, <4>1, <4>2, <4>4 DEF LevelOK, Live, InWork, IsActive
    <3>2. CASE s2 # side \/ p2 # p
      <4> DEFINE t == level[s2][p2]
      <4>1. level'[s2][p2] = t /\ (p2 \in heap'[s2] <=> p2 \in heap[s2])
        BY <1>9, <3>2
      <4>2. /\ p2 \in heap[s2] <=> t # <<>>
            /\ \A i \in DOMAIN t :
                 /\ req[t[i]].side = s2
                 /\ req[t[i]].price = p2
                 /\ t[i] \in orderMap
                 /\ IsActive(t[i])
                 /\ t[i] \in Orders
                 /\ \A j \in 1..(i - 1) : rank[t[j]] < rank[t[i]]
        <5>1. LevelOK(s2, p2) /\ t \in Seq(Orders)
          BY <1>2 DEF IInv, BookConsistent, TypeOK
        <5>2. \A i \in DOMAIN t : t[i] \in orderMap /\ IsActive(t[i]) /\ t[i] \in Orders
          BY <1>1, <5>1, FreeLevels
        <5>3. QED
          BY <5>1, <5>2 DEF LevelOK
      <4>3. \A i \in DOMAIN t : t[i] \in orderMap' /\ status'[t[i]] \in Active
        BY <1>3, <1>12, <3>2, <4>2 DEF IsActive
      <4> HIDE DEF t
      <4>4. QED
        BY <1>1, <1>4, <4>1, <4>2, <4>3 DEF LevelOK, Live, InWork, IsActive
    <3>3. QED
      BY <3>1, <3>2
  <2>2. ASSUME NEW x \in orderMap' PROVE RestingOK(x)'
    <3>1. x \in orderMap /\ x \in Orders /\ x # o
      BY <1>2, <1>3 DEF TypeOK
    <3>2. req[x].side \in Sides /\ req[x].price \in Prices
      BY <1>2, <3>1, OrderTypes
    <3> DEFINE t == level[req[x].side][req[x].price]
    <3>3. PICK i \in DOMAIN t : t[i] = x
      BY <3>1 DEF IInv, BookConsistent, RestingOK
    <3>4. \E j \in DOMAIN level'[req[x].side][req[x].price] :
            level'[req[x].side][req[x].price][j] = x
      <4>1. CASE req[x].side = side /\ req[x].price = p
        <5>1. t = s /\ level'[req[x].side][req[x].price] = new
          BY <1>9, <4>1 DEF s
        <5>2. i \in 1..Len(s) /\ i # k /\ s[i] = x
          BY <1>2, <1>5, <3>1, <3>3, <5>1
        <5>3. DOMAIN new = 1..(Len(s) - 1)
          BY <1>8
        <5>4. CASE i < k
          <6>1. i \in DOMAIN new /\ new[i] = x
            BY <1>5, <1>8, <5>2, <5>3, <5>4
          <6>2. QED
            BY <5>1, <6>1
        <5>5. CASE i > k
          <6>1. i - 1 \in DOMAIN new /\ ~(i - 1 < k) /\ (i - 1) + 1 = i
            BY <1>5, <5>2, <5>3, <5>5
          <6>2. new[i - 1] = x
            BY <1>8, <5>2, <5>3, <6>1
          <6>3. QED
            BY <5>1, <6>1, <6>2
        <5>6. QED
          BY <1>5, <5>2, <5>4, <5>5
      <4>2. CASE req[x].side # side \/ req[x].price # p
        BY <1>9, <3>2, <3>3, <4>2
      <4>3. QED
        BY <4>1, <4>2
    <3>5. RemainingQty(x) > 0
      BY <3>1 DEF IInv, BookConsistent, RestingOK
    <3>6. QED
      BY <1>4, <3>4, <3>5 DEF RestingOK, RemainingQty
  <2>3. QED
    BY <1>9, <2>1, <2>2 DEF BookConsistent
<1>17. ActiveRests'
  <2>1. ASSUME NEW x \in Orders
        PROVE x \in orderMap' <=>
                /\ rank[x] > 0
                /\ req[x].type = "limit"
                /\ status'[x] \in Active
                /\ x = taker => pc = "sending"
    <3>1. CASE x = o
      BY <1>3, <1>13, <3>1 DEF Active
    <3>2. CASE x # o
      BY <1>3, <1>12, <3>2 DEF IInv, ActiveRests, IsActive
    <3>3. QED
      BY <3>1, <3>2
  <2>2. QED
    BY <1>4, <2>1 DEF ActiveRests, IsActive
<1>18. Apart'
  <2>1. "buy" \in Sides /\ "sell" \in Sides
    BY DEF Sides
  <2>2. \A s2 \in Sides : heap'[s2] \subseteq heap[s2]
    BY <1>9
  <2>3. QED
    BY <2>1, <2>2 DEF IInv, Apart
<1>19. QED
  BY <1>11, <1>14, <1>15, <1>16, <1>17, <1>18 DEF IInv

-----------------------------------------------------------------------------
(* The theorems *)

(* Every step of the book preserves the invariant. *)
LEMMA StepInv == IInv /\ [Next]_vars => IInv'
<1> SUFFICES ASSUME IInv, [Next]_vars PROVE IInv'
  OBVIOUS
<1>1. CASE SubmitStep
  BY <1>1, NextLevelStep, VisitMakerStep, LeaveLevelStep, FinishMatchStep, SendTradeStep,
     ReturnStep DEF SubmitStep
<1>2. CASE Receive
  BY <1>2, ReceiveStep
<1>3. ASSUME NEW o \in Orders, NEW r \in Requests, Submit(o, r) PROVE IInv'
  BY <1>3, SubmitStepInv
<1>4. ASSUME NEW o \in Orders, CancelUnknown(o) \/ CancelKnown(o) PROVE IInv'
  BY <1>4, CancelUnknownStep, CancelKnownStep
<1>5. CASE UNCHANGED vars
  <2> USE DEF vars, orderVars, bookVars, callVars, outVars, clientVars
  <2>1. TypeOK'
    BY <1>5 DEF IInv, TypeOK
  <2>2. QED
    BY <1>5, <2>1, BookKept
<1>6. QED
  BY <1>1, <1>2, <1>3, <1>4, <1>5 DEF Next

(* The invariant holds in every reachable state of the book. *)
LEMMA Inductive == Spec => []IInv
<1>1. Init => IInv
  BY InitInv
<1>2. IInv /\ [Next]_vars => IInv'
  BY StepInv
<1>3. QED
  BY <1>1, <1>2, PTL DEF Spec

(* Every variable keeps its type, whatever is submitted and cancelled.      *)
THEOREM TypeCorrect == Spec => []TypeOK
<1>1. IInv => TypeOK
  BY DEF IInv
<1>2. QED
  BY <1>1, Inductive, PTL

(* The heap, the level map, the levels' queues and orderMap agree at every  *)
(* step of Submit and Cancel, in the middle of a match as well.             *)
THEOREM IndexesAgree == Spec => []BookConsistent
<1>1. IInv => BookConsistent
  BY DEF IInv
<1>2. QED
  BY <1>1, Inductive, PTL

(* The book holds a limit order exactly while it is active.                 *)
THEOREM BookHoldsActive == Spec => []ActiveRests
<1>1. IInv => ActiveRests
  BY DEF IInv
<1>2. QED
  BY <1>1, Inductive, PTL

(* The best bid is below the best ask.                                      *)
THEOREM NeverCrossed == Spec => []NotCrossed
<1>1. IInv => NotCrossed
  BY DEF IInv, Apart, NotCrossed, BestBid, BestAsk, IsBest
<1>2. QED
  BY <1>1, Inductive, PTL

(* What an order filled and what its cancel reported never exceed it, and   *)
(* make it up once it is cancelled.                                         *)
THEOREM ExposureSafe == Spec => []ExposureBounded
<1>1. ASSUME IInv PROVE ExposureBounded
  <2>1. ASSUME NEW o \in Orders
        PROVE /\ filled[o] + cancelledQty[o] <= req[o].qty
              /\ status[o] = "Cancelled" => filled[o] + cancelledQty[o] = req[o].qty
    <3>1. req[o].qty \in Nat /\ filled[o] \in Nat
      BY <1>1, OrderTypes DEF IInv
    <3>2. QED
      BY <1>1, <3>1 DEF IInv, FillInv
  <2>2. QED
    BY <2>1 DEF ExposureBounded
<1>2. QED
  BY <1>1, Inductive, PTL

(* A maker is filled only ahead of the orders it has priority over: it is   *)
(* at the best level of its side, and first among the live ones there.      *)
THEOREM PriorityKept == Spec => PriceTimePriority
<1> DEFINE Kept == \A m \in Orders \ {taker} : filled'[m] > filled[m] =>
                     \A x \in orderMap :
                       req[x].side = req[m].side => ~Ahead(req, rank, x, m)
<1>1. ASSUME IInv, [Next]_vars PROVE [Kept]_vars
  <2> SUFFICES ASSUME NEW m \in Orders, m # taker, filled'[m] > filled[m],
                      NEW x \in orderMap, req[x].side = req[m].side
               PROVE  ~Ahead(req, rank, x, m)
    OBVIOUS
  <2>1. TypeOK /\ filled[m] \in Nat /\ filled \in [Orders -> Nat]
    BY <1>1, OrderTypes DEF IInv, TypeOK
  <2>2. VisitMaker
    <3>1. ~UNCHANGED filled
      BY <2>1
    <3>2. ASSUME FinishMatch PROVE FALSE
      <4>1. TryFill(taker, TakerFill)
        BY <3>2 DEF FinishMatch
      <4>2. filled'[m] = filled[m]
        BY <2>1, <4>1 DEF TryFill
      <4>3. QED
        BY <2>1, <4>2
    <3>3. QED
      BY <1>1, <3>1, <3>2 DEF Next, SubmitStep, NextLevel, LeaveLevel, SendTrade, ReturnSubmit,
         Receive, Submit, CancelUnknown, CancelKnown, vars, orderVars
  <2> DEFINE n == Queue[skipCount + 1]
  <2>3. n \in Orders /\ req[n].side = MakerSide
    BY <1>1, <2>2, MakerFacts DEF VisitMaker
  <2>4. m = n
    <3>1. filled'[m] # filled[m]
      BY <2>1
    <3>2. TryFill(n, MatchQty(n)) \/ UNCHANGED filled
      BY <2>2 DEF VisitMaker
    <3> HIDE DEF n
    <3>3. QED
      BY <2>1, <3>1, <3>2 DEF TryFill
  <2>5. CASE x = m
    <3>1. req[m].price \in Int /\ rank[m] \in Nat
      BY <2>1, OrderTypes
    <3>2. QED
      BY <2>5, <3>1 DEF Ahead
  <2>6. CASE x # m
    BY <1>1, <2>2, <2>3, <2>4, <2>6, MakerIsFirst
  <2>7. QED
    BY <2>5, <2>6
<1>2. QED
  BY <1>1, Inductive, PTL DEF Spec, PriceTimePriority

-----------------------------------------------------------------------------
(* The tape of trades *)

(* The positions of the trades of o on the tape, and what they trade. *)
TradesOf(o) == {i \in DOMAIN Tape : o \in {Tape[i].buy, Tape[i].sell}}
TapeQty == [i \in DOMAIN Tape |-> Tape[i].qty]

(* The tape is a sequence of trades. *)
LEMMA TapeType ==
  ASSUME TypeOK
  PROVE  Tape \in Seq(Trades) /\ DOMAIN Tape = 1..Len(Tape) /\ Len(Tape) \in Nat
<1>1. published \in Seq(Trades) /\ tradeCh \in Seq(Trades) /\ trades \in Seq(Trades)
  BY DEF TypeOK
<1>2. published \o tradeCh \in Seq(Trades)
  BY <1>1, ConcatProperties
<1>3. Tape \in Seq(Trades)
  BY <1>1, <1>2, ConcatProperties DEF Tape
<1>4. QED
  BY <1>3

(* Taking the first of one sequence to the end of the one before it changes *)
(* nothing when the two are read one after the other.                       *)
LEMMA HeadMoves ==
  ASSUME NEW T, NEW s \in Seq(T), NEW t \in Seq(T), t # <<>>
  PROVE  Append(s, Head(t)) \o Tail(t) = s \o t
<1> DEFINE a == Append(s, Head(t))
           left == a \o Tail(t)
           right == s \o t
<1>1. /\ Head(t) = t[1] /\ Tail(t) \in Seq(T)
      /\ Len(Tail(t)) = Len(t) - 1 /\ Len(t) \in Nat /\ Len(t) > 0 /\ Len(s) \in Nat
      /\ \A i \in 1..(Len(t) - 1) : Tail(t)[i] = t[i + 1]
      /\ Head(t) \in T
  BY HeadTailProperties
<1>2. /\ a \in Seq(T) /\ Len(a) = Len(s) + 1
      /\ a[Len(s) + 1] = Head(t) /\ \A i \in 1..Len(s) : a[i] = s[i]
  BY <1>1, AppendProperties
<1> HIDE DEF a
<1>3. /\ left \in Seq(T) /\ Len(left) = Len(s) + Len(t)
      /\ \A i \in 1..(Len(s) + Len(t)) :
           left[i] = IF i <= Len(s) + 1 THEN a[i] ELSE Tail(t)[i - (Len(s) + 1)]
  <2> DEFINE b == Tail(t)
  <2>1. b \in Seq(T) /\ Len(a) + Len(b) = Len(s) + Len(t)
    BY <1>1, <1>2
  <2> HIDE DEF b
  <2>2. /\ a \o b \in Seq(T) /\ Len(a \o b) = Len(a) + Len(b)
        /\ \A i \in 1..(Len(a) + Len(b)) :
             (a \o b)[i] = IF i <= Len(a) THEN a[i] ELSE b[i - Len(a)]
    <3>1. a \in Seq(T) /\ b \in Seq(T)
      BY <1>2, <2>1
    <3> HIDE DEF left, right
    <3>2. QED
      BY ONLY <3>1, ConcatProperties
  <2>3. QED
    BY <1>2, <2>1, <2>2 DEF b
<1>4. /\ right \in Seq(T) /\ Len(right) = Len(s) + Len(t)
      /\ \A i \in 1..(Len(s) + Len(t)) :
           right[i] = IF i <= Len(s) THEN s[i] ELSE t[i - Len(s)]
  BY ConcatProperties
<1> HIDE DEF left, right
<1>5. ASSUME NEW i \in 1..(Len(s) + Len(t)) PROVE left[i] = right[i]
  <2>1. CASE i <= Len(s)
    <3>1. i \in 1..Len(s) /\ i <= Len(s) + 1
      BY <1>1, <2>1
    <3>2. QED
      BY <1>2, <1>3, <1>4, <2>1, <3>1
  <2>2. CASE i = Len(s) + 1
    <3>1. ~(i <= Len(s)) /\ i <= Len(s) + 1 /\ i - Len(s) = 1
      BY <1>1, <2>2
    <3>2. left[i] = t[1] /\ right[i] = t[1]
      BY <1>1, <1>2, <1>3, <1>4, <2>2, <3>1
    <3>3. QED
      BY <3>2
  <2>3. CASE i > Len(s) + 1
    <3>1. /\ ~(i <= Len(s)) /\ ~(i <= Len(s) + 1)
          /\ i - (Len(s) + 1) \in 1..(Len(t) - 1)
          /\ (i - (Len(s) + 1)) + 1 = i - Len(s)
      BY <1>1, <2>3
    <3>2. left[i] = Tail(t)[i - (Len(s) + 1)] /\ right[i] = t[i - Len(s)]
      BY <1>3, <1>4, <3>1
    <3>3. QED
      BY <1>1, <3>1, <3>2
  <2>4. QED
    BY <1>1, <2>1, <2>2, <2>3
<1>6. left = right
  BY <1>1, <1>3, <1>4, <1>5
<1>7. QED
  BY <1>6 DEF left, right, a

(* Three sequences may be joined in either order. *)
LEMMA Joined == \A T : \A r, s, t \in Seq(T) : (r \o s) \o t = r \o (s \o t)
  BY ConcatAssociative

(* Sending a trade and receiving it leave the tape as it is. *)
LEMMA TapeKept ==
  ASSUME TypeOK, SendTrade \/ Receive
  PROVE  Tape' = Tape
<1>1. published \in Seq(Trades) /\ tradeCh \in Seq(Trades) /\ trades \in Seq(Trades)
  BY DEF TypeOK
<1>2. CASE SendTrade
  <2>1. /\ trades # <<>> /\ published' = published
        /\ tradeCh' = Append(tradeCh, Head(trades)) /\ trades' = Tail(trades)
    BY <1>2 DEF SendTrade
  <2> DEFINE a == Append(tradeCh, Head(trades))
             b == Tail(trades)
  <2>2. a \in Seq(Trades) /\ b \in Seq(Trades)
    BY <1>1, <2>1, HeadTailProperties, AppendProperties
  <2>3. a \o b = tradeCh \o trades
    BY <1>1, <2>1, HeadMoves
  <2>4. Tape' = (published \o a) \o b
    BY <2>1 DEF Tape
  <2> HIDE DEF a, b
  <2>5. (published \o a) \o b = published \o (a \o b)
    BY <1>1, <2>2, Joined
  <2>6. (published \o tradeCh) \o trades = published \o (tradeCh \o trades)
    BY <1>1, Joined
  <2>7. QED
    BY <2>3, <2>4, <2>5, <2>6 DEF Tape
<1>3. CASE Receive
  <2>1. /\ tradeCh # <<>> /\ trades' = trades
        /\ published' = Append(published, Head(tradeCh)) /\ tradeCh' = Tail(tradeCh)
    BY <1>3 DEF Receive
  <2>2. published' \o tradeCh' = published \o tradeCh
    BY <1>1, <2>1, HeadMoves
  <2>3. QED
    BY <2>1, <2>2 DEF Tape
<1>4. QED
  BY <1>2, <1>3

(* A pass over a maker adds its trade to the tape, at the end. *)
LEMMA TapeGrows ==
  ASSUME TypeOK, NEW t \in Trades, trades' = Append(trades, t),
         UNCHANGED <<published, tradeCh>>
  PROVE  /\ Len(Tape') = Len(Tape) + 1 /\ Tape' \in Seq(Trades)
         /\ Tape'[Len(Tape) + 1] = t
         /\ \A i \in 1..Len(Tape) : Tape'[i] = Tape[i]
<1> DEFINE s == published \o tradeCh
<1>1. s \in Seq(Trades) /\ trades \in Seq(Trades)
  BY ConcatProperties DEF TypeOK
<1>2. Tape = s \o trades /\ Tape' = s \o Append(trades, t)
  BY DEF Tape
<1> HIDE DEF s
<1>3. /\ Append(trades, t) \in Seq(Trades) /\ Len(Append(trades, t)) = Len(trades) + 1
      /\ Append(trades, t)[Len(trades) + 1] = t
      /\ \A i \in 1..Len(trades) : Append(trades, t)[i] = trades[i]
      /\ Len(trades) \in Nat /\ Len(s) \in Nat
  BY <1>1, AppendProperties
<1> DEFINE a == Append(trades, t)
<1> HIDE DEF a
<1>4. /\ s \o trades \in Seq(Trades)
      /\ Len(s \o trades) = Len(s) + Len(trades)
      /\ \A i \in 1..(Len(s) + Len(trades)) :
           (s \o trades)[i] = IF i <= Len(s) THEN s[i] ELSE trades[i - Len(s)]
  BY <1>1, ConcatProperties
<1>5. /\ s \o a \in Seq(Trades)
      /\ Len(s \o a) = Len(s) + Len(a)
      /\ \A i \in 1..(Len(s) + Len(a)) :
           (s \o a)[i] = IF i <= Len(s) THEN s[i] ELSE a[i - Len(s)]
  BY <1>1, <1>3, ConcatProperties DEF a
<1>6. Tape' = s \o a
  BY <1>2 DEF a
<1>7. /\ Len(a) = Len(trades) + 1 /\ a[Len(trades) + 1] = t
      /\ \A i \in 1..Len(trades) : a[i] = trades[i]
  BY <1>3 DEF a
<1>8. Tape'[Len(Tape) + 1] = t
  <2> DEFINE n == Len(Tape) + 1
  <2>1. n \in 1..(Len(s) + Len(a)) /\ ~(n <= Len(s)) /\ n - Len(s) = Len(trades) + 1
    BY <1>2, <1>3, <1>4, <1>7
  <2>2. QED
    BY <1>5, <1>6, <1>7, <2>1
<1>9. ASSUME NEW i \in 1..Len(Tape) PROVE Tape'[i] = Tape[i]
  <2>1. i \in 1..(Len(s) + Len(trades)) /\ i \in 1..(Len(s) + Len(a))
    BY <1>2, <1>3, <1>4, <1>7
  <2>2. Tape[i] = IF i <= Len(s) THEN s[i] ELSE trades[i - Len(s)]
    BY <1>2, <1>4, <2>1
  <2>3. Tape'[i] = IF i <= Len(s) THEN s[i] ELSE a[i - Len(s)]
    BY <1>5, <1>6, <2>1
  <2>4. CASE i <= Len(s)
    BY <2>2, <2>3, <2>4
  <2>5. CASE ~(i <= Len(s))
    <3>1. i - Len(s) \in 1..Len(trades)
      BY <1>3, <2>1, <2>5
    <3>2. QED
      BY <1>7, <2>2, <2>3, <2>5, <3>1
  <2>6. QED
    BY <2>4, <2>5
<1>10. QED
  BY <1>2, <1>3, <1>4, <1>5, <1>6, <1>7, <1>8, <1>9

(* What o traded is the sum of the quantities of its trades on the tape. *)
LEMMA TradedSum ==
  ASSUME TypeOK, NEW o
  PROVE  /\ TradedQty(o) = SumFunctionOnSet(TapeQty, TradesOf(o))
         /\ IsFiniteSet(TradesOf(o))
         /\ \A i \in TradesOf(o) : TapeQty[i] = Tape[i].qty /\ TapeQty[i] \in Nat
<1> DEFINE S == TradesOf(o)
           Adding(g) == g = [B \in SUBSET S |->
                               IF B = {} THEN 0
                               ELSE Tape[First(B)].qty + g[B \ {First(B)}]]
<1>1. TradedQty(o) = (CHOOSE g : Adding(g))[S]
  BY DEF TradedQty, MapThenSumSet, MapThenFoldSet, First, TradesOf
<1>2. IsFiniteSet(S)
  <2>1. IsFiniteSet(1..Len(Tape)) /\ S \subseteq 1..Len(Tape)
    BY TapeType, FS_Interval DEF TradesOf
  <2>2. QED
    BY <2>1, FS_Subset
<1>3. \A i \in S : TapeQty[i] = Tape[i].qty /\ TapeQty[i] \in Nat
  <2>1. \A i \in DOMAIN Tape : Tape[i] \in Trades
    BY TapeType
  <2>2. \A t \in Trades : t.qty \in Nat
    BY OrderBookAssumption DEF Trades
  <2>3. QED
    BY <2>1, <2>2 DEF TapeQty, TradesOf
<1> HIDE DEF S
<1>4. ASSUME NEW B \in SUBSET S, B # {} PROVE Tape[First(B)].qty = TapeQty[First(B)]
  BY <1>3, <1>4, FirstIn
<1>5. ASSUME NEW g PROVE Adding(g) <=> Adds(TapeQty, SUBSET S, g)
  <2>1. [B \in SUBSET S |-> IF B = {} THEN 0 ELSE Tape[First(B)].qty + g[B \ {First(B)}]]
          = [B \in SUBSET S |-> IF B = {} THEN 0 ELSE TapeQty[First(B)] + g[B \ {First(B)}]]
    BY <1>4
  <2>2. QED
    BY <2>1 DEF Adds
<1>6. \E g : Adding(g)
  BY <1>2, <1>5, AddsExists
<1> HIDE DEF Adding
<1>7. Adding(CHOOSE g : Adding(g))
  BY <1>6
<1>8. (CHOOSE g : Adding(g))[S] = SumFunctionOnSet(TapeQty, S)
  BY <1>2, <1>5, <1>7, SumAdds
<1>9. QED
  BY <1>1, <1>2, <1>3, <1>8 DEF S

-----------------------------------------------------------------------------
(* Trades within their limits *)

(* A trade on the tape is one LimitRespected allows, and its orders are     *)
(* submitted: no later Submit gives them another request.                   *)
TradeOK(t) ==
  /\ rank[t.buy] > 0
  /\ rank[t.sell] > 0
  /\ req[t.buy].side # req[t.sell].side
  /\ t.price = req[t.sell].price
  /\ req[t.buy].type = "limit" /\ req[t.buy].side = "buy" => t.price <= req[t.buy].price
  /\ req[t.buy].type = "limit" /\ req[t.buy].side = "sell" => t.price >= req[t.buy].price

TapeInv == \A i \in DOMAIN Tape : TradeOK(Tape[i])

(* The trade of a maker with the taker is such a trade. *)
LEMMA NewTradeOK ==
  ASSUME IInv, VisitMaker, NEW m, m = Queue[skipCount + 1]
  PROVE  /\ trades' = Append(trades, NewTrade(m))
         /\ NewTrade(m) \in Trades
         /\ TradeOK(NewTrade(m))
<1>1. pc = "makers" /\ Len(Queue) > skipCount /\ remaining > 0
  BY DEF VisitMaker
<1>2. /\ m \in orderMap /\ m \in Orders
      /\ IsActive(m)
      /\ req[m].side = MakerSide /\ req[m].price = best
      /\ MatchQty(m) \in 1..remaining
      /\ MatchQty(m) \in 1..MaxQty
      /\ CanFill(m, MatchQty(m))
  BY <1>1, MakerFacts
<1>3. /\ taker \in Orders /\ remaining \in Nat /\ best \in Prices /\ best \in Int
      /\ MakerSide # req[taker].side
  BY <1>1, CallTypes DEF IInv
<1>4. MatchQty(m) > 0
  BY <1>2, <1>3
<1>5. trades' = Append(trades, NewTrade(m))
  BY <1>2, <1>4 DEF VisitMaker
<1>6. NewTrade(m) = [buy |-> taker, sell |-> m, price |-> best, qty |-> MatchQty(m)]
  BY <1>2 DEF NewTrade, MatchPrice
<1>7. NewTrade(m) \in Trades
  BY <1>2, <1>3, <1>6 DEF Trades
<1>8. rank[taker] > 0 /\ rank[m] > 0
  BY <1>1, <1>2 DEF IInv, CallInv, ActiveRests
<1>9. Crosses(taker, best) /\ req[taker].price \in Int
  BY <1>1, <1>3, OrderTypes DEF IInv, CallInv
<1>10. TradeOK(NewTrade(m))
  <2>1. /\ req[taker].type = "limit" /\ req[taker].side = "buy" => best <= req[taker].price
        /\ req[taker].type = "limit" /\ req[taker].side = "sell" => best >= req[taker].price
    BY <1>3, <1>9 DEF Crosses
  <2>2. req[taker].side # req[m].side /\ best = req[m].price
    BY <1>2, <1>3
  <2>3. QED
    BY <1>6, <1>8, <2>1, <2>2 DEF TradeOK
<1>11. QED
  BY <1>5, <1>7, <1>10

(* Every step of the book keeps the tape within the limits. *)
LEMMA TapeStep == IInv /\ TapeInv /\ [Next]_vars => TapeInv'
<1> SUFFICES ASSUME IInv, TapeInv, [Next]_vars PROVE TapeInv'
  OBVIOUS
<1>1. TypeOK
  BY DEF IInv
<1>2. ASSUME Tape' = Tape, UNCHANGED <<req, rank>> PROVE TapeInv'
  BY <1>2 DEF TapeInv, TradeOK
<1>3. ASSUME UNCHANGED <<trades, tradeCh, published>> PROVE Tape' = Tape
  BY <1>3 DEF Tape
<1>4. CASE VisitMaker
  <2> DEFINE m == Queue[skipCount + 1]
  <2>1. /\ trades' = Append(trades, NewTrade(m))
        /\ NewTrade(m) \in Trades
        /\ TradeOK(NewTrade(m))
    BY <1>4, NewTradeOK
  <2>2. UNCHANGED <<req, rank, published, tradeCh>>
    BY <1>4 DEF VisitMaker
  <2> DEFINE t == NewTrade(m)
  <2> HIDE DEF m, t
  <2>3. /\ Len(Tape') = Len(Tape) + 1 /\ Tape' \in Seq(Trades)
        /\ Tape'[Len(Tape) + 1] = t
        /\ \A i \in 1..Len(Tape) : Tape'[i] = Tape[i]
    BY <1>1, <2>1, <2>2, TapeGrows DEF t
  <2>4. DOMAIN Tape = 1..Len(Tape) /\ Len(Tape) \in Nat
    BY <1>1, TapeType
  <2>5. TradeOK(t)
    BY <2>1 DEF t
  <2>6. ASSUME NEW i \in DOMAIN Tape' PROVE TradeOK(Tape'[i])
    <3>1. i \in 1..(Len(Tape) + 1)
      BY <2>3
    <3>2. CASE i = Len(Tape) + 1
      BY <2>3, <2>5, <3>2
    <3>3. CASE i <= Len(Tape)
      <4>1. i \in DOMAIN Tape /\ Tape'[i] = Tape[i]
        BY <2>3, <2>4, <3>1, <3>3
      <4>2. QED
        BY <4>1 DEF TapeInv
    <3>4. QED
      BY <2>4, <3>1, <3>2, <3>3
  <2>7. QED
    BY <2>2, <2>6 DEF TapeInv, TradeOK
<1>5. CASE SendTrade \/ Receive
  <2>1. UNCHANGED <<req, rank>>
    BY <1>5 DEF SendTrade, Receive, orderVars
  <2>2. QED
    BY <1>1, <1>2, <1>5, <2>1, TapeKept
<1>6. CASE NextLevel \/ LeaveLevel \/ FinishMatch \/ ReturnSubmit
  BY <1>2, <1>3, <1>6 DEF NextLevel, LeaveLevel, FinishMatch, ReturnSubmit, orderVars, outVars
<1>7. ASSUME NEW o \in Orders, NEW r \in Requests, Submit(o, r) PROVE TapeInv'
  <2>1. /\ rank[o] = 0 /\ Tape' = Tape
        /\ req' = [req EXCEPT ![o] = r]
        /\ rank' = [rank EXCEPT ![o] = 1 + Cardinality({x \in Orders : rank[x] > 0})]
    BY <1>3, <1>7 DEF Submit, outVars
  <2>2. req \in [Orders -> Requests] /\ rank \in [Orders -> Nat]
    BY <1>1 DEF TypeOK
  <2>3. ASSUME NEW i \in DOMAIN Tape PROVE TradeOK(Tape[i])'
    <3>1. Tape[i] \in Trades /\ TradeOK(Tape[i])
      BY <1>1, TapeType DEF TapeInv
    <3>2. Tape[i].buy \in Orders /\ Tape[i].sell \in Orders
      BY <3>1 DEF Trades
    <3>3. Tape[i].buy # o /\ Tape[i].sell # o
      BY <2>1, <3>1 DEF TradeOK
    <3>4. /\ req'[Tape[i].buy] = req[Tape[i].buy] /\ req'[Tape[i].sell] = req[Tape[i].sell]
          /\ rank'[Tape[i].buy] = rank[Tape[i].buy] /\ rank'[Tape[i].sell] = rank[Tape[i].sell]
      BY <2>1, <2>2, <3>2, <3>3
    <3>5. QED
      BY <2>1, <3>1, <3>4 DEF TradeOK
  <2>4. QED
    BY <2>1, <2>3 DEF TapeInv
<1>8. ASSUME NEW o \in Orders, CancelUnknown(o) \/ CancelKnown(o) PROVE TapeInv'
  BY <1>2, <1>3, <1>8 DEF CancelUnknown, CancelKnown, orderVars, outVars
<1>9. CASE UNCHANGED vars
  BY <1>2, <1>3, <1>9 DEF vars, orderVars, outVars
<1>10. QED
  BY <1>4, <1>5, <1>6, <1>7, <1>8, <1>9 DEF Next, SubmitStep

(* Every trade is between the two sides, at the resting order's price and   *)
(* within the taker's limit.                                                *)
THEOREM LimitsKept == Spec => []LimitRespected
<1>1. Init => TapeInv
  <2>1. SUFFICES ASSUME Init PROVE DOMAIN Tape = {}
    BY DEF TapeInv
  <2>2. Tape = (<<>> \o <<>>) \o <<>>
    BY <2>1 DEF Init, Tape
  <2>3. QED
    BY <2>2
<1>2. IInv /\ TapeInv /\ [Next]_vars => TapeInv'
  BY TapeStep
<1>3. TapeInv => LimitRespected
  BY DEF TapeInv, TradeOK, LimitRespected
<1>4. QED
  BY <1>1, <1>2, <1>3, Inductive, PTL DEF Spec

-----------------------------------------------------------------------------
(* The three accounts *)

(* The same of the next state. *)
LEMMA TradedSumNext ==
  TypeOK' => \A o : /\ TradedQty(o)' = SumFunctionOnSet(TapeQty', TradesOf(o)')
                    /\ \A i \in TradesOf(o)' : TapeQty'[i] = Tape'[i].qty /\ TapeQty'[i] \in Nat
<1>1. TypeOK => \A o : /\ TradedQty(o) = SumFunctionOnSet(TapeQty, TradesOf(o))
                       /\ \A i \in TradesOf(o) : TapeQty[i] = Tape[i].qty /\ TapeQty[i] \in Nat
  BY TradedSum
<1>2. (TypeOK => \A o : /\ TradedQty(o) = SumFunctionOnSet(TapeQty, TradesOf(o))
                        /\ \A i \in TradesOf(o) : TapeQty[i] = Tape[i].qty /\ TapeQty[i] \in Nat)'
  BY <1>1, PTL
<1>3. QED
  BY <1>2

(* A trade at the end of the tape adds its quantity to what its two orders  *)
(* traded, and to no other order's.                                         *)
LEMMA TradedGrows ==
  ASSUME TypeOK, TypeOK', NEW t \in Trades, trades' = Append(trades, t),
         UNCHANGED <<published, tradeCh>>, NEW o
  PROVE  /\ o \in {t.buy, t.sell} => TradedQty(o)' = TradedQty(o) + t.qty
         /\ o \notin {t.buy, t.sell} => TradedQty(o)' = TradedQty(o)
         /\ TradedQty(o) \in Int
<1> DEFINE S == TradesOf(o)
           n == Len(Tape) + 1
<1>1. /\ Tape' \in Seq(Trades) /\ Len(Tape') = n
      /\ Tape'[n] = t
      /\ \A i \in 1..Len(Tape) : Tape'[i] = Tape[i]
  BY TapeGrows
<1>2. DOMAIN Tape = 1..Len(Tape) /\ Len(Tape) \in Nat /\ DOMAIN Tape' = 1..(Len(Tape) + 1)
  BY <1>1, TapeType
<1>3. /\ TradedQty(o) = SumFunctionOnSet(TapeQty, S)
      /\ IsFiniteSet(S)
      /\ \A i \in S : TapeQty[i] = Tape[i].qty /\ TapeQty[i] \in Nat
  BY TradedSum
<1>4. /\ TradedQty(o)' = SumFunctionOnSet(TapeQty', S')
      /\ \A i \in S' : TapeQty'[i] = Tape'[i].qty /\ TapeQty'[i] \in Nat
  BY TradedSumNext
<1>5. /\ o \in {t.buy, t.sell} => S' = S \cup {n}
      /\ o \notin {t.buy, t.sell} => S' = S
  <2>1. \A i \in 1..Len(Tape) : i \in S' <=> i \in S
    BY <1>1, <1>2 DEF TradesOf
  <2>2. n \in S' <=> o \in {t.buy, t.sell}
    BY <1>1, <1>2 DEF TradesOf
  <2>3. S' \subseteq 1..(Len(Tape) + 1) /\ S \subseteq 1..Len(Tape)
    BY <1>2 DEF TradesOf
  <2>4. \A i \in 1..(Len(Tape) + 1) : i = n \/ i \in 1..Len(Tape)
    BY <1>2
  <2>5. n \in 1..(Len(Tape) + 1)
    BY <1>2
  <2>6. QED
    BY <2>1, <2>2, <2>3, <2>4, <2>5
<1>6. n \notin S /\ S \subseteq DOMAIN Tape
  BY <1>2 DEF TradesOf
<1>7. \A i \in S : TapeQty'[i] = TapeQty[i] /\ TapeQty'[i] \in Int /\ TapeQty[i] \in Int
  <2>1. ASSUME NEW i \in S PROVE TapeQty'[i] = TapeQty[i]
    <3>1. i \in DOMAIN Tape /\ i \in DOMAIN Tape' /\ Tape'[i] = Tape[i]
      BY <1>1, <1>2, <1>6
    <3>2. QED
      BY <3>1 DEF TapeQty
  <2>2. QED
    BY <1>3, <2>1
<1>8. TapeQty'[n] = t.qty /\ t.qty \in Int
  <2>1. n \in DOMAIN Tape'
    BY <1>2
  <2>2. t.qty \in 1..MaxQty
    BY DEF Trades
  <2>3. QED
    BY <1>1, <2>1, <2>2 DEF TapeQty
<1> DEFINE sum == SumFunctionOnSet(TapeQty, S)
           f == TapeQty'
<1>9. SumFunctionOnSet(TapeQty', S) = sum /\ sum \in Int
  BY <1>3, <1>7, SumAgree, SumRemove
<1>10. SumFunctionOnSet(TapeQty', S \cup {n}) = t.qty + sum
  <2>1. /\ f[n] \in Int /\ \A i \in S : f[i] \in Int
    BY <1>7, <1>8
  <2> HIDE DEF f, n, S
  <2>2. SumFunctionOnSet(f, S \cup {n}) = f[n] + SumFunctionOnSet(f, S)
    BY <1>3, <1>6, <2>1, SumInsert
  <2>3. QED
    BY <1>8, <1>9, <2>2 DEF f
<1>11. CASE o \in {t.buy, t.sell}
  <2>1. TradedQty(o)' = t.qty + sum /\ TradedQty(o) = sum
    BY <1>3, <1>4, <1>5, <1>10, <1>11
  <2> HIDE DEF sum
  <2>2. QED
    BY <1>8, <1>9, <1>11, <2>1
<1>12. CASE o \notin {t.buy, t.sell}
  <2>1. TradedQty(o)' = sum /\ TradedQty(o) = sum
    BY <1>3, <1>4, <1>5, <1>9, <1>12
  <2> HIDE DEF sum
  <2>2. QED
    BY <1>9, <1>12, <2>1
<1>13. QED
  BY <1>11, <1>12

(* The taker's own fill, at the end of its match, is what it matched. *)
LEMMA TakerIsFilled ==
  ASSUME IInv, FinishMatch
  PROVE  filled' = [filled EXCEPT ![taker] = req[taker].qty - remaining]
<1>1. pc = "levels" /\ TryFill(taker, TakerFill)
  BY DEF FinishMatch
<1>2. /\ taker \in Orders /\ filled[taker] = 0 /\ status[taker] = "New"
      /\ req[taker].qty \in Nat /\ remaining \in Nat /\ remaining <= req[taker].qty
      /\ filled \in [Orders -> Nat]
  BY <1>1, CallTypes, OrderTypes DEF IInv, CallInv, TypeOK
<1> DEFINE fill == req[taker].qty - remaining
<1>3. fill \in Nat /\ fill = TakerFill /\ fill <= RemainingQty(taker)
  BY <1>2 DEF TakerFill, RemainingQty
<1> HIDE DEF fill
<1>4. CASE fill > 0
  <2>1. filled' = [filled EXCEPT ![taker] = @ + fill]
    BY <1>1, <1>2, <1>3, <1>4 DEF TryFill, CanFill
  <2>2. filled[taker] + fill = fill
    BY <1>2, <1>3
  <2>3. QED
    BY <2>1, <2>2 DEF fill
<1>5. CASE fill = 0
  <2>1. filled' = filled
    BY <1>1, <1>3, <1>5 DEF TryFill
  <2>2. QED
    BY <1>2, <1>5, <2>1 DEF fill
<1>6. QED
  BY <1>3, <1>4, <1>5

(* An order that is not submitted is on no trade of the tape. *)
LEMMA UnsubmittedTradesNothing ==
  ASSUME IInv, TapeInv, NEW o \in Orders, rank[o] = 0
  PROVE  TradedQty(o) = 0
<1>1. TradedQty(o) = SumFunctionOnSet(TapeQty, TradesOf(o))
  BY TradedSum DEF IInv
<1>2. TradesOf(o) = {}
  BY DEF TradesOf, TapeInv, TradeOK
<1>3. QED
  BY <1>1, <1>2, SumEmpty

(* Every step keeps the orders' quantities equal to what the tape says.     *)
LEMMA FillsStep == IInv /\ IInv' /\ TapeInv /\ FillsMatchTape /\ [Next]_vars => FillsMatchTape'
<1> SUFFICES ASSUME IInv, IInv', TapeInv, FillsMatchTape, [Next]_vars
             PROVE  FillsMatchTape'
  OBVIOUS
<1>1. /\ TypeOK /\ TypeOK'
      /\ filled \in [Orders -> Nat]
  BY DEF IInv, TypeOK
<1>2. ASSUME Tape' = Tape, NEW o PROVE TradedQty(o)' = TradedQty(o)
  <2>1. TradesOf(o)' = TradesOf(o) /\ TapeQty' = TapeQty
    BY <1>2 DEF TradesOf, TapeQty
  <2>2. TradedQty(o) = SumFunctionOnSet(TapeQty, TradesOf(o))
    BY <1>1, TradedSum
  <2>3. TradedQty(o)' = SumFunctionOnSet(TapeQty', TradesOf(o)')
    BY <1>1, TradedSumNext
  <2>4. QED
    BY <2>1, <2>2, <2>3
<1>3. ASSUME UNCHANGED <<trades, tradeCh, published>> PROVE Tape' = Tape
  BY <1>3 DEF Tape
<1>4. ASSUME Tape' = Tape, UNCHANGED <<req, filled, taker, remaining>>,
             pc' = "sending" <=> pc = "sending"
      PROVE  FillsMatchTape'
  BY <1>2, <1>4 DEF FillsMatchTape
<1>5. CASE NextLevel \/ LeaveLevel
  BY <1>3, <1>4, <1>5 DEF NextLevel, LeaveLevel, orderVars, outVars
<1>6. CASE SendTrade \/ Receive
  <2>1. UNCHANGED <<req, filled, taker, remaining, pc>>
    BY <1>6 DEF SendTrade, Receive, orderVars, callVars
  <2>2. QED
    BY <1>1, <1>4, <1>6, <2>1, TapeKept
<1>7. CASE VisitMaker
  <2> DEFINE m == Queue[skipCount + 1]
             q == MatchQty(m)
             t == NewTrade(m)
  <2>1. pc = "makers" /\ Len(Queue) > skipCount /\ remaining > 0
    BY <1>7 DEF VisitMaker
  <2>2. /\ m \in Orders /\ m # taker /\ IsActive(m)
        /\ q \in 1..remaining
        /\ q \in 1..MaxQty
        /\ CanFill(m, q)
    BY <2>1, MakerFacts
  <2>3. /\ taker \in Orders /\ remaining \in Nat /\ MaxQty \in Nat
        /\ req[taker].qty \in Nat /\ filled[m] \in Nat
    BY <1>1, <2>1, <2>2, CallTypes, OrderTypes, OrderBookAssumption
  <2>4. q > 0 /\ q \in Nat
    BY <2>2, <2>3
  <2>5. /\ filled' = [filled EXCEPT ![m] = @ + q]
        /\ remaining' = remaining - q
        /\ UNCHANGED <<req, taker, pc, published, tradeCh>>
    BY <1>7, <2>2, <2>4 DEF VisitMaker, TryFill
  <2>6. trades' = Append(trades, t) /\ t \in Trades
    BY <1>7, NewTradeOK
  <2>7. t.buy = taker /\ t.sell = m /\ t.qty = q
    BY DEF NewTrade
  <2> HIDE DEF m, q, t
  <2>8. ASSUME NEW o \in Orders
        PROVE /\ o \in {taker, m} => TradedQty(o)' = TradedQty(o) + q
              /\ o \notin {taker, m} => TradedQty(o)' = TradedQty(o)
              /\ TradedQty(o) \in Int
    BY <1>1, <2>5, <2>6, <2>7, TradedGrows
  <2>9. ASSUME NEW o \in Orders
        PROVE IF o = taker THEN filled'[o] = 0 /\ TradedQty(o)' = req[o].qty - remaining'
              ELSE filled'[o] = TradedQty(o)'
    <3>1. IF o = taker THEN filled[o] = 0 /\ TradedQty(o) = req[o].qty - remaining
          ELSE filled[o] = TradedQty(o)
      BY <2>1 DEF FillsMatchTape
    <3>2. CASE o = taker
      <4>1. filled'[o] = 0
        BY <1>1, <2>2, <2>5, <3>1, <3>2
      <4>2. TradedQty(o)' = TradedQty(o) + q /\ TradedQty(o) = req[taker].qty - remaining
        BY <2>8, <3>1, <3>2
      <4>3. TradedQty(o)' = req[taker].qty - (remaining - q)
        BY <2>3, <2>4, <4>2
      <4>4. QED
        BY <2>5, <3>2, <4>1, <4>3
    <3>3. CASE o = m
      <4>1. filled'[o] = filled[o] + q
        BY <1>1, <2>2, <2>5, <3>3
      <4>2. QED
        BY <2>2, <2>8, <3>1, <3>3, <4>1
    <3>4. CASE o # taker /\ o # m
      <4>1. filled'[o] = filled[o]
        BY <1>1, <2>5, <3>4
      <4>2. QED
        BY <2>8, <3>1, <3>4, <4>1
    <3>5. QED
      BY <3>2, <3>3, <3>4
  <2>10. QED
    BY <2>1, <2>5, <2>9 DEF FillsMatchTape
<1>8. CASE FinishMatch
  <2>1. /\ pc = "levels" /\ pc' = "sending" /\ UNCHANGED <<req, taker, remaining>>
        /\ Tape' = Tape
    BY <1>3, <1>8 DEF FinishMatch, outVars
  <2>2. filled' = [filled EXCEPT ![taker] = req[taker].qty - remaining]
    BY <1>8, TakerIsFilled
  <2>3. ASSUME NEW o \in Orders PROVE filled'[o] = TradedQty(o)'
    <3>1. CASE o = taker
      <4>1. filled'[o] = req[o].qty - remaining
        BY <1>1, <2>2, <3>1
      <4>2. TradedQty(o) = req[o].qty - remaining
        BY <2>1, <3>1 DEF FillsMatchTape
      <4>3. QED
        BY <1>2, <2>1, <4>1, <4>2
    <3>2. CASE o # taker
      <4>1. filled'[o] = filled[o]
        BY <1>1, <2>2, <3>2
      <4>2. filled[o] = TradedQty(o)
        BY <3>2 DEF FillsMatchTape
      <4>3. QED
        BY <1>2, <2>1, <4>1, <4>2
    <3>3. QED
      BY <3>1, <3>2
  <2>4. QED
    BY <2>1, <2>3 DEF FillsMatchTape
<1>9. CASE ReturnSubmit
  <2>1. /\ pc = "sending" /\ taker' = NoOrder /\ filled' = filled /\ Tape' = Tape
    BY <1>3, <1>9 DEF ReturnSubmit, orderVars, outVars
  <2>2. ASSUME NEW o \in Orders PROVE o # taker' /\ filled'[o] = TradedQty(o)'
    <3>1. o # taker' /\ filled[o] = TradedQty(o)
      BY <2>1, OrderBookAssumption DEF FillsMatchTape
    <3>2. QED
      BY <1>2, <2>1, <3>1
  <2>3. QED
    BY <2>2 DEF FillsMatchTape
<1>10. ASSUME NEW o \in Orders, NEW r \in Requests, Submit(o, r) PROVE FillsMatchTape'
  <2>1. /\ pc = "unlocked" /\ pc' = "levels" /\ taker' = o /\ remaining' = r.qty
        /\ rank[o] = 0 /\ filled' = filled /\ Tape' = Tape
        /\ req' = [req EXCEPT ![o] = r]
    BY <1>3, <1>10 DEF Submit, outVars
  <2>2. taker = NoOrder
    BY <1>1, <2>1 DEF TypeOK
  <2>3. \A x \in Orders : filled[x] = TradedQty(x)
    BY <2>2, OrderBookAssumption DEF FillsMatchTape
  <2>4. \A x \in Orders : filled'[x] = TradedQty(x)'
    BY <1>2, <2>1, <2>3
  <2>5. filled'[o] = 0 /\ TradedQty(o)' = req'[o].qty - remaining'
    <3>1. TradedQty(o) = 0
      BY <2>1, UnsubmittedTradesNothing
    <3>2. req'[o] = r /\ r.qty \in 1..MaxQty
      BY <1>1, <2>1, RequestFields DEF TypeOK
    <3>3. filled'[o] = 0 /\ TradedQty(o)' = 0
      BY <1>2, <2>1, <2>3, <3>1
    <3>4. r.qty - r.qty = 0
      BY <3>2
    <3>5. QED
      BY <2>1, <3>2, <3>3, <3>4
  <2>6. QED
    BY <2>1, <2>4, <2>5 DEF FillsMatchTape
<1>11. ASSUME NEW o \in Orders, CancelUnknown(o) \/ CancelKnown(o) PROVE FillsMatchTape'
  BY <1>3, <1>4, <1>11 DEF CancelUnknown, CancelKnown, orderVars, callVars, outVars
<1>12. CASE UNCHANGED vars
  BY <1>3, <1>4, <1>12 DEF vars, orderVars, callVars, outVars
<1>13. QED
  BY <1>5, <1>6, <1>7, <1>8, <1>9, <1>10, <1>11, <1>12 DEF Next, SubmitStep

(* With the mutex free, a level in the heap holds exactly the active limit  *)
(* orders of its side and price, and a level that is not there holds none.  *)
LEMMA LevelIsActiveOrders ==
  ASSUME IInv, pc = "unlocked", NEW side \in Sides, NEW p \in Prices
  PROVE  ToSet(level[side][p]) = {o \in Orders : /\ rank[o] > 0 /\ IsActive(o)
                                                 /\ req[o].type = "limit"
                                                 /\ req[o].side = side /\ req[o].price = p}
<1> DEFINE q == level[side][p]
           S == {o \in Orders : /\ rank[o] > 0 /\ IsActive(o)
                                /\ req[o].type = "limit"
                                /\ req[o].side = side /\ req[o].price = p}
<1>1. LevelOK(side, p) /\ q \in Seq(Orders) /\ taker = NoOrder
  BY DEF IInv, TypeOK, BookConsistent
<1>2. ASSUME NEW o \in ToSet(q) PROVE o \in S
  <2>1. PICK i \in DOMAIN q : o = q[i]
    BY DEF ToSet
  <2>2. o \in Orders /\ req[o].side = side /\ req[o].price = p /\ o \in orderMap
    BY <1>1, <2>1 DEF LevelOK, Live, InWork
  <2>3. rank[o] > 0 /\ req[o].type = "limit" /\ IsActive(o)
    BY <2>2 DEF IInv, ActiveRests
  <2>4. QED
    BY <2>2, <2>3
<1>3. ASSUME NEW o \in S PROVE o \in ToSet(q)
  <2>1. o \in orderMap
    BY <1>1, OrderBookAssumption DEF IInv, ActiveRests
  <2>2. \E i \in DOMAIN q : q[i] = o
    BY <2>1 DEF IInv, BookConsistent, RestingOK
  <2>3. QED
    BY <2>2 DEF ToSet
<1>4. QED
  BY <1>2, <1>3

(* Depth shows what the active limit orders have open. *)
LEMMA DepthIsOpen == IInv => DepthIsOpenInterest
<1> SUFFICES ASSUME IInv, pc = "unlocked", NEW side \in Sides, NEW p \in Prices
             PROVE  (IF p \in heap[side] THEN Depth(side)[p] ELSE 0)
                      = MapThenSumSet(LAMBDA o : req[o].qty - filled[o],
                          {o \in Orders : /\ rank[o] > 0 /\ IsActive(o)
                                          /\ req[o].type = "limit"
                                          /\ req[o].side = side /\ req[o].price = p})
  BY DEF DepthIsOpenInterest
<1> DEFINE L == ToSet(level[side][p])
<1>1. L = {o \in Orders : /\ rank[o] > 0 /\ IsActive(o)
                          /\ req[o].type = "limit"
                          /\ req[o].side = side /\ req[o].price = p}
  BY LevelIsActiveOrders
<1>2. SUFFICES (IF p \in heap[side] THEN Depth(side)[p] ELSE 0)
                 = MapThenSumSet(LAMBDA o : req[o].qty - filled[o], L)
  BY <1>1
<1>3. MapThenSumSet(RemainingQty, L) = MapThenSumSet(LAMBDA o : req[o].qty - filled[o], L)
  BY DEF MapThenSumSet, MapThenFoldSet, RemainingQty
<1>4. CASE p \in heap[side]
  BY <1>3, <1>4 DEF Depth
<1>5. CASE p \notin heap[side]
  <2>1. level[side][p] = <<>>
    BY <1>5 DEF IInv, BookConsistent, LevelOK
  <2>2. L = {}
    BY <2>1 DEF ToSet
  <2>3. MapThenSumSet(RemainingQty, {}) = 0
    <3> DEFINE It(g) == g = [s \in SUBSET {} |->
                               IF s = {} THEN 0
                               ELSE RemainingQty(First(s)) + g[s \ {First(s)}]]
    <3>1. MapThenSumSet(RemainingQty, {}) = (CHOOSE g : It(g))[{}]
      BY DEF MapThenSumSet, MapThenFoldSet, First
    <3>2. It([s \in SUBSET {} |-> 0])
      OBVIOUS
    <3>3. It(CHOOSE g : It(g))
      BY <3>2
    <3>4. QED
      BY <3>1, <3>3
  <2> HIDE DEF L
  <2>4. QED
    BY <1>3, <1>5, <2>2, <2>3
<1>6. QED
  BY <1>4, <1>5

(* The orders' own quantities, the tape of trades and Depth agree.          *)
THEOREM AccountsKept == Spec => []AccountsAgree
<1>1. Init => TapeInv /\ FillsMatchTape
  <2> SUFFICES ASSUME Init PROVE TapeInv /\ FillsMatchTape
    OBVIOUS
  <2>1. IInv
    BY InitInv
  <2>2. Tape = (<<>> \o <<>>) \o <<>>
    BY DEF Init, Tape
  <2>3. DOMAIN Tape = {}
    BY <2>2
  <2>4. TapeInv
    BY <2>3 DEF TapeInv
  <2>5. \A o \in Orders : TradedQty(o) = 0 /\ filled[o] = 0 /\ o # taker
    BY <2>1, <2>4, UnsubmittedTradesNothing, OrderBookAssumption DEF Init
  <2>6. QED
    BY <2>4, <2>5 DEF FillsMatchTape
<1>2. IInv /\ TapeInv /\ [Next]_vars => TapeInv'
  BY TapeStep
<1>3. IInv /\ IInv' /\ TapeInv /\ FillsMatchTape /\ [Next]_vars => FillsMatchTape'
  BY FillsStep
<1>4. IInv /\ FillsMatchTape => AccountsAgree
  BY DepthIsOpen DEF AccountsAgree
<1>5. QED
  BY <1>1, <1>2, <1>3, <1>4, Inductive, PTL DEF Spec
-----------------------------------------------------------------------------
(* The book as the atomic one *)

(* A total of what is open is the library's sum of it. *)
LEMMA TotalIs ==
  ASSUME NEW rem, NEW S
  PROVE  Total(rem, S) = SumFunctionOnSet(rem, S)
BY DEF Total, MapThenSumSet, MapThenFoldSet, SumFunctionOnSet, FoldFunctionOnSet

(* A total of naturals is a natural. *)
LEMMA TotalType ==
  ASSUME NEW S, IsFiniteSet(S), NEW rem, \A x \in S : rem[x] \in Nat
  PROVE  Total(rem, S) \in Nat
<1>1. SumFunctionOnSet(rem, S) \in Int
  BY SumRemove
<1>2. SumFunctionOnSet(rem, S) >= 0
  <2>1. 0 * Cardinality({x \in S : rem[x] >= 0}) <= SumFunctionOnSet(rem, S)
    BY SumAtLeast
  <2>2. IsFiniteSet({x \in S : rem[x] >= 0})
    BY FS_Subset
  <2>3. Cardinality({x \in S : rem[x] >= 0}) \in Nat
    BY <2>2, FS_CardinalityType
  <2>4. 0 * Cardinality({x \in S : rem[x] >= 0}) = 0
    BY <2>3
  <2>5. QED
    BY <2>1, <2>4
<1>3. QED
  BY <1>1, <1>2, TotalIs

(* m is filled by q, and leaves the makers if that is all it had open: a    *)
(* total that counted m is less by q.                                       *)
LEMMA TotalAfterFill ==
  ASSUME NEW A, IsFiniteSet(A), NEW rem, NEW rem2, \A x \in A : rem[x] \in Nat,
         NEW m \in A, NEW q \in Nat,
         rem2[m] = rem[m] - q, \A x \in A \ {m} : rem2[x] = rem[x]
  PROVE  /\ q = rem[m] => Total(rem2, A \ {m}) = Total(rem, A) - q
         /\ q # rem[m] => Total(rem2, A) = Total(rem, A) - q
<1>1. \A x \in A : rem[x] \in Int /\ rem2[x] \in Int
  OBVIOUS
<1>2. CASE q = rem[m]
  <2>1. SumFunctionOnSet(rem, A) = rem[m] + SumFunctionOnSet(rem, A \ {m})
    BY <1>1, SumRemove
  <2>2. IsFiniteSet(A \ {m}) /\ (\A x \in A \ {m} : rem2[x] = rem[x] /\ rem2[x] \in Int)
    BY <1>1, FS_Subset
  <2>3. SumFunctionOnSet(rem2, A \ {m}) = SumFunctionOnSet(rem, A \ {m})
    BY <2>2, SumAgree
  <2>4. SumFunctionOnSet(rem, A \ {m}) \in Int
    BY <1>1, <2>2, SumRemove
  <2>5. PICK s \in Int : s = SumFunctionOnSet(rem, A \ {m})
    BY <2>4
  <2>6. Total(rem2, A \ {m}) = s /\ Total(rem, A) = rem[m] + s
    BY <2>1, <2>3, <2>5, TotalIs
  <2>7. Total(rem2, A \ {m}) = Total(rem, A) - q
    BY <1>2, <2>5, <2>6
  <2>8. QED
    BY <1>2, <2>7
<1>3. CASE q # rem[m]
  <2>1. SumFunctionOnSet(rem2, A) = SumFunctionOnSet(rem, A) - rem[m] + rem2[m]
    BY <1>1, SumChange
  <2>2. SumFunctionOnSet(rem, A) \in Int
    BY <1>1, SumRemove
  <2>3. PICK s \in Int : s = SumFunctionOnSet(rem, A)
    BY <2>2
  <2>4. Total(rem2, A) = s - rem[m] + rem2[m] /\ Total(rem, A) = s
    BY <2>1, <2>3, TotalIs
  <2>5. Total(rem2, A) = Total(rem, A) - q
    BY <2>3, <2>4
  <2>6. QED
    BY <1>3, <2>5
<1>4. QED
  BY <1>2, <1>3

(* What an order will have been filled by when the match under way is over. *)
LEMMA InTheEnd ==
  /\ FilledInTheEnd = [o \in Orders |-> FilledInTheEnd[o]]
  /\ \A o \in Orders :
       /\ ~Matching => FilledInTheEnd[o] = filled[o]
       /\ Matching /\ o = taker =>
            FilledInTheEnd[o]
              = req[o].qty - remaining + TakerShare(Open, MakersAhead, remaining)
       /\ Matching /\ o # taker /\ o \in MakersAhead =>
            FilledInTheEnd[o]
              = filled[o] + Share(req, rank, Open, MakersAhead, remaining, o)
       /\ Matching /\ o # taker /\ o \notin MakersAhead =>
            FilledInTheEnd[o] = filled[o] + 0
BY DEF FilledInTheEnd

(* The same of the next state. *)
LEMMA InTheEndNext ==
  /\ FilledInTheEnd' = [o \in Orders |-> FilledInTheEnd'[o]]
  /\ \A o \in Orders :
       /\ ~Matching' => FilledInTheEnd'[o] = filled'[o]
       /\ Matching' /\ o = taker' =>
            FilledInTheEnd'[o]
              = req'[o].qty - remaining' + TakerShare(Open', MakersAhead', remaining')
       /\ Matching' /\ o # taker' /\ o \in MakersAhead' =>
            FilledInTheEnd'[o]
              = filled'[o] + Share(req', rank', Open', MakersAhead', remaining', o)
       /\ Matching' /\ o # taker' /\ o \notin MakersAhead' =>
            FilledInTheEnd'[o] = filled'[o] + 0
BY DEF FilledInTheEnd

(* The makers ahead of a match are orders that rest on the side it takes    *)
(* from, each with something open, and the taker is none of them.           *)
LEMMA MakersAheadFacts ==
  ASSUME IInv, Matching
  PROVE  /\ IsFiniteSet(MakersAhead)
         /\ \A x \in MakersAhead :
              /\ x \in orderMap /\ x \in Orders /\ x # taker
              /\ req[x].side = MakerSide
              /\ Open[x] = req[x].qty - filled[x]
              /\ Open[x] \in Nat
<1>1. TypeOK /\ taker \in Orders /\ pc # "unlocked" /\ pc # "sending"
  BY CallTypes DEF IInv, Matching
<1>2. IsFiniteSet(MakersAhead)
  <2>1. MakersAhead \subseteq Orders
    BY <1>1 DEF MakersAhead, TypeOK
  <2>2. QED
    BY <2>1, FS_Subset, OrderBookAssumption
<1>3. ASSUME NEW x \in MakersAhead
      PROVE  /\ x \in orderMap /\ x \in Orders /\ x # taker
             /\ req[x].side = MakerSide
             /\ Open[x] = req[x].qty - filled[x]
             /\ Open[x] \in Nat
  <2>1. x \in orderMap /\ x \in Orders /\ Compatible(req[taker], req[x])
    BY <1>1 DEF MakersAhead, TypeOK
  <2>2. x # taker
    BY <1>1, <2>1 DEF IInv, ActiveRests
  <2>3. req[x].side \in Sides /\ req[taker].side \in Sides
    BY <1>1, <2>1, OrderTypes
  <2>4. req[x].side = MakerSide
    BY <2>1, <2>3 DEF Compatible, MakerSide, Opposite, Sides
  <2>5. RemainingQty(x) > 0 /\ RemainingQty(x) \in Int
    BY <1>1, <2>1, OrderTypes DEF IInv, BookConsistent, RestingOK
  <2>6. Open[x] = RemainingQty(x)
    BY <2>1 DEF Open
  <2>7. QED
    BY <2>1, <2>2, <2>4, <2>5, <2>6 DEF RemainingQty
<1>4. QED
  BY <1>2, <1>3

(* A pass over a maker fills it by what was counted for it: in the end      *)
(* every order will have been filled by as much as before.                  *)
LEMMA VisitKeepsEnd ==
  ASSUME IInv, VisitMaker
  PROVE  FilledInTheEnd' = FilledInTheEnd
<1> DEFINE m == Queue[skipCount + 1]
           q == MatchQty(m)
           R == remaining
           M == MakersAhead
           M2 == MakersAhead'
           rem == Open
           rem2 == Open'
<1>1. pc = "makers" /\ Len(Queue) > skipCount /\ remaining > 0 /\ Matching /\ TypeOK
  BY DEF VisitMaker, Matching, IInv
<1>2. /\ m \in orderMap /\ m \in Orders /\ m # taker
      /\ IsActive(m)
      /\ req[m].side = MakerSide /\ req[m].price = best
      /\ q \in 1..remaining
      /\ q <= RemainingQty(m)
      /\ CanFill(m, q)
  BY <1>1, MakerFacts
<1>3. /\ taker \in Orders /\ R \in Nat /\ best \in Int
      /\ MakerSide # req[taker].side
      /\ req[taker].qty \in Nat /\ filled[m] \in Nat /\ RemainingQty(m) \in Int
      /\ q = IF R < RemainingQty(m) THEN R ELSE RemainingQty(m)
  BY <1>1, <1>2, CallTypes, OrderTypes DEF MatchQty
<1>4. q > 0 /\ q \in Nat /\ q <= R
  BY <1>2, <1>3
<1>5. /\ filled' = [filled EXCEPT ![m] = @ + q]
      /\ remaining' = R - q
      /\ orderMap' = IF q = RemainingQty(m) THEN orderMap \ {m} ELSE orderMap
      /\ UNCHANGED <<req, rank, taker, pc>>
  BY <1>2, <1>4 DEF VisitMaker, TryFill
<1>6. ASSUME NEW x \in orderMap, req[x].side = MakerSide, x # m
      PROVE Ahead(req, rank, m, x) /\ ~Ahead(req, rank, x, m)
  BY <1>6, MakerIsFirst
<1> HIDE DEF m, q
<1>7. m \in M
  <2>1. Crosses(taker, best)
    BY <1>1 DEF IInv, CallInv
  <2>2. Compatible(req[taker], req[m])
    BY <1>2, <1>3, <2>1 DEF Crosses, Compatible
  <2>3. QED
    BY <1>2, <2>2 DEF MakersAhead
<1>8. /\ IsFiniteSet(M)
      /\ \A x \in M : /\ x \in orderMap /\ x \in Orders /\ x # taker
                      /\ req[x].side = MakerSide
                      /\ rem[x] = req[x].qty - filled[x]
                      /\ rem[x] \in Nat
  BY <1>1, MakersAheadFacts
<1>9. rem[m] = RemainingQty(m)
  BY <1>2 DEF Open
<1>10. M2 = IF q = rem[m] THEN M \ {m} ELSE M
  BY <1>5, <1>9 DEF MakersAhead
<1>11. /\ filled'[m] = filled[m] + q
       /\ \A x \in Orders \ {m} : filled'[x] = filled[x]
  BY <1>1, <1>2, <1>5 DEF TypeOK
<1>12. /\ rem2[m] = rem[m] - q
       /\ \A x \in M \ {m} : rem2[x] = rem[x]
  <2>1. \A x \in Orders : rem2[x] = req[x].qty - filled'[x] /\ rem[x] = req[x].qty - filled[x]
    BY <1>5 DEF Open, RemainingQty
  <2>2. req[m].qty \in Nat
    BY <1>1, <1>2, OrderTypes
  <2>3. rem2[m] = req[m].qty - (filled[m] + q) /\ rem[m] = req[m].qty - filled[m]
    BY <1>2, <1>11, <2>1
  <2>4. rem2[m] = rem[m] - q
    BY <1>3, <1>4, <2>2, <2>3
  <2>5. \A x \in M \ {m} : rem2[x] = rem[x]
    BY <1>8, <1>11, <2>1
  <2>6. QED
    BY <2>4, <2>5
<1>13. Matching'
  BY <1>1, <1>5 DEF Matching
<1> HIDE DEF M, M2, rem, rem2, R
<1>14. rem[m] \in Nat /\ q <= rem[m] /\ M2 \subseteq M
  BY <1>2, <1>7, <1>8, <1>9, <1>10
<1>15. ASSUME NEW A \in SUBSET M, m \in A PROVE Total(rem2, A \cap M2) = Total(rem, A) - q
  <2>1. IsFiniteSet(A) /\ (\A x \in A : rem[x] \in Nat) /\ q \in Nat
    BY <1>4, <1>8, FS_Subset
  <2>2. rem2[m] = rem[m] - q /\ (\A x \in A \ {m} : rem2[x] = rem[x])
    BY <1>12
  <2>3. /\ q = rem[m] => Total(rem2, A \ {m}) = Total(rem, A) - q
        /\ q # rem[m] => Total(rem2, A) = Total(rem, A) - q
    BY ONLY <1>15, <2>1, <2>2, TotalAfterFill
  <2>4. CASE q = rem[m]
    <3>1. A \cap M2 = A \ {m}
      BY <1>10, <2>4
    <3>2. QED
      BY <2>3, <2>4, <3>1
  <2>5. CASE q # rem[m]
    <3>1. A \cap M2 = A
      BY <1>10, <2>5
    <3>2. QED
      BY <2>3, <2>5, <3>1
  <2>6. QED
    BY <2>4, <2>5
<1>16. ASSUME NEW A \in SUBSET M PROVE Total(rem, A) \in Nat
  <2>1. IsFiniteSet(A) /\ (\A x \in A : rem[x] \in Nat)
    BY <1>8, FS_Subset
  <2>2. QED
    BY <2>1, TotalType
<1>17. FilledInTheEnd[taker]' = FilledInTheEnd[taker]
  <2>1. FilledInTheEnd[taker] = req[taker].qty - R + TakerShare(rem, M, R)
    BY <1>1, <1>3, InTheEnd DEF R, M, rem
  <2>2. FilledInTheEnd'[taker] = req[taker].qty - (R - q) + TakerShare(rem2, M2, R - q)
    BY <1>3, <1>5, <1>13, InTheEndNext DEF M2, rem2
  <2>3. M \cap M2 = M2
    BY <1>14
  <2>4. Total(rem2, M2) = Total(rem, M) - q /\ Total(rem, M) \in Nat
    BY <1>7, <1>15, <1>16, <2>3
  <2>5. TakerShare(rem2, M2, R - q) = TakerShare(rem, M, R) - q
    BY <1>3, <1>4, <2>4 DEF TakerShare
  <2>6. TakerShare(rem, M, R) \in Int
    BY <1>3, <2>4 DEF TakerShare
  <2>7. FilledInTheEnd'[taker] = FilledInTheEnd[taker]
    BY <1>3, <1>4, <2>1, <2>2, <2>5, <2>6
  <2>8. QED
    BY <1>5, <2>7
<1>18. FilledInTheEnd'[m] = FilledInTheEnd[m]
  <2> DEFINE A == {x \in M : Ahead(req, rank, x, m)}
  <2>1. A = {}
    <3>1. ~Ahead(req, rank, m, m)
      <4>1. req[m].price \in Int /\ rank[m] \in Nat
        BY <1>1, <1>2, OrderTypes
      <4>2. QED
        BY <4>1 DEF Ahead
    <3>2. ASSUME NEW x \in M PROVE ~Ahead(req, rank, x, m)
      <4>1. CASE x = m
        BY <3>1, <4>1
      <4>2. CASE x # m
        BY <1>6, <1>8, <4>2
      <4>3. QED
        BY <4>1, <4>2
    <3>3. QED
      BY <3>2
  <2>2. Total(rem, A) = 0
    BY <2>1, TotalIs, SumEmpty
  <2>3. Share(req, rank, rem, M, R, m) = q
    <3>1. Share(req, rank, rem, M, R, m)
            = IF R - 0 <= 0 THEN 0 ELSE IF R - 0 < rem[m] THEN R - 0 ELSE rem[m]
      BY <2>2 DEF Share
    <3>2. QED
      BY <1>3, <1>4, <1>9, <3>1
  <2>4. FilledInTheEnd[m] = filled[m] + q
    <3>1. FilledInTheEnd[m] = filled[m] + Share(req, rank, rem, M, R, m)
      BY <1>1, <1>2, <1>7, InTheEnd DEF R, M, rem
    <3>2. QED
      BY <2>3, <3>1
  <2>5. CASE m \in M2
    <3>1. q # rem[m]
      BY <1>10, <2>5
    <3>2. R - q = 0
      BY <1>3, <1>4, <1>9, <3>1
    <3>3. FilledInTheEnd'[m] = filled'[m] + Share(req, rank, rem2, M2, R - q, m)
      BY <1>2, <1>5, <1>13, <2>5, InTheEndNext DEF M2, rem2
    <3> DEFINE A2 == {x \in M2 : Ahead(req, rank, x, m)}
    <3>4. A2 = {}
      BY <1>14, <2>1
    <3>5. Total(rem2, A2) = 0
      BY <3>4, TotalIs, SumEmpty
    <3>6. Share(req, rank, rem2, M2, R - q, m) = 0
      BY <3>2, <3>5 DEF Share
    <3>7. QED
      BY <1>3, <1>4, <1>11, <2>4, <3>3, <3>6
  <2>6. CASE m \notin M2
    <3>1. FilledInTheEnd'[m] = filled'[m] + 0
      BY <1>2, <1>5, <1>13, <2>6, InTheEndNext DEF M2
    <3>2. QED
      BY <1>3, <1>4, <1>11, <2>4, <3>1
  <2>7. QED
    BY <2>5, <2>6
<1>19. ASSUME NEW x \in M, x # m PROVE FilledInTheEnd'[x] = FilledInTheEnd[x]
  <2> DEFINE A == {y \in M : Ahead(req, rank, y, x)}
             A2 == {y \in M2 : Ahead(req, rank, y, x)}
  <2>1. x \in M2 /\ x \in Orders /\ x # taker /\ rem2[x] = rem[x] /\ rem[x] \in Nat
    BY <1>8, <1>10, <1>12, <1>19
  <2>2. m \in A
    BY <1>6, <1>7, <1>8, <1>19
  <2>3. A2 = A \cap M2
    BY <1>14
  <2>4. Total(rem2, A2) = Total(rem, A) - q /\ Total(rem, A) \in Nat
    BY <1>15, <1>16, <2>2, <2>3
  <2>5. (R - q) - Total(rem2, A2) = R - Total(rem, A)
    BY <1>3, <1>4, <2>4
  <2>6. Share(req, rank, rem2, M2, R - q, x) = Share(req, rank, rem, M, R, x)
    BY <2>1, <2>5 DEF Share
  <2>7. FilledInTheEnd[x] = filled[x] + Share(req, rank, rem, M, R, x)
    BY <1>1, <2>1, InTheEnd DEF R, M, rem
  <2>8. FilledInTheEnd'[x] = filled'[x] + Share(req, rank, rem2, M2, R - q, x)
    BY <1>5, <1>13, <2>1, InTheEndNext DEF M2, rem2
  <2>9. QED
    BY <1>11, <1>19, <2>1, <2>6, <2>7, <2>8
<1>20. ASSUME NEW x \in Orders, x \notin M, x # taker PROVE FilledInTheEnd'[x] = FilledInTheEnd[x]
  <2>1. x \notin M2 /\ filled'[x] = filled[x]
    BY <1>7, <1>11, <1>14, <1>20
  <2>2. FilledInTheEnd[x] = filled[x] + 0
    BY <1>1, <1>20, InTheEnd DEF M
  <2>3. FilledInTheEnd'[x] = filled'[x] + 0
    BY <1>5, <1>13, <1>20, <2>1, InTheEndNext DEF M2
  <2>4. QED
    BY <2>1, <2>2, <2>3
<1>21. \A x \in Orders : FilledInTheEnd'[x] = FilledInTheEnd[x]
  BY <1>5, <1>17, <1>18, <1>19, <1>20
<1>22. QED
  BY <1>21, InTheEnd, InTheEndNext

(* What the instance of AtomicBook calls by the names of PriceTime is what  *)
(* this module calls so.                                                    *)
LEMMA SameOperators ==
  ASSUME NEW requests, NEW times, NEW rem, NEW S, NEW q, NEW m, NEW r
  PROVE  /\ Atomic!Total(rem, S) = Total(rem, S)
         /\ Atomic!TakerShare(rem, S, q) = TakerShare(rem, S, q)
         /\ Atomic!Share(requests, times, rem, S, q, m) = Share(requests, times, rem, S, q, m)
         /\ Atomic!Compatible(r, m) <=> Compatible(r, m)
         /\ Atomic!Cardinality(S) = Cardinality(S)
<1>1. \A T : Atomic!Total(rem, T) = Total(rem, T)
  BY DEF Atomic!Total, Total, Atomic!MapThenSumSet, MapThenSumSet, Atomic!MapThenFoldSet, MapThenFoldSet
<1>2. Atomic!TakerShare(rem, S, q) = TakerShare(rem, S, q)
  BY <1>1 DEF Atomic!TakerShare, TakerShare
<1>3. {x \in S : Atomic!Ahead(requests, times, x, m)} = {x \in S : Ahead(requests, times, x, m)}
  BY DEF Atomic!Ahead, Ahead
<1>4. Atomic!Share(requests, times, rem, S, q, m) = Share(requests, times, rem, S, q, m)
  BY <1>1, <1>3 DEF Atomic!Share, Share
<1>5. Atomic!Compatible(r, m) <=> Compatible(r, m)
  BY DEF Atomic!Compatible, Compatible
<1>6. Atomic!Cardinality(S) = Cardinality(S)
  BY DEF Atomic!Cardinality, Cardinality
<1>7. QED
  BY <1>1, <1>2, <1>4, <1>5, <1>6

CancelledOrders == {o \in Orders : status[o] = "Cancelled"}

(* With the mutex free, what the atomic book has at rest is what orderMap   *)
(* holds, with the same open quantities.                                    *)
LEMMA RestingIsOrderMap ==
  ASSUME IInv, pc = "unlocked"
  PROVE  /\ Atomic!Resting = orderMap
         /\ Atomic!Open = Open
         /\ FilledInTheEnd = [o \in Orders |-> filled[o]]
<1>1. TypeOK /\ taker = NoOrder /\ ~Matching
  BY DEF IInv, TypeOK, Matching
<1>2. \A o \in Orders : FilledInTheEnd[o] = filled[o]
  BY <1>1, InTheEnd
<1>3. FilledInTheEnd = [o \in Orders |-> filled[o]]
  BY <1>2, InTheEnd
<1>4. Atomic!Open = Open
  BY <1>2 DEF Atomic!Open, Open, RemainingQty
<1>5. ASSUME NEW o \in Orders
      PROVE o \in orderMap <=>
              /\ rank[o] > 0
              /\ req[o].type = "limit"
              /\ status[o] # "Cancelled"
              /\ Open[o] > 0
  <2>1. o # taker /\ status[o] \in Statuses
    BY <1>1, OrderBookAssumption DEF TypeOK
  <2>2. Open[o] = req[o].qty - filled[o] /\ filled[o] <= req[o].qty
        /\ (status[o] = "Filled" <=> filled[o] = req[o].qty)
    BY DEF IInv, FillInv, Open, RemainingQty
  <2>3. req[o].qty \in Nat /\ filled[o] \in Nat
    BY <1>1, OrderTypes
  <2>4. Open[o] > 0 <=> status[o] # "Filled"
    BY <2>2, <2>3
  <2>5. IsActive(o) <=> status[o] # "Filled" /\ status[o] # "Cancelled"
    BY <2>1 DEF IsActive, Active, Statuses
  <2>6. o \in orderMap <=> rank[o] > 0 /\ req[o].type = "limit" /\ IsActive(o)
    BY <2>1 DEF IInv, ActiveRests
  <2>7. QED
    BY <2>4, <2>5, <2>6
<1>6. orderMap \subseteq Orders
  BY <1>1 DEF TypeOK
<1>7. Atomic!Resting = orderMap
  BY <1>4, <1>5, <1>6 DEF Atomic!Resting
<1>8. QED
  BY <1>3, <1>4, <1>7

(* A total depends only on what the members of the set have open. *)
LEMMA TotalAgrees ==
  ASSUME NEW A, IsFiniteSet(A), NEW rem, NEW rem2,
         \A x \in A : rem[x] \in Nat /\ rem2[x] = rem[x]
  PROVE  Total(rem2, A) = Total(rem, A)
<1>1. \A x \in A : rem2[x] = rem[x] /\ rem2[x] \in Int
  OBVIOUS
<1>2. SumFunctionOnSet(rem2, A) = SumFunctionOnSet(rem, A)
  BY <1>1, SumAgree
<1>3. QED
  BY <1>2, TotalIs

(* Taking the mutex for a new order is the atomic book's whole Submit.      *)
LEMMA SubmitIsAtomic ==
  ASSUME IInv, NEW o \in Orders, NEW r \in Requests, Submit(o, r)
  PROVE  Atomic!Submit(o, r)
<1> DEFINE M == {m \in orderMap : Compatible(r, req[m])}
           new == [m \in Orders |->
                     IF m = o THEN TakerShare(Open, M, r.qty)
                     ELSE IF m \in M
                       THEN filled[m] + Share(req, rank, Open, M, r.qty, m)
                       ELSE filled[m]]
<1>1. /\ pc = "unlocked" /\ pc' = "levels" /\ rank[o] = 0
      /\ req' = [req EXCEPT ![o] = r]
      /\ rank' = [rank EXCEPT ![o] = 1 + Cardinality({x \in Orders : rank[x] > 0})]
      /\ taker' = o /\ remaining' = r.qty
      /\ UNCHANGED <<status, filled, orderMap>>
  BY DEF Submit, bookVars
<1>2. /\ TypeOK /\ orderMap \subseteq Orders
      /\ req \in [Orders -> Requests] /\ rank \in [Orders -> Nat] /\ filled \in [Orders -> Nat]
  BY DEF IInv, TypeOK
<1>3. o \notin orderMap
  BY <1>1 DEF IInv, ActiveRests
<1>4. Matching'
  BY <1>1 DEF Matching
<1>5. /\ req'[o] = r
      /\ \A x \in Orders \ {o} : req'[x] = req[x] /\ rank'[x] = rank[x]
  BY <1>1, <1>2
<1>6. MakersAhead' = M
  BY <1>1, <1>2, <1>3, <1>5 DEF MakersAhead
<1>7. IsFiniteSet(M) /\ M \subseteq Orders \ {o}
  <2>1. M \subseteq Orders \ {o}
    BY <1>2, <1>3
  <2>2. QED
    BY <2>1, FS_Subset, OrderBookAssumption
<1>8. \A x \in M : /\ Open[x] \in Nat /\ Open'[x] = Open[x]
                   /\ req'[x] = req[x] /\ rank'[x] = rank[x]
  <2>1. ASSUME NEW x \in M PROVE Open[x] \in Nat /\ Open'[x] = Open[x]
    <3>1. x \in orderMap /\ x \in Orders /\ x # o
      BY <1>7
    <3>2. RemainingQty(x) > 0 /\ RemainingQty(x) \in Int
      BY <1>2, <3>1, OrderTypes DEF IInv, BookConsistent, RestingOK
    <3>3. Open[x] = req[x].qty - filled[x] /\ Open'[x] = req'[x].qty - filled'[x]
      BY <3>1 DEF Open, RemainingQty
    <3>4. Open'[x] = Open[x]
      BY <1>1, <1>5, <3>1, <3>3
    <3>5. QED
      BY <3>2, <3>3, <3>4 DEF RemainingQty
  <2>2. QED
    BY <1>5, <1>7, <2>1
<1> HIDE DEF M
<1>9. /\ TakerShare(Open', M, r.qty) = TakerShare(Open, M, r.qty)
      /\ \A m \in M : Share(req', rank', Open', M, r.qty, m)
                        = Share(req, rank, Open, M, r.qty, m)
  <2>1. ASSUME NEW A \in SUBSET M PROVE Total(Open', A) = Total(Open, A)
    <3>1. IsFiniteSet(A) /\ \A x \in A : Open[x] \in Nat /\ Open'[x] = Open[x]
      BY <1>7, <1>8, FS_Subset
    <3>2. QED
      BY ONLY <3>1, TotalAgrees
  <2>2. TakerShare(Open', M, r.qty) = TakerShare(Open, M, r.qty)
    BY <2>1 DEF TakerShare
  <2>3. ASSUME NEW m \in M
        PROVE  Share(req', rank', Open', M, r.qty, m) = Share(req, rank, Open, M, r.qty, m)
    <3> DEFINE A == {x \in M : Ahead(req, rank, x, m)}
    <3>1. {x \in M : Ahead(req', rank', x, m)} = A
      BY <1>8 DEF Ahead
    <3>2. Total(Open', A) = Total(Open, A) /\ Open'[m] = Open[m]
      BY <1>8, <2>1
    <3> HIDE DEF A
    <3>3. Share(req', rank', Open', M, r.qty, m)
            = IF r.qty - Total(Open', A) <= 0 THEN 0
              ELSE IF r.qty - Total(Open', A) < Open'[m] THEN r.qty - Total(Open', A)
              ELSE Open'[m]
      BY <3>1 DEF Share
    <3>4. Share(req, rank, Open, M, r.qty, m)
            = IF r.qty - Total(Open, A) <= 0 THEN 0
              ELSE IF r.qty - Total(Open, A) < Open[m] THEN r.qty - Total(Open, A)
              ELSE Open[m]
      BY DEF Share, A
    <3>5. QED
      BY <3>2, <3>3, <3>4
  <2>4. QED
    BY <2>2, <2>3
<1>10. FilledInTheEnd' = new
  <2>1. FilledInTheEnd'[o] = new[o]
    <3>1. FilledInTheEnd'[o] = req'[o].qty - remaining' + TakerShare(Open', MakersAhead', remaining')
      BY <1>1, <1>4, InTheEndNext
    <3>2. FilledInTheEnd'[o] = r.qty - r.qty + TakerShare(Open, M, r.qty)
      BY <1>1, <1>5, <1>6, <1>9, <3>1
    <3>3. r.qty \in Int
      BY RequestFields
    <3>4. TakerShare(Open, M, r.qty) \in Int
      <4>1. Total(Open, M) \in Nat
        BY <1>7, <1>8, TotalType
      <4>2. QED
        BY <3>3, <4>1 DEF TakerShare
    <3>5. QED
      BY <3>2, <3>3, <3>4
  <2>2. ASSUME NEW x \in M PROVE FilledInTheEnd'[x] = new[x]
    <3>1. x \in Orders /\ x # o
      BY <1>7
    <3>2. FilledInTheEnd'[x] = filled'[x] + Share(req', rank', Open', MakersAhead', remaining', x)
      BY <1>1, <1>4, <1>6, <3>1, InTheEndNext
    <3>3. QED
      BY <1>1, <1>6, <1>9, <3>1, <3>2
  <2>3. ASSUME NEW x \in Orders, x # o, x \notin M PROVE FilledInTheEnd'[x] = new[x]
    <3>1. FilledInTheEnd'[x] = filled'[x] + 0
      BY <1>1, <1>4, <1>6, <2>3, InTheEndNext
    <3>2. filled[x] \in Nat
      BY <1>2
    <3>3. QED
      BY <1>1, <2>3, <3>1, <3>2
  <2>4. \A x \in Orders : FilledInTheEnd'[x] = new[x]
    BY <2>1, <2>2, <2>3
  <2>5. QED
    BY <2>4, InTheEndNext
<1>11. /\ Atomic!Resting = orderMap
       /\ Atomic!Open = Open
       /\ FilledInTheEnd = [x \in Orders |-> filled[x]]
  BY <1>1, RestingIsOrderMap
<1>12. {m \in Atomic!Resting : Atomic!Compatible(r, req[m])} = M
  <2>1. \A m : Atomic!Compatible(r, req[m]) <=> Compatible(r, req[m])
    BY SameOperators
  <2>2. QED
    BY <1>11, <2>1 DEF M
<1>13. CancelledOrders' = CancelledOrders
  BY <1>1 DEF CancelledOrders
<1> DEFINE makers == {m \in Atomic!Resting : Atomic!Compatible(r, req[m])}
<1>14. FilledInTheEnd' = [m \in Orders |->
                      IF m = o THEN Atomic!TakerShare(Atomic!Open, makers, r.qty)
                      ELSE IF m \in makers
                        THEN FilledInTheEnd[m]
                               + Atomic!Share(req, rank, Atomic!Open, makers, r.qty, m)
                        ELSE FilledInTheEnd[m]]
  <2>1. makers = M /\ Atomic!Open = Open
    BY <1>11, <1>12
  <2> HIDE DEF makers
  <2>2. Atomic!TakerShare(Atomic!Open, makers, r.qty) = TakerShare(Open, M, r.qty)
    BY <2>1, SameOperators
  <2>3. \A m : Atomic!Share(req, rank, Atomic!Open, makers, r.qty, m)
                 = Share(req, rank, Open, M, r.qty, m)
    BY <2>1, SameOperators
  <2>4. \A m \in Orders : FilledInTheEnd[m] = filled[m]
    BY <1>11
  <2>5. QED
    BY <1>10, <2>1, <2>2, <2>3, <2>4
<1>15. {x \in Orders : status[x] = "Cancelled"}' = {x \in Orders : status[x] = "Cancelled"}
  BY <1>13 DEF CancelledOrders
<1> HIDE DEF new
<1>16. QED
  <2>1. Atomic!Cardinality({x \in Orders : rank[x] > 0}) = Cardinality({x \in Orders : rank[x] > 0})
    BY SameOperators
  <2>2. QED
    BY <1>1, <1>14, <1>15, <2>1 DEF Atomic!Submit

(* A Cancel that succeeds is the atomic book's. *)
LEMMA CancelIsAtomic ==
  ASSUME IInv, NEW o \in Orders, CancelKnown(o)
  PROVE  Atomic!Cancel(o)
<1>1. pc = "unlocked" /\ o \in orderMap /\ IsActive(o) /\ TypeOK
  BY FoundIsActive DEF CancelKnown, IInv
<1>2. /\ status' = [status EXCEPT ![o] = "Cancelled"]
      /\ UNCHANGED <<req, rank, filled, pc>>
  BY <1>1 DEF CancelKnown, CancelAccepted, callVars
<1>3. o \in Atomic!Resting /\ FilledInTheEnd = [x \in Orders |-> filled[x]]
  BY <1>1, RestingIsOrderMap
<1>4. FilledInTheEnd' = FilledInTheEnd
  <2>1. ~Matching'
    BY <1>1, <1>2 DEF Matching
  <2>2. \A x \in Orders : FilledInTheEnd'[x] = filled'[x]
    BY <2>1, InTheEndNext
  <2>3. QED
    BY <1>2, <1>3, <2>2, InTheEndNext
<1>5. CancelledOrders' = CancelledOrders \cup {o}
  BY <1>1, <1>2 DEF CancelledOrders, TypeOK
<1>6. QED
  BY <1>2, <1>3, <1>4, <1>5 DEF Atomic!Cancel, CancelledOrders

(* When no level is left to match, nothing that was counted is still to     *)
(* come: the taker has all it gets, and so has every maker.                 *)
LEMMA FinishKeepsEnd ==
  ASSUME IInv, FinishMatch
  PROVE  FilledInTheEnd' = FilledInTheEnd /\ CancelledOrders' = CancelledOrders
<1>1. /\ pc = "levels" /\ pc' = "sending" /\ Matching /\ ~Matching' /\ TypeOK
      /\ \A p \in Prices : ~Matchable(p)
      /\ UNCHANGED <<req, taker>>
      /\ TryFill(taker, TakerFill)
  BY DEF FinishMatch, Matching, IInv
<1>2. /\ taker \in Orders /\ remaining \in Nat /\ req[taker].qty \in Nat
      /\ MakerSide \in Sides /\ req[taker].side \in Sides
      /\ status[taker] = "New"
      /\ filled \in [Orders -> Nat] /\ status \in [Orders -> Statuses]
  BY <1>1, CallTypes, OrderTypes DEF IInv, CallInv, TypeOK
<1>3. filled' = [filled EXCEPT ![taker] = req[taker].qty - remaining]
  BY TakerIsFilled
<1>4. /\ IsFiniteSet(MakersAhead)
      /\ \A x \in MakersAhead :
           /\ x \in orderMap /\ x \in Orders /\ x # taker
           /\ req[x].side = MakerSide
           /\ Open[x] \in Nat
  BY <1>1, MakersAheadFacts
<1>5. remaining = 0 \/ MakersAhead = {}
  <2>1. SUFFICES ASSUME remaining > 0, NEW x \in MakersAhead PROVE FALSE
    BY <1>2
  <2>2. x \in Orders /\ x \in orderMap /\ req[x].side = MakerSide
    BY <1>4
  <2>3. req[x].price \in Prices /\ req[x].side \in Sides
    BY <1>1, <2>2, OrderTypes
  <2>4. level[req[x].side][req[x].price] # <<>>
    BY <2>2 DEF IInv, BookConsistent, RestingOK
  <2>5. req[x].price \in heap[MakerSide]
    BY <2>2, <2>3, <2>4 DEF IInv, BookConsistent, LevelOK
  <2>6. ~Crosses(taker, req[x].price)
    BY <1>1, <2>1, <2>5, NothingCrosses
  <2>7. Compatible(req[taker], req[x])
    BY DEF MakersAhead
  <2>8. QED
    BY <2>6, <2>7 DEF Crosses, Compatible
<1>6. ASSUME NEW A \in SUBSET MakersAhead
      PROVE  Total(Open, A) \in Nat /\ (remaining = 0 \/ Total(Open, A) = 0)
  <2>1. IsFiniteSet(A) /\ \A x \in A : Open[x] \in Nat
    BY <1>4, FS_Subset
  <2>2. Total(Open, A) \in Nat
    BY <2>1, TotalType
  <2>3. A = {} => Total(Open, A) = 0
    BY TotalIs, SumEmpty
  <2>4. QED
    BY <1>5, <2>2, <2>3
<1>7. TakerShare(Open, MakersAhead, remaining) = 0
  BY <1>2, <1>6 DEF TakerShare
<1>8. ASSUME NEW x \in MakersAhead PROVE Share(req, rank, Open, MakersAhead, remaining, x) = 0
  <2> DEFINE A == {y \in MakersAhead : Ahead(req, rank, y, x)}
  <2>1. Total(Open, A) \in Nat
    BY <1>6
  <2>2. remaining = 0
    BY <1>5
  <2> HIDE DEF A
  <2>3. remaining - Total(Open, A) <= 0
    BY <2>1, <2>2
  <2>4. QED
    BY <2>3 DEF Share, A
<1>9. ASSUME NEW x \in Orders PROVE FilledInTheEnd'[x] = FilledInTheEnd[x]
  <2>1. FilledInTheEnd'[x] = filled'[x]
    BY <1>1, InTheEndNext
  <2>2. CASE x = taker
    <3>1. FilledInTheEnd[x] = req[x].qty - remaining + 0
      BY <1>1, <1>7, <2>2, InTheEnd
    <3>2. filled'[x] = req[x].qty - remaining
      BY <1>2, <1>3, <2>2
    <3>3. QED
      BY <1>2, <2>1, <2>2, <3>1, <3>2
  <2>3. CASE x # taker
    <3>1. FilledInTheEnd[x] = filled[x] + 0
      BY <1>1, <1>8, <2>3, InTheEnd
    <3>2. filled'[x] = filled[x] /\ filled[x] \in Nat
      BY <1>2, <1>3, <2>3
    <3>3. QED
      BY <2>1, <3>1, <3>2
  <2>4. QED
    BY <2>2, <2>3
<1>10. FilledInTheEnd' = FilledInTheEnd
  BY <1>9, InTheEnd, InTheEndNext
<1>11. CancelledOrders' = CancelledOrders
  <2>1. \A x \in Orders : status'[x] = "Cancelled" <=> status[x] = "Cancelled"
    BY <1>1, <1>2 DEF TryFill, StatusAfter
  <2>2. QED
    BY <2>1 DEF CancelledOrders
<1>12. QED
  BY <1>10, <1>11

(* Every step of the book is one of the atomic book or none. *)
LEMMA StepIsAtomic ==
  IInv /\ [Next]_vars =>
    [Atomic!Next]_<<req, rank, FilledInTheEnd, CancelledOrders>>
<1> SUFFICES ASSUME IInv, [Next]_vars
             PROVE  \/ Atomic!Next
                    \/ UNCHANGED <<req, rank, FilledInTheEnd, CancelledOrders>>
  OBVIOUS
<1>1. ASSUME UNCHANGED <<req, rank, status, filled, taker, remaining, orderMap>>,
             Matching' <=> Matching
      PROVE  UNCHANGED <<req, rank, FilledInTheEnd, CancelledOrders>>
  <2>1. Open' = Open /\ MakersAhead' = MakersAhead
    BY <1>1 DEF Open, RemainingQty, MakersAhead
  <2>2. ASSUME NEW x \in Orders PROVE FilledInTheEnd'[x] = FilledInTheEnd[x]
    <3>1. CASE ~Matching
      BY <1>1, <3>1, InTheEnd, InTheEndNext
    <3>2. CASE Matching /\ x = taker
      BY <1>1, <2>1, <3>2, InTheEnd, InTheEndNext
    <3>3. CASE Matching /\ x # taker /\ x \in MakersAhead
      BY <1>1, <2>1, <3>3, InTheEnd, InTheEndNext
    <3>4. CASE Matching /\ x # taker /\ x \notin MakersAhead
      BY <1>1, <2>1, <3>4, InTheEnd, InTheEndNext
    <3>5. QED
      BY <3>1, <3>2, <3>3, <3>4
  <2>3. FilledInTheEnd' = FilledInTheEnd
    BY <2>2, InTheEnd, InTheEndNext
  <2>4. QED
    BY <1>1, <2>3 DEF CancelledOrders
<1>2. CASE NextLevel \/ LeaveLevel
  BY <1>1, <1>2 DEF NextLevel, LeaveLevel, Matching, orderVars, bookVars
<1>3. CASE SendTrade \/ Receive \/ \E o \in Orders : CancelUnknown(o)
  BY <1>1, <1>3 DEF SendTrade, Receive, CancelUnknown, Matching, orderVars, bookVars, callVars
<1>4. CASE VisitMaker
  <2>1. FilledInTheEnd' = FilledInTheEnd
    BY <1>4, VisitKeepsEnd
  <2> DEFINE m == Queue[skipCount + 1]
  <2>2. IsActive(m) /\ m \in Orders
    BY <1>4, MakerFacts DEF VisitMaker
  <2>3. TryFill(m, MatchQty(m)) \/ status' = status
    BY <1>4 DEF VisitMaker
  <2> HIDE DEF m
  <2>4. \A x \in Orders : status'[x] = "Cancelled" <=> status[x] = "Cancelled"
    <3>1. status \in [Orders -> Statuses]
      BY DEF IInv, TypeOK
    <3>2. QED
      BY <2>2, <2>3, <3>1 DEF TryFill, StatusAfter, IsActive, Active
  <2>5. QED
    BY <1>4, <2>1, <2>4 DEF VisitMaker, CancelledOrders
<1>5. CASE FinishMatch
  BY <1>5, FinishKeepsEnd DEF FinishMatch
<1>6. CASE ReturnSubmit
  <2>1. /\ UNCHANGED <<req, rank, status, filled>>
        /\ ~Matching /\ ~Matching'
    BY <1>6 DEF ReturnSubmit, Matching, orderVars
  <2>2. \A x \in Orders : FilledInTheEnd'[x] = FilledInTheEnd[x]
    BY <2>1, InTheEnd, InTheEndNext
  <2>3. FilledInTheEnd' = FilledInTheEnd
    BY <2>2, InTheEnd, InTheEndNext
  <2>4. QED
    BY <2>1, <2>3 DEF CancelledOrders
<1>7. ASSUME NEW o \in Orders, NEW r \in Requests, Submit(o, r) PROVE Atomic!Next
  BY <1>7, SubmitIsAtomic DEF Atomic!Next
<1>8. ASSUME NEW o \in Orders, CancelKnown(o) PROVE Atomic!Next
  BY <1>8, CancelIsAtomic DEF Atomic!Next
<1>9. CASE UNCHANGED vars
  BY <1>1, <1>9 DEF vars, orderVars, bookVars, callVars, Matching
<1>10. QED
  BY <1>2, <1>3, <1>4, <1>5, <1>6, <1>7, <1>8, <1>9 DEF Next, SubmitStep

(* Submit and Cancel, with all their steps and with the trades still on     *)
(* their way, implement the book in which each is one step.                 *)
THEOREM RefinesAtomicBook == Spec => BookIsAtomic
<1>1. Init => Atomic!Init
  <2> SUFFICES ASSUME Init PROVE Atomic!Init
    OBVIOUS
  <2>1. IInv /\ pc = "unlocked"
    BY InitInv DEF Init
  <2>2. FilledInTheEnd = [o \in Orders |-> filled[o]]
    BY <2>1, RestingIsOrderMap
  <2>3. FilledInTheEnd = [o \in Orders |-> 0] /\ {o \in Orders : status[o] = "Cancelled"} = {}
    BY <2>2 DEF Init
  <2>4. QED
    BY <2>3 DEF Init, Atomic!Init
<1>2. IInv /\ [Next]_vars => [Atomic!Next]_<<req, rank, FilledInTheEnd, CancelledOrders>>
  BY StepIsAtomic
<1>3. CancelledOrders = {o \in Orders : status[o] = "Cancelled"}
  BY DEF CancelledOrders
<1>4. QED
  BY <1>1, <1>2, Inductive, PTL DEF Spec, BookIsAtomic, Atomic!Spec, CancelledOrders

-----------------------------------------------------------------------------
(* How long Submit holds the mutex *)

(* The most steps that the Submit which holds the mutex has left: each unit *)
(* to match is good for a maker, a level's beginning and end, and a send.   *)
Work ==
  CASE pc = "unlocked" -> 0
    [] pc = "levels" -> 4 * remaining + Len(trades) + 3
    [] pc = "makers" -> 4 * remaining + Len(trades)
                          + (IF Len(Queue) > skipCount /\ remaining > 0 THEN 2 ELSE 4)
    [] pc = "sending" -> Len(trades) + 1

(* What Submit has to send was sent when it returns. *)
AllSent == pc = "unlocked" => trades = <<>>

LEMMA AllSentStep == AllSent /\ [Next]_vars => AllSent'
BY DEF AllSent, Next, SubmitStep, NextLevel, VisitMaker, LeaveLevel, FinishMatch, SendTrade,
       ReturnSubmit, Receive, Submit, CancelUnknown, CancelKnown, vars, outVars, callVars

LEMMA WorkType ==
  ASSUME IInv
  PROVE  /\ Work \in Nat
         /\ remaining \in Nat /\ trades \in Seq(Trades) /\ Len(trades) \in Nat
<1>1. remaining \in Nat /\ trades \in Seq(Trades) /\ Len(trades) \in Nat
  BY CallTypes DEF IInv, TypeOK
<1>2. pc \in {"unlocked", "levels", "makers", "sending"}
  BY DEF IInv, TypeOK
<1>3. QED
  BY <1>1, <1>2 DEF Work

(* A level that is begun has a maker to meet. *)
LEMMA NextLevelWorks ==
  ASSUME IInv, NextLevel
  PROVE  Work' < Work
<1>1. remaining \in Nat /\ Len(trades) \in Nat
  BY WorkType
<1>2. PICK p \in Prices : Matchable(p) /\ best' = p
  BY DEF NextLevel
<1>3. /\ pc = "levels" /\ pc' = "makers" /\ skipCount' = 0
      /\ UNCHANGED <<remaining, trades, level, req, taker>>
  BY DEF NextLevel, outVars, orderVars, bookVars
<1>4. MakerSide \in Sides /\ p \in heap[MakerSide] /\ remaining > 0
  BY <1>2, <1>3, CallTypes DEF IInv, TypeOK, Matchable, IsBest
<1>5. level[MakerSide][p] # <<>> /\ level[MakerSide][p] \in Seq(Orders)
  BY <1>4 DEF IInv, TypeOK, BookConsistent, LevelOK
<1>6. Queue' = level[MakerSide][p]
  BY <1>2, <1>3 DEF Queue, MakerSide
<1>7. Len(Queue') > 0
  BY <1>5, <1>6
<1>8. Work = 4 * remaining + Len(trades) + 3
  BY <1>3 DEF Work
<1>9. Work' = 4 * remaining + Len(trades) + 2
  BY <1>3, <1>4, <1>7 DEF Work
<1>10. QED
  BY <1>1, <1>8, <1>9

(* A maker that is met trades at least a unit. *)
LEMMA VisitMakerWorks ==
  ASSUME IInv, VisitMaker
  PROVE  Work' < Work
<1> DEFINE m == Queue[skipCount + 1]
<1>1. remaining \in Nat /\ trades \in Seq(Trades) /\ Len(trades) \in Nat
  BY WorkType
<1>2. pc = "makers" /\ pc' = "makers" /\ Len(Queue) > skipCount /\ remaining > 0
  BY DEF VisitMaker
<1>3. IsActive(m) /\ MatchQty(m) \in 1..remaining /\ CanFill(m, MatchQty(m))
  BY <1>2, MakerFacts
<1>4. MatchQty(m) > 0
  BY <1>1, <1>3
<1>5. trades' = Append(trades, NewTrade(m)) /\ remaining' = remaining - MatchQty(m)
  BY <1>3, <1>4 DEF VisitMaker
<1>6. Len(trades') = Len(trades) + 1
  BY <1>1, <1>5
<1> DEFINE q == MatchQty(m)
<1>7. q \in 1..remaining /\ remaining' = remaining - q
  BY <1>3, <1>5
<1> HIDE DEF q, m
<1>8. remaining' \in Nat /\ remaining' <= remaining - 1
  BY <1>1, <1>7
<1>9. Work = 4 * remaining + Len(trades) + 2
  BY <1>2 DEF Work
<1>10. Work' \in {4 * remaining' + Len(trades') + 2, 4 * remaining' + Len(trades') + 4}
  <2>1. CASE Len(Queue') > skipCount' /\ remaining' > 0
    BY <1>2, <2>1 DEF Work
  <2>2. CASE ~(Len(Queue') > skipCount' /\ remaining' > 0)
    BY <1>2, <2>2 DEF Work
  <2>3. QED
    BY <2>1, <2>2
<1>11. QED
  BY <1>1, <1>6, <1>8, <1>9, <1>10

LEMMA SubmitStepWorks ==
  ASSUME IInv, SubmitStep
  PROVE  Work' < Work
<1>1. remaining \in Nat /\ trades \in Seq(Trades) /\ Len(trades) \in Nat
  BY WorkType
<1>2. CASE NextLevel
  BY <1>2, NextLevelWorks
<1>3. CASE VisitMaker
  BY <1>3, VisitMakerWorks
<1>4. CASE LeaveLevel
  <2>1. /\ pc = "makers" /\ pc' = "levels" /\ ~(Len(Queue) > skipCount /\ remaining > 0)
        /\ UNCHANGED <<remaining, trades>>
    BY <1>4 DEF LeaveLevel, outVars
  <2>2. Work = 4 * remaining + Len(trades) + 4 /\ Work' = 4 * remaining + Len(trades) + 3
    BY <2>1 DEF Work
  <2>3. QED
    BY <1>1, <2>2
<1>5. CASE FinishMatch
  <2>1. pc = "levels" /\ pc' = "sending" /\ UNCHANGED trades
    BY <1>5 DEF FinishMatch, outVars
  <2>2. Work = 4 * remaining + Len(trades) + 3 /\ Work' = Len(trades) + 1
    BY <2>1 DEF Work
  <2>3. QED
    BY <1>1, <2>2
<1>6. CASE SendTrade
  <2>1. pc = "sending" /\ pc' = "sending" /\ trades # <<>> /\ trades' = Tail(trades)
    BY <1>6 DEF SendTrade, callVars
  <2>2. Len(trades') = Len(trades) - 1
    BY <1>1, <2>1
  <2>3. Work = Len(trades) + 1 /\ Work' = Len(trades') + 1
    BY <2>1 DEF Work
  <2>4. QED
    BY <1>1, <2>2, <2>3
<1>7. CASE ReturnSubmit
  <2>1. pc = "sending" /\ pc' = "unlocked"
    BY <1>7 DEF ReturnSubmit
  <2>2. Work = Len(trades) + 1 /\ Work' = 0
    BY <2>1 DEF Work
  <2>3. QED
    BY <1>1, <2>2
<1>8. QED
  BY <1>2, <1>3, <1>4, <1>5, <1>6, <1>7 DEF SubmitStep

(* A Submit of q units begins with 4q + 3 steps to go at most, each of its  *)
(* steps takes one off, and nobody else adds to them. *)
SubmitBounded ==
  [][ /\ \A o \in Orders, r \in Requests : Submit(o, r) => Work' = 4 * r.qty + 3
      /\ SubmitStep => Work' < Work
      /\ pc # "unlocked" /\ ~SubmitStep => Work' = Work ]_vars

(* The matching loops end, whatever rests in the book: the call that holds  *)
(* the mutex is at most 4q + 3 steps from its return for an order of q      *)
(* units, of which only the sends on the trade channel can wait.            *)
THEOREM MatchingEnds == Spec => [](Work \in Nat) /\ SubmitBounded
<1> DEFINE Bounded ==
      /\ \A o \in Orders, r \in Requests : Submit(o, r) => Work' = 4 * r.qty + 3
      /\ SubmitStep => Work' < Work
      /\ pc # "unlocked" /\ ~SubmitStep => Work' = Work
<1>1. ASSUME IInv, AllSent, [Next]_vars PROVE [Bounded]_vars
  <2>1. ASSUME NEW o \in Orders, NEW r \in Requests, Submit(o, r) PROVE Work' = 4 * r.qty + 3
    <3>1. pc = "unlocked" /\ pc' = "levels" /\ remaining' = r.qty /\ UNCHANGED trades
      BY <2>1 DEF Submit, outVars
    <3>2. Len(trades') = 0
      BY <1>1, <3>1 DEF AllSent
    <3>3. r.qty \in Int
      BY RequestFields
    <3>4. Work' = 4 * remaining' + Len(trades') + 3
      BY <3>1 DEF Work
    <3>5. QED
      BY <3>1, <3>2, <3>3, <3>4
  <2>2. SubmitStep => Work' < Work
    BY <1>1, SubmitStepWorks
  <2>3. ASSUME pc # "unlocked", ~SubmitStep PROVE Work' = Work
    <3>1. UNCHANGED <<pc, remaining, trades, level, req, taker, best, skipCount>>
      BY <1>1, <2>3 DEF Next, Submit, CancelUnknown, CancelKnown, Receive, vars, orderVars,
         bookVars, callVars, outVars
    <3>2. QED
      BY <3>1 DEF Work, Queue, MakerSide
  <2>4. QED
    BY <2>1, <2>2, <2>3
<1>2. Init => AllSent
  BY DEF Init, AllSent
<1>3. Spec => []AllSent
  BY <1>2, AllSentStep, PTL DEF Spec
<1>4. IInv => Work \in Nat
  BY WorkType
<1>5. QED
  BY <1>1, <1>3, <1>4, Inductive, PTL DEF Spec, SubmitBounded
=============================================================================
