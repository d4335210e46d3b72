------------------------- MODULE MatchingEngineProofs -------------------------
(***************************************************************************)
(* Proofs about MatchingEngine, for any finite sets of goroutines and      *)
(* symbols and any number of orders: a symbol and an ID name one order.    *)
(* And about the ring buffer it pushes to, for any size and any number of  *)
(* goroutines that push: what Pop returns.                                 *)
(***************************************************************************)
EXTENDS MatchingEngine, RingBuffer, FiniteSetTheorems, SequenceTheorems, TLAPS

Records == [id : 1..MaxOrders, symbol : Symbols, afterStop : BOOLEAN, returned : BOOLEAN]
Calls == [at : {"idle", "lookup", "submit", "result"}, order : {0} \cup DOMAIN order,
          book : {0} \cup DOMAIN book]

(* The counter is the number of orders, and their IDs are their places.     *)
IDInv ==
  /\ orderIDSeq = Len(order)
  /\ \A n \in DOMAIN order : order[n].id = n /\ (order[n].afterStop => stopped)

(* A goroutine's order is nobody else's, and no client knows it yet.        *)
OwnInv ==
  \A p \in Callers : caller[p].at # "idle" =>
    /\ caller[p].order \in DOMAIN order
    /\ ~order[caller[p].order].returned
    /\ \A q \in Callers : caller[q].at # "idle" /\ caller[q].order = caller[p].order => q = p

(* The book that a goroutine holds is the one that the map has, unless Stop *)
(* came between.                                                            *)
HeldInv ==
  \A p \in Callers : caller[p].at = "submit" =>
    /\ caller[p].book \in DOMAIN book
    /\ order[caller[p].order].afterStop = stopped => orderBooks[SymbolOf(p)] = caller[p].book

CancelInv ==
  IF canceller.at = "idle" THEN canceller.order = 0
  ELSE canceller.order \in DOMAIN order /\ order[canceller.order].returned

(* The invariant is NamesOneOrder without what follows from IDInv.          *)
PlaceInv ==
  \A b \in DOMAIN book : \A n \in book[b] :
    order[n].afterStop = stopped =>
      /\ orderBooks[order[n].symbol] = b
      /\ canceller.order = n /\ canceller.own => canceller.book = b

IInv == TypeOK /\ IDInv /\ OwnInv /\ HeldInv /\ CancelInv /\ PlaceInv

-----------------------------------------------------------------------------
(* A sequence over a set is one over every larger set. *)
LEMMA SeqGrows ==
  ASSUME NEW S, NEW T, S \subseteq T, NEW s \in Seq(S)
  PROVE  s \in Seq(T)
OBVIOUS

(* What the types say of each order, book and call.                         *)
LEMMA TypedFacts ==
  ASSUME TypeOK
  PROVE  /\ order \in Seq(Records) /\ Len(order) \in Nat /\ DOMAIN order = 1..Len(order)
         /\ \A n \in DOMAIN order : order[n] \in Records
         /\ Len(book) \in Nat /\ DOMAIN book = 1..Len(book)
         /\ \A b \in DOMAIN book : book[b] \subseteq DOMAIN order
         /\ \A p \in Callers :
              /\ caller[p] \in Calls
              /\ caller[p].at \in {"idle", "lookup", "submit", "result"}
              /\ caller[p].order \in {0} \cup DOMAIN order
              /\ caller[p].book \in {0} \cup DOMAIN book
<1>1. order \in Seq(Records) /\ book \in Seq(SUBSET DOMAIN order)
  BY DEF TypeOK, Records
<1>2. /\ Len(order) \in Nat /\ DOMAIN order = 1..Len(order)
      /\ Len(book) \in Nat /\ DOMAIN book = 1..Len(book)
  BY <1>1
<1>3. \A n \in DOMAIN order : order[n] \in Records
  BY <1>1, <1>2
<1>4. \A b \in DOMAIN book : book[b] \subseteq DOMAIN order
  BY <1>1, <1>2
<1>5. caller \in [Callers -> Calls]
  BY DEF TypeOK, Calls
<1>6. \A c \in Calls : /\ c.at \in {"idle", "lookup", "submit", "result"}
                       /\ c.order \in {0} \cup DOMAIN order /\ c.book \in {0} \cup DOMAIN book
  BY DEF Calls
<1> QED
  BY <1>1, <1>2, <1>3, <1>4, <1>5, <1>6

(* What the type of an order record says of its fields. *)
LEMMA RecordFields ==
  ASSUME NEW r \in Records
  PROVE  /\ r.id \in 1..MaxOrders /\ r.symbol \in Symbols
         /\ r.afterStop \in BOOLEAN /\ r.returned \in BOOLEAN
BY DEF Records

(* The fresh engine satisfies the invariant. *)
LEMMA InitInv == Init => IInv
<1> SUFFICES ASSUME Init PROVE IInv
  OBVIOUS
<1>1. orderIDSeq = 0 /\ order = <<>> /\ book = <<>> /\ DOMAIN order = {} /\ DOMAIN book = {}
  BY DEF Init
<1>2. TypeOK
  <2>1. orderIDSeq \in 0..MaxOrders /\ stopped \in BOOLEAN
    <3>1. MaxOrders \in Nat /\ orderIDSeq = 0
      BY MatchingEngineAssumption DEF Init
    <3>2. orderIDSeq \in 0..MaxOrders
      BY <3>1
    <3>3. stopped \in BOOLEAN
      BY DEF Init
    <3> QED
      BY <3>2, <3>3
  <2>2. order \in Seq(Records) /\ book \in Seq(SUBSET DOMAIN order)
    BY <1>1
  <2>3. orderBooks \in [Symbols -> {0} \cup DOMAIN book]
    BY DEF Init
  <2>4. caller \in [Callers -> Calls]
    BY DEF Init, NoCall, Calls
  <2>5. canceller \in [at : {"idle", "cancel"}, order : {0} \cup DOMAIN order, own : BOOLEAN,
                       book : {0} \cup DOMAIN book]
    BY DEF Init
  <2> QED
    BY <2>1, <2>2, <2>3, <2>4, <2>5 DEF TypeOK, Records, Calls
<1> QED
  BY <1>1, <1>2 DEF Init, NoCall, IInv, IDInv, OwnInv, HeldInv, CancelInv, PlaceInv

(* Taking an ID from the counter (engine/matching.go, SubmitOrder) keeps the invariant. *)
LEMMA TakeIDInv ==
  ASSUME IInv, NEW p \in Callers, TakeID(p), SubmitFrame
  PROVE  IInv'
<1> DEFINE k == Len(order) + 1
<1>1. PICK s \in Symbols : order' = Append(order, NewOrder(s, orderIDSeq'))
  BY DEF TakeID
<1> DEFINE rec == NewOrder(s, orderIDSeq')
           call == [at |-> "lookup", order |-> k, book |-> 0]
<1>2. /\ TypeOK /\ orderIDSeq = Len(order) /\ Len(order) \in Nat /\ Len(order) < MaxOrders
      /\ caller[p].at = "idle" /\ orderIDSeq' = k
      /\ UNCHANGED <<orderBooks, book, canceller, stopped>>
  BY TypedFacts DEF IInv, IDInv, TakeID, SubmitFrame
<1>3. rec \in Records /\ rec.id = k /\ rec.afterStop = stopped /\ ~rec.returned
  BY <1>2, MatchingEngineAssumption DEF TypeOK, Records, NewOrder
<1> HIDE DEF rec
<1>4. order' = Append(order, rec)
  BY <1>1 DEF rec
<1>5. /\ order' \in Seq(Records) /\ Len(order') = k /\ DOMAIN order' = 1..k
      /\ DOMAIN order = 1..Len(order)
      /\ order'[k] = rec /\ \A n \in DOMAIN order : order'[n] = order[n]
      /\ DOMAIN order \subseteq DOMAIN order' /\ k \in DOMAIN order' /\ k \notin DOMAIN order
  BY <1>2, <1>3, <1>4, TypedFacts
<1>6. caller' = [caller EXCEPT ![p] = call]
  BY <1>5 DEF TakeID
<1> HIDE DEF k
<1>7. /\ caller \in [Callers -> Calls]
      /\ caller'[p] = call /\ \A q \in Callers \ {p} : caller'[q] = caller[q]
  BY <1>2, <1>6 DEF TypeOK, Calls
<1>8. TypeOK'
  <2>1. book' \in Seq(SUBSET DOMAIN order')
    <3>1. book \in Seq(SUBSET DOMAIN order) /\ SUBSET DOMAIN order \subseteq SUBSET DOMAIN order'
      BY <1>2, <1>5 DEF TypeOK
    <3> QED
      BY <3>1, <1>2, SeqGrows
  <2>2. caller' \in [Callers -> Calls']
    <3>1. call \in Calls'
      BY <1>5 DEF Calls
    <3>2. Calls \subseteq Calls'
      BY <1>2, <1>5 DEF Calls
    <3> QED
      BY <3>1, <3>2, <1>6, <1>7
  <2>3. orderIDSeq' \in 0..MaxOrders
    BY <1>2, MatchingEngineAssumption DEF k
  <2> QED
    BY <2>1, <2>2, <2>3, <1>2, <1>5 DEF TypeOK, Records, Calls
<1>9. IDInv'
  BY <1>2, <1>3, <1>5 DEF IInv, IDInv, k
<1>10. OwnInv'
  <2> SUFFICES ASSUME NEW q \in Callers, caller'[q].at # "idle"
               PROVE  /\ caller'[q].order \in DOMAIN order'
                      /\ ~order'[caller'[q].order].returned
                      /\ \A r \in Callers :
                           caller'[r].at # "idle" /\ caller'[r].order = caller'[q].order => r = q
    BY DEF OwnInv
  <2>1. \A r \in Callers \ {p} : caller'[r].at # "idle" =>
          caller'[r].order \in DOMAIN order /\ ~order'[caller'[r].order].returned
    BY <1>5, <1>7 DEF IInv, OwnInv
  <2>2. CASE q = p
    BY <2>1, <2>2, <1>3, <1>5, <1>7
  <2>3. CASE q # p
    BY <2>1, <2>3, <1>5, <1>7 DEF IInv, OwnInv
  <2> QED
    BY <2>2, <2>3
<1>11. HeldInv'
  <2> SUFFICES ASSUME NEW q \in Callers, caller'[q].at = "submit"
               PROVE  /\ caller'[q].book \in DOMAIN book'
                      /\ order'[caller'[q].order].afterStop = stopped' =>
                           orderBooks'[order'[caller'[q].order].symbol] = caller'[q].book
    BY DEF HeldInv, SymbolOf
  <2>1. q # p /\ caller'[q] = caller[q]
    BY <1>7
  <2>2. caller[q].order \in DOMAIN order
    BY <2>1 DEF IInv, OwnInv
  <2> QED
    BY <2>1, <2>2, <1>2, <1>5 DEF IInv, HeldInv, SymbolOf
<1>12. CancelInv'
  BY <1>2, <1>5 DEF IInv, CancelInv
<1>13. PlaceInv'
  BY <1>2, <1>5, TypedFacts DEF IInv, PlaceInv
<1> QED
  BY <1>8, <1>9, <1>10, <1>11, <1>12, <1>13 DEF IInv

(* Looking up or making the book of a symbol keeps the invariant. *)
LEMMA GetOrCreateInv ==
  ASSUME IInv, NEW p \in Callers, GetOrCreateOrderBook(p), SubmitFrame
  PROVE  IInv'
<1> DEFINE s == SymbolOf(p)
           new == Len(book) + 1
<1>1. /\ caller[p].at = "lookup"
      /\ UNCHANGED <<orderIDSeq, order, canceller, stopped>>
      /\ caller' = [caller EXCEPT ![p].at = "submit", ![p].book = orderBooks'[s]]
  BY DEF GetOrCreateOrderBook, SubmitFrame
<1>2. caller[p].order \in DOMAIN order /\ s \in Symbols
  BY <1>1, TypedFacts, RecordFields DEF IInv, OwnInv, SymbolOf
<1>3. /\ orderBooks \in [Symbols -> {0} \cup DOMAIN book] /\ book \in Seq(SUBSET DOMAIN order)
      /\ caller \in [Callers -> Calls]
  BY DEF IInv, TypeOK, Calls
<1>4. /\ \/ orderBooks[s] = 0 /\ book' = Append(book, {})
            /\ orderBooks' = [orderBooks EXCEPT ![s] = Len(book')]
         \/ orderBooks[s] # 0 /\ UNCHANGED <<book, orderBooks>>
  BY DEF GetOrCreateOrderBook
<1> HIDE DEF s
<1>5. /\ book' \in Seq(SUBSET DOMAIN order) /\ DOMAIN book \subseteq DOMAIN book'
      /\ \A b \in DOMAIN book : book'[b] = book[b]
      /\ \A b \in DOMAIN book' \ DOMAIN book : book'[b] = {}
      /\ orderBooks' \in [Symbols -> {0} \cup DOMAIN book']
      /\ orderBooks'[s] \in DOMAIN book'
      /\ \A t \in Symbols : orderBooks[t] # 0 => orderBooks'[t] = orderBooks[t]
  <2>1. Len(book) \in Nat /\ DOMAIN book = 1..Len(book)
    BY <1>3
  <2>2. CASE orderBooks[s] = 0
    <3>1. /\ book' = Append(book, {}) /\ orderBooks' = [orderBooks EXCEPT ![s] = Len(book')]
      BY <2>2, <1>4
    <3>2. {} \in SUBSET DOMAIN order
      OBVIOUS
    <3>3. /\ book' \in Seq(SUBSET DOMAIN order) /\ Len(book') = new /\ DOMAIN book' = 1..new
          /\ book'[new] = {} /\ \A b \in DOMAIN book : book'[b] = book[b]
      BY <3>1, <3>2, <1>3, <2>1
    <3>4. new \in DOMAIN book' /\ DOMAIN book \subseteq DOMAIN book'
          /\ \A b \in DOMAIN book' \ DOMAIN book : b = new
      BY <3>3, <2>1
    <3> HIDE DEF new
    <3>5. orderBooks' = [orderBooks EXCEPT ![s] = new]
      BY <3>1, <3>3
    <3> QED
      BY <3>3, <3>4, <3>5, <2>2, <1>2, <1>3
  <2>3. CASE orderBooks[s] # 0
    BY <2>3, <1>2, <1>3, <1>4
  <2> QED
    BY <2>2, <2>3
<1>6. /\ caller'[p].at = "submit" /\ caller'[p].order = caller[p].order
      /\ caller'[p].book = orderBooks'[s]
      /\ \A q \in Callers \ {p} : caller'[q] = caller[q]
      /\ caller' \in [Callers -> Calls']
  <2>1. caller[p] \in Calls
    BY <1>3
  <2>2. [caller[p] EXCEPT !.at = "submit", !.book = orderBooks'[s]] \in Calls'
    BY <2>1, <1>1, <1>5 DEF Calls
  <2>3. Calls \subseteq Calls'
    BY <1>1, <1>5 DEF Calls
  <2>4. caller'[p] = [caller[p] EXCEPT !.at = "submit", !.book = orderBooks'[s]]
    BY <1>1, <1>3
  <2>5. \A q \in Callers \ {p} : caller'[q] = caller[q]
    BY <1>1, <1>3
  <2>6. caller'[p].at = "submit" /\ caller'[p].order = caller[p].order
        /\ caller'[p].book = orderBooks'[s]
    BY <2>1, <2>4 DEF Calls
  <2>7. caller' \in [Callers -> Calls']
    <3>1. DOMAIN caller' = Callers /\ caller' = [q \in Callers |-> caller'[q]]
      BY <1>1, <1>3
    <3>2. \A q \in Callers : caller'[q] \in Calls'
      BY <2>2, <2>3, <2>4, <2>5, <1>3
    <3> QED
      BY <3>1, <3>2
  <2> QED
    BY <2>5, <2>6, <2>7
<1>7. TypeOK'
  <2>1. canceller' \in [at : {"idle", "cancel"}, order : {0} \cup DOMAIN order', own : BOOLEAN,
                        book : {0} \cup DOMAIN book']
    BY <1>1, <1>5 DEF IInv, TypeOK
  <2> QED
    BY <2>1, <1>1, <1>5, <1>6 DEF IInv, TypeOK, Calls
<1>8. IDInv'
  BY <1>1 DEF IInv, IDInv
<1>9. OwnInv'
  BY <1>1, <1>6 DEF IInv, OwnInv
<1>10. HeldInv'
  <2> SUFFICES ASSUME NEW q \in Callers, caller'[q].at = "submit"
               PROVE  /\ caller'[q].book \in DOMAIN book'
                      /\ order[caller'[q].order].afterStop = stopped =>
                           orderBooks'[order[caller'[q].order].symbol] = caller'[q].book
    BY <1>1 DEF HeldInv, SymbolOf
  <2>1. CASE q = p
    BY <2>1, <1>5, <1>6 DEF s, SymbolOf
  <2>2. CASE q # p
    <3>1. caller'[q] = caller[q] /\ caller[q].at = "submit"
      BY <2>2, <1>6
    <3>2. caller[q].order \in DOMAIN order /\ order[caller[q].order].symbol \in Symbols
      BY <3>1, TypedFacts, RecordFields DEF IInv, OwnInv
    <3>3. caller[q].book \in DOMAIN book /\ caller[q].book # 0
      BY <3>1, <1>3 DEF IInv, HeldInv
    <3> QED
      BY <3>1, <3>2, <3>3, <1>5 DEF IInv, HeldInv, SymbolOf
  <2> QED
    BY <2>1, <2>2
<1>11. CancelInv'
  BY <1>1 DEF IInv, CancelInv
<1>12. PlaceInv'
  <2> SUFFICES ASSUME NEW b \in DOMAIN book', NEW n \in book'[b], order[n].afterStop = stopped
               PROVE  /\ orderBooks'[order[n].symbol] = b
                      /\ canceller.order = n /\ canceller.own => canceller.book = b
    BY <1>1 DEF PlaceInv
  <2>1. b \in DOMAIN book /\ n \in book[b] /\ b # 0
    BY <1>3, <1>5
  <2>2. order[n].symbol \in Symbols
    BY <2>1, TypedFacts, RecordFields DEF IInv
  <2> QED
    BY <2>1, <2>2, <1>5 DEF IInv, PlaceInv
<1> QED
  BY <1>7, <1>8, <1>9, <1>10, <1>11, <1>12 DEF IInv

(* Placing the order in the book that was found keeps the invariant. *)
LEMMA SubmitToBookInv ==
  ASSUME IInv, NEW p \in Callers, SubmitToBook(p), SubmitFrame
  PROVE  IInv'
<1> DEFINE b == caller[p].book
           o == caller[p].order
<1>1. /\ caller[p].at = "submit"
      /\ UNCHANGED <<orderIDSeq, orderBooks, order, canceller, stopped>>
      /\ caller' = [caller EXCEPT ![p].at = "result"]
  BY DEF SubmitToBook, SubmitFrame, Goes
<1>2. PICK filled \in {{}} \cup {{n} : n \in book[b]}, rests \in {{}, {o}} :
        book' = [book EXCEPT ![b] = (@ \ filled) \cup rests]
  BY DEF SubmitToBook
<1>3. /\ book \in Seq(SUBSET DOMAIN order) /\ caller \in [Callers -> Calls]
      /\ DOMAIN book = 1..Len(book) /\ Len(book) \in Nat
  BY TypedFacts DEF IInv, TypeOK, Calls
<1>4. /\ o \in DOMAIN order /\ ~order[o].returned /\ b \in DOMAIN book
      /\ order[o].afterStop = stopped => orderBooks[order[o].symbol] = b
  BY <1>1 DEF IInv, OwnInv, HeldInv, SymbolOf
<1> HIDE DEF b, o
<1>5. /\ DOMAIN book' = DOMAIN book /\ book' \in Seq(SUBSET DOMAIN order)
      /\ book'[b] \subseteq book[b] \cup {o}
      /\ \A c \in DOMAIN book \ {b} : book'[c] = book[c]
  <2>1. (book[b] \ filled) \cup rests \in SUBSET DOMAIN order
    BY <1>3, <1>4
  <2> QED
    BY <2>1, <1>2, <1>3, <1>4
<1>6. /\ caller'[p].at = "result" /\ caller'[p].order = caller[p].order
      /\ \A q \in Callers \ {p} : caller'[q] = caller[q]
      /\ caller' \in [Callers -> Calls]
  <2>1. caller[p] \in Calls
    BY <1>3
  <2>2. [caller[p] EXCEPT !.at = "result"] \in Calls
    BY <2>1 DEF Calls
  <2>3. caller'[p] = [caller[p] EXCEPT !.at = "result"]
    BY <1>1, <1>3
  <2>4. caller'[p].at = "result" /\ caller'[p].order = caller[p].order
    BY <2>1, <2>3 DEF Calls
  <2> HIDE DEF Calls
  <2>5. \A q \in Callers \ {p} : caller'[q] = caller[q]
    BY <1>1, <1>3
  <2>6. caller' \in [Callers -> Calls]
    BY <2>2, <1>1, <1>3
  <2> QED
    BY <2>4, <2>5, <2>6
<1>7. TypeOK'
  BY <1>1, <1>5, <1>6 DEF IInv, TypeOK, Calls
<1>8. IDInv'
  BY <1>1 DEF IInv, IDInv
<1>9. OwnInv'
  BY <1>1, <1>6 DEF IInv, OwnInv
<1>10. HeldInv'
  BY <1>1, <1>5, <1>6 DEF IInv, HeldInv, SymbolOf
<1>11. CancelInv'
  BY <1>1 DEF IInv, CancelInv
<1>12. PlaceInv'
  <2> SUFFICES ASSUME NEW c \in DOMAIN book', NEW n \in book'[c], order[n].afterStop = stopped
               PROVE  /\ orderBooks[order[n].symbol] = c
                      /\ canceller.order = n /\ canceller.own => canceller.book = c
    BY <1>1 DEF PlaceInv
  <2>1. CASE n \in book[c]
    BY <2>1, <1>5 DEF IInv, PlaceInv
  <2>2. CASE n \notin book[c]
    <3>1. c = b /\ n = o
      BY <2>2, <1>5
    <3>2. canceller.order # o
      <4>1. canceller.at \in {"idle", "cancel"}
        BY DEF IInv, TypeOK
      <4>2. o # 0
        BY <1>4, TypedFacts DEF IInv
      <4> QED
        BY <4>1, <4>2, <1>4 DEF IInv, CancelInv
    <3> QED
      BY <3>1, <3>2, <1>4
  <2> QED
    BY <2>1, <2>2
<1> QED
  BY <1>7, <1>8, <1>9, <1>10, <1>11, <1>12 DEF IInv

(* Offering the result to the result ring keeps the invariant. *)
LEMMA SendResultInv ==
  ASSUME IInv, NEW p \in Callers, SendResult(p), SubmitFrame
  PROVE  IInv'
<1> DEFINE o == caller[p].order
<1>1. /\ caller[p].at = "result"
      /\ UNCHANGED <<orderIDSeq, orderBooks, book, canceller, stopped>>
      /\ order' = [order EXCEPT ![o].returned = TRUE]
      /\ caller' = [caller EXCEPT ![p] = NoCall]
  BY DEF SendResult, SubmitFrame
<1>2. /\ order \in Seq(Records) /\ DOMAIN order = 1..Len(order) /\ Len(order) \in Nat
      /\ caller \in [Callers -> Calls]
  BY TypedFacts DEF IInv, TypeOK, Calls
<1>3. o \in DOMAIN order /\ order[o] \in Records
  BY <1>1, TypedFacts DEF IInv, OwnInv
<1> HIDE DEF o
<1>4. /\ order' \in Seq(Records) /\ DOMAIN order' = DOMAIN order /\ Len(order') = Len(order)
      /\ \A n \in DOMAIN order :
           /\ order'[n].id = order[n].id /\ order'[n].symbol = order[n].symbol
           /\ order'[n].afterStop = order[n].afterStop
      /\ \A n \in DOMAIN order \ {o} : order'[n] = order[n]
      /\ order'[o].returned
  <2>1. [order[o] EXCEPT !.returned = TRUE] \in Records
    BY <1>3 DEF Records
  <2>2. /\ DOMAIN order' = DOMAIN order
        /\ order'[o] = [order[o] EXCEPT !.returned = TRUE]
        /\ \A n \in DOMAIN order \ {o} : order'[n] = order[n]
    BY <1>1, <1>2, <1>3
  <2>3. /\ order'[o].returned /\ order'[o].id = order[o].id /\ order'[o].symbol = order[o].symbol
        /\ order'[o].afterStop = order[o].afterStop
    BY <2>2, <1>3 DEF Records
  <2>4. order' \in Seq(Records) /\ Len(order') = Len(order)
    <3> DEFINE r == [order[o] EXCEPT !.returned = TRUE]
    <3>1. r \in Records /\ order' = [order EXCEPT ![o] = r]
      BY <2>1, <1>1
    <3> HIDE DEF r
    <3> QED
      BY <3>1, <1>2, <1>3
  <2> QED
    BY <2>2, <2>3, <2>4
<1>5. /\ caller'[p].at = "idle" /\ \A q \in Callers \ {p} : caller'[q] = caller[q]
      /\ caller' \in [Callers -> Calls]
  <2>1. NoCall \in Calls /\ NoCall.at = "idle"
    BY DEF NoCall, Calls
  <2> QED
    BY <2>1, <1>1, <1>2
<1>6. TypeOK'
  BY <1>1, <1>4, <1>5 DEF IInv, TypeOK, Records, Calls
<1>7. IDInv'
  BY <1>1, <1>4 DEF IInv, IDInv
<1>8. OwnInv'
  <2> SUFFICES ASSUME NEW q \in Callers, caller'[q].at # "idle"
               PROVE  /\ caller'[q].order \in DOMAIN order'
                      /\ ~order'[caller'[q].order].returned
                      /\ \A r \in Callers :
                           caller'[r].at # "idle" /\ caller'[r].order = caller'[q].order => r = q
    BY DEF OwnInv
  <2>1. q # p /\ caller'[q] = caller[q]
    BY <1>5
  <2>2. caller[q].order # o
    BY <2>1, <1>1 DEF IInv, OwnInv, o
  <2> QED
    BY <2>1, <2>2, <1>4, <1>5 DEF IInv, OwnInv
<1>9. HeldInv'
  <2> SUFFICES ASSUME NEW q \in Callers, caller'[q].at = "submit"
               PROVE  /\ caller'[q].book \in DOMAIN book
                      /\ order'[caller'[q].order].afterStop = stopped =>
                           orderBooks[order'[caller'[q].order].symbol] = caller'[q].book
    BY <1>1 DEF HeldInv, SymbolOf
  <2>1. caller'[q] = caller[q] /\ caller[q].at = "submit"
    BY <1>5
  <2>2. caller[q].order \in DOMAIN order
    BY <2>1 DEF IInv, OwnInv
  <2> QED
    BY <2>1, <2>2, <1>4 DEF IInv, HeldInv, SymbolOf
<1>10. CancelInv'
  <2>1. canceller.order \in DOMAIN order /\ order[canceller.order].returned =>
          order'[canceller.order].returned
    BY <1>4
  <2> QED
    BY <2>1, <1>1, <1>4 DEF IInv, CancelInv
<1>11. PlaceInv'
  BY <1>1, <1>4, TypedFacts DEF IInv, PlaceInv
<1> QED
  BY <1>6, <1>7, <1>8, <1>9, <1>10, <1>11 DEF IInv

(* Finding the book in CancelOrder keeps the invariant. *)
LEMMA CancelOrderInv ==
  ASSUME IInv, NEW n \in DOMAIN order, NEW s \in Symbols, CancelOrder(n, s), OtherFrame
  PROVE  IInv'
<1>1. /\ order[n].returned
      /\ UNCHANGED <<orderIDSeq, order, caller, orderBooks, book, stopped>>
      /\ canceller' = [at |-> "cancel", order |-> n, own |-> s = order[n].symbol,
                       book |-> orderBooks[s]]
  BY DEF CancelOrder, OtherFrame
<1>2. /\ canceller'.at = "cancel" /\ canceller'.order = n
      /\ canceller'.own = (s = order[n].symbol) /\ canceller'.book = orderBooks[s]
  BY <1>1
<1>3. canceller' \in [at : {"idle", "cancel"}, order : {0} \cup DOMAIN order, own : BOOLEAN,
                      book : {0} \cup DOMAIN book]
  <2>1. orderBooks[s] \in {0} \cup DOMAIN book
    BY DEF IInv, TypeOK
  <2> QED
    BY <2>1, <1>1
<1>4. TypeOK'
  BY <1>1, <1>3 DEF IInv, TypeOK
<1>5. IDInv' /\ OwnInv' /\ HeldInv'
  BY <1>1 DEF IInv, IDInv, OwnInv, HeldInv, SymbolOf
<1>6. CancelInv'
  BY <1>1, <1>2 DEF CancelInv
<1>7. PlaceInv'
  <2> SUFFICES ASSUME NEW b \in DOMAIN book, NEW m \in book[b], order[m].afterStop = stopped
               PROVE  /\ orderBooks[order[m].symbol] = b
                      /\ canceller'.order = m /\ canceller'.own => canceller'.book = b
    BY <1>1 DEF PlaceInv
  <2>1. orderBooks[order[m].symbol] = b
    BY DEF IInv, PlaceInv
  <2>2. canceller'.own => s = order[n].symbol
    BY <1>2
  <2> QED
    BY <2>1, <2>2, <1>2
<1> QED
  BY <1>4, <1>5, <1>6, <1>7 DEF IInv

(* Cancelling in the book that was found keeps the invariant. *)
LEMMA CancelInBookInv ==
  ASSUME IInv, CancelInBook, OtherFrame
  PROVE  IInv'
<1> DEFINE b == canceller.book
           o == canceller.order
<1>1. /\ UNCHANGED <<orderIDSeq, order, caller, orderBooks, stopped>>
      /\ book' = IF b = 0 THEN book ELSE [book EXCEPT ![b] = @ \ {o}]
      /\ canceller' = [at |-> "idle", order |-> 0, own |-> TRUE, book |-> 0]
  BY DEF CancelInBook, OtherFrame
<1>2. /\ book \in Seq(SUBSET DOMAIN order) /\ DOMAIN book = 1..Len(book) /\ Len(book) \in Nat
      /\ b \in {0} \cup DOMAIN book
  BY TypedFacts DEF IInv, TypeOK
<1> HIDE DEF b, o
<1>3. /\ DOMAIN book' = DOMAIN book /\ book' \in Seq(SUBSET DOMAIN order)
      /\ \A c \in DOMAIN book : book'[c] \subseteq book[c]
  <2>1. CASE b = 0
    BY <2>1, <1>1, <1>2
  <2>2. CASE b \in DOMAIN book
    <3>1. b # 0 /\ book' = [book EXCEPT ![b] = book[b] \ {o}]
      BY <2>2, <1>1, <1>2
    <3>2. book[b] \ {o} \in SUBSET DOMAIN order
      BY <2>2, <1>2
    <3> QED
      BY <3>1, <3>2, <2>2, <1>2
  <2> QED
    BY <2>1, <2>2, <1>2
<1>4. canceller'.at = "idle" /\ canceller'.order = 0
  BY <1>1
<1>5. canceller' \in [at : {"idle", "cancel"}, order : {0} \cup DOMAIN order', own : BOOLEAN,
                      book : {0} \cup DOMAIN book']
  BY <1>1
<1>6. TypeOK'
  BY <1>1, <1>3, <1>5 DEF IInv, TypeOK
<1>7. IDInv' /\ OwnInv' /\ HeldInv' /\ CancelInv'
  BY <1>1, <1>3, <1>4 DEF IInv, IDInv, OwnInv, HeldInv, SymbolOf, CancelInv
<1>8. PlaceInv'
  <2> SUFFICES ASSUME NEW c \in DOMAIN book', NEW n \in book'[c], order[n].afterStop = stopped
               PROVE  /\ orderBooks[order[n].symbol] = c
                      /\ canceller'.order # n
    BY <1>1 DEF PlaceInv
  <2>1. c \in DOMAIN book /\ n \in book[c]
    BY <1>3
  <2>2. n # 0
    BY <2>1, TypedFacts DEF IInv
  <2> QED
    BY <2>1, <2>2, <1>4 DEF IInv, PlaceInv
<1> QED
  BY <1>6, <1>7, <1>8 DEF IInv

(* Stop: every order came in before it, so that nothing is said of any.     *)
LEMMA StopInv ==
  ASSUME IInv, Stop, OtherFrame
  PROVE  IInv'
<1>1. /\ ~stopped /\ stopped' = TRUE
      /\ orderBooks' = [s \in Symbols |-> 0]
      /\ UNCHANGED <<orderIDSeq, order, caller, book, canceller>>
  BY DEF Stop, OtherFrame
<1>2. TypeOK'
  BY <1>1 DEF IInv, TypeOK
<1>3. \A n \in DOMAIN order : ~order[n].afterStop
  BY <1>1 DEF IInv, IDInv
<1>4. IDInv' /\ OwnInv' /\ CancelInv'
  BY <1>1 DEF IInv, IDInv, OwnInv, CancelInv
<1>5. HeldInv'
  BY <1>1, <1>3 DEF IInv, OwnInv, HeldInv
<1>6. PlaceInv'
  BY <1>1, <1>3, TypedFacts DEF IInv, PlaceInv
<1> QED
  BY <1>2, <1>4, <1>5, <1>6 DEF IInv

(* A stuttering step keeps the invariant. *)
LEMMA StutterInv == IInv /\ UNCHANGED vars => IInv'
BY DEF vars, IInv, TypeOK, IDInv, OwnInv, HeldInv, SymbolOf, CancelInv, PlaceInv

(* The inductive invariant holds in every reachable state of the matching engine: what
   OneOrder and TypeCorrect are read from. *)
THEOREM Inductive == Spec => []IInv
<1>1. IInv /\ [Next]_vars => IInv'
  <2> SUFFICES ASSUME IInv, [Next]_vars PROVE IInv'
    OBVIOUS
  <2>1. ASSUME NEW p \in Callers, SubmitOrder(p) PROVE IInv'
    BY <2>1, TakeIDInv, GetOrCreateInv, SubmitToBookInv, SendResultInv DEF SubmitOrder
  <2>2. ASSUME NEW n \in DOMAIN order, NEW s \in Symbols, CancelOrder(n, s), OtherFrame
        PROVE  IInv'
    BY <2>2, CancelOrderInv
  <2>3. CASE CancelInBook /\ OtherFrame
    BY <2>3, CancelInBookInv
  <2>4. CASE Stop /\ OtherFrame
    BY <2>4, StopInv
  <2>5. CASE UNCHANGED vars
    BY <2>5, StutterInv
  <2> QED
    BY <2>1, <2>2, <2>3, <2>4, <2>5 DEF Next
<1> QED
  BY InitInv, <1>1, PTL DEF Spec

(* Every variable of the engine keeps its type.                             *)
THEOREM TypeCorrect == Spec => []TypeOK
<1>1. IInv => TypeOK
  BY DEF IInv
<1> QED
  BY Inductive, <1>1, PTL

(* Whatever the interleaving of SubmitOrder, CancelOrder and Stop: a        *)
(* resting order is in the book that the map has for its symbol, no other   *)
(* order has its ID, and a CancelOrder under way has found its book.        *)
THEOREM OneOrder == Spec => []NamesOneOrder
<1>1. IInv => NamesOneOrder
  <2> SUFFICES ASSUME IInv, NEW b \in DOMAIN book, NEW n \in book[b],
                      order[n].afterStop = stopped
               PROVE  /\ orderBooks[order[n].symbol] = b
                      /\ \A m \in DOMAIN order : order[m].id = order[n].id => m = n
                      /\ canceller.order = n /\ canceller.own => canceller.book = b
    BY DEF NamesOneOrder
  <2>1. n \in DOMAIN order
    BY TypedFacts DEF IInv
  <2> QED
    BY <2>1 DEF IInv, IDInv, PlaceInv
<1> QED
  BY Inductive, <1>1, PTL

-----------------------------------------------------------------------------
(* The ring buffer. *)

Slots == 0..(Size - 1)
Busy(p) == producer[p].at # "idle"
ProducerRecords == [at : {"idle", "tail", "write", "add", "count"},
                    item : Items \cup {0}, tail : Nat]

(* The counters are about what was pushed and popped, whoever pushes. *)
CountersInv ==
  /\ tail = Len(pushed) + Cardinality(Counted)
  /\ head = Len(popped) + (IF consumer.at = "count" THEN 1 ELSE 0)
  /\ count = Len(pushed) - Len(popped)
  /\ head <= Len(pushed)
  /\ consumer.at \in {"read", "clear"} => head < Len(pushed)
  /\ consumer.at \in {"idle", "read"} => consumer.item = 0

(* A producer that has not yet written its item into a slot. *)
Carries(p) == producer[p].at \in {"tail", "write"}

(* An item is with its producer, or in one slot, or with the consumer, or   *)
(* was popped: a slot that is overwritten loses its item, and no item is in *)
(* two places but the one that the consumer read and is about to clear.     *)
OncePlacedInv ==
  /\ \A i \in Slots : buf[i] <= items
  /\ consumer.item <= items
  /\ \A i \in DOMAIN popped : popped[i] <= items
  /\ \A p \in Producers : Busy(p) => producer[p].item \in Items /\ producer[p].item <= items
  /\ \A p, q \in Producers :
       Carries(p) /\ Carries(q) /\ producer[p].item = producer[q].item => p = q
  /\ \A p \in Producers : Carries(p) =>
       /\ \A i \in Slots : buf[i] # producer[p].item
       /\ consumer.item # producer[p].item
       /\ \A i \in DOMAIN popped : popped[i] # producer[p].item
  /\ \A i, j \in Slots : buf[i] = buf[j] /\ buf[i] # 0 => i = j
  /\ \A i \in Slots : buf[i] = consumer.item /\ buf[i] # 0
       => consumer.at = "clear" /\ i = head % Size
  /\ \A i \in DOMAIN popped : popped[i] # 0 =>
       /\ popped[i] # consumer.item
       /\ \A j \in Slots : popped[i] # buf[j]
  /\ \A i, j \in DOMAIN popped : popped[i] = popped[j] /\ popped[i] # 0 => i = j

(* One Push at a time: the slots from head on hold what was pushed and not  *)
(* popped, in order, and then the item of the producer, if it has written.  *)
OneAtATimeInv ==
  /\ \A p, q \in Producers : Busy(p) /\ Busy(q) => p = q
  /\ count <= Size
  /\ \A p \in Producers : Busy(p) => count < Size
  /\ \A p \in Producers : producer[p].at \in {"write", "add"} => producer[p].tail = Len(pushed)
  /\ \A p \in Producers :
       producer[p].at \in {"add", "count"} => buf[Len(pushed) % Size] = producer[p].item
  /\ \A i \in (head + 1)..Len(pushed) : buf[(i - 1) % Size] = pushed[i]
  /\ \A i \in DOMAIN popped : popped[i] = pushed[i]
  /\ consumer.at = "clear" => consumer.item = pushed[head + 1]
  /\ consumer.at = "count" => consumer.item = pushed[head]

RingInv ==
  /\ RingTypes
  /\ CountersInv
  /\ OncePlacedInv
  /\ ~overlapped => OneAtATimeInv

-----------------------------------------------------------------------------
(* The counters of the ring buffer run without end; the slots repeat. *)
LEMMA ModRange ==
  ASSUME NEW n \in Nat, n > 0, NEW i \in Nat
  PROVE  i % n \in 0..(n - 1)
OBVIOUS

(* Division with remainder. *)
LEMMA ModDiv ==
  ASSUME NEW n \in Nat, n > 0, NEW i \in Nat
  PROVE  i = n * (i \div n) + (i % n) /\ i \div n \in Int
OBVIOUS

(* Fewer than n apart, two numbers are in different slots. *)
LEMMA ModDiffer ==
  ASSUME NEW n \in Nat, n > 0, NEW i \in Nat, NEW j \in Nat, i < j, j - i < n
  PROVE  i % n # j % n
<1> SUFFICES ASSUME i % n = j % n PROVE FALSE
  OBVIOUS
<1> DEFINE a == i \div n
           b == j \div n
           r == i % n
           d == b - a
<1>1. a \in Int /\ b \in Int /\ r \in Int /\ i = n * a + r /\ j = n * b + r
  BY ModDiv, ModRange
<1> HIDE DEF a, b, r
<1>2. d \in Int /\ n * d = j - i
  BY <1>1
<1> HIDE DEF d
<1>3. CASE d <= 0
  <2>1. n * d <= 0
    BY <1>2, <1>3
  <2>2. QED
    BY <1>2, <2>1
<1>4. CASE d >= 1
  <2>1. n * d >= n
    BY <1>2, <1>4
  <2>2. QED
    BY <1>2, <2>1
<1>5. QED
  BY <1>2, <1>3, <1>4

(* The constants, and the types of all that has one. *)
LEMMA RingFacts ==
  ASSUME RingTypes
  PROVE  /\ Size \in Nat /\ Size > 0 /\ MaxItems \in Nat /\ IsFiniteSet(Producers)
         /\ Items \subseteq Nat /\ 0 \notin Items
         /\ head \in Nat /\ tail \in Nat /\ items \in Nat /\ items <= MaxItems
         /\ buf \in [Slots -> Items \cup {0}] /\ \A i \in Slots : buf[i] \in Nat
         /\ \A i \in Nat : i % Size \in Slots
         /\ producer \in [Producers -> ProducerRecords]
         /\ \A p \in Producers :
              /\ producer[p].at \in {"idle", "tail", "write", "add", "count"}
              /\ producer[p].item \in Items \cup {0} /\ producer[p].item \in Nat
              /\ producer[p].tail \in Nat
         /\ consumer.at \in {"idle", "read", "clear", "count"}
         /\ consumer.item \in Items \cup {0} /\ consumer.item \in Nat
         /\ pushed \in Seq(Items) /\ Len(pushed) \in Nat /\ DOMAIN pushed = 1..Len(pushed)
         /\ popped \in Seq(Items \cup {0}) /\ Len(popped) \in Nat /\ DOMAIN popped = 1..Len(popped)
         /\ \A i \in DOMAIN popped : popped[i] \in Nat
         /\ IsFiniteSet(Counted) /\ Cardinality(Counted) \in Nat
<1>1. /\ Size \in Nat /\ Size > 0 /\ MaxItems \in Nat /\ IsFiniteSet(Producers)
      /\ Items \subseteq Nat /\ 0 \notin Items
  BY RingBufferAssumption DEF Items
<1>2. /\ head \in Nat /\ tail \in Nat /\ items \in Nat /\ items <= MaxItems
      /\ buf \in [Slots -> Items \cup {0}]
      /\ producer \in [Producers -> ProducerRecords]
      /\ pushed \in Seq(Items) /\ popped \in Seq(Items \cup {0})
  BY <1>1 DEF RingTypes, Slots, ProducerRecords
<1> DEFINE I == Items \cup {0}
<1>12. \A x \in I : x \in Nat
  BY <1>1
<1>3. \A i \in Slots : buf[i] \in Nat
  <2>1. \A i \in Slots : buf[i] \in I
    BY <1>2
  <2>2. QED
    BY <1>12, <2>1
<1>4. \A i \in Nat : i % Size \in Slots
  BY <1>1, ModRange DEF Slots
<1>5. ASSUME NEW p \in Producers
      PROVE  /\ producer[p].at \in {"idle", "tail", "write", "add", "count"}
             /\ producer[p].item \in Items \cup {0} /\ producer[p].item \in Nat
             /\ producer[p].tail \in Nat
  <2>1. producer[p] \in ProducerRecords
    BY <1>2
  <2>2. /\ producer[p].at \in {"idle", "tail", "write", "add", "count"}
        /\ producer[p].item \in I /\ producer[p].tail \in Nat
    BY <2>1 DEF ProducerRecords
  <2>3. QED
    BY <1>12, <2>2
<1>6. /\ consumer.at \in {"idle", "read", "clear", "count"}
      /\ consumer.item \in Items \cup {0} /\ consumer.item \in Nat
  <2>1. consumer \in [at : {"idle", "read", "clear", "count"}, item : I]
    BY DEF RingTypes
  <2>2. consumer.at \in {"idle", "read", "clear", "count"} /\ consumer.item \in I
    BY <2>1
  <2>3. QED
    BY <1>12, <2>2
<1>7. Len(pushed) \in Nat /\ DOMAIN pushed = 1..Len(pushed)
  BY <1>2
<1>8. Len(popped) \in Nat /\ DOMAIN popped = 1..Len(popped)
  BY <1>2
<1>9. \A i \in DOMAIN popped : popped[i] \in Nat
  <2>1. \A i \in DOMAIN popped : popped[i] \in I
    BY <1>2, <1>8
  <2>2. QED
    BY <1>12, <2>1
<1>10. IsFiniteSet(Counted) /\ Cardinality(Counted) \in Nat
  <2>1. Counted \in SUBSET Producers
    BY DEF Counted
  <2>2. QED
    BY <1>1, <2>1, FS_Subset, FS_CardinalityType
<1>11. QED
  BY <1>1, <1>2, <1>3, <1>4, <1>5, <1>6, <1>7, <1>8, <1>9, <1>10

(* A producer that goes on leaves the others alone, and Counted as it is.   *)
LEMMA ProducerGoes ==
  ASSUME RingTypes, NEW p \in Producers, NEW r \in ProducerRecords,
         producer' = [producer EXCEPT ![p] = r]
  PROVE  /\ producer' \in [Producers -> ProducerRecords]
         /\ producer'[p] = r /\ \A q \in Producers \ {p} : producer'[q] = producer[q]
         /\ r.at # "count" /\ producer[p].at # "count" => Counted' = Counted
         /\ r.at = "count" /\ producer[p].at # "count"
              => Cardinality(Counted') = Cardinality(Counted) + 1
         /\ r.at # "count" /\ producer[p].at = "count"
              => Cardinality(Counted') = Cardinality(Counted) - 1
<1>1. producer \in [Producers -> ProducerRecords] /\ IsFiniteSet(Counted)
  BY RingFacts
<1>2. /\ producer' \in [Producers -> ProducerRecords]
      /\ producer'[p] = r /\ \A q \in Producers \ {p} : producer'[q] = producer[q]
  BY <1>1
<1>3. r.at # "count" /\ producer[p].at # "count" => Counted' = Counted
  BY <1>2 DEF Counted
<1>4. ASSUME r.at = "count", producer[p].at # "count"
      PROVE  Cardinality(Counted') = Cardinality(Counted) + 1
  <2>1. Counted' = Counted \cup {p} /\ p \notin Counted
    BY <1>2, <1>4 DEF Counted
  <2>2. QED
    BY <1>1, <2>1, FS_AddElement
<1>5. ASSUME r.at # "count", producer[p].at = "count"
      PROVE  Cardinality(Counted') = Cardinality(Counted) - 1
  <2>1. Counted' = Counted \ {p} /\ p \in Counted
    BY <1>2, <1>5 DEF Counted
  <2>2. QED
    BY <1>1, <2>1, FS_RemoveElement
<1>6. QED
  BY <1>2, <1>3, <1>4, <1>5

(* The counters, in numbers. *)
LEMMA CountFacts ==
  ASSUME RingTypes, CountersInv
  PROVE  /\ Len(pushed) \in Nat /\ Len(popped) \in Nat /\ head \in Nat /\ tail \in Nat
         /\ Size \in Nat /\ Size > 0 /\ count \in Int /\ Cardinality(Counted) \in Nat
         /\ tail = Len(pushed) + Cardinality(Counted) /\ count = Len(pushed) - Len(popped)
         /\ head >= Len(popped) /\ head <= Len(pushed) /\ head <= Len(popped) + 1
         /\ consumer.at # "count" => head = Len(popped)
         /\ consumer.at = "count" => head = Len(popped) + 1
<1>1. /\ Len(pushed) \in Nat /\ Len(popped) \in Nat /\ head \in Nat /\ tail \in Nat
      /\ Size \in Nat /\ Size > 0 /\ Cardinality(Counted) \in Nat
  BY RingFacts
<1>2. /\ tail = Len(pushed) + Cardinality(Counted) /\ count = Len(pushed) - Len(popped)
      /\ head <= Len(pushed)
      /\ consumer.at # "count" => head = Len(popped)
      /\ consumer.at = "count" => head = Len(popped) + 1
  BY <1>1 DEF CountersInv
<1>3. QED
  BY <1>1, <1>2

(* What remains to show of the types of the counters. *)
LEMMA RingTyped ==
  ASSUME buf' \in [Slots -> Items \cup {0}], producer' \in [Producers -> ProducerRecords],
         consumer' \in [at : {"idle", "read", "clear", "count"}, item : Items \cup {0}],
         overlapped' \in BOOLEAN, items' \in 0..MaxItems,
         pushed' \in Seq(Items), popped' \in Seq(Items \cup {0}),
         Cardinality(Counted') \in Nat, CountersInv'
  PROVE  RingTypes'
<1>1. Len(pushed') \in Nat /\ Len(popped') \in Nat
  OBVIOUS
<1>2. /\ tail' = Len(pushed') + Cardinality(Counted')
      /\ head' = Len(popped') + (IF consumer'.at = "count" THEN 1 ELSE 0)
      /\ count' = Len(pushed') - Len(popped')
  BY DEF CountersInv
<1>3. head' \in Nat /\ tail' \in Nat
  BY <1>1, <1>2
<1>4. count' = tail' - Cardinality(Counted') - head' + (IF consumer'.at = "count" THEN 1 ELSE 0)
  BY <1>1, <1>2
<1>5. QED
  BY <1>3, <1>4 DEF RingTypes, Slots, ProducerRecords

(* Push takes its item to a buffer that is not full, or returns at once.    *)
LEMMA PushInv ==
  ASSUME RingInv, NEW p \in Producers, Push(p), PushFrame
  PROVE  RingInv'
<1>1. /\ RingTypes /\ CountersInv /\ OncePlacedInv /\ (~overlapped => OneAtATimeInv)
      /\ producer[p].at = "idle" /\ items < MaxItems /\ items' = items + 1
      /\ overlapped' = (overlapped \/ \E q \in Producers : Busy(q))
      /\ UNCHANGED <<buf, tail, count, pushed, head, consumer, popped>>
  BY DEF RingInv, Push, PushFrame, Busy
<1>2. /\ items \in Nat /\ items' \in Items /\ items' \in Nat /\ items' > items
      /\ items' \in 0..MaxItems /\ overlapped \in BOOLEAN
      /\ producer \in [Producers -> ProducerRecords]
  <2>1. items \in Nat /\ MaxItems \in Nat /\ producer \in [Producers -> ProducerRecords]
    BY <1>1, RingFacts
  <2>2. items + 1 \in 1..MaxItems
    BY <1>1, <2>1
  <2>3. overlapped \in BOOLEAN
    BY <1>1 DEF RingTypes
  <2>4. QED
    BY <1>1, <2>1, <2>2, <2>3 DEF Items
<1>3. overlapped' \in BOOLEAN
  BY <1>1
<1>4. CASE Full
  <2>1. producer' = producer /\ Counted' = Counted
    BY <1>4 DEF Push, Counted
  <2>2. CountersInv'
    BY <1>1, <2>1 DEF CountersInv
  <2>3. RingTypes'
    BY <1>1, <1>2, <1>3, <2>1, <2>2, RingFacts, RingTyped DEF RingTypes
  <2>4. OncePlacedInv'
    <3>1. \A x \in Nat : x <= items => x <= items'
      BY <1>2
    <3>2. /\ \A i \in Slots : buf[i] <= items'
          /\ consumer.item <= items'
          /\ \A i \in DOMAIN popped : popped[i] <= items'
      BY <1>1, <3>1, RingFacts DEF OncePlacedInv
    <3>3. \A q \in Producers : Busy(q) => producer[q].item \in Items /\ producer[q].item <= items'
      BY <1>1, <3>1, RingFacts DEF OncePlacedInv
    <3>4. QED
      BY <1>1, <2>1, <3>2, <3>3 DEF OncePlacedInv, Carries, Busy
  <2>5. ~overlapped' => OneAtATimeInv'
    BY <1>1, <2>1 DEF OneAtATimeInv, Busy
  <2>6. QED
    BY <2>2, <2>3, <2>4, <2>5 DEF RingInv
<1>5. CASE ~Full
  <2> DEFINE r == [at |-> "tail", item |-> items', tail |-> 0]
  <2>1. producer' = [producer EXCEPT ![p] = r] /\ count < Size
    <3>1. ~(count >= Size) /\ producer' = [producer EXCEPT ![p] = r]
      BY <1>5 DEF Push, Full
    <3>2. count \in Int /\ Size \in Int
      BY <1>1, CountFacts
    <3>3. QED
      BY <3>1, <3>2
  <2>2. r \in ProducerRecords /\ r.at = "tail" /\ r.item = items'
    BY <1>2 DEF ProducerRecords
  <2> HIDE DEF r
  <2>3. /\ producer' \in [Producers -> ProducerRecords]
        /\ producer'[p] = r /\ \A q \in Producers \ {p} : producer'[q] = producer[q]
        /\ Counted' = Counted
    BY <1>1, <2>1, <2>2, ProducerGoes
  <2>4. CountersInv'
    BY <1>1, <2>3 DEF CountersInv
  <2>5. RingTypes'
    BY <1>1, <1>2, <1>3, <2>3, <2>4, RingFacts, RingTyped DEF RingTypes
  <2>6. OncePlacedInv'
    <3>1. \A x \in Nat : x <= items => x <= items' /\ x # items'
      BY <1>2
    <3>2. /\ \A i \in Slots : buf[i] <= items' /\ buf[i] # items'
          /\ consumer.item <= items' /\ consumer.item # items'
          /\ \A i \in DOMAIN popped : popped[i] <= items' /\ popped[i] # items'
      BY <1>1, <3>1, RingFacts DEF OncePlacedInv
    <3>3. \A q \in Producers \ {p} :
            /\ Busy(q) => producer[q].item \in Items /\ producer[q].item <= items'
                          /\ producer[q].item # items'
      BY <1>1, <3>1, RingFacts DEF OncePlacedInv
    <3>4. \A q \in Producers : Carries(q) => Busy(q)
      BY DEF Carries, Busy
    <3>5. \A q \in Producers : Busy(q)' => producer'[q].item \in Items /\ producer'[q].item <= items'
      BY <1>2, <2>2, <2>3, <3>3 DEF Busy
    <3>6. \A q, s \in Producers :
            Carries(q)' /\ Carries(s)' /\ producer'[q].item = producer'[s].item => q = s
      BY <1>1, <2>2, <2>3, <3>3, <3>4 DEF OncePlacedInv, Carries
    <3>7. \A q \in Producers : Carries(q)' =>
            /\ \A i \in Slots : buf[i] # producer'[q].item
            /\ consumer.item # producer'[q].item
            /\ \A i \in DOMAIN popped : popped[i] # producer'[q].item
      BY <1>1, <2>2, <2>3, <3>2 DEF OncePlacedInv, Carries
    <3>8. QED
      BY <1>1, <3>2, <3>5, <3>6, <3>7 DEF OncePlacedInv
  <2>7. ASSUME ~overlapped' PROVE OneAtATimeInv'
    <3>1. OneAtATimeInv /\ \A q \in Producers : ~Busy(q)
      BY <1>1, <2>7
    <3>2. \A q \in Producers : Busy(q)' => q = p
      BY <2>3, <3>1 DEF Busy
    <3>3. \A q \in Producers : producer'[q].at \notin {"write", "add", "count"}
      BY <2>2, <2>3, <3>1 DEF Busy
    <3>4. QED
      BY <1>1, <2>1, <3>1, <3>2, <3>3 DEF OneAtATimeInv
  <2>8. QED
    BY <2>4, <2>5, <2>6, <2>7 DEF RingInv
<1>6. QED
  BY <1>4, <1>5

(* The tail is loaded: nobody else moves it, if nobody else pushes. *)
LEMMA LoadTailInv ==
  ASSUME RingInv, NEW p \in Producers, LoadTail(p), PushFrame
  PROVE  RingInv'
<1> DEFINE r == [producer[p] EXCEPT !.at = "write", !.tail = tail]
<1>1. /\ RingTypes /\ CountersInv /\ OncePlacedInv /\ (~overlapped => OneAtATimeInv)
      /\ producer[p].at = "tail" /\ producer' = [producer EXCEPT ![p] = r]
      /\ UNCHANGED <<buf, tail, count, items, pushed, overlapped, head, consumer, popped>>
  BY DEF RingInv, LoadTail, PushFrame
<1>2. producer[p] \in ProducerRecords /\ tail \in Nat
  BY <1>1, RingFacts
<1>3. r \in ProducerRecords /\ r.at = "write" /\ r.item = producer[p].item /\ r.tail = tail
  BY <1>2 DEF ProducerRecords
<1> HIDE DEF r
<1>4. /\ producer' \in [Producers -> ProducerRecords]
      /\ producer'[p] = r /\ \A q \in Producers \ {p} : producer'[q] = producer[q]
      /\ Counted' = Counted
  BY <1>1, <1>3, ProducerGoes
<1>5. CountersInv'
  BY <1>1, <1>4 DEF CountersInv
<1>6. RingTypes'
  BY <1>1, <1>4, <1>5, RingFacts, RingTyped DEF RingTypes
<1>7. \A q \in Producers :
        /\ Carries(q)' <=> Carries(q)
        /\ Busy(q)' <=> Busy(q)
        /\ producer'[q].item = producer[q].item
  BY <1>1, <1>3, <1>4 DEF Carries, Busy
<1>8. OncePlacedInv'
  BY <1>1, <1>7 DEF OncePlacedInv
<1>9. ASSUME ~overlapped' PROVE OneAtATimeInv'
  <2>1. OneAtATimeInv /\ \A q \in Producers : Busy(q) => q = p
    BY <1>1, <1>9 DEF OneAtATimeInv, Busy
  <2>2. tail = Len(pushed)
    <3>1. Counted = {}
      BY <1>1, <2>1 DEF Counted, Busy
    <3>2. Cardinality(Counted) = 0
      BY <3>1, FS_EmptySet
    <3>3. QED
      BY <1>1, <3>2, CountFacts
  <2>3. \A q \in Producers \ {p} : producer'[q].at = "idle"
    BY <1>4, <2>1 DEF Busy
  <2>4. \A q \in Producers : producer'[q].at \in {"write", "add"} => producer'[q].tail = Len(pushed)
    BY <1>3, <1>4, <2>2, <2>3
  <2>5. \A q \in Producers : producer'[q].at \notin {"add", "count"}
    BY <1>3, <1>4, <2>3
  <2>6. QED
    BY <1>1, <1>7, <2>1, <2>4, <2>5 DEF OneAtATimeInv
<1>10. QED
  BY <1>5, <1>6, <1>8, <1>9 DEF RingInv

(* The item is written: over an item that was not popped only if two calls  *)
(* of Push overlap.                                                         *)
LEMMA WriteSlotInv ==
  ASSUME RingInv, NEW p \in Producers, WriteSlot(p), PushFrame
  PROVE  RingInv'
<1> DEFINE r == [producer[p] EXCEPT !.at = "add"]
           x == producer[p].item
           k == producer[p].tail % Size
<1>1. /\ RingTypes /\ CountersInv /\ OncePlacedInv /\ (~overlapped => OneAtATimeInv)
      /\ producer[p].at = "write" /\ producer' = [producer EXCEPT ![p] = r]
      /\ buf' = [buf EXCEPT ![k] = x]
      /\ UNCHANGED <<tail, count, items, pushed, overlapped, head, consumer, popped>>
  BY DEF RingInv, WriteSlot, PushFrame
<1>2. /\ producer[p] \in ProducerRecords /\ k \in Slots /\ x \in Items /\ x <= items
      /\ x # 0 /\ Busy(p) /\ Carries(p)
      /\ buf \in [Slots -> Items \cup {0}]
  BY <1>1, RingFacts DEF OncePlacedInv, Busy, Carries
<1>3. r \in ProducerRecords /\ r.at = "add" /\ r.item = x /\ r.tail = producer[p].tail
  BY <1>2 DEF ProducerRecords
<1> HIDE DEF r
<1>4. /\ producer' \in [Producers -> ProducerRecords]
      /\ producer'[p] = r /\ \A q \in Producers \ {p} : producer'[q] = producer[q]
      /\ Counted' = Counted
  BY <1>1, <1>3, ProducerGoes
<1>5. /\ buf' \in [Slots -> Items \cup {0}] /\ buf'[k] = x
      /\ \A i \in Slots \ {k} : buf'[i] = buf[i]
  BY <1>1, <1>2
<1>6. CountersInv'
  BY <1>1, <1>4 DEF CountersInv
<1>7. RingTypes'
  BY <1>1, <1>4, <1>5, <1>6, RingFacts, RingTyped DEF RingTypes
<1>8. \A q \in Producers :
        /\ Carries(q)' <=> Carries(q) /\ q # p
        /\ Busy(q)' <=> Busy(q)
        /\ producer'[q].item = producer[q].item
  BY <1>1, <1>2, <1>3, <1>4 DEF Carries, Busy
<1>9. \A i \in Slots : buf'[i] = buf[i] \/ (i = k /\ buf'[i] = x)
  BY <1>5
<1>10. OncePlacedInv'
  <2>1. \A i \in Slots : buf[i] # x
    BY <1>1, <1>2 DEF OncePlacedInv
  <2>2. x # consumer.item /\ \A i \in DOMAIN popped : popped[i] # x
    BY <1>1, <1>2 DEF OncePlacedInv
  <2>3. \A q \in Producers : Carries(q) /\ q # p => producer[q].item # x
    BY <1>1, <1>2 DEF OncePlacedInv
  <2> HIDE DEF x, k
  <2>4. \A i \in Slots : buf'[i] <= items
    BY <1>1, <1>2, <1>9 DEF OncePlacedInv
  <2>5. \A q \in Producers : Carries(q)' => \A i \in Slots : buf'[i] # producer'[q].item
    BY <1>1, <1>8, <1>9, <2>3 DEF OncePlacedInv
  <2>6. \A i, j \in Slots : buf'[i] = buf'[j] /\ buf'[i] # 0 => i = j
    BY <1>1, <1>9, <2>1 DEF OncePlacedInv
  <2>7. \A i \in Slots : buf'[i] = consumer.item /\ buf'[i] # 0
          => consumer.at = "clear" /\ i = head % Size
    BY <1>1, <1>9, <2>2 DEF OncePlacedInv
  <2>8. \A i \in DOMAIN popped : popped[i] # 0 => \A j \in Slots : popped[i] # buf'[j]
    BY <1>1, <1>9, <2>2 DEF OncePlacedInv
  <2>9. QED
    BY <1>1, <1>8, <2>4, <2>5, <2>6, <2>7, <2>8 DEF OncePlacedInv
<1>11. ASSUME ~overlapped' PROVE OneAtATimeInv'
  <2>1. OneAtATimeInv /\ \A q \in Producers : Busy(q) => q = p
    BY <1>1, <1>2, <1>11 DEF OneAtATimeInv
  <2>2. k = Len(pushed) % Size /\ count < Size
    BY <1>1, <1>2, <2>1 DEF OneAtATimeInv
  <2>3. \A q \in Producers \ {p} : producer'[q].at = "idle"
    BY <1>4, <2>1 DEF Busy
  <2>4. \A i \in (head + 1)..Len(pushed) : buf'[(i - 1) % Size] = pushed[i]
    <3>1. ASSUME NEW i \in (head + 1)..Len(pushed) PROVE buf'[(i - 1) % Size] = pushed[i]
      <4>1. /\ i - 1 \in Nat /\ i - 1 < Len(pushed) /\ Len(pushed) - (i - 1) < Size
            /\ Len(pushed) \in Nat /\ Size \in Nat /\ Size > 0
        <5>1. /\ head \in Nat /\ Len(pushed) \in Nat /\ Len(popped) \in Nat /\ Size \in Nat /\ Size > 0
              /\ head >= Len(popped) /\ count = Len(pushed) - Len(popped)
          BY <1>1, CountFacts
        <5>2. QED
          BY <2>2, <5>1
      <4>2. (i - 1) % Size # Len(pushed) % Size
        BY <4>1, ModDiffer
      <4>3. (i - 1) % Size \in Slots
        BY <1>1, <4>1, RingFacts
      <4>4. buf'[(i - 1) % Size] = buf[(i - 1) % Size]
        BY <1>5, <2>2, <4>2, <4>3
      <4>5. QED
        BY <2>1, <4>4 DEF OneAtATimeInv
    <3>2. QED
      BY <3>1
  <2>5. \A q \in Producers :
          producer'[q].at \in {"add", "count"} => buf'[Len(pushed) % Size] = producer'[q].item
    BY <1>3, <1>4, <1>5, <2>2, <2>3
  <2>6. \A q \in Producers : producer'[q].at \in {"write", "add"} => producer'[q].tail = Len(pushed)
    BY <1>1, <1>3, <1>4, <2>1, <2>3 DEF OneAtATimeInv
  <2>7. QED
    BY <1>1, <1>8, <2>1, <2>4, <2>5, <2>6 DEF OneAtATimeInv
<1>12. QED
  BY <1>6, <1>7, <1>10, <1>11 DEF RingInv

(* The tail advances: the item now waits to be counted. *)
LEMMA AddTailInv ==
  ASSUME RingInv, NEW p \in Producers, AddTail(p), PushFrame
  PROVE  RingInv'
<1> DEFINE r == [producer[p] EXCEPT !.at = "count"]
<1>1. /\ RingTypes /\ CountersInv /\ OncePlacedInv /\ (~overlapped => OneAtATimeInv)
      /\ producer[p].at = "add" /\ producer' = [producer EXCEPT ![p] = r]
      /\ tail' = tail + 1
      /\ UNCHANGED <<buf, count, items, pushed, overlapped, head, consumer, popped>>
  BY DEF RingInv, AddTail, PushFrame
<1>2. producer[p] \in ProducerRecords
  BY <1>1, RingFacts
<1>3. r \in ProducerRecords /\ r.at = "count" /\ r.item = producer[p].item
  BY <1>2 DEF ProducerRecords
<1> HIDE DEF r
<1>4. /\ producer' \in [Producers -> ProducerRecords]
      /\ producer'[p] = r /\ \A q \in Producers \ {p} : producer'[q] = producer[q]
      /\ Cardinality(Counted') = Cardinality(Counted) + 1
  BY <1>1, <1>3, ProducerGoes
<1>5. CountersInv'
  <2>1. tail' = Len(pushed) + Cardinality(Counted')
    BY <1>1, <1>4, CountFacts
  <2>2. QED
    BY <1>1, <2>1 DEF CountersInv
<1>6. RingTypes'
  <2>1. Cardinality(Counted') \in Nat
    BY <1>1, <1>4, CountFacts
  <2>2. QED
    BY <1>1, <1>4, <1>5, <2>1, RingFacts, RingTyped DEF RingTypes
<1>7. \A q \in Producers :
        /\ Carries(q)' <=> Carries(q)
        /\ Busy(q)' <=> Busy(q)
        /\ producer'[q].item = producer[q].item
  BY <1>1, <1>3, <1>4 DEF Carries, Busy
<1>8. OncePlacedInv'
  BY <1>1, <1>7 DEF OncePlacedInv
<1>9. ASSUME ~overlapped' PROVE OneAtATimeInv'
  <2>1. OneAtATimeInv
    BY <1>1, <1>9
  <2>2. \A q \in Producers : producer'[q].at \in {"write", "add"} => producer'[q].tail = Len(pushed)
    BY <1>3, <1>4, <2>1 DEF OneAtATimeInv
  <2>3. \A q \in Producers :
          producer'[q].at \in {"add", "count"} => buf[Len(pushed) % Size] = producer'[q].item
    BY <1>1, <1>3, <1>4, <2>1 DEF OneAtATimeInv
  <2>4. QED
    BY <1>1, <1>7, <2>1, <2>2, <2>3 DEF OneAtATimeInv
<1>10. QED
  BY <1>5, <1>6, <1>8, <1>9 DEF RingInv

(* The item counts: Pop may now take it. *)
LEMMA AddCountInv ==
  ASSUME RingInv, NEW p \in Producers, AddCount(p), PushFrame
  PROVE  RingInv'
<1> DEFINE x == producer[p].item
<1>1. /\ RingTypes /\ CountersInv /\ OncePlacedInv /\ (~overlapped => OneAtATimeInv)
      /\ producer[p].at = "count" /\ producer' = [producer EXCEPT ![p] = Idle]
      /\ count' = count + 1 /\ pushed' = Append(pushed, x)
      /\ UNCHANGED <<buf, tail, items, overlapped, head, consumer, popped>>
  BY DEF RingInv, AddCount, PushFrame
<1>2. x \in Items /\ Busy(p)
  BY <1>1 DEF OncePlacedInv, Busy
<1> HIDE DEF x
<1>3. Idle \in ProducerRecords /\ Idle.at = "idle"
  BY DEF ProducerRecords, Idle
<1>4. /\ producer' \in [Producers -> ProducerRecords]
      /\ producer'[p] = Idle /\ \A q \in Producers \ {p} : producer'[q] = producer[q]
      /\ Cardinality(Counted') = Cardinality(Counted) - 1
  BY <1>1, <1>3, ProducerGoes
<1>5. /\ Len(pushed) \in Nat /\ pushed' \in Seq(Items) /\ Len(pushed') = Len(pushed) + 1
      /\ pushed'[Len(pushed) + 1] = x
      /\ \A i \in 1..Len(pushed) : pushed'[i] = pushed[i]
  <2>1. pushed \in Seq(Items)
    BY <1>1, RingFacts
  <2>2. QED
    BY <1>1, <1>2, <2>1
<1>6. CountersInv'
  <2>1. /\ tail' = Len(pushed') + Cardinality(Counted')
        /\ count' = Len(pushed') - Len(popped') /\ head' <= Len(pushed')
        /\ head < Len(pushed) => head' < Len(pushed')
    BY <1>1, <1>4, <1>5, CountFacts
  <2>2. QED
    BY <1>1, <2>1 DEF CountersInv
<1>7. RingTypes'
  <2>1. Cardinality(Counted') \in Nat
    <3>1. IsFiniteSet(Counted')
      <4>1. Counted' \in SUBSET Producers
        BY DEF Counted
      <4>2. IsFiniteSet(Producers)
        BY RingBufferAssumption
      <4>3. QED
        BY <4>1, <4>2, FS_Subset
    <3>2. QED
      BY <3>1, FS_CardinalityType
  <2>2. QED
    BY <1>1, <1>4, <1>5, <1>6, <2>1, RingFacts, RingTyped DEF RingTypes
<1>8. \A q \in Producers :
        /\ Carries(q)' <=> Carries(q)
        /\ Busy(q)' <=> Busy(q) /\ q # p
        /\ q # p => producer'[q] = producer[q]
  BY <1>1, <1>3, <1>4 DEF Carries, Busy
<1>9. ~Carries(p)
  BY <1>1 DEF Carries
<1>10. OncePlacedInv'
  BY <1>1, <1>8, <1>9 DEF OncePlacedInv
<1>11. ASSUME ~overlapped' PROVE OneAtATimeInv'
  <2>1. OneAtATimeInv /\ \A q \in Producers : ~Busy(q)'
    BY <1>1, <1>2, <1>8, <1>11 DEF OneAtATimeInv
  <2>2. count' <= Size
    <3>1. count < Size
      BY <1>2, <2>1 DEF OneAtATimeInv
    <3>2. QED
      BY <1>1, <3>1, CountFacts
  <2>3. \A q \in Producers : producer'[q].at = "idle"
    BY <2>1 DEF Busy
  <2>4. \A i \in (head + 1)..Len(pushed') : buf[(i - 1) % Size] = pushed'[i]
    <3>1. ASSUME NEW i \in (head + 1)..Len(pushed') PROVE buf[(i - 1) % Size] = pushed'[i]
      <4>1. CASE i \in (head + 1)..Len(pushed)
        <5>1. buf[(i - 1) % Size] = pushed[i]
          BY <2>1, <4>1 DEF OneAtATimeInv
        <5>2. i \in 1..Len(pushed)
          BY <1>1, <4>1, CountFacts
        <5>3. QED
          BY <1>5, <5>1, <5>2
      <4>2. CASE i = Len(pushed) + 1
        <5>1. i - 1 = Len(pushed)
          BY <1>5, <4>2
        <5>2. buf[Len(pushed) % Size] = x
          BY <1>1, <2>1 DEF OneAtATimeInv, x
        <5>3. QED
          BY <1>5, <4>2, <5>1, <5>2
      <4>3. QED
        BY <1>1, <1>5, <4>1, <4>2, CountFacts
    <3>2. QED
      BY <3>1
  <2>5. \A i \in DOMAIN popped : popped[i] = pushed'[i]
    <3>1. \A i \in DOMAIN popped : i \in 1..Len(pushed)
      <4>1. DOMAIN popped = 1..Len(popped) /\ Len(popped) <= Len(pushed)
        <5>1. DOMAIN popped = 1..Len(popped)
          BY <1>1, RingFacts
        <5>2. Len(popped) <= Len(pushed)
          BY <1>1, CountFacts
        <5>3. QED
          BY <5>1, <5>2
      <4>2. Len(popped) \in Nat /\ Len(pushed) \in Nat
        BY <1>1, CountFacts
      <4>3. QED
        BY <4>1, <4>2
    <3>2. QED
      BY <1>5, <2>1, <3>1 DEF OneAtATimeInv
  <2>6. consumer.at = "clear" => consumer.item = pushed'[head + 1]
    <3>1. ASSUME consumer.at = "clear" PROVE consumer.item = pushed'[head + 1]
      <4>1. consumer.item = pushed[head + 1]
        BY <2>1, <3>1 DEF OneAtATimeInv
      <4>2. head < Len(pushed)
        BY <1>1, <3>1 DEF CountersInv
      <4>3. head + 1 \in 1..Len(pushed)
        BY <1>1, <4>2, CountFacts
      <4>4. QED
        BY <1>5, <4>1, <4>3
    <3>2. QED
      BY <3>1
  <2>7. consumer.at = "count" => consumer.item = pushed'[head]
    <3>1. ASSUME consumer.at = "count" PROVE consumer.item = pushed'[head]
      <4>1. consumer.item = pushed[head]
        BY <2>1, <3>1 DEF OneAtATimeInv
      <4>2. head \in 1..Len(pushed)
        BY <1>1, <3>1, CountFacts
      <4>3. QED
        BY <1>5, <4>1, <4>2
    <3>2. QED
      BY <3>1
  <2>8. QED
    BY <1>1, <2>1, <2>2, <2>3, <2>4, <2>5, <2>6, <2>7 DEF OneAtATimeInv
<1>12. QED
  BY <1>6, <1>7, <1>10, <1>11 DEF RingInv

-----------------------------------------------------------------------------
(* Pop of a buffer that is not empty goes on to read. *)
LEMMA PopInv ==
  ASSUME RingInv, Pop, PopFrame
  PROVE  RingInv'
<1>1. /\ RingTypes /\ CountersInv /\ OncePlacedInv /\ (~overlapped => OneAtATimeInv)
      /\ consumer.at = "idle" /\ count > 0 /\ consumer' = [at |-> "read", item |-> 0]
      /\ UNCHANGED <<buf, head, count, popped, tail, producer, items, pushed, overlapped>>
  BY DEF RingInv, Pop, PopFrame
<1>2. consumer.item = 0 /\ consumer'.item = 0 /\ consumer'.at = "read" /\ Counted' = Counted
  BY <1>1 DEF CountersInv, Counted
<1>3. CountersInv'
  <2>1. head < Len(pushed)
    BY <1>1, CountFacts
  <2>2. QED
    BY <1>1, <1>2, <2>1 DEF CountersInv
<1>4. RingTypes'
  <2>1. consumer' \in [at : {"idle", "read", "clear", "count"}, item : Items \cup {0}]
    BY <1>1
  <2>2. QED
    BY <1>1, <1>2, <1>3, <2>1, RingFacts, RingTyped DEF RingTypes
<1>5. OncePlacedInv'
  BY <1>1, <1>2 DEF OncePlacedInv, Carries, Busy
<1>6. ~overlapped' => OneAtATimeInv'
  BY <1>1, <1>2 DEF OneAtATimeInv, Busy
<1>7. QED
  BY <1>3, <1>4, <1>5, <1>6 DEF RingInv

(* The consumer reads the slot at head. *)
LEMMA ReadSlotInv ==
  ASSUME RingInv, ReadSlot, PopFrame
  PROVE  RingInv'
<1> DEFINE x == buf[head % Size]
<1>1. /\ RingTypes /\ CountersInv /\ OncePlacedInv /\ (~overlapped => OneAtATimeInv)
      /\ consumer.at = "read" /\ consumer' = [at |-> "clear", item |-> x]
      /\ UNCHANGED <<buf, head, count, popped, tail, producer, items, pushed, overlapped>>
  BY DEF RingInv, ReadSlot, PopFrame
<1>2. consumer'.item = x /\ consumer'.at = "clear" /\ Counted' = Counted
  BY <1>1 DEF Counted
<1>3. head % Size \in Slots /\ x \in Items \cup {0} /\ x <= items
  <2>1. head % Size \in Slots /\ buf \in [Slots -> Items \cup {0}]
    BY <1>1, RingFacts
  <2>2. QED
    BY <1>1, <2>1 DEF OncePlacedInv
<1>4. CountersInv'
  BY <1>1, <1>2 DEF CountersInv
<1>5. RingTypes'
  <2>1. consumer' \in [at : {"idle", "read", "clear", "count"}, item : Items \cup {0}]
    BY <1>1, <1>3
  <2>2. QED
    BY <1>1, <1>2, <1>4, <2>1, RingFacts, RingTyped DEF RingTypes
<1>6. OncePlacedInv'
  <2> HIDE DEF x
  <2>1. x = buf[head % Size]
    BY DEF x
  <2>2. \A i \in Slots : buf[i] = x /\ buf[i] # 0 => i = head % Size
    BY <1>1, <1>3, <2>1 DEF OncePlacedInv
  <2>3. \A i \in DOMAIN popped : popped[i] # 0 => popped[i] # x
    BY <1>1, <1>3, <2>1 DEF OncePlacedInv
  <2>4. \A q \in Producers : Carries(q) => producer[q].item # x
    BY <1>1, <1>3, <2>1 DEF OncePlacedInv
  <2>5. QED
    BY <1>1, <1>2, <1>3, <2>2, <2>3, <2>4 DEF OncePlacedInv, Carries, Busy
<1>7. ASSUME ~overlapped' PROVE OneAtATimeInv'
  <2>1. OneAtATimeInv
    BY <1>1, <1>7
  <2>2. x = pushed[head + 1]
    <3>1. head < Len(pushed)
      BY <1>1 DEF CountersInv
    <3>2. head + 1 \in (head + 1)..Len(pushed) /\ (head + 1) - 1 = head
      BY <1>1, <3>1, CountFacts
    <3>3. QED
      BY <2>1, <3>2 DEF OneAtATimeInv
  <2>3. QED
    BY <1>1, <1>2, <2>1, <2>2 DEF OneAtATimeInv, Busy
<1>8. QED
  BY <1>4, <1>5, <1>6, <1>7 DEF RingInv

(* The consumer clears the slot, which may by now hold another item.        *)
LEMMA ClearSlotInv ==
  ASSUME RingInv, ClearSlot, PopFrame
  PROVE  RingInv'
<1> DEFINE k == head % Size
<1>1. /\ RingTypes /\ CountersInv /\ OncePlacedInv /\ (~overlapped => OneAtATimeInv)
      /\ consumer.at = "clear" /\ consumer' = [consumer EXCEPT !.at = "count"]
      /\ buf' = [buf EXCEPT ![k] = 0] /\ head' = head + 1
      /\ UNCHANGED <<count, popped, tail, producer, items, pushed, overlapped>>
  BY DEF RingInv, ClearSlot, PopFrame
<1>2. k \in Slots /\ buf \in [Slots -> Items \cup {0}] /\ head \in Nat
  BY <1>1, RingFacts
<1>3. /\ consumer' \in [at : {"idle", "read", "clear", "count"}, item : Items \cup {0}]
      /\ consumer'.at = "count" /\ consumer'.item = consumer.item
      /\ Counted' = Counted
  BY <1>1 DEF RingTypes, Counted
<1>4. /\ buf' \in [Slots -> Items \cup {0}] /\ buf'[k] = 0
      /\ \A i \in Slots \ {k} : buf'[i] = buf[i]
  BY <1>1, <1>2
<1> HIDE DEF k
<1>5. CountersInv'
  <2>1. head < Len(pushed)
    BY <1>1 DEF CountersInv
  <2>2. head' <= Len(pushed) /\ head' = Len(popped) + 1
    BY <1>1, <2>1, CountFacts
  <2>3. QED
    BY <1>1, <1>3, <2>2 DEF CountersInv
<1>6. RingTypes'
  BY <1>1, <1>3, <1>4, <1>5, RingFacts, RingTyped DEF RingTypes
<1>7. \A i \in Slots : buf'[i] # 0 => i # k /\ buf'[i] = buf[i]
  BY <1>4
<1>8. OncePlacedInv'
  <2>1. \A i \in Slots : buf'[i] <= items
    <3>1. 0 <= items
      BY <1>1, RingFacts
    <3>2. QED
      BY <1>1, <1>4, <3>1 DEF OncePlacedInv
  <2>2. \A q \in Producers : Carries(q) => producer[q].item # 0
    <3>1. \A q \in Producers : Carries(q) => producer[q].item \in Items
      BY <1>1 DEF OncePlacedInv, Carries, Busy
    <3>2. QED
      BY <1>1, <3>1, RingFacts
  <2>3. \A q \in Producers : Carries(q) => \A i \in Slots : buf'[i] # producer[q].item
    BY <1>1, <1>7, <2>2 DEF OncePlacedInv
  <2>4. \A i, j \in Slots : buf'[i] = buf'[j] /\ buf'[i] # 0 => i = j
    BY <1>1, <1>7 DEF OncePlacedInv
  <2>5. \A i \in Slots : buf'[i] = consumer.item /\ buf'[i] # 0 => FALSE
    BY <1>1, <1>7 DEF OncePlacedInv, k
  <2>6. \A i \in DOMAIN popped : popped[i] # 0 => \A j \in Slots : popped[i] # buf'[j]
    BY <1>1, <1>7 DEF OncePlacedInv
  <2>7. QED
    BY <1>1, <1>3, <2>1, <2>3, <2>4, <2>5, <2>6 DEF OncePlacedInv, Carries, Busy
<1>9. ASSUME ~overlapped' PROVE OneAtATimeInv'
  <2>1. OneAtATimeInv
    BY <1>1, <1>9
  <2>2. /\ head \in Nat /\ Len(pushed) \in Nat /\ Len(popped) \in Nat
        /\ Size \in Nat /\ Size > 0 /\ count \in Int
        /\ head = Len(popped) /\ count = Len(pushed) - Len(popped) /\ head < Len(pushed)
    BY <1>1, CountFacts DEF CountersInv
  <2>3. count <= Size /\ \A q \in Producers : Busy(q) => count < Size
    BY <2>1 DEF OneAtATimeInv
  <2>4. \A i \in (head' + 1)..Len(pushed) : buf'[(i - 1) % Size] = pushed[i]
    <3>1. ASSUME NEW i \in (head' + 1)..Len(pushed) PROVE buf'[(i - 1) % Size] = pushed[i]
      <4>1. /\ i - 1 \in Nat /\ head < i - 1 /\ (i - 1) - head < Size
            /\ i \in (head + 1)..Len(pushed)
        BY <1>1, <2>2, <2>3
      <4>2. (i - 1) % Size # k
        BY <2>2, <4>1, ModDiffer DEF k
      <4>3. (i - 1) % Size \in Slots
        BY <1>1, <4>1, RingFacts
      <4>4. buf'[(i - 1) % Size] = buf[(i - 1) % Size]
        BY <1>4, <4>2, <4>3
      <4>5. QED
        BY <2>1, <4>1, <4>4 DEF OneAtATimeInv
    <3>2. QED
      BY <3>1
  <2>5. \A q \in Producers :
          producer[q].at \in {"add", "count"} => buf'[Len(pushed) % Size] = producer[q].item
    <3>1. ASSUME NEW q \in Producers, producer[q].at \in {"add", "count"}
          PROVE  buf'[Len(pushed) % Size] = producer[q].item
      <4>1. count < Size
        BY <2>3, <3>1 DEF Busy
      <4>2. Len(pushed) - head < Size
        BY <2>2, <4>1
      <4>3. Len(pushed) % Size # k
        BY <2>2, <4>2, ModDiffer DEF k
      <4>4. Len(pushed) % Size \in Slots
        BY <1>1, <2>2, RingFacts
      <4>5. buf'[Len(pushed) % Size] = buf[Len(pushed) % Size]
        BY <1>4, <4>3, <4>4
      <4>6. QED
        BY <2>1, <3>1, <4>5 DEF OneAtATimeInv
    <3>2. QED
      BY <3>1
  <2>6. consumer.item = pushed[head']
    BY <1>1, <2>1 DEF OneAtATimeInv
  <2>7. QED
    BY <1>1, <1>3, <2>1, <2>4, <2>5, <2>6 DEF OneAtATimeInv, Busy
<1>10. QED
  BY <1>5, <1>6, <1>8, <1>9 DEF RingInv

(* Pop returns what it read. *)
LEMMA SubCountInv ==
  ASSUME RingInv, SubCount, PopFrame
  PROVE  RingInv'
<1> DEFINE x == consumer.item
<1>1. /\ RingTypes /\ CountersInv /\ OncePlacedInv /\ (~overlapped => OneAtATimeInv)
      /\ consumer.at = "count" /\ consumer' = [at |-> "idle", item |-> 0]
      /\ count' = count - 1 /\ popped' = Append(popped, x)
      /\ UNCHANGED <<buf, head, tail, producer, items, pushed, overlapped>>
  BY DEF RingInv, SubCount, PopFrame
<1>2. /\ consumer' \in [at : {"idle", "read", "clear", "count"}, item : Items \cup {0}]
      /\ consumer'.at = "idle" /\ consumer'.item = 0 /\ Counted' = Counted
  BY <1>1 DEF Counted
<1>3. x \in Items \cup {0} /\ popped \in Seq(Items \cup {0}) /\ x <= items
  BY <1>1, RingFacts DEF OncePlacedInv
<1> HIDE DEF x
<1>4. /\ Len(popped) \in Nat /\ popped' \in Seq(Items \cup {0})
      /\ Len(popped') = Len(popped) + 1 /\ popped'[Len(popped) + 1] = x
      /\ DOMAIN popped = 1..Len(popped) /\ DOMAIN popped' = 1..(Len(popped) + 1)
      /\ \A i \in 1..Len(popped) : popped'[i] = popped[i]
  BY <1>1, <1>3
<1>5. CountersInv'
  <2>1. head = Len(popped') /\ count' = Len(pushed) - Len(popped')
    BY <1>1, <1>4, CountFacts
  <2>2. head' = Len(popped') + (IF consumer'.at = "count" THEN 1 ELSE 0)
    BY <1>1, <1>2, <1>4, <2>1
  <2>3. QED
    BY <1>1, <1>2, <2>1, <2>2 DEF CountersInv
<1>6. RingTypes'
  BY <1>1, <1>2, <1>4, <1>5, RingFacts, RingTyped DEF RingTypes
<1>7. \A i \in DOMAIN popped' :
        (i \in DOMAIN popped /\ popped'[i] = popped[i]) \/ (i = Len(popped) + 1 /\ popped'[i] = x)
  BY <1>4
<1>8. OncePlacedInv'
  <2>1. \A i \in Slots : buf[i] # 0 => buf[i] # x
    BY <1>1 DEF OncePlacedInv, x
  <2>2. \A i \in DOMAIN popped : popped[i] # 0 => popped[i] # x
    BY <1>1 DEF OncePlacedInv, x
  <2>3. \A q \in Producers : Carries(q) => producer[q].item # x
    BY <1>1 DEF OncePlacedInv, x
  <2>4. \A q \in Producers : Busy(q) => producer[q].item # 0
    BY <1>1, RingFacts DEF OncePlacedInv
  <2>5. 0 <= items /\ \A q \in Producers : Carries(q) => producer[q].item # 0
    <3>1. items \in Nat
      BY <1>1, RingFacts
    <3>2. \A q \in Producers : Carries(q) => Busy(q)
      BY DEF Carries, Busy
    <3>3. QED
      BY <2>4, <3>1, <3>2
  <2>6. \A i \in DOMAIN popped' : popped'[i] <= items
    BY <1>1, <1>3, <1>7 DEF OncePlacedInv
  <2>7. \A q \in Producers : Carries(q) => \A i \in DOMAIN popped' : popped'[i] # producer[q].item
    BY <1>1, <1>7, <2>3 DEF OncePlacedInv
  <2>8. \A i \in DOMAIN popped' : popped'[i] # 0 => \A j \in Slots : popped'[i] # buf[j]
    BY <1>1, <1>7, <2>1 DEF OncePlacedInv
  <2>9. \A i, j \in DOMAIN popped' : popped'[i] = popped'[j] /\ popped'[i] # 0 => i = j
    BY <1>1, <1>7, <2>2 DEF OncePlacedInv
  <2>10. QED
    BY <1>1, <1>2, <2>5, <2>6, <2>7, <2>8, <2>9 DEF OncePlacedInv, Carries, Busy
<1>9. ASSUME ~overlapped' PROVE OneAtATimeInv'
  <2>1. OneAtATimeInv
    BY <1>1, <1>9
  <2>2. count' <= Size /\ \A q \in Producers : Busy(q) => count' < Size
    <3>1. count' < count /\ count \in Int /\ count' \in Int /\ Size \in Int /\ count <= Size
      BY <1>1, <2>1, CountFacts DEF OneAtATimeInv
    <3>2. QED
      BY <3>1
  <2>3. x = pushed[Len(popped) + 1]
    <3>1. head = Len(popped) + 1
      BY <1>1, CountFacts
    <3>2. QED
      BY <1>1, <2>1, <3>1 DEF OneAtATimeInv, x
  <2>4. \A i \in DOMAIN popped' : popped'[i] = pushed[i]
    BY <1>7, <2>1, <2>3 DEF OneAtATimeInv
  <2>5. QED
    BY <1>1, <1>2, <2>1, <2>2, <2>4 DEF OneAtATimeInv, Busy
<1>10. QED
  BY <1>5, <1>6, <1>8, <1>9 DEF RingInv

-----------------------------------------------------------------------------
(* The buffer starts empty. *)
LEMMA RingStarts == RingInit => RingInv
<1> SUFFICES ASSUME RingInit PROVE RingInv
  OBVIOUS
<1>1. /\ Size \in Nat /\ Size > 0 /\ MaxItems \in Nat
      /\ buf = [i \in Slots |-> 0] /\ head = 0 /\ tail = 0 /\ count = 0 /\ items = 0
      /\ producer = [p \in Producers |-> Idle] /\ Idle.at = "idle"
      /\ consumer = [at |-> "idle", item |-> 0]
      /\ pushed = <<>> /\ popped = <<>> /\ overlapped = FALSE
  BY RingBufferAssumption DEF RingInit, Slots, Idle
<1>2. Counted = {} /\ Cardinality(Counted) = 0
  <2>1. Counted = {}
    BY <1>1 DEF Counted
  <2>2. QED
    BY <2>1, FS_EmptySet
<1>3. /\ pushed \in Seq(Items) /\ popped \in Seq(Items \cup {0})
      /\ Len(pushed) = 0 /\ Len(popped) = 0
      /\ DOMAIN pushed = {} /\ DOMAIN popped = {}
  BY <1>1
<1>4. \A p \in Producers : ~Busy(p) /\ ~Carries(p) /\ producer[p].at = "idle"
  BY <1>1 DEF Busy, Carries
<1>5. consumer.at = "idle" /\ consumer.item = 0
  BY <1>1
<1>6. CountersInv
  BY <1>1, <1>2, <1>3, <1>5 DEF CountersInv
<1>7. RingTypes
  <2>1. buf \in [Slots -> Items \cup {0}]
    BY <1>1
  <2>2. Idle \in [at : {"idle", "tail", "write", "add", "count"}, item : Items \cup {0}, tail : Nat]
    BY DEF Idle
  <2>3. producer \in [Producers -> [at : {"idle", "tail", "write", "add", "count"},
                                    item : Items \cup {0}, tail : Nat]]
    BY <1>1, <2>2
  <2>4. consumer \in [at : {"idle", "read", "clear", "count"}, item : Items \cup {0}]
    BY <1>1
  <2>5. items \in 0..MaxItems
    BY <1>1
  <2>6. count = tail - Cardinality(Counted) - head + (IF consumer.at = "count" THEN 1 ELSE 0)
    BY <1>1, <1>2, <1>5
  <2>7. QED
    BY <1>1, <1>3, <2>1, <2>3, <2>4, <2>5, <2>6 DEF RingTypes, Slots
<1>8. OncePlacedInv
  BY <1>1, <1>3, <1>4, <1>5 DEF OncePlacedInv
<1>9. OneAtATimeInv
  <2>1. (head + 1)..Len(pushed) = {}
    BY <1>1, <1>3
  <2>2. count <= Size
    BY <1>1
  <2>3. QED
    BY <1>3, <1>4, <1>5, <2>1, <2>2 DEF OneAtATimeInv
<1>10. QED
  BY <1>6, <1>7, <1>8, <1>9 DEF RingInv

(* A step that leaves the buffer as it is. *)
LEMMA RingStutters == RingInv /\ UNCHANGED ringVars => RingInv'
BY DEF RingInv, ringVars, RingTypes, CountersInv, OncePlacedInv, OneAtATimeInv, Counted,
       Busy, Carries

(* The invariant of the ring buffer is inductive.  What it says while calls *)
(* of Push overlap (OncePlacedInv) is what keeps items from coming out      *)
(* twice; what it says while none did (OneAtATimeInv) makes it a queue.     *)
THEOREM RingInductive == RingSpec => []RingInv
<1>1. RingInit => RingInv
  BY RingStarts
<1>2. RingInv /\ [RingNext]_ringVars => RingInv'
  <2> SUFFICES ASSUME RingInv, [RingNext]_ringVars PROVE RingInv'
    OBVIOUS
  <2>1. ASSUME NEW p \in Producers, PushStep(p) PROVE RingInv'
    BY <2>1, PushInv, LoadTailInv, WriteSlotInv, AddTailInv, AddCountInv DEF PushStep
  <2>2. CASE PopStep
    BY <2>2, PopInv, ReadSlotInv, ClearSlotInv, SubCountInv DEF PopStep
  <2>3. CASE UNCHANGED ringVars
    BY <2>3, RingStutters
  <2>4. QED
    BY <2>1, <2>2, <2>3 DEF RingNext
<1>3. QED
  BY <1>1, <1>2, PTL DEF RingSpec

(* The variables of the ring buffer keep their types, and its counters      *)
(* agree: count is what was put in and not yet taken, however many          *)
(* goroutines push at once.                                                 *)
THEOREM CountersAgree == RingSpec => []RingTypes
<1>1. RingInv => RingTypes
  BY DEF RingInv
<1>2. QED
  BY <1>1, RingInductive, PTL

(* Pushed to by one goroutine at a time, the ring buffer is a queue that    *)
(* loses nothing; pushed to by several, it returns no item twice.           *)
THEOREM PopsWhatWasPushed == RingSpec => []PopsArePushes
<1>1. ASSUME RingInv PROVE PopsArePushes
  <2>1. RingTypes /\ CountersInv /\ OncePlacedInv
    BY <1>1 DEF RingInv
  <2>2. \A i, j \in DOMAIN popped : popped[i] = popped[j] /\ popped[i] # 0 => i = j
    BY <2>1 DEF OncePlacedInv
  <2>3. ASSUME ~overlapped PROVE IsPrefix(popped, pushed) /\ count <= Size
    <3>1. OneAtATimeInv
      BY <1>1, <2>3 DEF RingInv
    <3>2. Len(popped) \in Nat /\ Len(pushed) \in Nat /\ Len(popped) <= Len(pushed)
      BY <2>1, CountFacts
    <3>3. /\ popped \in Seq(Items \cup {0}) /\ pushed \in Seq(Items \cup {0})
          /\ DOMAIN popped = 1..Len(popped)
      <4>1. pushed \in Seq(Items) /\ popped \in Seq(Items \cup {0})
        BY <2>1 DEF RingTypes
      <4>2. QED
        BY <4>1
    <3>4. SubSeq(popped, 1, Len(popped)) = popped
      BY <3>3
    <3>5. /\ SubSeq(pushed, 1, Len(popped)) \in Seq(Items \cup {0})
          /\ Len(SubSeq(pushed, 1, Len(popped))) = Len(popped)
          /\ \A i \in 1..Len(popped) : SubSeq(pushed, 1, Len(popped))[i] = pushed[i]
      BY <3>2, <3>3
    <3>6. SubSeq(pushed, 1, Len(popped)) = popped
      BY <3>1, <3>3, <3>5, SeqEqual DEF OneAtATimeInv
    <3>7. count <= Size
      BY <3>1 DEF OneAtATimeInv
    <3>8. QED
      BY <3>2, <3>4, <3>6, <3>7 DEF IsPrefix
  <2>4. QED
    BY <2>2, <2>3 DEF PopsArePushes
<1>2. QED
  BY <1>1, RingInductive, PTL
=============================================================================
