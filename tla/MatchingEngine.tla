---------------------------- MODULE MatchingEngine ----------------------------
(***************************************************************************)
(* The matching engine (engine/matching.go): the IDs of orders, and the    *)
(* map of the books, one for each symbol, which is guarded by me.mu; the   *)
(* books have mutexes of their own (OrderBook), so that a goroutine uses a *)
(* book after it let go of the map.  Stop replaces the map under it.       *)
(*                                                                         *)
(* A book is what AtomicBook promises, as far as it matters here: a set of *)
(* resting orders; an order that comes in may fill one of them, and rests  *)
(* or not.  The result of SubmitOrder is returned to the caller; its copy  *)
(* on resultCh, which is sent without waiting and which main receives and  *)
(* drops, is left out; so is the push to the ring buffer (RingBuffer): its *)
(* answer is not looked at, and what is popped is thrown away.             *)
(***************************************************************************)
EXTENDS Integers, Sequences, FiniteSets

CONSTANTS
  Callers,       (* the goroutines that submit orders                      *)
  Symbols,
  MaxOrders      (* bound of the calls of SubmitOrder                      *)

ASSUME MatchingEngineAssumption ==
  /\ IsFiniteSet(Callers) /\ IsFiniteSet(Symbols)
  /\ MaxOrders \in Nat

VARIABLES
  orderIDSeq,
  orderBooks,    (* the book of each symbol, or 0                          *)
  book,          (* the books made so far: the orders that rest in each    *)
  order,         (* the orders, one for each call of SubmitOrder           *)
  caller,        (* each goroutine's SubmitOrder: place, order and book    *)
  canceller,     (* CancelOrder: place, order, symbol and book             *)
  stopped        (* Stop was called                                        *)

vars == <<orderIDSeq, orderBooks, book, order, caller, canceller, stopped>>

NoCall == [at |-> "idle", order |-> 0, book |-> 0]

Init ==
  /\ orderIDSeq = 0
  /\ orderBooks = [s \in Symbols |-> 0]
  /\ book = <<>>
  /\ order = <<>>
  /\ caller = [p \in Callers |-> NoCall]
  /\ canceller = [at |-> "idle", order |-> 0, own |-> TRUE, book |-> 0]
  /\ stopped = FALSE

-----------------------------------------------------------------------------
(* SubmitOrder *)

SubmitFrame == UNCHANGED <<canceller, stopped>>

Goes(p, at) == caller' = [caller EXCEPT ![p].at = at]

NewOrder(s, id) == [id |-> id, symbol |-> s, afterStop |-> stopped, returned |-> FALSE]

TakeID(p) ==
  /\ caller[p].at = "idle"
  /\ Len(order) < MaxOrders
  /\ orderIDSeq' = orderIDSeq + 1
  /\ \E s \in Symbols : order' = Append(order, NewOrder(s, orderIDSeq'))
  /\ caller' = [caller EXCEPT ![p] = [at |-> "lookup", order |-> Len(order'), book |-> 0]]
  /\ UNCHANGED <<orderBooks, book>>

SymbolOf(p) == order[caller[p].order].symbol

(* Mutant of GetOrCreateOrderBook: the lock is let go between the look at   *)
(* the map and its change.                                                  *)
GetOrCreateTwice(p) ==
  /\ \/ /\ caller[p].at = "lookup"
        /\ caller' = [caller EXCEPT
             ![p].at = IF orderBooks[SymbolOf(p)] = 0 THEN "create" ELSE "submit",
             ![p].book = orderBooks[SymbolOf(p)]]
        /\ UNCHANGED <<book, orderBooks>>
     \/ /\ caller[p].at = "create"
        /\ book' = Append(book, {})
        /\ orderBooks' = [orderBooks EXCEPT ![SymbolOf(p)] = Len(book')]
        /\ caller' = [caller EXCEPT ![p].at = "submit", ![p].book = Len(book')]
  /\ UNCHANGED <<orderIDSeq, order>>

GetOrCreateOrderBook(p) ==
  /\ caller[p].at = "lookup"
  /\ IF orderBooks[SymbolOf(p)] = 0
       THEN /\ book' = Append(book, {})
            /\ orderBooks' = [orderBooks EXCEPT ![SymbolOf(p)] = Len(book')]
       ELSE UNCHANGED <<book, orderBooks>>
  /\ caller' = [caller EXCEPT ![p].at = "submit", ![p].book = orderBooks'[SymbolOf(p)]]
  /\ UNCHANGED <<orderIDSeq, order>>

(* Submit of the book, with the book's mutex.                               *)
SubmitToBook(p) ==
  LET b == caller[p].book
  IN  /\ caller[p].at = "submit"
      /\ \E filled \in {{}} \cup {{n} : n \in book[b]}, rests \in {{}, {caller[p].order}} :
           book' = [book EXCEPT ![b] = (@ \ filled) \cup rests]
      /\ Goes(p, "result")
      /\ UNCHANGED <<orderIDSeq, orderBooks, order>>

(* SubmitOrder returns; it did not wait for room in resultCh.               *)
SendResult(p) ==
  /\ caller[p].at = "result"
  /\ order' = [order EXCEPT ![caller[p].order].returned = TRUE]
  /\ caller' = [caller EXCEPT ![p] = NoCall]
  /\ UNCHANGED <<orderIDSeq, orderBooks, book>>

SubmitOrder(p) ==
  /\ TakeID(p) \/ GetOrCreateOrderBook(p) \/ SubmitToBook(p) \/ SendResult(p)
  /\ SubmitFrame

-----------------------------------------------------------------------------
(* CancelOrder and Stop *)

OtherFrame == UNCHANGED <<orderIDSeq, order, caller>>

(* Whoever was told an ID may cancel it; not always with its own symbol.    *)
CancelOrder(n, s) ==
  /\ canceller.at = "idle"
  /\ order[n].returned
  /\ canceller' = [at |-> "cancel", order |-> n, own |-> s = order[n].symbol,
                   book |-> orderBooks[s]]
  /\ UNCHANGED <<orderBooks, book, stopped>>

(* Cancel of the book, if there is one: an order that does not rest in it   *)
(* is refused as already filled.                                            *)
CancelInBook ==
  LET b == canceller.book
  IN  /\ canceller.at = "cancel"
      /\ book' = IF b = 0 THEN book ELSE [book EXCEPT ![b] = @ \ {canceller.order}]
      /\ canceller' = [at |-> "idle", order |-> 0, own |-> TRUE, book |-> 0]
      /\ UNCHANGED <<orderBooks, stopped>>

Stop ==
  /\ ~stopped
  /\ stopped' = TRUE
  /\ orderBooks' = [s \in Symbols |-> 0]
  /\ UNCHANGED <<book, canceller>>

Next ==
  \/ \E p \in Callers : SubmitOrder(p)
  \/ /\ \/ \E n \in DOMAIN order, s \in Symbols : CancelOrder(n, s)
        \/ CancelInBook \/ Stop
     /\ OtherFrame

Spec == Init /\ [][Next]_vars

-----------------------------------------------------------------------------
(* Types. *)
TypeOK ==
  /\ orderIDSeq \in 0..MaxOrders
  /\ order \in Seq([id : 1..MaxOrders, symbol : Symbols, afterStop : BOOLEAN,
                   returned : BOOLEAN])
  /\ book \in Seq(SUBSET DOMAIN order)
  /\ orderBooks \in [Symbols -> {0} \cup DOMAIN book]
  /\ caller \in [Callers -> [at : {"idle", "lookup", "submit", "result"},
                               order : {0} \cup DOMAIN order, book : {0} \cup DOMAIN book]]
  /\ canceller \in [at : {"idle", "cancel"}, order : {0} \cup DOMAIN order, own : BOOLEAN,
                    book : {0} \cup DOMAIN book]
  /\ stopped \in BOOLEAN

(* A symbol and an ID name one order.  Until Stop, and after it for orders  *)
(* that came in later, every resting order is in the book that the map has  *)
(* for its symbol (GetOrCreateOrderBook lets go of me.mu before Submit); no *)
(* other order has its ID; and a CancelOrder that has looked up the book of *)
(* an order that rests has the book it rests in, so that it is not refused  *)
(* as already filled.                                                       *)
NamesOneOrder ==
  \A b \in DOMAIN book : \A n \in book[b] :
    order[n].afterStop = stopped =>
      /\ orderBooks[order[n].symbol] = b
      /\ \A m \in DOMAIN order : order[m].id = order[n].id => m = n
      /\ canceller.order = n /\ canceller.own => canceller.book = b
=============================================================================
