----------------------------- MODULE AtomicBook ------------------------------
(***************************************************************************)
(* What the order book promises: submitting an order is one step, in which *)
(* it trades with the resting orders by price and time, each getting its   *)
(* share; what is left of a limit order rests until it is filled or        *)
(* cancelled, what is left of a market order is dropped.                   *)
(***************************************************************************)
EXTENDS PriceTime

CONSTANTS Orders, Requests, NoRequest

VARIABLES req, rank, filled, cancelled

Open == [o \in Orders |-> req[o].qty - filled[o]]

(* The orders an incoming one may trade with, or a cancel may find. *)
Resting ==
  {o \in Orders : /\ rank[o] > 0
                  /\ req[o].type = "limit"
                  /\ o \notin cancelled
                  /\ Open[o] > 0}

Init ==
  /\ req = [o \in Orders |-> NoRequest]
  /\ rank = [o \in Orders |-> 0]
  /\ filled = [o \in Orders |-> 0]
  /\ cancelled = {}

Submit(o, r) ==
  LET makers == {m \in Resting : Compatible(r, req[m])}
  IN  /\ rank[o] = 0
      /\ req' = [req EXCEPT ![o] = r]
      /\ rank' = [rank EXCEPT ![o] = 1 + Cardinality({x \in Orders : rank[x] > 0})]
      /\ filled' = [m \in Orders |->
                      IF m = o THEN TakerShare(Open, makers, r.qty)
                      ELSE IF m \in makers
                        THEN filled[m] + Share(req, rank, Open, makers, r.qty, m)
                        ELSE filled[m]]
      /\ UNCHANGED cancelled

Cancel(o) ==
  /\ o \in Resting
  /\ cancelled' = cancelled \cup {o}
  /\ UNCHANGED <<req, rank, filled>>

Next == \E o \in Orders : Cancel(o) \/ \E r \in Requests : Submit(o, r)

Spec == Init /\ [][Next]_<<req, rank, filled, cancelled>>
=============================================================================
