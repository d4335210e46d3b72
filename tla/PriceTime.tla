------------------------------ MODULE PriceTime ------------------------------
(***************************************************************************)
(* Price-time priority, said once and for all without a loop: how much of  *)
(* an incoming quantity each resting order gets.  A request is a record    *)
(* with side, type, price and qty; req, rank and rem are functions of the  *)
(* orders to their request, their time of arrival and their open quantity. *)
(***************************************************************************)
EXTENDS Integers, FiniteSets, FiniteSetsExt

(* A request for r may trade with the resting request m. *)
Compatible(r, m) ==
  /\ r.side # m.side
  /\ \/ r.type = "market"
     \/ r.side = "buy" /\ m.price <= r.price
     \/ r.side = "sell" /\ m.price >= r.price

(* Of two resting orders of one side, x trades before m. *)
Ahead(req, rank, x, m) ==
  \/ req[x].side = "buy" /\ req[x].price > req[m].price
  \/ req[x].side = "sell" /\ req[x].price < req[m].price
  \/ req[x].price = req[m].price /\ rank[x] < rank[m]

Total(rem, S) == MapThenSumSet(LAMBDA x : rem[x], S)

(* What m gets when a quantity q meets the resting orders S: what the ones  *)
(* ahead of it leave, up to its open quantity.                              *)
Share(req, rank, rem, S, q, m) ==
  LET left == q - Total(rem, {x \in S : Ahead(req, rank, x, m)})
  IN  IF left <= 0 THEN 0 ELSE IF left < rem[m] THEN left ELSE rem[m]

(* What the incoming order gets. *)
TakerShare(rem, S, q) == IF q < Total(rem, S) THEN q ELSE Total(rem, S)
=============================================================================
