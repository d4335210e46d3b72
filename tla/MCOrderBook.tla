----------------------------- MODULE MCOrderBook -----------------------------
(* Instances of OrderBook for TLC. *)
EXTENDS OrderBook

CONSTANTS o1, o2, o3, o4

ThreeOrders == {o1, o2, o3}
FourOrders == {o1, o2, o3, o4}

Symmetry4 == Permutations(FourOrders)

(* Keep is the loop that collects the members of A, on every short sequence. *)
ASSUME KeepCollects ==
  \A s \in UNION {[1..n -> FourOrders] : n \in 0..4}, A \in SUBSET FourOrders :
    Keep(s, A) = SelectSeq(s, LAMBDA x : x \in A)
=============================================================================
