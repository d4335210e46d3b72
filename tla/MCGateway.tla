----------------------------- MODULE MCGateway -----------------------------
(* Instances of Gateway for TLC. *)
EXTENDS Gateway

CONSTANTS c1, c2, ida, idb, cl1

TwoConns == {c1, c2}
TwoIDs == {ida, idb}
OneClOrdID == {cl1}

From(ids, kinds) == {m \in Messages : m.id \in ids /\ m.request.kind \in kinds}

(* On c1 a logon or not; then, perhaps under another SenderCompID, an order, *)
(* a message that is rejected, or a logout; then a cancel.  On c2 the same  *)
(* client once more.                                                        *)
TwoClients ==
  [c \in TwoConns |->
     IF c = c1
       THEN <<From({ida}, {"Logon", "TestRequest"}),
              From({ida}, {"NewOrder", "Faulty"}) \cup From({idb}, {"Logout"}),
              From({ida}, {"Cancel", "CancelElsewhere"})>>
       ELSE <<From({ida}, {"Quiet"})>>]
=============================================================================
