------------------------------ MODULE MCOrder ------------------------------
(* Instances of Order for TLC. *)
EXTENDS Order
=============================================================================
