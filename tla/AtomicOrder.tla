----------------------------- MODULE AtomicOrder -----------------------------
(***************************************************************************)
(* What an order promises to a caller that holds the book's mutex: filling *)
(* and cancelling are single steps, the status says exactly how much is    *)
(* filled, and what is filled or cancelled stays so.                       *)
(***************************************************************************)
EXTENDS Integers

CONSTANT Quantity   (* a positive natural number, see OrderAssumption *)

VARIABLES filled, status

Active == {"New", "Partially"}

StatusAfter(f) == IF f = Quantity THEN "Filled" ELSE "Partially"

Init == filled = 0 /\ status = "New"

Fill(q) ==
  /\ status \in Active
  /\ filled' = filled + q
  /\ status' = StatusAfter(filled')

Cancel ==
  /\ status \in Active
  /\ status' = "Cancelled"
  /\ UNCHANGED filled

Next == Cancel \/ \E q \in 1..(Quantity - filled) : Fill(q)

Spec == Init /\ [][Next]_<<filled, status>>
=============================================================================
