-------------------------------- MODULE Order --------------------------------
(***************************************************************************)
(* One order of the exchange (model/order.go): the two atomics Status and  *)
(* FilledQty, and the lock-free TryFill and TryCancel that several         *)
(* goroutines may run on it at once.  Every atomic load, compare-and-swap  *)
(* and add is a step of its own, so all interleavings are explored.        *)
(*                                                                         *)
(* A thread calls as often as it likes.  Nothing bounds the number of      *)
(* calls; the state space is finite because FilledQty is.                  *)
(***************************************************************************)
EXTENDS Integers, FiniteSets

CONSTANTS
  Fillers,      (* goroutines that call TryFill                            *)
  Cancellers,   (* goroutines that call TryCancel                          *)
  Quantity,     (* Order.Quantity, immutable                               *)
  FillSizes     (* the arguments TryFill is called with                    *)

ASSUME OrderAssumption ==
  /\ IsFiniteSet(Fillers) /\ IsFiniteSet(Cancellers)
  /\ Fillers \cap Cancellers = {}
  /\ Quantity \in Nat \ {0}
  /\ FillSizes \subseteq Int

VARIABLES
  Status,       (* Order.Status                                            *)
  FilledQty,    (* Order.FilledQty                                         *)
  pc,           (* where each goroutine is                                 *)
  fillQty,      (* TryFill's argument                                      *)
  curFilled,    (* TryFill's curFilled: FilledQty as last loaded           *)
  cur,          (* Status as last loaded: statusCur in TryFill, cur in TryCancel *)
  result,       (* what the last call of each goroutine returned           *)
  granted       (* history: the quantity of all TryFill calls that returned nil *)

vars == <<Status, FilledQty, pc, fillQty, curFilled, cur, result, granted>>

Threads == Fillers \cup Cancellers

Statuses == {"New", "Partially", "Filled", "Cancelled", "Rejected"}

(* Mutant of Refused: a cancellation does not stop a fill.                  *)
RefusedMissesCancelled == {"Rejected"}

(* The statuses TryFill refuses to fill, tested on entry and before its last CAS. *)
Refused == {"Cancelled", "Rejected"}

(* TryCancel's early returns. *)
Terminal == {"Filled", "Cancelled", "Rejected"}

Errors == {"ErrOrderAlreadyFilled", "ErrOrderAlreadyCancelled",
           "ErrOrderAlreadyRejected", "ErrFillExceedsRemaining"}

Results == Errors \cup {"none", "nil"}

FillerLabels == {"idle", "loadStatus", "loadFilled", "casFilled",
                 "reloadStatus", "casStatus", "rollback"}
CancellerLabels == {"idle", "cancelLoad", "cancelCas"}

(* Between its FilledQty CAS and its return, a TryFill call holds a claim.  *)
Claiming == {"reloadStatus", "casStatus", "rollback"}

(* The units of quantity claimed by calls in progress, one element each.    *)
ClaimedUnits ==
  {u \in Fillers \X (1..Quantity) :
     pc[u[1]] \in Claiming /\ u[2] <= fillQty[u[1]]}

RemainingQty == Quantity - FilledQty

IsFilled == FilledQty >= Quantity

(* What CancelQuantity() returns in this state.                             *)
CancelQuantity == IF Status = "Cancelled" THEN Quantity - FilledQty ELSE 0

(* No call is in progress.                                                  *)
Quiescent == \A t \in Threads : pc[t] = "idle"

-----------------------------------------------------------------------------
(* NewOrder *)
Init ==
  /\ Status = "New"
  /\ FilledQty = 0
  /\ pc = [t \in Threads |-> "idle"]
  /\ fillQty = [t \in Fillers |-> 0]
  /\ curFilled = [t \in Fillers |-> 0]
  /\ cur = [t \in Threads |-> "New"]
  /\ result = [t \in Threads |-> "none"]
  /\ granted = 0

Goto(t, label) == pc' = [pc EXCEPT ![t] = label]

(* A call begins: its locals are fresh.                                     *)
Enter(t, label) ==
  /\ Goto(t, label)
  /\ result' = [result EXCEPT ![t] = "none"]

(* A call returns r; its locals are gone with its stack frame.              *)
Return(t, r) ==
  /\ Goto(t, "idle")
  /\ result' = [result EXCEPT ![t] = r]
  /\ cur' = [cur EXCEPT ![t] = "New"]

ReturnFill(t, r) ==
  /\ Return(t, r)
  /\ fillQty' = [fillQty EXCEPT ![t] = 0]
  /\ curFilled' = [curFilled EXCEPT ![t] = 0]

locals == <<fillQty, curFilled, cur>>

-----------------------------------------------------------------------------
(* TryFill *)

(* A call with a non-positive quantity returns nil at once.                 *)
CallTryFill(t, q) ==
  /\ pc[t] = "idle"
  /\ IF q <= 0
       THEN ReturnFill(t, "nil")
       ELSE /\ Enter(t, "loadStatus")
            /\ fillQty' = [fillQty EXCEPT ![t] = q]
            /\ UNCHANGED <<curFilled, cur>>
  /\ UNCHANGED <<Status, FilledQty, granted>>

LoadStatus(t) ==
  /\ pc[t] = "loadStatus"
  /\ IF Status \in Refused
       THEN ReturnFill(t, "ErrOrderAlreadyCancelled")
       ELSE Goto(t, "loadFilled") /\ UNCHANGED <<locals, result>>
  /\ UNCHANGED <<Status, FilledQty, granted>>

LoadFilled(t) ==
  /\ pc[t] = "loadFilled"
  /\ IF fillQty[t] > RemainingQty
       THEN ReturnFill(t, "ErrFillExceedsRemaining")
       ELSE /\ Goto(t, "casFilled")
            /\ curFilled' = [curFilled EXCEPT ![t] = FilledQty]
            /\ UNCHANGED <<fillQty, cur, result>>
  /\ UNCHANGED <<Status, FilledQty, granted>>

(* Mutant of CasFilled: a plain store, the compare is dropped.              *)
CasFilledBlind(t) ==
  /\ pc[t] = "casFilled"
  /\ FilledQty' = curFilled[t] + fillQty[t]
  /\ Goto(t, "reloadStatus")
  /\ UNCHANGED <<Status, locals, result, granted>>

(* Mutant of CasFilled: after a lost swap it is tried again as it was.      *)
CasFilledSpins(t) ==
  /\ pc[t] = "casFilled"
  /\ IF FilledQty = curFilled[t]
       THEN /\ FilledQty' = curFilled[t] + fillQty[t]
            /\ Goto(t, "reloadStatus")
       ELSE UNCHANGED <<FilledQty, pc>>
  /\ UNCHANGED <<Status, locals, result, granted>>

(* Mutant of CasFilled: after a lost swap FilledQty is loaded again, but    *)
(* the remaining quantity is not tested again.                              *)
CasFilledReloads(t) ==
  /\ pc[t] = "casFilled"
  /\ IF FilledQty = curFilled[t]
       THEN /\ FilledQty' = curFilled[t] + fillQty[t]
            /\ Goto(t, "reloadStatus")
            /\ UNCHANGED curFilled
       ELSE /\ curFilled' = [curFilled EXCEPT ![t] = FilledQty]
            /\ UNCHANGED <<FilledQty, pc>>
  /\ UNCHANGED <<Status, fillQty, cur, result, granted>>

(* FilledQty.CompareAndSwap; when it fails the outer loop starts over.      *)
CasFilled(t) ==
  /\ pc[t] = "casFilled"
  /\ IF FilledQty = curFilled[t]
       THEN /\ FilledQty' = curFilled[t] + fillQty[t]
            /\ Goto(t, "reloadStatus")
       ELSE /\ Goto(t, "loadStatus")
            /\ UNCHANGED FilledQty
  /\ UNCHANGED <<Status, locals, result, granted>>

(* The inner loop's load, and its test for a cancellation that came between. *)
ReloadStatus(t) ==
  /\ pc[t] = "reloadStatus"
  /\ cur' = [cur EXCEPT ![t] = Status]
  /\ Goto(t, IF Status \in Refused THEN "rollback" ELSE "casStatus")
  /\ UNCHANGED <<Status, FilledQty, fillQty, curFilled, result, granted>>

(* Mutant of NewStatus: the remaining quantity is read after the claim.     *)
NewStatusReread(t) ==
  IF fillQty[t] >= RemainingQty THEN "Filled" ELSE "Partially"

NewStatus(t) ==
  IF curFilled[t] + fillQty[t] >= Quantity THEN "Filled" ELSE "Partially"

(* The inner loop's Status.CompareAndSwap; success ends the call.           *)
CasStatus(t) ==
  /\ pc[t] = "casStatus"
  /\ IF Status = cur[t]
       THEN /\ Status' = NewStatus(t)
            /\ granted' = granted + fillQty[t]
            /\ ReturnFill(t, "nil")
       ELSE /\ Goto(t, "reloadStatus")
            /\ UNCHANGED <<Status, granted, locals, result>>
  /\ UNCHANGED FilledQty

(* Mutant of Rollback: the claim is kept.                                   *)
RollbackForgotten(t) ==
  /\ pc[t] = "rollback"
  /\ ReturnFill(t, "ErrOrderAlreadyCancelled")
  /\ UNCHANGED <<Status, FilledQty, granted>>

(* FilledQty.Add(-fillQty): the claim is given back.                        *)
Rollback(t) ==
  /\ pc[t] = "rollback"
  /\ FilledQty' = FilledQty - fillQty[t]
  /\ ReturnFill(t, "ErrOrderAlreadyCancelled")
  /\ UNCHANGED <<Status, granted>>

-----------------------------------------------------------------------------
(* TryCancel *)

CallTryCancel(t) ==
  /\ pc[t] = "idle"
  /\ Enter(t, "cancelLoad")
  /\ UNCHANGED <<Status, FilledQty, locals, granted>>

CancelError(s) ==
  CASE s = "Filled"    -> "ErrOrderAlreadyFilled"
    [] s = "Cancelled" -> "ErrOrderAlreadyCancelled"
    [] s = "Rejected"  -> "ErrOrderAlreadyRejected"

CancelLoad(t) ==
  /\ pc[t] = "cancelLoad"
  /\ IF Status \in Terminal
       THEN Return(t, CancelError(Status))
       ELSE /\ Goto(t, "cancelCas")
            /\ cur' = [cur EXCEPT ![t] = Status]
            /\ UNCHANGED result
  /\ UNCHANGED <<Status, FilledQty, fillQty, curFilled, granted>>

CancelCas(t) ==
  /\ pc[t] = "cancelCas"
  /\ IF Status = cur[t]
       THEN Status' = "Cancelled" /\ Return(t, "nil")
       ELSE Goto(t, "cancelLoad") /\ UNCHANGED <<Status, cur, result>>
  /\ UNCHANGED <<FilledQty, fillQty, curFilled, granted>>

-----------------------------------------------------------------------------
FillStep(t) ==
  \/ LoadStatus(t)
  \/ LoadFilled(t)
  \/ CasFilled(t)
  \/ ReloadStatus(t)
  \/ CasStatus(t)
  \/ Rollback(t)

CancelStep(t) ==
  \/ CancelLoad(t)
  \/ CancelCas(t)

Next ==
  \/ \E t \in Fillers : FillStep(t) \/ \E q \in FillSizes : CallTryFill(t, q)
  \/ \E t \in Cancellers : CancelStep(t) \/ CallTryCancel(t)

Spec == Init /\ [][Next]_vars

(* The Go scheduler runs every runnable goroutine: a call that has begun    *)
(* takes its next step.  Nobody is obliged to call.                         *)
Fairness ==
  /\ \A t \in Fillers : WF_vars(FillStep(t))
  /\ \A t \in Cancellers : WF_vars(CancelStep(t))

FairSpec == Spec /\ Fairness

(* How the order book uses an order: the book's mutex is held across every  *)
(* TryFill and TryCancel, so a call begins only when no other is under way. *)
SerialNext ==
  \/ \E t \in Fillers : FillStep(t)
  \/ \E t \in Cancellers : CancelStep(t)
  \/ Quiescent /\ \E t \in Fillers, q \in FillSizes : CallTryFill(t, q)
  \/ Quiescent /\ \E t \in Cancellers : CallTryCancel(t)

SerialSpec == Init /\ [][SerialNext]_vars

-----------------------------------------------------------------------------
(* Types, and what a call knows where it is: a TryFill under way fills      *)
(* something, and one that is about to claim or has claimed fits in the     *)
(* order as it found it.  All numbers are between nothing and Quantity, a   *)
(* refused call's argument excepted.                                        *)
TypeOK ==
  /\ Status \in Statuses
  /\ FilledQty \in 0..Quantity
  /\ pc \in [Threads -> FillerLabels \cup CancellerLabels]
  /\ \A t \in Fillers : pc[t] \in FillerLabels
  /\ \A t \in Cancellers : pc[t] \in CancellerLabels
  /\ fillQty \in [Fillers -> Nat]
  /\ curFilled \in [Fillers -> 0..Quantity]
  /\ \A t \in Fillers :
       /\ pc[t] # "idle" => fillQty[t] > 0
       /\ pc[t] \in Claiming \cup {"casFilled"} => curFilled[t] + fillQty[t] <= Quantity
  /\ cur \in [Threads -> Statuses]
  /\ result \in [Threads -> Results]
  /\ granted \in 0..Quantity

(* FilledQty is never more than what calls were granted plus what calls in  *)
(* progress still claim: no interleaving of the claim, its rollback and a   *)
(* cancellation loses or invents a unit of quantity, so the order is never  *)
(* overfilled and never goes negative.                                      *)
QuantityConserved ==
  /\ FilledQty = granted + Cardinality(ClaimedUnits)
  /\ granted >= 0
  /\ FilledQty <= Quantity

(* Once no call is in progress, a cancelled order's filled quantity is what *)
(* TryFill granted and CancelQuantity() is the rest of it: the cancelled    *)
(* and the traded quantity add up (TestOrderTryCancelRace,                  *)
(* TestOrderStateTransitions).                                              *)
CancelSettles ==
  Quiescent /\ Status = "Cancelled" => granted + CancelQuantity = Quantity

(* Status Filled is never announced while part of the quantity is open.     *)
FilledIsFull == Status = "Filled" => FilledQty = Quantity

(* Cancellation is final: no TryFill that had already claimed its quantity  *)
(* when TryCancel won the status may return nil afterwards.                 *)
CancelIsFinal ==
  [][Status = "Cancelled" => Status' = "Cancelled" /\ granted' = granted]_vars

(* Every call returns: each lost CAS is another call's progress, and the    *)
(* quantity bounds how much progress the others can make.                   *)
CallsReturn == \A t \in Threads : pc[t] # "idle" ~> pc[t] = "idle"

(* What TestOrderTryFillRace expects when the fills that succeeded add up   *)
(* to the whole order: the status is then Filled.                           *)
FullyFilledIsFilled ==
  Quiescent /\ granted = Quantity => Status = "Filled"

(* Under the mutex the order is the abstract one of AtomicOrder: a call has *)
(* its effect in one step, where its status compare-and-swap succeeds.      *)
Atomic == INSTANCE AtomicOrder WITH filled <- granted, status <- Status

SerialIsAtomic == Atomic!Spec

=============================================================================
