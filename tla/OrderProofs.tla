----------------------------- MODULE OrderProofs -----------------------------
(***************************************************************************)
(* Theorems about Order, for any finite set of filling goroutines, any set *)
(* of cancelling ones, any quantity and any fill sizes.                    *)
(*                                                                         *)
(* The sum of the claims in progress is the cardinality of ClaimedUnits, a *)
(* set with one element per claimed unit, so the facts about finite sets   *)
(* of the library stand in for an induction over the goroutines.           *)
(***************************************************************************)
EXTENDS Order, SumTheorems, FiniteSetTheorems, TLAPS

(* A goroutine in the middle of TryFill asks for at least one unit.         *)
Filling == FillerLabels \ {"idle"}

(* The types of the variables, without bounds.                              *)
Typed ==
  /\ Status \in Statuses
  /\ FilledQty \in Int
  /\ pc \in [Threads -> FillerLabels \cup CancellerLabels]
  /\ \A t \in Fillers : pc[t] \in FillerLabels
  /\ \A t \in Cancellers : pc[t] \in CancellerLabels
  /\ fillQty \in [Fillers -> Int]
  /\ curFilled \in [Fillers -> Int]
  /\ cur \in [Threads -> Statuses]
  /\ result \in [Threads -> Results]
  /\ granted \in Int

(* What each control point of TryFill and TryCancel knows.                  *)
ControlInv ==
  /\ Status # "Rejected"
  /\ \A t \in Fillers :
       /\ fillQty[t] >= 0
       /\ pc[t] \in Filling => fillQty[t] >= 1
       /\ curFilled[t] \in 0..Quantity
       /\ pc[t] \in Claiming \cup {"casFilled"} => curFilled[t] + fillQty[t] <= Quantity
       /\ pc[t] = "rollback" => Status \in Refused
       /\ pc[t] = "casStatus" => cur[t] \notin Refused
  /\ \A t \in Cancellers : pc[t] = "cancelCas" => cur[t] \notin Terminal

(* While the order is not cancelled, the claim that completed it is still   *)
(* counted: nobody rolls back.                                              *)
FullClaimInv ==
  Status \notin Refused =>
    \A t \in Fillers :
      pc[t] \in Claiming /\ curFilled[t] + fillQty[t] >= Quantity
        => FilledQty = Quantity

(* The inductive invariant. *)
IInv ==
  /\ Typed
  /\ QuantityConserved
  /\ ControlInv
  /\ FullClaimInv
  /\ FilledIsFull

-----------------------------------------------------------------------------
(* A goroutine's claim of q units is a set of q elements. *)
LEMMA ClaimSize ==
  ASSUME NEW t, NEW q \in Nat
  PROVE  /\ IsFiniteSet({t} \X (1..q))
         /\ Cardinality({t} \X (1..q)) = q
<1>1. IsFiniteSet({t}) /\ Cardinality({t}) = 1
  BY FS_Singleton
<1>2. IsFiniteSet(1..q) /\ Cardinality(1..q) = q
  BY FS_Interval
<1>3. /\ IsFiniteSet({t} \X (1..q))
      /\ Cardinality({t} \X (1..q)) = Cardinality({t}) * Cardinality(1..q)
  BY <1>1, <1>2, FS_Product, Zenon
<1>4. QED
  BY <1>1, <1>2, <1>3

(* Only finitely many units can be claimed at once. *)
LEMMA ClaimedUnitsFinite ==
  /\ IsFiniteSet(ClaimedUnits)
  /\ Cardinality(ClaimedUnits) \in Nat
<1>1. IsFiniteSet(1..Quantity)
  BY OrderAssumption, FS_Interval
<1>2. IsFiniteSet(Fillers \X (1..Quantity))
  BY <1>1, OrderAssumption, FS_Product
<1>3. ClaimedUnits \in SUBSET (Fillers \X (1..Quantity))
  BY DEF ClaimedUnits
<1>4. QED
  BY <1>2, <1>3, FS_Subset, FS_CardinalityType

(* A step that leaves every claim alone leaves their sum alone. *)
LEMMA ClaimsUnchanged ==
  ASSUME \A t \in Fillers :
           /\ pc'[t] \in Claiming <=> pc[t] \in Claiming
           /\ pc[t] \in Claiming => fillQty'[t] = fillQty[t]
  PROVE  ClaimedUnits' = ClaimedUnits
  BY DEF ClaimedUnits

(* A goroutine that begins to claim adds its quantity to the sum. *)
LEMMA ClaimAdded ==
  ASSUME NEW t \in Fillers,
         fillQty[t] \in 1..Quantity, fillQty'[t] = fillQty[t],
         pc[t] \notin Claiming, pc'[t] \in Claiming,
         \A u \in Fillers \ {t} : pc'[u] = pc[u] /\ fillQty'[u] = fillQty[u]
  PROVE  Cardinality(ClaimedUnits') = Cardinality(ClaimedUnits) + fillQty[t]
<1> DEFINE C == {t} \X (1..fillQty[t])
<1>1. IsFiniteSet(C) /\ Cardinality(C) = fillQty[t]
  <2>1. fillQty[t] \in Nat
    BY OrderAssumption
  <2>2. QED
    BY <2>1, ClaimSize, Zenon
<1>2. ClaimedUnits' = ClaimedUnits \cup C
  BY OrderAssumption DEF ClaimedUnits
<1>3. ClaimedUnits \cap C = {}
  BY DEF ClaimedUnits
<1>4. Cardinality(ClaimedUnits \cup C)
        = Cardinality(ClaimedUnits) + Cardinality(C) - Cardinality({})
  BY <1>1, <1>3, ClaimedUnitsFinite, FS_Union
<1>5. Cardinality({}) = 0
  BY FS_EmptySet
<1> HIDE DEF C
<1>6. QED
  BY <1>1, <1>2, <1>4, <1>5, ClaimedUnitsFinite

(* A goroutine whose claim ends takes its quantity out of the sum. *)
LEMMA ClaimRemoved ==
  ASSUME NEW t \in Fillers,
         fillQty[t] \in 1..Quantity,
         pc[t] \in Claiming, pc'[t] \notin Claiming,
         \A u \in Fillers \ {t} : pc'[u] = pc[u] /\ fillQty'[u] = fillQty[u]
  PROVE  Cardinality(ClaimedUnits') = Cardinality(ClaimedUnits) - fillQty[t]
<1> DEFINE C == {t} \X (1..fillQty[t])
<1>1. IsFiniteSet(C) /\ Cardinality(C) = fillQty[t]
  <2>1. fillQty[t] \in Nat
    BY OrderAssumption
  <2>2. QED
    BY <2>1, ClaimSize, Zenon
<1>2. ClaimedUnits' = ClaimedUnits \ C
  BY OrderAssumption DEF ClaimedUnits
<1>3. ClaimedUnits \cap C = C
  BY OrderAssumption DEF ClaimedUnits
<1>4. Cardinality(ClaimedUnits \ C)
        = Cardinality(ClaimedUnits) - Cardinality(ClaimedUnits \cap C)
  BY ClaimedUnitsFinite, FS_Difference
<1> HIDE DEF C
<1>5. QED
  BY <1>1, <1>2, <1>3, <1>4

-----------------------------------------------------------------------------
(* A new order satisfies the invariant. *)
LEMMA InitInv == Init => IInv
<1> SUFFICES ASSUME Init PROVE IInv
  OBVIOUS
<1> USE OrderAssumption DEF Init, Threads
<1>1. Typed
  BY DEF Typed, Statuses, FillerLabels, CancellerLabels, Results
<1>2. QuantityConserved
  <2>1. ClaimedUnits = {}
    BY DEF ClaimedUnits, Claiming
  <2>2. QED
    BY <2>1, FS_EmptySet DEF QuantityConserved
<1>3. ControlInv /\ FullClaimInv /\ FilledIsFull
  BY DEF ControlInv, FullClaimInv, FilledIsFull, Filling, Claiming
<1>4. QED
  BY <1>1, <1>2, <1>3 DEF IInv

(* Every access to an atomic keeps the types, whatever the bounds. *)
LEMMA TypeStep == Typed /\ [Next]_vars => Typed'
<1> SUFFICES ASSUME Typed, [Next]_vars PROVE Typed'
  OBVIOUS
<1> USE OrderAssumption
     DEF Typed, Threads, Goto, Return, ReturnFill, Enter, locals,
         Statuses, FillerLabels, CancellerLabels, Results, Errors
<1>1. ASSUME NEW t \in Fillers, NEW q \in FillSizes, CallTryFill(t, q)
      PROVE  Typed'
  BY <1>1 DEF CallTryFill
<1>2. ASSUME NEW t \in Fillers, LoadStatus(t) PROVE Typed'
  BY <1>2 DEF LoadStatus
<1>3. ASSUME NEW t \in Fillers, LoadFilled(t) PROVE Typed'
  BY <1>3 DEF LoadFilled
<1>4. ASSUME NEW t \in Fillers, CasFilled(t) PROVE Typed'
  BY <1>4 DEF CasFilled
<1>5. ASSUME NEW t \in Fillers, ReloadStatus(t) PROVE Typed'
  BY <1>5 DEF ReloadStatus
<1>6. ASSUME NEW t \in Fillers, CasStatus(t) PROVE Typed'
  BY <1>6 DEF CasStatus, NewStatus
<1>7. ASSUME NEW t \in Fillers, Rollback(t) PROVE Typed'
  BY <1>7 DEF Rollback
<1>8. ASSUME NEW t \in Cancellers, CallTryCancel(t) PROVE Typed'
  BY <1>8 DEF CallTryCancel
<1>9. ASSUME NEW t \in Cancellers, CancelLoad(t) PROVE Typed'
  BY <1>9 DEF CancelLoad, CancelError, Terminal
<1>10. ASSUME NEW t \in Cancellers, CancelCas(t) PROVE Typed'
  BY <1>10 DEF CancelCas
<1>11. CASE UNCHANGED vars
  BY <1>11 DEF vars
<1>12. QED
  BY <1>1, <1>2, <1>3, <1>4, <1>5, <1>6, <1>7, <1>8, <1>9, <1>10, <1>11
     DEF Next, FillStep, CancelStep

-----------------------------------------------------------------------------
(* The control facts are local to a goroutine, except "rollback implies     *)
(* Refused", which holds because no step leaves Refused.                    *)
LEMMA ControlStep == IInv /\ [Next]_vars => ControlInv'
<1> SUFFICES ASSUME IInv, [Next]_vars PROVE ControlInv'
  OBVIOUS
<1> USE OrderAssumption
     DEF IInv, Typed, ControlInv, Threads, Goto, Return, ReturnFill, Enter,
         locals, Filling, Claiming, FillerLabels, Refused, Terminal
<1>1. ASSUME NEW t \in Fillers, NEW q \in FillSizes, CallTryFill(t, q)
      PROVE  ControlInv'
  BY <1>1 DEF CallTryFill
<1>2. ASSUME NEW t \in Fillers, LoadStatus(t) PROVE ControlInv'
  BY <1>2 DEF LoadStatus
<1>3. ASSUME NEW t \in Fillers, LoadFilled(t) PROVE ControlInv'
  <2>1. FilledQty >= 0
    BY ClaimedUnitsFinite DEF QuantityConserved
  <2>2. QED
    BY <1>3, <2>1 DEF LoadFilled, RemainingQty
<1>4. ASSUME NEW t \in Fillers, CasFilled(t) PROVE ControlInv'
  BY <1>4 DEF CasFilled
<1>5. ASSUME NEW t \in Fillers, ReloadStatus(t) PROVE ControlInv'
  BY <1>5 DEF ReloadStatus
<1>6. ASSUME NEW t \in Fillers, CasStatus(t) PROVE ControlInv'
  BY <1>6 DEF CasStatus, NewStatus
<1>7. ASSUME NEW t \in Fillers, Rollback(t) PROVE ControlInv'
  BY <1>7 DEF Rollback
<1>8. ASSUME NEW t \in Cancellers, CallTryCancel(t) PROVE ControlInv'
  BY <1>8 DEF CallTryCancel
<1>9. ASSUME NEW t \in Cancellers, CancelLoad(t) PROVE ControlInv'
  BY <1>9 DEF CancelLoad, CancelError
<1>10. ASSUME NEW t \in Cancellers, CancelCas(t) PROVE ControlInv'
  BY <1>10 DEF CancelCas
<1>11. CASE UNCHANGED vars
  BY <1>11 DEF vars
<1>12. QED
  BY <1>1, <1>2, <1>3, <1>4, <1>5, <1>6, <1>7, <1>8, <1>9, <1>10, <1>11
     DEF Next, FillStep, CancelStep

(* Only three steps touch the books of the quantity: a claim, its grant and *)
(* its rollback.                                                            *)
LEMMA QuantityStep == IInv /\ [Next]_vars => QuantityConserved'
<1> SUFFICES ASSUME IInv, [Next]_vars PROVE QuantityConserved'
  OBVIOUS
<1> USE OrderAssumption
     DEF IInv, Typed, ControlInv, Threads, Goto, Return, ReturnFill, Enter,
         locals, Filling, Claiming, FillerLabels, Refused, Terminal
<1>1. ASSUME NEW t \in Fillers, CasFilled(t) PROVE QuantityConserved'
  <2>1. CASE FilledQty = curFilled[t]
    <3>1. fillQty[t] \in 1..Quantity
      BY <1>1 DEF CasFilled
    <3>2. Cardinality(ClaimedUnits') = Cardinality(ClaimedUnits) + fillQty[t]
      BY <1>1, <2>1, <3>1, ClaimAdded DEF CasFilled
    <3>3. QED
      BY <1>1, <2>1, <3>2, ClaimedUnitsFinite DEF CasFilled, QuantityConserved
  <2>2. CASE FilledQty # curFilled[t]
    <3>1. ClaimedUnits' = ClaimedUnits
      BY <1>1, <2>2, ClaimsUnchanged DEF CasFilled
    <3>2. QED
      BY <1>1, <2>2, <3>1 DEF CasFilled, QuantityConserved
  <2>3. QED
    BY <2>1, <2>2
<1>2. ASSUME NEW t \in Fillers, CasStatus(t) PROVE QuantityConserved'
  <2>1. CASE Status = cur[t]
    <3>1. fillQty[t] \in 1..Quantity
      BY <1>2 DEF CasStatus
    <3>2. Cardinality(ClaimedUnits') = Cardinality(ClaimedUnits) - fillQty[t]
      BY <1>2, <2>1, <3>1, ClaimRemoved DEF CasStatus
    <3>3. QED
      BY <1>2, <2>1, <3>1, <3>2, ClaimedUnitsFinite DEF CasStatus, QuantityConserved
  <2>2. CASE Status # cur[t]
    <3>1. ClaimedUnits' = ClaimedUnits
      BY <1>2, <2>2, ClaimsUnchanged DEF CasStatus
    <3>2. QED
      BY <1>2, <2>2, <3>1 DEF CasStatus, QuantityConserved
  <2>3. QED
    BY <2>1, <2>2
<1>3. ASSUME NEW t \in Fillers, Rollback(t) PROVE QuantityConserved'
  <2>1. fillQty[t] \in 1..Quantity
    BY <1>3 DEF Rollback
  <2>2. Cardinality(ClaimedUnits') = Cardinality(ClaimedUnits) - fillQty[t]
    BY <1>3, <2>1, ClaimRemoved DEF Rollback
  <2>3. QED
    BY <1>3, <2>1, <2>2, ClaimedUnitsFinite DEF Rollback, QuantityConserved
<1>4. ASSUME UNCHANGED <<FilledQty, granted>>,
             \A t \in Fillers :
               /\ pc'[t] \in Claiming <=> pc[t] \in Claiming
               /\ pc[t] \in Claiming => fillQty'[t] = fillQty[t]
      PROVE  QuantityConserved'
  <2>1. ClaimedUnits' = ClaimedUnits
    BY <1>4, ClaimsUnchanged
  <2>2. QED
    BY <1>4, <2>1 DEF QuantityConserved
<1>5. ASSUME NEW t \in Fillers, NEW q \in FillSizes, CallTryFill(t, q)
      PROVE  QuantityConserved'
  BY <1>4, <1>5 DEF CallTryFill
<1>6. ASSUME NEW t \in Fillers, LoadStatus(t) PROVE QuantityConserved'
  BY <1>4, <1>6 DEF LoadStatus
<1>7. ASSUME NEW t \in Fillers, LoadFilled(t) PROVE QuantityConserved'
  BY <1>4, <1>7 DEF LoadFilled
<1>8. ASSUME NEW t \in Fillers, ReloadStatus(t) PROVE QuantityConserved'
  BY <1>4, <1>8 DEF ReloadStatus
<1>9. ASSUME NEW t \in Cancellers, CallTryCancel(t) PROVE QuantityConserved'
  BY <1>4, <1>9 DEF CallTryCancel
<1>10. ASSUME NEW t \in Cancellers, CancelLoad(t) PROVE QuantityConserved'
  BY <1>4, <1>10 DEF CancelLoad
<1>11. ASSUME NEW t \in Cancellers, CancelCas(t) PROVE QuantityConserved'
  BY <1>4, <1>11 DEF CancelCas
<1>12. CASE UNCHANGED vars
  BY <1>4, <1>12 DEF vars
<1>13. QED
  BY <1>1, <1>2, <1>3, <1>5, <1>6, <1>7, <1>8, <1>9, <1>10, <1>11, <1>12
     DEF Next, FillStep, CancelStep

(* Only the grant of a claim makes the order Filled, and only a completing  *)
(* claim grants Filled, so its quantity is still in FilledQty.              *)
LEMMA FullStep == IInv /\ [Next]_vars => FullClaimInv' /\ FilledIsFull'
<1> SUFFICES ASSUME IInv, [Next]_vars PROVE FullClaimInv' /\ FilledIsFull'
  OBVIOUS
<1>0. FilledQty' <= Quantity
  BY QuantityStep DEF QuantityConserved
<1> USE OrderAssumption, <1>0
     DEF IInv, Typed, ControlInv, FullClaimInv, FilledIsFull, Threads, Goto,
         Return, ReturnFill, Enter, locals, Filling, Claiming, FillerLabels,
         Refused, Terminal
<1>1. ASSUME NEW t \in Fillers, NEW q \in FillSizes, CallTryFill(t, q)
      PROVE  FullClaimInv' /\ FilledIsFull'
  BY <1>1 DEF CallTryFill
<1>2. ASSUME NEW t \in Fillers, LoadStatus(t)
      PROVE  FullClaimInv' /\ FilledIsFull'
  BY <1>2 DEF LoadStatus
<1>3. ASSUME NEW t \in Fillers, LoadFilled(t)
      PROVE  FullClaimInv' /\ FilledIsFull'
  BY <1>3 DEF LoadFilled
<1>4. ASSUME NEW t \in Fillers, CasFilled(t)
      PROVE  FullClaimInv' /\ FilledIsFull'
  <2>1. FilledQty' \in Int /\ FilledQty' >= FilledQty
    BY <1>4 DEF CasFilled
  <2>2. FilledIsFull'
    BY <1>4, <2>1 DEF CasFilled, QuantityConserved
  <2>3. FullClaimInv'
    BY <1>4, <2>1 DEF CasFilled, QuantityConserved
  <2>4. QED
    BY <2>2, <2>3
<1>5. ASSUME NEW t \in Fillers, ReloadStatus(t)
      PROVE  FullClaimInv' /\ FilledIsFull'
  BY <1>5 DEF ReloadStatus
<1>6. ASSUME NEW t \in Fillers, CasStatus(t)
      PROVE  FullClaimInv' /\ FilledIsFull'
  BY <1>6 DEF CasStatus, NewStatus
<1>7. ASSUME NEW t \in Fillers, Rollback(t)
      PROVE  FullClaimInv' /\ FilledIsFull'
  BY <1>7 DEF Rollback
<1>8. ASSUME NEW t \in Cancellers, CallTryCancel(t)
      PROVE  FullClaimInv' /\ FilledIsFull'
  BY <1>8 DEF CallTryCancel
<1>9. ASSUME NEW t \in Cancellers, CancelLoad(t)
      PROVE  FullClaimInv' /\ FilledIsFull'
  BY <1>9 DEF CancelLoad
<1>10. ASSUME NEW t \in Cancellers, CancelCas(t)
       PROVE  FullClaimInv' /\ FilledIsFull'
  BY <1>10 DEF CancelCas
<1>11. CASE UNCHANGED vars
  BY <1>11 DEF vars
<1>12. QED
  BY <1>1, <1>2, <1>3, <1>4, <1>5, <1>6, <1>7, <1>8, <1>9, <1>10, <1>11
     DEF Next, FillStep, CancelStep

-----------------------------------------------------------------------------
(* The invariant holds in every reachable state of the order. *)
LEMMA Inductive == Spec => []IInv
<1>1. Init => IInv
  BY InitInv
<1>2. IInv /\ [Next]_vars => IInv'
  BY TypeStep, ControlStep, QuantityStep, FullStep DEF IInv
<1>3. QED
  BY <1>1, <1>2, PTL DEF Spec

LEMMA AlwaysTyped == Spec => []Typed
<1>1. IInv => Typed
  BY DEF IInv
<1>2. QED
  BY <1>1, Inductive, PTL

(* Every variable keeps its type and its bounds, whatever the interleaving  *)
(* of the calls on the two atomics of the order: no call claims more than   *)
(* it found open, and no rollback takes FilledQty below zero.               *)
THEOREM TypeCorrect == Spec => []TypeOK
<1>1. IInv => TypeOK
  <2> SUFFICES ASSUME IInv PROVE TypeOK
    OBVIOUS
  <2> USE OrderAssumption DEF IInv
  <2>1. FilledQty \in 0..Quantity /\ granted \in 0..Quantity
    BY ClaimedUnitsFinite DEF Typed, QuantityConserved
  <2>2. \A t \in Fillers : fillQty[t] \in Nat /\ curFilled[t] \in 0..Quantity
    BY DEF Typed, ControlInv
  <2>3. fillQty \in [Fillers -> Nat] /\ curFilled \in [Fillers -> 0..Quantity]
    BY <2>2 DEF Typed
  <2>4. \A t \in Fillers :
          /\ pc[t] # "idle" => fillQty[t] > 0
          /\ pc[t] \in Claiming \cup {"casFilled"} => curFilled[t] + fillQty[t] <= Quantity
    BY DEF Typed, ControlInv, Filling
  <2>5. QED
    BY <2>1, <2>3, <2>4 DEF Typed, TypeOK
<1>2. QED
  BY <1>1, Inductive, PTL

(* No interleaving of claims, rollbacks and cancellations of TryFill and    *)
(* TryCancel overfills the order, loses or invents quantity.                *)
THEOREM Conservation == Spec => []QuantityConserved
<1>1. IInv => QuantityConserved
  BY DEF IInv
<1>2. QED
  BY <1>1, Inductive, PTL

(* TryFill announces Filled only when the whole quantity is filled, although *)
(* the status is written after, and apart from, the quantity.               *)
THEOREM NeverFilledEarly == Spec => []FilledIsFull
<1>1. IInv => FilledIsFull
  BY DEF IInv
<1>2. QED
  BY <1>1, Inductive, PTL

(* When all calls have returned, the filled and the cancelled quantity of a *)
(* cancelled order add up to its quantity: TryCancel and TryFill agree on   *)
(* who won every unit.                                                      *)
THEOREM CancelAddsUp == Spec => []CancelSettles
<1>1. IInv => CancelSettles
  <2> SUFFICES ASSUME IInv, Quiescent, Status = "Cancelled"
               PROVE  granted + CancelQuantity = Quantity
    BY DEF CancelSettles
  <2>1. ClaimedUnits = {}
    BY DEF Quiescent, ClaimedUnits, Claiming, Threads
  <2>2. FilledQty = granted
    BY <2>1, FS_EmptySet DEF IInv, Typed, QuantityConserved
  <2>3. QED
    BY <2>2, OrderAssumption DEF IInv, Typed, CancelQuantity
<1>2. QED
  BY <1>1, Inductive, PTL

(* After TryCancel has won, no TryFill already under way is granted.        *)
THEOREM CancelFinal == Spec => CancelIsFinal
<1>1. IInv /\ [Next]_vars
        => [Status = "Cancelled" => Status' = "Cancelled" /\ granted' = granted]_vars
  <2> SUFFICES ASSUME IInv, Next, Status = "Cancelled"
               PROVE  Status' = "Cancelled" /\ granted' = granted
    OBVIOUS
  <2> USE DEF IInv, ControlInv, Refused, Terminal
  <2>1. ASSUME NEW t \in Fillers, FillStep(t)
        PROVE  Status' = "Cancelled" /\ granted' = granted
    BY <2>1 DEF FillStep, LoadStatus, LoadFilled, CasFilled, ReloadStatus,
                CasStatus, Rollback
  <2>2. ASSUME NEW t \in Fillers, NEW q \in FillSizes, CallTryFill(t, q)
        PROVE  Status' = "Cancelled" /\ granted' = granted
    BY <2>2 DEF CallTryFill
  <2>3. ASSUME NEW t \in Cancellers, CancelStep(t) \/ CallTryCancel(t)
        PROVE  Status' = "Cancelled" /\ granted' = granted
    BY <2>3 DEF CancelStep, CancelLoad, CancelCas, CallTryCancel
  <2>4. QED
    BY <2>1, <2>2, <2>3 DEF Next
<1>2. QED
  BY <1>1, Inductive, PTL DEF Spec, CancelIsFinal

-----------------------------------------------------------------------------
(* Under the book's mutex.  At most one call is in progress, so what it has *)
(* loaded is still true when it acts on it.                                 *)
SerialInv ==
  /\ \A t, u \in Threads : pc[t] # "idle" /\ pc[u] # "idle" => t = u
  /\ Status = "Filled" <=> granted = Quantity
  /\ Quiescent => FilledQty = granted
  /\ \A t \in Fillers :
       /\ pc[t] \in {"loadStatus", "loadFilled"} => FilledQty = granted
       /\ pc[t] = "casFilled" => curFilled[t] = FilledQty /\ FilledQty = granted
       /\ pc[t] \in {"reloadStatus", "casStatus"} =>
            curFilled[t] = granted /\ FilledQty = granted + fillQty[t]
       /\ pc[t] \in {"loadFilled"} \cup {"casFilled"} \cup Claiming =>
            Status \notin Refused
       /\ pc[t] = "casStatus" => cur[t] = Status
  /\ \A t \in Cancellers :
       /\ pc[t] # "idle" => FilledQty = granted
       /\ pc[t] = "cancelCas" => cur[t] = Status

(* A step of the calls one at a time is a step of the calls. *)
LEMMA SerialIsNext == SerialNext => Next
  BY DEF SerialNext, Next

(* At first no call is under way. *)
LEMMA SerialInit == Init => SerialInv
  BY OrderAssumption DEF Init, SerialInv, Threads, Claiming

(* With the calls one at a time, at most one is under way, and it has seen the order as it is. *)
LEMMA SerialStep == IInv /\ SerialInv /\ [SerialNext]_vars => SerialInv'
<1> SUFFICES ASSUME IInv, SerialInv, [SerialNext]_vars PROVE SerialInv'
  OBVIOUS
<1>0. granted \in Nat /\ Quantity \in Nat \ {0} /\ FilledQty \in Int
  BY OrderAssumption DEF IInv, Typed, QuantityConserved
<1> USE OrderAssumption, <1>0
     DEF IInv, Typed, ControlInv, SerialInv, Quiescent, Threads, Goto,
         Return, ReturnFill, Enter, locals, Filling, Claiming, FillerLabels,
         CancellerLabels, Refused, Terminal
<1>1. ASSUME NEW t \in Fillers, NEW q \in FillSizes, Quiescent, CallTryFill(t, q)
      PROVE  SerialInv'
  BY <1>1 DEF CallTryFill
<1>2. ASSUME NEW t \in Fillers, LoadStatus(t) PROVE SerialInv'
  BY <1>2 DEF LoadStatus
<1>3. ASSUME NEW t \in Fillers, LoadFilled(t) PROVE SerialInv'
  BY <1>3 DEF LoadFilled
<1>4. ASSUME NEW t \in Fillers, CasFilled(t) PROVE SerialInv'
  BY <1>4 DEF CasFilled
<1>5. ASSUME NEW t \in Fillers, ReloadStatus(t) PROVE SerialInv'
  BY <1>5 DEF ReloadStatus
<1>6. ASSUME NEW t \in Fillers, CasStatus(t) PROVE SerialInv'
  BY <1>6 DEF CasStatus, NewStatus
<1>7. ASSUME NEW t \in Fillers, Rollback(t) PROVE SerialInv'
  BY <1>7 DEF Rollback
<1>8. ASSUME NEW t \in Cancellers, Quiescent, CallTryCancel(t) PROVE SerialInv'
  BY <1>8 DEF CallTryCancel
<1>9. ASSUME NEW t \in Cancellers, CancelLoad(t) PROVE SerialInv'
  BY <1>9 DEF CancelLoad
<1>10. ASSUME NEW t \in Cancellers, CancelCas(t) PROVE SerialInv'
  BY <1>10 DEF CancelCas
<1>11. CASE UNCHANGED vars
  BY <1>11 DEF vars
<1>12. QED
  BY <1>1, <1>2, <1>3, <1>4, <1>5, <1>6, <1>7, <1>8, <1>9, <1>10, <1>11
     DEF SerialNext, FillStep, CancelStep

(* Both invariants hold when the calls come one at a time. *)
LEMMA SerialInductive == SerialSpec => [](IInv /\ SerialInv)
<1>1. Init => IInv /\ SerialInv
  BY InitInv, SerialInit
<1>2. IInv /\ SerialInv /\ [SerialNext]_vars => (IInv /\ SerialInv)'
  BY SerialIsNext, SerialStep, TypeStep, ControlStep, QuantityStep, FullStep
     DEF IInv
<1>3. QED
  BY <1>1, <1>2, PTL DEF SerialSpec

(* Used under the book's mutex, an order whose quantity is all granted says *)
(* Filled; without the mutex it may not (MCOrderFull.cfg).                  *)
THEOREM SerialFull == SerialSpec => []FullyFilledIsFilled
<1>1. IInv /\ SerialInv => FullyFilledIsFilled
  <2> SUFFICES ASSUME IInv, SerialInv, Quiescent, granted = Quantity
               PROVE  Status = "Filled"
    BY DEF FullyFilledIsFilled
  <2>1. QED
    BY DEF IInv, SerialInv
<1>2. QED
  BY <1>1, SerialInductive, PTL

(* The calls of model/order.go, used as the book uses them, implement the   *)
(* atomic order of AtomicOrder.                                             *)
THEOREM SerialRefines == SerialSpec => SerialIsAtomic
<1>1. Init => Atomic!Init
  BY DEF Init, Atomic!Init
<1>2. IInv /\ SerialInv /\ [SerialNext]_vars => [Atomic!Next]_<<granted, Status>>
  <2> SUFFICES ASSUME IInv, SerialInv, SerialNext
               PROVE  Atomic!Next \/ UNCHANGED <<granted, Status>>
    BY DEF vars
  <2>0. granted \in Nat /\ FilledQty \in Int /\ Quantity \in Nat
    BY OrderAssumption DEF IInv, Typed, QuantityConserved
  <2> USE <2>0 DEF IInv, Typed, SerialInv
  <2>1. ASSUME NEW t \in Fillers, CasStatus(t)
        PROVE  Atomic!Next \/ UNCHANGED <<granted, Status>>
    <3>1. CASE Status = cur[t]
      <4>1. fillQty[t] \in 1..(Quantity - granted)
        BY <2>1 DEF CasStatus, ControlInv, Filling, FillerLabels, Claiming
      <4>2. granted' = granted + fillQty[t] /\ Status' = NewStatus(t)
        BY <2>1, <3>1 DEF CasStatus
      <4>3. NewStatus(t) = Atomic!StatusAfter(granted')
        BY <2>1, <4>1, <4>2 DEF CasStatus, NewStatus, Atomic!StatusAfter
      <4>4. Status \in Atomic!Active
        BY <2>1, <4>1, OrderAssumption
           DEF CasStatus, ControlInv, Atomic!Active, Statuses, Claiming, Refused
      <4>5. Atomic!Fill(fillQty[t])
        BY <4>2, <4>3, <4>4 DEF Atomic!Fill
      <4>6. QED
        BY <4>1, <4>5 DEF Atomic!Next
    <3>2. CASE Status # cur[t]
      BY <2>1, <3>2 DEF CasStatus
    <3>3. QED
      BY <3>1, <3>2
  <2>2. ASSUME NEW t \in Cancellers, CancelCas(t)
        PROVE  Atomic!Next \/ UNCHANGED <<granted, Status>>
    <3>1. CASE Status = cur[t]
      BY <2>2, <3>1
         DEF CancelCas, ControlInv, Terminal, Statuses, Atomic!Next,
             Atomic!Cancel, Atomic!Active
    <3>2. CASE Status # cur[t]
      BY <2>2, <3>2 DEF CancelCas
    <3>3. QED
      BY <3>1, <3>2
  <2>3. ASSUME NEW t \in Fillers,
               LoadStatus(t) \/ LoadFilled(t) \/ CasFilled(t)
                 \/ ReloadStatus(t) \/ Rollback(t)
        PROVE  UNCHANGED <<granted, Status>>
    BY <2>3 DEF LoadStatus, LoadFilled, CasFilled, ReloadStatus, Rollback
  <2>4. ASSUME NEW t \in Fillers, NEW q \in FillSizes, CallTryFill(t, q)
        PROVE  UNCHANGED <<granted, Status>>
    BY <2>4 DEF CallTryFill
  <2>5. ASSUME NEW t \in Cancellers, CancelLoad(t) \/ CallTryCancel(t)
        PROVE  UNCHANGED <<granted, Status>>
    BY <2>5 DEF CancelLoad, CallTryCancel
  <2>6. QED
    BY <2>1, <2>2, <2>3, <2>4, <2>5 DEF SerialNext, FillStep, CancelStep
<1>3. QED
  BY <1>1, <1>2, SerialInductive, PTL DEF SerialSpec, SerialIsAtomic, Atomic!Spec

-----------------------------------------------------------------------------
(* Lock-freedom *)

(* The steps a call has left if nobody interferes: a compare-and-swap whose *)
(* value is stale is lost, and goes back to the load.                       *)
StepsLeft(t) ==
  CASE pc[t] = "idle"         -> 0
    [] pc[t] = "loadStatus"   -> 3
    [] pc[t] = "loadFilled"   -> 2
    [] pc[t] = "casFilled"    -> IF FilledQty = curFilled[t] THEN 1 ELSE 4
    [] pc[t] = "reloadStatus" -> 2
    [] pc[t] = "casStatus"    -> IF Status = cur[t] THEN 1 ELSE 3
    [] pc[t] = "rollback"     -> 1
    [] pc[t] = "cancelLoad"   -> 2
    [] pc[t] = "cancelCas"    -> IF Status = cur[t] THEN 1 ELSE 3

(* The times that a call may still write an atomic: TryFill claims, and     *)
(* then stores its status or gives its claim back; TryCancel writes once.   *)
WritesLeft(t) ==
  CASE pc[t] = "idle" -> 0
    [] pc[t] \in {"loadStatus", "loadFilled", "casFilled"} -> 2
    [] pc[t] \in Claiming \cup {"cancelLoad", "cancelCas"} -> 1

(* What a write costs: three steps of every call at most, since each may    *)
(* lose its compare-and-swap to it, and the writer's own.                   *)
WriteCost == 3 * Cardinality(Threads) + 2

Weight == [t \in Threads |-> WriteCost * WritesLeft(t) + StepsLeft(t)]

(* The steps that the calls in progress have left, all together.            *)
Potential == SumFunctionOnSet(Weight, Threads)

CallCost == 2 * WriteCost + 3

(* Every step of a call takes one off at least, whether its compare-and-    *)
(* swap succeeds or is lost, and a new call adds a fixed number of them.    *)
CallsAmortized ==
  [][ /\ (\E t \in Fillers : FillStep(t)) \/ (\E t \in Cancellers : CancelStep(t))
           => Potential' < Potential
      /\ (\E t \in Fillers, q \in FillSizes : CallTryFill(t, q))
           \/ (\E t \in Cancellers : CallTryCancel(t))
           => Potential' <= Potential + CallCost ]_vars

(* A program has finitely many goroutines. *)
LEMMA ThreadsFinite ==
  /\ IsFiniteSet(Threads) /\ Cardinality(Threads) \in Nat
  /\ WriteCost \in Nat
<1>1. IsFiniteSet(Threads)
  BY OrderAssumption, FS_Union DEF Threads
<1>2. Cardinality(Threads) \in Nat
  BY <1>1, FS_CardinalityType
<1>3. QED
  BY <1>1, <1>2 DEF WriteCost

LEMMA Places ==
  ASSUME Typed, NEW t \in Threads
  PROVE  /\ StepsLeft(t) \in 0..4 /\ WritesLeft(t) \in 0..2
         /\ pc[t] \in FillerLabels \cup CancellerLabels
<1>1. pc[t] \in FillerLabels \cup CancellerLabels
  BY DEF Typed
<1>2. StepsLeft(t) \in 0..4
  BY <1>1 DEF StepsLeft, FillerLabels, CancellerLabels
<1>3. WritesLeft(t) \in 0..2
  BY <1>1 DEF WritesLeft, FillerLabels, CancellerLabels, Claiming
<1>4. QED
  BY <1>1, <1>2, <1>3

LEMMA WeightType == Typed => \A t \in Threads : Weight[t] \in Nat
<1> SUFFICES ASSUME Typed, NEW t \in Threads PROVE Weight[t] \in Nat
  OBVIOUS
<1> DEFINE s == StepsLeft(t)
           w == WritesLeft(t)
           k == WriteCost
<1>1. s \in Nat /\ w \in 0..2
  BY Places
<1>2. k \in Nat
  BY ThreadsFinite
<1>3. Weight[t] = k * w + s
  BY DEF Weight
<1> HIDE DEF s, w, k
<1>4. k * w \in Nat
  BY <1>1, <1>2
<1>5. QED
  BY <1>1, <1>3, <1>4

LEMMA WeightTypeNext == Typed' => \A t \in Threads : Weight'[t] \in Nat
<1>1. (Typed => \A t \in Threads : Weight[t] \in Nat)'
  BY WeightType, PTL
<1>2. QED
  BY <1>1

(* A call that does not move keeps its writes, and has at most three steps  *)
(* more to make after somebody else's.                                      *)
LEMMA Bystander ==
  ASSUME Typed, NEW u \in Threads,
         pc'[u] = pc[u], cur'[u] = cur[u], u \in Fillers => curFilled'[u] = curFilled[u]
  PROVE  /\ Weight'[u] <= Weight[u] + 3
         /\ Status' = Status /\ FilledQty' = FilledQty => Weight'[u] = Weight[u]
<1>1. WritesLeft(u)' = WritesLeft(u)
  BY DEF WritesLeft
<1>2. pc[u] = "casFilled" => u \in Fillers
  BY DEF Typed, Threads, CancellerLabels
<1>3. StepsLeft(u)' <= StepsLeft(u) + 3
  <2>1. pc[u] \in FillerLabels \cup CancellerLabels
    BY Places
  <2>2. QED
    BY <2>1, <1>2 DEF StepsLeft, FillerLabels, CancellerLabels
<1>4. Status' = Status /\ FilledQty' = FilledQty => StepsLeft(u)' = StepsLeft(u)
  BY <1>2 DEF StepsLeft
<1> DEFINE k == WriteCost
           w == WritesLeft(u)
<1>5. Weight[u] = k * w + StepsLeft(u) /\ Weight'[u] = k * w + StepsLeft(u)'
  BY <1>1 DEF Weight, WriteCost
<1>6. k * w \in Nat
  <2>1. k \in Nat /\ w \in 0..2
    BY ThreadsFinite, Places
  <2> HIDE DEF k, w
  <2>2. QED
    BY <2>1
<1>7. StepsLeft(u) \in Int /\ StepsLeft(u)' \in Int
  <2>1. pc[u] \in FillerLabels \cup CancellerLabels
    BY Places
  <2>2. StepsLeft(u)' \in Int
    BY <2>1 DEF StepsLeft, FillerLabels, CancellerLabels
  <2>3. QED
    BY <2>2, Places
<1> HIDE DEF k, w
<1>8. QED
  BY <1>3, <1>4, <1>5, <1>6, <1>7

(* A step of t leaves the other calls where they are. *)
OthersStay(t) ==
  /\ \A u \in Threads \ {t} : pc'[u] = pc[u] /\ cur'[u] = cur[u]
  /\ \A u \in Fillers \ {t} : curFilled'[u] = curFilled[u]

(* What a step of t takes off its own call it takes off the potential, if   *)
(* it writes no atomic; a write is paid for.                                *)
LEMMA StepCounts ==
  ASSUME Typed, Typed', NEW t \in Threads, OthersStay(t)
  PROVE  /\ Status' = Status /\ FilledQty' = FilledQty
              => Potential' = Potential + Weight'[t] - Weight[t]
         /\ Weight'[t] <= Weight[t] - WriteCost + 1 => Potential' < Potential
         /\ Potential \in Int /\ Weight[t] \in Int /\ Weight'[t] \in Int
<1> DEFINE f == Weight
           g == Weight'
           n == Cardinality(Threads)
<1>1. \A u \in Threads : f[u] \in Int /\ g[u] \in Int
  BY WeightType, WeightTypeNext
<1>2. \A u \in Threads \ {t} : /\ g[u] <= f[u] + 3
                               /\ Status' = Status /\ FilledQty' = FilledQty => f[u] = g[u]
  BY Bystander DEF OthersStay
<1>3. Potential = SumFunctionOnSet(f, Threads) /\ Potential' = SumFunctionOnSet(g, Threads)
  BY DEF Potential, Threads
<1>4. WriteCost = 3 * n + 2 /\ n \in Nat
  BY ThreadsFinite DEF WriteCost
<1> HIDE DEF f, g, n
<1>5. SumFunctionOnSet(f, Threads) \in Int /\ SumFunctionOnSet(g, Threads) \in Int
  BY <1>1, ThreadsFinite, SumRemove
<1>6. f[t] \in Int /\ g[t] \in Int
  BY <1>1
<1>7. ASSUME Status' = Status, FilledQty' = FilledQty
      PROVE  Potential' = Potential + g[t] - f[t]
  <2>1. \A u \in Threads \ {t} : f[u] = g[u]
    BY <1>2, <1>7
  <2>2. SumFunctionOnSet(g, Threads) = SumFunctionOnSet(f, Threads) - f[t] + g[t]
    BY <1>1, <2>1, ThreadsFinite, SumChange
  <2>3. QED
    BY <1>3, <1>5, <1>6, <2>2
<1>8. ASSUME g[t] <= f[t] - WriteCost + 1
      PROVE  Potential' < Potential
  <2>1. \A u \in Threads \ {t} : g[u] <= f[u] + 3
    BY <1>2
  <2>2. SumFunctionOnSet(g, Threads) <= SumFunctionOnSet(f, Threads) + g[t] - f[t] + 3 * n
    BY <1>1, <2>1, ThreadsFinite, SumShiftBut DEF n
  <2>3. QED
    BY <1>3, <1>4, <1>5, <1>6, <1>8, <2>2
<1>9. QED
  BY <1>3, <1>5, <1>6, <1>7, <1>8 DEF f, g

(* What a call weighs at each of its places. *)
LEMMA Weights ==
  \A t \in Threads :
    /\ pc[t] = "idle" => Weight[t] = 0
    /\ pc[t] = "loadStatus" => Weight[t] = 2 * WriteCost + 3
    /\ pc[t] = "loadFilled" => Weight[t] = 2 * WriteCost + 2
    /\ pc[t] = "casFilled" =>
         Weight[t] = 2 * WriteCost + (IF FilledQty = curFilled[t] THEN 1 ELSE 4)
    /\ pc[t] \in {"reloadStatus", "cancelLoad"} => Weight[t] = WriteCost + 2
    /\ pc[t] \in {"casStatus", "cancelCas"} =>
         Weight[t] = WriteCost + (IF Status = cur[t] THEN 1 ELSE 3)
    /\ pc[t] = "rollback" => Weight[t] = WriteCost + 1
<1> TAKE t \in Threads
<1>1. Weight[t] = WriteCost * WritesLeft(t) + StepsLeft(t)
  BY DEF Weight
<1>2. WriteCost \in Nat
  BY ThreadsFinite
<1>3. /\ WriteCost * 0 = 0 /\ WriteCost * 1 = WriteCost /\ WriteCost * 2 = 2 * WriteCost
  BY <1>2
<1>4. QED
  BY <1>1, <1>2, <1>3 DEF WritesLeft, StepsLeft, Claiming

LEMMA WeightsNext ==
  \A t \in Threads :
    /\ pc'[t] = "idle" => Weight'[t] = 0
    /\ pc'[t] = "loadStatus" => Weight'[t] = 2 * WriteCost + 3
    /\ pc'[t] = "loadFilled" => Weight'[t] = 2 * WriteCost + 2
    /\ pc'[t] = "casFilled" =>
         Weight'[t] = 2 * WriteCost + (IF FilledQty' = curFilled'[t] THEN 1 ELSE 4)
    /\ pc'[t] \in {"reloadStatus", "cancelLoad"} => Weight'[t] = WriteCost + 2
    /\ pc'[t] \in {"casStatus", "cancelCas"} =>
         Weight'[t] = WriteCost + (IF Status' = cur'[t] THEN 1 ELSE 3)
    /\ pc'[t] = "rollback" => Weight'[t] = WriteCost + 1
<1> TAKE t \in Threads
<1>1. Weight'[t] = WriteCost * WritesLeft(t)' + StepsLeft(t)'
  BY DEF Weight, WriteCost, Threads
<1>2. WriteCost \in Nat
  BY ThreadsFinite
<1>3. /\ WriteCost * 0 = 0 /\ WriteCost * 1 = WriteCost /\ WriteCost * 2 = 2 * WriteCost
  BY <1>2
<1>4. QED
  BY <1>1, <1>2, <1>3 DEF WritesLeft, StepsLeft, Claiming

(* The steps of TryFill. *)
LEMMA FillStepWorks ==
  ASSUME Typed, Typed', NEW t \in Fillers, FillStep(t)
  PROVE  Potential' < Potential
<1>1. t \in Threads /\ t \notin Cancellers /\ WriteCost \in Nat
  BY ThreadsFinite, OrderAssumption DEF Threads
<1>2. pc \in [Threads -> FillerLabels \cup CancellerLabels] /\ cur \in [Threads -> Statuses]
      /\ curFilled \in [Fillers -> Int] /\ FilledQty \in Int
  BY DEF Typed
<1> USE DEF Goto, Return, ReturnFill, locals
<1>3. OthersStay(t)
  BY <1>1, <1>2 DEF OthersStay, FillStep, LoadStatus, LoadFilled, CasFilled, ReloadStatus,
     CasStatus, Rollback
<1>4. /\ Status' = Status /\ FilledQty' = FilledQty
           => Potential' = Potential + Weight'[t] - Weight[t]
      /\ Weight'[t] <= Weight[t] - WriteCost + 1 => Potential' < Potential
      /\ Potential \in Int /\ Weight[t] \in Int /\ Weight'[t] \in Int
  BY <1>1, <1>3, StepCounts
<1>5. ASSUME Status' = Status, FilledQty' = FilledQty, Weight'[t] < Weight[t]
      PROVE  Potential' < Potential
  BY <1>4, <1>5
<1>6. CASE LoadStatus(t)
  <2>1. pc[t] = "loadStatus" /\ pc'[t] \in {"idle", "loadFilled"}
        /\ Status' = Status /\ FilledQty' = FilledQty
    BY <1>1, <1>2, <1>6 DEF LoadStatus
  <2>2. Weight'[t] < Weight[t]
    BY <1>1, <2>1, Weights, WeightsNext
  <2>3. QED
    BY <1>5, <2>1, <2>2
<1>7. CASE LoadFilled(t)
  <2>1. pc[t] = "loadFilled" /\ Status' = Status /\ FilledQty' = FilledQty
        /\ (pc'[t] = "idle" \/ (pc'[t] = "casFilled" /\ curFilled'[t] = FilledQty))
    BY <1>1, <1>2, <1>7 DEF LoadFilled
  <2>2. Weight'[t] < Weight[t]
    BY <1>1, <2>1, Weights, WeightsNext
  <2>3. QED
    BY <1>5, <2>1, <2>2
<1>8. CASE CasFilled(t)
  <2>1. CASE FilledQty = curFilled[t]
    <3>1. pc[t] = "casFilled" /\ pc'[t] = "reloadStatus"
      BY <1>1, <1>2, <1>8, <2>1 DEF CasFilled
    <3>2. Weight[t] = 2 * WriteCost + 1 /\ Weight'[t] = WriteCost + 2
      BY <1>1, <2>1, <3>1, Weights, WeightsNext
    <3>3. QED
      BY <1>1, <1>4, <3>2
  <2>2. CASE FilledQty # curFilled[t]
    <3>1. pc[t] = "casFilled" /\ pc'[t] = "loadStatus"
          /\ Status' = Status /\ FilledQty' = FilledQty
      BY <1>1, <1>2, <1>8, <2>2 DEF CasFilled
    <3>2. Weight[t] = 2 * WriteCost + 4 /\ Weight'[t] = 2 * WriteCost + 3
      BY <1>1, <2>2, <3>1, Weights, WeightsNext
    <3>3. QED
      BY <1>1, <1>5, <3>1, <3>2
  <2>3. QED
    BY <2>1, <2>2
<1>9. CASE ReloadStatus(t)
  <2>1. pc[t] = "reloadStatus" /\ Status' = Status /\ FilledQty' = FilledQty
        /\ cur'[t] = Status /\ pc'[t] \in {"rollback", "casStatus"}
    BY <1>1, <1>2, <1>9 DEF ReloadStatus
  <2>2. Weight[t] = WriteCost + 2 /\ Weight'[t] = WriteCost + 1
    BY <1>1, <2>1, Weights, WeightsNext
  <2>3. QED
    BY <1>1, <1>5, <2>1, <2>2
<1>10. CASE CasStatus(t)
  <2>1. CASE Status = cur[t]
    <3>1. pc[t] = "casStatus" /\ pc'[t] = "idle"
      BY <1>1, <1>2, <1>10, <2>1 DEF CasStatus
    <3>2. Weight[t] = WriteCost + 1 /\ Weight'[t] = 0
      BY <1>1, <2>1, <3>1, Weights, WeightsNext
    <3>3. QED
      BY <1>1, <1>4, <3>2
  <2>2. CASE Status # cur[t]
    <3>1. pc[t] = "casStatus" /\ pc'[t] = "reloadStatus"
          /\ Status' = Status /\ FilledQty' = FilledQty
      BY <1>1, <1>2, <1>10, <2>2 DEF CasStatus
    <3>2. Weight[t] = WriteCost + 3 /\ Weight'[t] = WriteCost + 2
      BY <1>1, <2>2, <3>1, Weights, WeightsNext
    <3>3. QED
      BY <1>1, <1>5, <3>1, <3>2
  <2>3. QED
    BY <2>1, <2>2
<1>11. CASE Rollback(t)
  <2>1. pc[t] = "rollback" /\ pc'[t] = "idle"
    BY <1>1, <1>2, <1>11 DEF Rollback
  <2>2. Weight[t] = WriteCost + 1 /\ Weight'[t] = 0
    BY <1>1, <2>1, Weights, WeightsNext
  <2>3. QED
    BY <1>1, <1>4, <2>2
<1>12. QED
  BY <1>6, <1>7, <1>8, <1>9, <1>10, <1>11 DEF FillStep

(* The steps of TryCancel. *)
LEMMA CancelStepWorks ==
  ASSUME Typed, Typed', NEW t \in Cancellers, CancelStep(t)
  PROVE  Potential' < Potential
<1>1. t \in Threads /\ t \notin Fillers /\ WriteCost \in Nat
  BY ThreadsFinite, OrderAssumption DEF Threads
<1>2. pc \in [Threads -> FillerLabels \cup CancellerLabels] /\ cur \in [Threads -> Statuses]
  BY DEF Typed
<1> USE DEF Goto, Return
<1>3. OthersStay(t)
  BY <1>1, <1>2 DEF OthersStay, CancelStep, CancelLoad, CancelCas
<1>4. /\ Status' = Status /\ FilledQty' = FilledQty
           => Potential' = Potential + Weight'[t] - Weight[t]
      /\ Weight'[t] <= Weight[t] - WriteCost + 1 => Potential' < Potential
      /\ Potential \in Int /\ Weight[t] \in Int /\ Weight'[t] \in Int
  BY <1>1, <1>3, StepCounts
<1>5. ASSUME Status' = Status, FilledQty' = FilledQty, Weight'[t] < Weight[t]
      PROVE  Potential' < Potential
  BY <1>4, <1>5
<1>6. CASE CancelLoad(t)
  <2>1. pc[t] = "cancelLoad" /\ Status' = Status /\ FilledQty' = FilledQty
        /\ (pc'[t] = "idle" \/ (pc'[t] = "cancelCas" /\ cur'[t] = Status))
    BY <1>1, <1>2, <1>6 DEF CancelLoad
  <2>2. Weight[t] = WriteCost + 2 /\ Weight'[t] \in {0, WriteCost + 1}
    BY <1>1, <2>1, Weights, WeightsNext
  <2>3. QED
    BY <1>1, <1>5, <2>1, <2>2
<1>7. CASE CancelCas(t)
  <2>1. CASE Status = cur[t]
    <3>1. pc[t] = "cancelCas" /\ pc'[t] = "idle"
      BY <1>1, <1>2, <1>7, <2>1 DEF CancelCas
    <3>2. Weight[t] = WriteCost + 1 /\ Weight'[t] = 0
      BY <1>1, <2>1, <3>1, Weights, WeightsNext
    <3>3. QED
      BY <1>1, <1>4, <3>2
  <2>2. CASE Status # cur[t]
    <3>1. pc[t] = "cancelCas" /\ pc'[t] = "cancelLoad"
          /\ Status' = Status /\ FilledQty' = FilledQty
      BY <1>1, <1>2, <1>7, <2>2 DEF CancelCas
    <3>2. Weight[t] = WriteCost + 3 /\ Weight'[t] = WriteCost + 2
      BY <1>1, <2>2, <3>1, Weights, WeightsNext
    <3>3. QED
      BY <1>1, <1>5, <3>1, <3>2
  <2>3. QED
    BY <2>1, <2>2
<1>8. QED
  BY <1>6, <1>7 DEF CancelStep

(* A call that begins. *)
LEMMA CallCosts ==
  ASSUME Typed, Typed', NEW t \in Threads,
         (t \in Fillers /\ \E q \in FillSizes : CallTryFill(t, q))
           \/ (t \in Cancellers /\ CallTryCancel(t))
  PROVE  Potential' <= Potential + CallCost
<1>1. pc \in [Threads -> FillerLabels \cup CancellerLabels] /\ cur \in [Threads -> Statuses]
      /\ curFilled \in [Fillers -> Int] /\ WriteCost \in Nat
  BY ThreadsFinite DEF Typed
<1> USE DEF Goto, Return, ReturnFill, Enter, locals
<1>2. OthersStay(t) /\ Status' = Status /\ FilledQty' = FilledQty /\ pc[t] = "idle"
      /\ pc'[t] \in {"idle", "loadStatus", "cancelLoad"}
  BY <1>1 DEF OthersStay, CallTryFill, CallTryCancel
<1>3. Potential' = Potential + Weight'[t] - Weight[t] /\ Potential \in Int
  BY <1>2, StepCounts
<1>4. Weight[t] = 0 /\ Weight'[t] \in {0, 2 * WriteCost + 3, WriteCost + 2}
  BY <1>2, Weights, WeightsNext
<1>5. QED
  BY <1>1, <1>3, <1>4 DEF CallCost

(* TryFill and TryCancel are lock-free: in whatever order the goroutines    *)
(* run, n calls make n * CallCost steps at most, lost compare-and-swaps     *)
(* included, so that no call spins while none returns.                      *)
THEOREM LockFree == Spec => [](Potential \in Nat) /\ CallsAmortized
<1> DEFINE Amortized ==
      /\ (\E t \in Fillers : FillStep(t)) \/ (\E t \in Cancellers : CancelStep(t))
           => Potential' < Potential
      /\ (\E t \in Fillers, q \in FillSizes : CallTryFill(t, q))
           \/ (\E t \in Cancellers : CallTryCancel(t))
           => Potential' <= Potential + CallCost
<1>1. ASSUME Typed, Typed', [Next]_vars PROVE [Amortized]_vars
  BY <1>1, FillStepWorks, CancelStepWorks, CallCosts DEF Threads
<1>2. Typed => Potential \in Nat
  <2> SUFFICES ASSUME Typed PROVE Potential \in Nat
    OBVIOUS
  <2>1. \A t \in Threads : Weight[t] \in Nat
    BY WeightType
  <2>2. QED
    BY <2>1, ThreadsFinite, SumOfPart DEF Potential
<1>3. QED
  BY <1>1, <1>2, AlwaysTyped, PTL DEF Spec, CallsAmortized
=============================================================================
