--------------------------- MODULE AlgoEngineProofs ---------------------------
(***************************************************************************)
(* Proofs about AlgoEngine, for any finite set of parents, any number of   *)
(* slices of any quantity and any number of failed sends: the types, that  *)
(* no child is sent twice, that no child of a cancelled parent waits, and  *)
(* that what the parents are credited with was executed.                   *)
(***************************************************************************)
EXTENDS AlgoEngine, SumTheorems

(* Each goroutine that is under way knows the child and the parent it is    *)
(* about.                                                                   *)
Located ==
  /\ scheduler.at \in {"status", "lookup", "lock", "parent"} => scheduler.child \in Children
  /\ scheduler.at \in {"lock", "parent"} => scheduler.parent \in Parents
  /\ canceller.at # "idle" => canceller.parent \in Parents

Waits(c) == c \in schedulerHeap \/ InHands(c)

(* The places of executeChild before the order is sent, and after. *)
Sending == {"claim", "send", "failed", "requeue"}
Sent == {"filled", "report", "ids", "status", "credit", "total", "complete"}

(* A child is in the heap, or in the scheduler's hands, or has a goroutine, *)
(* and once its order was sent it is in neither of the first two again.     *)
PlaceInv(c) ==
  /\ Waits(c) => At(c, "none") /\ order[c].at = "unsent"
  /\ ~(c \in schedulerHeap /\ InHands(c))
  /\ executor[c].at \in Sending => order[c].at = "unsent"
  /\ executor[c].at \in Sent => order[c].at # "unsent"
  /\ Waits(c) \/ ~At(c, "none") \/ order[c].at # "unsent" => parent[c[1]].id > 0

(* What a child and its goroutine have of the fills is what the exchange    *)
(* executed, or less.                                                       *)
ReportInv(c) ==
  /\ order[c].at = "resting" => order[c].executed < SliceQty
  /\ order[c].at = "unsent" \/ executor[c].at \in {"filled", "report", "ids"}
       => child[c].filled = 0
  /\ executor[c].at \in {"status", "credit"} => child[c].filled = executor[c].filled
  /\ executor[c].at \in {"report", "ids"} => executor[c].filled <= order[c].executed
  /\ child[c].filled <= order[c].executed

(* A goroutine's parent, and what it is owed when it is completed. *)
OwnerInv(c) ==
  /\ ~At(c, "none") => executor[c].parent \in Parents
  /\ At(c, "complete") => parent[executor[c].parent].filled >= TotalQty

(* No failed send makes the child pending again. *)
Settled(c) ==
  /\ child[c].status # "Pending"
  /\ order[c].at = "unsent" => child[c].status # "Sent"

CancelInv ==
  /\ \A p \in cancelled : \A c \in ChildrenOf(p) : Settled(c)
  /\ canceller.at # "idle" =>
       \A i \in Slices : i < canceller.slice => Settled(<<canceller.parent, i>>)

CompletedInv == \A p \in Parents : parent[p].status = "Completed" => parent[p].filled >= TotalQty

ChildInv(c) == PlaceInv(c) /\ ReportInv(c) /\ OwnerInv(c)

IInv ==
  /\ TypeOK
  /\ Located
  /\ \A c \in Children : ChildInv(c)
  /\ CancelInv
  /\ CompletedInv
  /\ FillsAddUp

-----------------------------------------------------------------------------
(* Constants and types *)

(* The constants are numbers, and there are finitely many children. *)
LEMMA Constants ==
  /\ SliceQty \in Nat /\ SliceQty > 0 /\ NumSlices \in Nat /\ NumSlices > 0 /\ TotalQty \in Nat
  /\ MaxFailures \in Nat
  /\ IsFiniteSet(Parents) /\ IsFiniteSet(Children)
  /\ NoParent \notin Parents
<1>1. /\ SliceQty \in Nat /\ SliceQty > 0 /\ NumSlices \in Nat /\ NumSlices > 0
      /\ MaxFailures \in Nat /\ IsFiniteSet(Parents) /\ NoParent \notin Parents
  BY AlgoEngineAssumption
<1>2. TotalQty \in Nat
  BY <1>1 DEF TotalQty
<1>3. IsFiniteSet(Slices)
  BY <1>1, FS_Interval DEF Slices
<1>4. IsFiniteSet(Children)
  BY <1>1, <1>3, FS_Product DEF Children
<1>5. QED
  BY <1>1, <1>2, <1>4

Ats == {"none", "claim", "send", "failed", "requeue", "filled", "report", "ids", "status",
        "credit", "total", "complete"}

(* What the types say of one child, its order, its goroutine and its parent. *)
LEMMA Fields ==
  ASSUME TypeOK, NEW c \in Children
  PROVE  /\ c[1] \in Parents /\ c[2] \in Slices
         /\ executor[c] \in Executors /\ executor[c].at \in Ats
         /\ executor[c].parent \in Parents \cup {NoParent}
         /\ executor[c].filled \in Nat /\ executor[c].filled <= SliceQty
         /\ executor[c].status \in OrderStatuses
         /\ child[c] \in ChildRecords /\ child[c].parentID \in ParentIDs
         /\ child[c].status \in {"Pending", "Sent", "Filled", "Cancelled"}
         /\ child[c].filled \in Nat /\ child[c].filled <= SliceQty
         /\ child[c].externalID \in BOOLEAN
         /\ order[c] \in OrderRecords
         /\ order[c].at \in {"unsent", "resting", "filling", "done"}
         /\ order[c].executed \in Nat /\ order[c].executed <= SliceQty
         /\ order[c].status \in OrderStatuses
<1>1. c[1] \in Parents /\ c[2] \in Slices
  BY DEF Children
<1>2. executor[c] \in Executors /\ child[c] \in ChildRecords /\ order[c] \in OrderRecords
  BY DEF TypeOK
<1>3. /\ executor[c].at \in Ats /\ executor[c].parent \in Parents \cup {NoParent}
      /\ executor[c].filled \in 0..SliceQty /\ executor[c].status \in OrderStatuses
  BY <1>2 DEF Executors, Ats
<1>4. /\ child[c].parentID \in ParentIDs
      /\ child[c].status \in {"Pending", "Sent", "Filled", "Cancelled"}
      /\ child[c].filled \in 0..SliceQty /\ child[c].externalID \in BOOLEAN
  BY <1>2 DEF ChildRecords
<1>5. /\ order[c].at \in {"unsent", "resting", "filling", "done"}
      /\ order[c].executed \in 0..SliceQty /\ order[c].status \in OrderStatuses
  BY <1>2 DEF OrderRecords
<1>6. QED
  BY <1>1, <1>2, <1>3, <1>4, <1>5, Constants

(* The fields of a parent's record have their types. *)
LEMMA ParentFields ==
  ASSUME TypeOK, NEW p \in Parents
  PROVE  /\ parent[p] \in ParentRecords /\ parent[p].id \in ParentIDs /\ parent[p].id \in Nat
         /\ parent[p].status \in {"New", "Running", "Completed", "Cancelled"}
         /\ parent[p].filled \in Nat
<1>1. parent[p] \in ParentRecords
  BY DEF TypeOK
<1>2. QED
  BY <1>1 DEF ParentRecords, ParentIDs

(* A goroutine that goes on to another place keeps the rest of its locals.  *)
LEMMA GoesFacts ==
  ASSUME TypeOK, NEW c \in Children, NEW a \in Ats, ExecutorGoes(c, a)
  PROVE  /\ executor' \in [Children -> Executors]
         /\ executor'[c].at = a /\ executor'[c].parent = executor[c].parent
         /\ executor'[c].filled = executor[c].filled
         /\ executor'[c].status = executor[c].status
         /\ \A d \in Children \ {c} : executor'[d] = executor[d]
<1>1. executor \in [Children -> Executors] /\ executor[c] \in Executors
  BY DEF TypeOK
<1> DEFINE r == [executor[c] EXCEPT !.at = a]
<1>2. /\ r \in Executors /\ r.at = a /\ r.parent = executor[c].parent
      /\ r.filled = executor[c].filled /\ r.status = executor[c].status
  BY <1>1 DEF Executors, Ats
<1>3. executor' = [executor EXCEPT ![c] = r]
  BY DEF ExecutorGoes
<1> HIDE DEF r
<1>4. QED
  BY <1>1, <1>2, <1>3

(* A goroutine that returns forgets them. *)
LEMMA ReturnFacts ==
  ASSUME TypeOK, NEW c \in Children, Return(c)
  PROVE  /\ executor' \in [Children -> Executors]
         /\ executor'[c] = Ended /\ executor'[c].at = "none"
         /\ \A d \in Children \ {c} : executor'[d] = executor[d]
<1>1. Ended \in Executors /\ Ended.at = "none"
  BY Constants DEF Ended, Executors, OrderStatuses
<1>2. QED
  BY <1>1 DEF TypeOK, Return

(* A status that is stored leaves the rest of the child as it is. *)
LEMMA StatusFacts ==
  ASSUME TypeOK, NEW c \in Children, NEW s \in {"Pending", "Sent", "Filled", "Cancelled"},
         child' = [child EXCEPT ![c].status = s]
  PROVE  /\ child' \in [Children -> ChildRecords]
         /\ child'[c].status = s /\ child'[c].filled = child[c].filled
         /\ child'[c].parentID = child[c].parentID
         /\ \A d \in Children \ {c} : child'[d] = child[d]
<1>1. child \in [Children -> ChildRecords] /\ child[c] \in ChildRecords
  BY DEF TypeOK
<1> DEFINE r == [child[c] EXCEPT !.status = s]
<1>2. /\ r \in ChildRecords /\ r.status = s /\ r.filled = child[c].filled
      /\ r.parentID = child[c].parentID
  BY <1>1 DEF ChildRecords
<1>3. child' = [child EXCEPT ![c] = r]
  OBVIOUS
<1> HIDE DEF r
<1>4. QED
  BY <1>1, <1>2, <1>3

-----------------------------------------------------------------------------
(* What a step that concerns one child leaves alone *)

(* The sums stay as they are when no fill is reported or credited. *)
LEMMA SumsKept ==
  ASSUME FillsAddUp,
         \A p \in Parents : parent'[p].filled = parent[p].filled,
         \A c \in Children : child'[c].filled = child[c].filled,
         \A c \in Children : At(c, "status")' \/ At(c, "credit")' <=> At(c, "status") \/ At(c, "credit")
  PROVE  FillsAddUp'
<1>1. Credited' = Credited /\ Reported' = Reported /\ Booked' = Booked
  BY DEF Credited, Reported, Booked
<1>2. QED
  BY <1>1 DEF FillsAddUp

(* A step that changes one child, its order or its goroutine, and of the    *)
(* parents their fills and statuses, keeps the invariant when it keeps it   *)
(* for that child.                                                          *)
LEMMA OneChildInHand ==
  ASSUME IInv, NEW c \in Children, TypeOK',
         \A d \in Children \ {c} :
           /\ executor'[d] = executor[d] /\ child'[d] = child[d] /\ order'[d] = order[d]
           /\ d \in schedulerHeap' <=> d \in schedulerHeap,
         \A d \in Children \ {c} : InHands(d)' => InHands(d),
         Located', UNCHANGED <<canceller, cancelled>>,
         \A p \in Parents :
           /\ parent'[p].id = parent[p].id /\ parent'[p].filled >= parent[p].filled
           /\ parent'[p].status = "Completed" => parent'[p].filled >= TotalQty,
         ChildInv(c)', Settled(c) => Settled(c)', FillsAddUp'
  PROVE  IInv'
<1>1. CompletedInv'
  BY DEF CompletedInv
<1>2. ASSUME NEW d \in Children, d # c PROVE ChildInv(d)'
  <2>1. ChildInv(d) /\ d[1] \in Parents
    BY Fields DEF IInv
  <2>2. PlaceInv(d)'
    BY <1>2, <2>1 DEF ChildInv, PlaceInv, Waits, At
  <2>3. ReportInv(d)'
    BY <1>2, <2>1 DEF ChildInv, ReportInv
  <2>4. OwnerInv(d)'
    <3>1. ~At(d, "none") => executor[d].parent \in Parents
      BY <2>1 DEF ChildInv, OwnerInv
    <3>2. ASSUME NEW p \in Parents, parent[p].filled >= TotalQty
          PROVE  parent'[p].filled >= TotalQty
      BY <3>2, ParentFields, Constants DEF IInv, TypeOK, ParentRecords
    <3>3. executor'[d] = executor[d]
      BY <1>2
    <3>4. QED
      BY <2>1, <3>1, <3>2, <3>3 DEF ChildInv, OwnerInv, At
  <2>5. QED
    BY <2>2, <2>3, <2>4 DEF ChildInv
<1>3. CancelInv'
  <2>1. \A d \in Children : Settled(d) => Settled(d)'
    BY DEF Settled
  <2>2. ASSUME NEW p \in cancelled, NEW d \in ChildrenOf(p) PROVE Settled(d)'
    BY <2>1 DEF IInv, TypeOK, CancelInv, ChildrenOf, Children
  <2>3. ASSUME canceller.at # "idle", NEW i \in Slices, i < canceller.slice
        PROVE  Settled(<<canceller.parent, i>>)'
    BY <2>1, <2>3 DEF IInv, CancelInv, Located, Children, Settled
  <2>4. QED
    BY <2>2, <2>3 DEF CancelInv, Settled
<1>4. QED
  BY <1>1, <1>2, <1>3 DEF IInv

(* The same when the scheduler does not move. *)
LEMMA OneChild ==
  ASSUME IInv, NEW c \in Children, TypeOK',
         \A d \in Children \ {c} :
           /\ executor'[d] = executor[d] /\ child'[d] = child[d] /\ order'[d] = order[d]
           /\ d \in schedulerHeap' <=> d \in schedulerHeap,
         UNCHANGED <<scheduler, canceller, cancelled>>,
         \A p \in Parents :
           /\ parent'[p].id = parent[p].id /\ parent'[p].filled >= parent[p].filled
           /\ parent'[p].status = "Completed" => parent'[p].filled >= TotalQty,
         ChildInv(c)', Settled(c) => Settled(c)', FillsAddUp'
  PROVE  IInv'
<1>1. Located'
  BY DEF IInv, Located
<1>2. \A d \in Children \ {c} : InHands(d)' => InHands(d)
  BY DEF InHands
<1>3. QED
  BY <1>1, <1>2, OneChildInHand

(* The types, when only what executeChild writes has changed. *)
LEMMA TypeKept ==
  ASSUME TypeOK,
         executor' \in [Children -> Executors], child' \in [Children -> ChildRecords],
         order' \in [Children -> OrderRecords], parent' \in [Parents -> ParentRecords],
         schedulerHeap' \subseteq Children, failures' \in 0..MaxFailures,
         UNCHANGED <<childToParent, mu, scheduler, canceller, stopping, thrown, cancelled, aborted>>
  PROVE  TypeOK'
BY DEF TypeOK

-----------------------------------------------------------------------------
(* executeChild *)

ExecuteFrame ==
  UNCHANGED <<childToParent, mu, scheduler, canceller, stopping, thrown, cancelled, aborted>>

(* A step that neither reports nor credits a fill.  What remains to show is *)
(* about the child alone.                                                   *)
LEMMA QuietStep ==
  ASSUME IInv, NEW c \in Children, ExecuteFrame, UNCHANGED parent,
         executor' \in [Children -> Executors], child' \in [Children -> ChildRecords],
         order' \in [Children -> OrderRecords],
         schedulerHeap' \in {schedulerHeap, schedulerHeap \cup {c}},
         failures' \in 0..MaxFailures,
         \A d \in Children \ {c} :
           executor'[d] = executor[d] /\ child'[d] = child[d] /\ order'[d] = order[d],
         child'[c].filled = child[c].filled,
         At(c, "status")' \/ At(c, "credit")' <=> At(c, "status") \/ At(c, "credit"),
         ChildInv(c)', Settled(c) => Settled(c)'
  PROVE  IInv'
<1>1. TypeOK'
  BY TypeKept DEF IInv, TypeOK, ExecuteFrame
<1>2. FillsAddUp'
  BY SumsKept DEF IInv, At
<1>3. \A p \in Parents :
        /\ parent'[p].id = parent[p].id /\ parent'[p].filled >= parent[p].filled
        /\ parent'[p].status = "Completed" => parent'[p].filled >= TotalQty
  BY ParentFields DEF IInv, CompletedInv
<1>4. QED
  BY <1>1, <1>2, <1>3, OneChild DEF ExecuteFrame

(* The compare-and-swap from Pending to Sent. *)
LEMMA ClaimStep ==
  ASSUME IInv, NEW c \in Children, Claim(c), ExecuteFrame
  PROVE  IInv'
<1>1. TypeOK /\ PlaceInv(c) /\ ReportInv(c) /\ OwnerInv(c) /\ At(c, "claim")
  BY DEF IInv, ChildInv, Claim
<1>2. CASE child[c].status = "Pending"
  <2>1. child' = [child EXCEPT ![c].status = "Sent"] /\ ExecutorGoes(c, "send")
        /\ UNCHANGED <<parent, schedulerHeap, failures, order>>
    BY <1>2 DEF Claim
  <2>2. /\ executor' \in [Children -> Executors] /\ executor'[c].at = "send"
        /\ executor'[c].parent = executor[c].parent
        /\ \A d \in Children \ {c} : executor'[d] = executor[d]
    BY <1>1, <2>1, GoesFacts DEF Ats
  <2>3. /\ child' \in [Children -> ChildRecords]
        /\ child'[c].status = "Sent" /\ child'[c].filled = child[c].filled
        /\ \A d \in Children \ {c} : child'[d] = child[d]
    BY <1>1, <2>1, StatusFacts
  <2>4. ChildInv(c)'
    BY <1>1, <2>1, <2>2, <2>3
       DEF ChildInv, PlaceInv, ReportInv, OwnerInv, Waits, InHands, At, Sending, Sent, ExecuteFrame
  <2>5. Settled(c) => Settled(c)'
    BY <1>2 DEF Settled
  <2>6. QED
    BY <1>1, <2>1, <2>2, <2>3, <2>4, <2>5, QuietStep DEF TypeOK, At
<1>3. CASE child[c].status # "Pending"
  <2>1. Return(c) /\ UNCHANGED <<parent, child, schedulerHeap, failures, order>>
    BY <1>3 DEF Claim
  <2>2. /\ executor' \in [Children -> Executors] /\ executor'[c].at = "none"
        /\ \A d \in Children \ {c} : executor'[d] = executor[d]
    BY <1>1, <2>1, ReturnFacts
  <2>3. ChildInv(c)'
    BY <1>1, <2>1, <2>2
       DEF ChildInv, PlaceInv, ReportInv, OwnerInv, Waits, InHands, At, Sending, Sent, ExecuteFrame
  <2>4. QED
    BY <1>1, <2>1, <2>2, <2>3, QuietStep DEF TypeOK, At, Settled
<1>4. QED
  BY <1>2, <1>3

(* The order, when f of it is executed. *)
LEMMA OrderAfterFacts ==
  ASSUME NEW f \in 0..SliceQty
  PROVE  /\ OrderAfter(f) \in OrderRecords
         /\ OrderAfter(f).executed = f /\ OrderAfter(f).at # "unsent"
         /\ OrderAfter(f).at = "resting" => f < SliceQty
BY Constants DEF OrderAfter, OrderRecords, OrderStatuses

(* A step of executeChild that only goes on to another place: what it has   *)
(* to show is that the invariant allows the goroutine to be there.          *)
LEMMA GoesStep ==
  ASSUME IInv, NEW c \in Children, NEW a \in Ats, ExecutorGoes(c, a), ExecuteFrame,
         UNCHANGED <<parent, child, schedulerHeap, order>>, failures' \in 0..MaxFailures,
         ~At(c, "none"), a # "none",
         a \in {"status", "credit"} <=> executor[c].at \in {"status", "credit"},
         a \in Sending => executor[c].at \in Sending,
         a \in Sent => executor[c].at \in Sent,
         a \notin {"filled", "report", "ids"},
         a = "complete" => parent[executor[c].parent].filled >= TotalQty
  PROVE  IInv'
<1>1. TypeOK /\ PlaceInv(c) /\ ReportInv(c) /\ OwnerInv(c)
  BY DEF IInv, ChildInv
<1>2. /\ executor' \in [Children -> Executors] /\ executor'[c].at = a
      /\ executor'[c].parent = executor[c].parent /\ executor'[c].filled = executor[c].filled
      /\ \A d \in Children \ {c} : executor'[d] = executor[d]
  BY <1>1, GoesFacts
<1>3. PlaceInv(c)'
  BY <1>1, <1>2 DEF PlaceInv, Waits, InHands, At, ExecuteFrame
<1>4. ReportInv(c)'
  BY <1>1, <1>2 DEF ReportInv
<1>5. OwnerInv(c)'
  BY <1>1, <1>2 DEF OwnerInv, At
<1>6. QED
  BY <1>1, <1>2, <1>3, <1>4, <1>5, QuietStep DEF ChildInv, TypeOK, At, Settled

(* SendOrder: the order reaches the exchange. *)
LEMMA SendOrderStep ==
  ASSUME IInv, NEW c \in Children, SendOrder(c), ExecuteFrame
  PROVE  IInv'
<1>1. TypeOK /\ PlaceInv(c) /\ ReportInv(c) /\ OwnerInv(c) /\ At(c, "send")
  BY DEF IInv, ChildInv, SendOrder
<1>2. PICK f \in 0..SliceQty : order' = [order EXCEPT ![c] = OrderAfter(f)]
  BY DEF SendOrder
<1>3. /\ order' \in [Children -> OrderRecords] /\ order'[c] = OrderAfter(f)
      /\ \A d \in Children \ {c} : order'[d] = order[d]
  BY <1>1, <1>2, OrderAfterFacts DEF TypeOK
<1>4. ExecutorGoes(c, "filled") /\ UNCHANGED <<parent, child, schedulerHeap, failures>>
  BY DEF SendOrder
<1>5. /\ executor' \in [Children -> Executors] /\ executor'[c].at = "filled"
      /\ executor'[c].parent = executor[c].parent
      /\ \A d \in Children \ {c} : executor'[d] = executor[d]
  BY <1>1, <1>4, GoesFacts DEF Ats
<1>6. /\ order'[c].at # "unsent" /\ order'[c].executed \in Nat
      /\ order'[c].at = "resting" => order'[c].executed < SliceQty
  BY <1>3, OrderAfterFacts, Constants
<1>7. PlaceInv(c)'
  BY <1>1, <1>4, <1>5, <1>6 DEF PlaceInv, Waits, InHands, At, Sending, Sent, ExecuteFrame
<1>8. ReportInv(c)'
  BY <1>1, <1>4, <1>5, <1>6 DEF ReportInv, PlaceInv, At, Sending
<1>9. OwnerInv(c)'
  BY <1>1, <1>4, <1>5 DEF OwnerInv, At
<1>10. QED
  BY <1>1, <1>3, <1>4, <1>5, <1>6, <1>7, <1>8, <1>9, QuietStep DEF ChildInv, TypeOK, At, Settled

(* SendOrder returns an error. *)
LEMMA SendFailsStep ==
  ASSUME IInv, NEW c \in Children, SendFails(c), ExecuteFrame
  PROVE  IInv'
<1>1. /\ At(c, "send") /\ ExecutorGoes(c, "failed")
      /\ UNCHANGED <<parent, child, schedulerHeap, order>>
  BY DEF SendFails
<1>2. failures' \in 0..MaxFailures
  BY Constants DEF SendFails, IInv, TypeOK
<1>3. QED
  BY <1>1, <1>2, GoesStep DEF At, Ats, Sending, Sent

(* The compare-and-swap from Sent to Pending: a child that CancelParent has *)
(* settled is not Sent any more.                                            *)
LEMMA UnclaimStep ==
  ASSUME IInv, NEW c \in Children, Unclaim(c), ExecuteFrame
  PROVE  IInv'
<1> DEFINE s == IF child[c].status = "Sent" THEN "Pending" ELSE child[c].status
<1>1. TypeOK /\ PlaceInv(c) /\ ReportInv(c) /\ OwnerInv(c) /\ At(c, "failed")
  BY DEF IInv, ChildInv, Unclaim
<1>2. /\ child' = [child EXCEPT ![c].status = s] /\ ExecutorGoes(c, "requeue")
      /\ UNCHANGED <<parent, schedulerHeap, failures, order>>
  BY DEF Unclaim
<1>3. s \in {"Pending", "Sent", "Filled", "Cancelled"}
  BY <1>1, Fields
<1>4. s = "Pending" => child[c].status \in {"Sent", "Pending"}
  OBVIOUS
<1> HIDE DEF s
<1>5. /\ child' \in [Children -> ChildRecords]
      /\ child'[c].status = s /\ child'[c].filled = child[c].filled
      /\ \A d \in Children \ {c} : child'[d] = child[d]
  BY <1>1, <1>2, <1>3, StatusFacts
<1>6. /\ executor' \in [Children -> Executors] /\ executor'[c].at = "requeue"
      /\ executor'[c].parent = executor[c].parent
      /\ \A d \in Children \ {c} : executor'[d] = executor[d]
  BY <1>1, <1>2, GoesFacts DEF Ats
<1>7. PlaceInv(c)'
  BY <1>1, <1>2, <1>6 DEF PlaceInv, Waits, InHands, At, Sending, Sent, ExecuteFrame
<1>8. ReportInv(c)'
  BY <1>1, <1>2, <1>5, <1>6 DEF ReportInv, PlaceInv, At, Sending
<1>9. OwnerInv(c)'
  BY <1>1, <1>2, <1>6 DEF OwnerInv, At
<1>10. Settled(c) => Settled(c)'
  BY <1>1, <1>2, <1>4, <1>5 DEF Settled, PlaceInv, At, Sending, s
<1>11. QED
  BY <1>1, <1>2, <1>5, <1>6, <1>7, <1>8, <1>9, <1>10, QuietStep DEF ChildInv, TypeOK, At

(* The child goes back to the heap, and its goroutine ends. *)
LEMMA RequeueStep ==
  ASSUME IInv, NEW c \in Children, Requeue(c), ExecuteFrame
  PROVE  IInv'
<1>1. TypeOK /\ PlaceInv(c) /\ ReportInv(c) /\ OwnerInv(c) /\ At(c, "requeue")
  BY DEF IInv, ChildInv, Requeue
<1>2. /\ schedulerHeap' = schedulerHeap \cup {c} /\ Return(c)
      /\ UNCHANGED <<parent, child, failures, order>>
  BY DEF Requeue
<1>3. /\ executor' \in [Children -> Executors] /\ executor'[c].at = "none"
      /\ \A d \in Children \ {c} : executor'[d] = executor[d]
  BY <1>1, <1>2, ReturnFacts
<1>4. PlaceInv(c)'
  BY <1>1, <1>2, <1>3 DEF PlaceInv, Waits, InHands, At, Sending, Sent, ExecuteFrame
<1>5. ReportInv(c)'
  BY <1>1, <1>2, <1>3 DEF ReportInv
<1>6. OwnerInv(c)'
  BY <1>1, <1>2, <1>3 DEF OwnerInv, At
<1>7. QED
  BY <1>1, <1>2, <1>3, <1>4, <1>5, <1>6, QuietStep DEF ChildInv, TypeOK, At, Settled

(* The report reads FilledQty: from then on the exchange may execute more,  *)
(* and what was read is a lower bound.                                      *)
LEMMA ReadFilledStep ==
  ASSUME IInv, NEW c \in Children, ReadFilled(c), ExecuteFrame
  PROVE  IInv'
<1> DEFINE r == [executor[c] EXCEPT !.at = "report", !.filled = order[c].executed]
<1>1. TypeOK /\ PlaceInv(c) /\ ReportInv(c) /\ OwnerInv(c) /\ At(c, "filled")
  BY DEF IInv, ChildInv, ReadFilled
<1>2. /\ executor' = [executor EXCEPT ![c] = r]
      /\ UNCHANGED <<parent, child, schedulerHeap, failures, order>>
  BY DEF ReadFilled
<1>3. /\ executor[c] \in Executors /\ order[c].executed \in 0..SliceQty
      /\ order[c].executed \in Nat
  BY <1>1, Fields, Constants
<1>4. /\ r \in Executors /\ r.at = "report" /\ r.filled = order[c].executed
      /\ r.parent = executor[c].parent
  BY <1>3 DEF Executors
<1> HIDE DEF r
<1>5. /\ executor' \in [Children -> Executors] /\ executor'[c] = r
      /\ \A d \in Children \ {c} : executor'[d] = executor[d]
  BY <1>1, <1>2, <1>4 DEF TypeOK
<1>6. PlaceInv(c)'
  BY <1>1, <1>2, <1>4, <1>5 DEF PlaceInv, Waits, InHands, At, Sending, Sent, ExecuteFrame
<1>7. ReportInv(c)'
  BY <1>1, <1>2, <1>3, <1>4, <1>5 DEF ReportInv, At
<1>8. OwnerInv(c)'
  BY <1>1, <1>2, <1>4, <1>5 DEF OwnerInv, At
<1>9. QED
  BY <1>1, <1>2, <1>4, <1>5, <1>6, <1>7, <1>8, QuietStep DEF ChildInv, TypeOK, At, Settled

(* The report reads the status. *)
LEMMA ReadStatusStep ==
  ASSUME IInv, NEW c \in Children, ReadStatus(c), ExecuteFrame
  PROVE  IInv'
<1> DEFINE r == [executor[c] EXCEPT !.at = "ids", !.status = order[c].status]
<1>1. TypeOK /\ PlaceInv(c) /\ ReportInv(c) /\ OwnerInv(c) /\ At(c, "report")
  BY DEF IInv, ChildInv, ReadStatus
<1>2. /\ executor' = [executor EXCEPT ![c] = r]
      /\ UNCHANGED <<parent, child, schedulerHeap, failures, order>>
  BY DEF ReadStatus
<1>3. executor[c] \in Executors /\ order[c].status \in OrderStatuses
  BY <1>1, Fields
<1>4. r \in Executors /\ r.at = "ids" /\ r.filled = executor[c].filled /\ r.parent = executor[c].parent
  BY <1>3 DEF Executors
<1> HIDE DEF r
<1>5. /\ executor' \in [Children -> Executors] /\ executor'[c] = r
      /\ \A d \in Children \ {c} : executor'[d] = executor[d]
  BY <1>1, <1>2, <1>4 DEF TypeOK
<1>6. PlaceInv(c)'
  BY <1>1, <1>2, <1>4, <1>5 DEF PlaceInv, Waits, InHands, At, Sending, Sent, ExecuteFrame
<1>7. ReportInv(c)'
  BY <1>1, <1>2, <1>4, <1>5 DEF ReportInv, At
<1>8. OwnerInv(c)'
  BY <1>1, <1>2, <1>4, <1>5 DEF OwnerInv, At
<1>9. QED
  BY <1>1, <1>2, <1>4, <1>5, <1>6, <1>7, <1>8, QuietStep DEF ChildInv, TypeOK, At, Settled

(* child.FilledQty is stored, for the first and only time: what the parent  *)
(* is yet to be credited with is left out of the children's sum.            *)
LEMMA StoreReportStep ==
  ASSUME IInv, NEW c \in Children, StoreReport(c), ExecuteFrame
  PROVE  IInv'
<1> DEFINE r == [child[c] EXCEPT !.externalID = TRUE, !.filled = executor[c].filled]
<1>1. TypeOK /\ PlaceInv(c) /\ ReportInv(c) /\ OwnerInv(c) /\ At(c, "ids") /\ FillsAddUp
  BY DEF IInv, ChildInv, StoreReport
<1>2. /\ child' = [child EXCEPT ![c] = r] /\ ExecutorGoes(c, "status")
      /\ UNCHANGED <<parent, schedulerHeap, failures, order>>
  BY DEF StoreReport
<1>3. child[c] \in ChildRecords /\ executor[c].filled \in 0..SliceQty
  BY <1>1, Fields, Constants
<1>4. r \in ChildRecords /\ r.filled = executor[c].filled /\ r.status = child[c].status
  BY <1>3 DEF ChildRecords
<1> HIDE DEF r
<1>5. /\ child' \in [Children -> ChildRecords] /\ child'[c] = r
      /\ \A d \in Children \ {c} : child'[d] = child[d]
  BY <1>1, <1>2, <1>4 DEF TypeOK
<1>6. /\ executor' \in [Children -> Executors] /\ executor'[c].at = "status"
      /\ executor'[c].parent = executor[c].parent /\ executor'[c].filled = executor[c].filled
      /\ \A d \in Children \ {c} : executor'[d] = executor[d]
  BY <1>1, <1>2, GoesFacts DEF Ats
<1>7. TypeOK'
  BY <1>1, <1>2, <1>5, <1>6, TypeKept DEF TypeOK, ExecuteFrame
<1>8. ChildInv(c)'
  <2>1. PlaceInv(c)'
    BY <1>1, <1>2, <1>6 DEF PlaceInv, Waits, InHands, At, Sending, Sent, ExecuteFrame
  <2>2. ReportInv(c)'
    BY <1>1, <1>2, <1>4, <1>5, <1>6 DEF ReportInv, PlaceInv, At, Sent
  <2>3. OwnerInv(c)'
    BY <1>1, <1>2, <1>6 DEF OwnerInv, At
  <2>4. QED
    BY <2>1, <2>2, <2>3 DEF ChildInv
<1>9. FillsAddUp'
  <2>1. c \in Booked /\ Booked' = Booked \ {c} /\ IsFiniteSet(Booked')
    <3>1. c \in Booked /\ Booked' = Booked \ {c}
      BY <1>1, <1>6 DEF Booked, At
    <3>2. Booked' \in SUBSET Children
      BY DEF Booked
    <3>3. QED
      BY <3>1, <3>2, Constants, FS_Subset
  <2>2. IsFiniteSet(Booked) /\ \A d \in Booked : d \in Children /\ Reported[d] \in Int
    <3>1. Booked \in SUBSET Children
      BY DEF Booked
    <3>2. \A d \in Children : Reported[d] \in Int
      BY <1>1, Fields DEF Reported
    <3>3. QED
      BY <3>1, <3>2, Constants, FS_Subset
  <2>3. SumFunctionOnSet(Reported, Booked)
          = Reported[c] + SumFunctionOnSet(Reported, Booked \ {c})
    BY <2>1, <2>2, SumRemove
  <2>4. Reported[c] = 0
    BY <1>1 DEF Reported, ReportInv, At
  <2>5. SumFunctionOnSet(Reported, Booked \ {c}) \in Int
    BY <2>1, <2>2, SumRemove
  <2>6. \A d \in Booked \ {c} : Reported[d] = Reported'[d]
    BY <1>5, <2>2 DEF Reported
  <2>7. SumFunctionOnSet(Reported, Booked \ {c}) = SumFunctionOnSet(Reported', Booked \ {c})
    BY <2>1, <2>2, <2>6, SumAgree
  <2>8. Credited' = Credited
    BY <1>2 DEF Credited
  <2>9. QED
    BY <1>1, <2>1, <2>3, <2>4, <2>5, <2>7, <2>8 DEF FillsAddUp
<1>10. Settled(c) => Settled(c)'
  BY <1>2, <1>4, <1>5 DEF Settled
<1>11. \A p \in Parents :
        /\ parent'[p].id = parent[p].id /\ parent'[p].filled >= parent[p].filled
        /\ parent'[p].status = "Completed" => parent'[p].filled >= TotalQty
  BY <1>2, ParentFields DEF IInv, CompletedInv
<1>12. QED
  BY <1>2, <1>5, <1>6, <1>7, <1>8, <1>9, <1>10, <1>11, OneChild DEF ExecuteFrame

(* The child's status is stored: Pending it is not again. *)
LEMMA StoreStatusStep ==
  ASSUME IInv, NEW c \in Children, StoreStatus(c), ExecuteFrame
  PROVE  IInv'
<1> DEFINE s == IF executor[c].status = "Filled" THEN "Filled"
                ELSE IF executor[c].status = "Partially" \/ executor[c].filled > 0 THEN "Sent"
                ELSE child[c].status
<1>1. TypeOK /\ PlaceInv(c) /\ ReportInv(c) /\ OwnerInv(c) /\ At(c, "status")
  BY DEF IInv, ChildInv, StoreStatus
<1>2. /\ child' = [child EXCEPT ![c].status = s] /\ ExecutorGoes(c, "credit")
      /\ UNCHANGED <<parent, schedulerHeap, failures, order>>
  BY DEF StoreStatus
<1>3. s \in {"Pending", "Sent", "Filled", "Cancelled"} /\ (s = "Pending" => child[c].status = "Pending")
  BY <1>1, Fields
<1> HIDE DEF s
<1>4. /\ child' \in [Children -> ChildRecords]
      /\ child'[c].status = s /\ child'[c].filled = child[c].filled
      /\ \A d \in Children \ {c} : child'[d] = child[d]
  BY <1>1, <1>2, <1>3, StatusFacts
<1>5. /\ executor' \in [Children -> Executors] /\ executor'[c].at = "credit"
      /\ executor'[c].parent = executor[c].parent /\ executor'[c].filled = executor[c].filled
      /\ \A d \in Children \ {c} : executor'[d] = executor[d]
  BY <1>1, <1>2, GoesFacts DEF Ats
<1>6. PlaceInv(c)'
  BY <1>1, <1>2, <1>5 DEF PlaceInv, Waits, InHands, At, Sending, Sent, ExecuteFrame
<1>7. ReportInv(c)'
  BY <1>1, <1>2, <1>4, <1>5 DEF ReportInv, PlaceInv, At, Sent
<1>8. OwnerInv(c)'
  BY <1>1, <1>2, <1>5 DEF OwnerInv, At
<1>9. Settled(c) => Settled(c)'
  BY <1>1, <1>2, <1>3, <1>4 DEF Settled, PlaceInv, At, Sent
<1>10. QED
  BY <1>1, <1>2, <1>4, <1>5, <1>6, <1>7, <1>8, <1>9, QuietStep DEF ChildInv, TypeOK, At

(* parent.FilledQty.Add: the parent's fills and the children's grow by the  *)
(* same, since what is credited is what the child stored.                   *)
LEMMA CreditStep ==
  ASSUME IInv, NEW c \in Children, Credit(c), ExecuteFrame
  PROVE  IInv'
<1> DEFINE q == executor[c].parent
           n == executor[c].filled
           r == [parent[q] EXCEPT !.filled = @ + n]
<1>1. TypeOK /\ PlaceInv(c) /\ ReportInv(c) /\ OwnerInv(c) /\ At(c, "credit") /\ FillsAddUp
  BY DEF IInv, ChildInv, Credit
<1>2. /\ parent' = [parent EXCEPT ![q] = r] /\ ExecutorGoes(c, "total")
      /\ UNCHANGED <<child, schedulerHeap, failures, order>>
  BY DEF Credit, FillToCredit
<1>3. q \in Parents /\ n \in Nat
  BY <1>1, Fields DEF OwnerInv, At
<1> HIDE DEF q, n
<1>4. parent[q] \in ParentRecords /\ parent[q].filled \in Nat
  BY <1>1, <1>3, ParentFields
<1>5. /\ r \in ParentRecords /\ r.filled = parent[q].filled + n
      /\ r.id = parent[q].id /\ r.status = parent[q].status
  BY <1>3, <1>4 DEF ParentRecords
<1> HIDE DEF r
<1>6. /\ parent' \in [Parents -> ParentRecords] /\ parent'[q] = r
      /\ \A p \in Parents \ {q} : parent'[p] = parent[p]
  BY <1>1, <1>2, <1>3, <1>5 DEF TypeOK
<1>7. /\ executor' \in [Children -> Executors] /\ executor'[c].at = "total"
      /\ executor'[c].parent = q
      /\ \A d \in Children \ {c} : executor'[d] = executor[d]
  BY <1>1, <1>2, GoesFacts DEF Ats, q
<1>8. TypeOK'
  BY <1>1, <1>2, <1>6, <1>7, TypeKept DEF TypeOK, ExecuteFrame
<1>9. \A p \in Parents :
        /\ parent'[p].id = parent[p].id /\ parent'[p].filled >= parent[p].filled
        /\ parent'[p].status = "Completed" => parent'[p].filled >= TotalQty
  <2>1. ASSUME NEW p \in Parents
        PROVE  /\ parent'[p].id = parent[p].id /\ parent'[p].filled >= parent[p].filled
               /\ parent'[p].status = parent[p].status
    <3>1. parent[p].filled \in Nat
      BY <1>1, ParentFields
    <3>2. CASE p = q
      BY <1>3, <1>4, <1>5, <1>6, <3>2
    <3>3. CASE p # q
      BY <1>6, <3>1, <3>3
    <3>4. QED
      BY <3>2, <3>3
  <2>2. ASSUME NEW p \in Parents, parent'[p].status = "Completed"
        PROVE  parent'[p].filled >= TotalQty
    <3>1. parent[p].filled >= TotalQty /\ parent[p].filled \in Nat /\ parent'[p].filled \in Nat
      BY <1>1, <1>8, <2>1, <2>2, ParentFields DEF IInv, CompletedInv, TypeOK, ParentRecords
    <3>2. QED
      BY <2>1, <3>1, Constants
  <2>3. QED
    BY <2>1, <2>2
<1>10. ChildInv(c)'
  <2>1. PlaceInv(c)'
    BY <1>1, <1>2, <1>7, <1>9, Fields DEF PlaceInv, Waits, InHands, At, Sending, Sent, ExecuteFrame
  <2>2. ReportInv(c)'
    BY <1>1, <1>2, <1>7 DEF ReportInv, PlaceInv, At, Sent
  <2>3. OwnerInv(c)'
    BY <1>3, <1>7 DEF OwnerInv, At
  <2>4. QED
    BY <2>1, <2>2, <2>3 DEF ChildInv
<1>11. FillsAddUp'
  <2>1. c \notin Booked /\ Booked' = Booked \cup {c} /\ IsFiniteSet(Booked)
    <3>1. c \notin Booked /\ Booked' = Booked \cup {c}
      BY <1>1, <1>7 DEF Booked, At
    <3>2. Booked \in SUBSET Children
      BY DEF Booked
    <3>3. QED
      BY <3>1, <3>2, Constants, FS_Subset
  <2>2. /\ \A d \in Booked : Reported[d] \in Int
        /\ Reported[c] = n /\ Reported' = Reported
    <3>1. \A d \in Children : Reported[d] \in Int
      BY <1>1, Fields DEF Reported
    <3>2. Booked \in SUBSET Children
      BY DEF Booked
    <3>3. Reported[c] = n /\ Reported' = Reported
      BY <1>1, <1>2 DEF Reported, ReportInv, At, n
    <3>4. QED
      BY <3>1, <3>2, <3>3
  <2>3. SumFunctionOnSet(Reported', Booked') = n + SumFunctionOnSet(Reported, Booked)
    BY <1>3, <2>1, <2>2, SumInsert
  <2>4. \A p \in Parents : Credited[p] \in Int /\ Credited'[p] \in Int
    BY <1>1, <1>8, ParentFields DEF Credited, TypeOK, ParentRecords
  <2>5. /\ Credited[q] = parent[q].filled /\ Credited'[q] = parent[q].filled + n
        /\ \A p \in Parents \ {q} : Credited[p] = Credited'[p]
    BY <1>3, <1>5, <1>6 DEF Credited
  <2>6. SumFunctionOnSet(Credited', Parents)
          = SumFunctionOnSet(Credited, Parents) - Credited[q] + Credited'[q]
    <3> DEFINE f == Credited
               g == Credited'
    <3>1. /\ IsFiniteSet(Parents) /\ q \in Parents
          /\ \A p \in Parents : f[p] \in Int /\ g[p] \in Int
          /\ \A p \in Parents \ {q} : f[p] = g[p]
      BY <1>3, <2>4, <2>5, Constants
    <3> HIDE DEF f, g
    <3>2. SumFunctionOnSet(g, Parents) = SumFunctionOnSet(f, Parents) - f[q] + g[q]
      BY <3>1, SumChange
    <3>3. QED
      BY <3>2 DEF f, g
  <2>7. SumFunctionOnSet(Credited, Parents) \in Int
    BY <2>4, Constants, SumRemove
  <2>8. QED
    BY <1>1, <1>3, <1>4, <2>3, <2>5, <2>6, <2>7 DEF FillsAddUp
<1>12. QED
  BY <1>2, <1>7, <1>8, <1>9, <1>10, <1>11, OneChild DEF ExecuteFrame, Settled

(* The goroutine completes its parent only after it saw the fills complete. *)
LEMMA CheckTotalStep ==
  ASSUME IInv, NEW c \in Children, CheckTotal(c), ExecuteFrame
  PROVE  IInv'
<1>1. TypeOK /\ PlaceInv(c) /\ ReportInv(c) /\ OwnerInv(c) /\ At(c, "total")
  BY DEF IInv, ChildInv, CheckTotal
<1>2. UNCHANGED <<parent, child, schedulerHeap, failures, order>> /\ failures \in 0..MaxFailures
  BY <1>1 DEF CheckTotal, TypeOK
<1>3. CASE IsComplete(executor[c].parent)
  <2>1. ExecutorGoes(c, "complete") /\ parent[executor[c].parent].filled >= TotalQty
    BY <1>3 DEF CheckTotal, IsComplete
  <2>2. QED
    BY <1>1, <1>2, <2>1, GoesStep DEF At, Ats, Sending, Sent
<1>4. CASE ~IsComplete(executor[c].parent)
  <2>1. Return(c)
    BY <1>4 DEF CheckTotal
  <2>2. /\ executor' \in [Children -> Executors] /\ executor'[c].at = "none"
        /\ \A d \in Children \ {c} : executor'[d] = executor[d]
    BY <1>1, <2>1, ReturnFacts
  <2>3. PlaceInv(c)'
    BY <1>1, <1>2, <2>2 DEF PlaceInv, Waits, InHands, At, Sending, Sent, ExecuteFrame
  <2>4. ReportInv(c)'
    BY <1>1, <1>2, <2>2 DEF ReportInv, At
  <2>5. OwnerInv(c)'
    BY <1>1, <1>2, <2>2 DEF OwnerInv, At
  <2>6. QED
    BY <1>1, <1>2, <2>2, <2>3, <2>4, <2>5, QuietStep DEF ChildInv, TypeOK, At, Settled
<1>5. QED
  BY <1>3, <1>4

(* A parent that completes has been executed: the invariant survives Complete. *)
LEMMA CompleteStep ==
  ASSUME IInv, NEW c \in Children, Complete(c), ExecuteFrame
  PROVE  IInv'
<1> DEFINE q == executor[c].parent
           r == [parent[q] EXCEPT !.status = "Completed"]
<1>1. TypeOK /\ PlaceInv(c) /\ ReportInv(c) /\ OwnerInv(c) /\ At(c, "complete") /\ FillsAddUp
  BY DEF IInv, ChildInv, Complete
<1>2. /\ parent' = [parent EXCEPT ![q] = r] /\ Return(c)
      /\ UNCHANGED <<child, schedulerHeap, failures, order>>
  BY DEF Complete
<1>3. q \in Parents /\ parent[q].filled >= TotalQty
  BY <1>1 DEF OwnerInv, At
<1> HIDE DEF q
<1>4. parent[q] \in ParentRecords
  BY <1>1, <1>3, ParentFields
<1>5. r \in ParentRecords /\ r.filled = parent[q].filled /\ r.id = parent[q].id
  BY <1>4 DEF ParentRecords
<1> HIDE DEF r
<1>6. /\ parent' \in [Parents -> ParentRecords] /\ parent'[q] = r
      /\ \A p \in Parents \ {q} : parent'[p] = parent[p]
  BY <1>1, <1>2, <1>3, <1>5 DEF TypeOK
<1>7. /\ executor' \in [Children -> Executors] /\ executor'[c].at = "none"
      /\ \A d \in Children \ {c} : executor'[d] = executor[d]
  BY <1>1, <1>2, ReturnFacts
<1>8. TypeOK'
  BY <1>1, <1>2, <1>6, <1>7, TypeKept DEF TypeOK, ExecuteFrame
<1>9. \A p \in Parents :
        /\ parent'[p].id = parent[p].id /\ parent'[p].filled = parent[p].filled
        /\ parent[p].filled \in Nat
        /\ parent'[p].status = "Completed" => parent'[p].filled >= TotalQty
  <2>1. ASSUME NEW p \in Parents, p # q
        PROVE  parent'[p] = parent[p] /\ (parent[p].status = "Completed" => parent[p].filled >= TotalQty)
    BY <1>6, <2>1 DEF IInv, CompletedInv
  <2>2. parent'[q].id = parent[q].id /\ parent'[q].filled = parent[q].filled
    BY <1>5, <1>6
  <2>3. \A p \in Parents : parent[p].filled \in Nat
    BY <1>1, ParentFields
  <2>4. QED
    BY <1>3, <2>1, <2>2, <2>3
<1>10. ChildInv(c)'
  <2>1. PlaceInv(c)'
    BY <1>1, <1>2, <1>7, <1>9, Fields DEF PlaceInv, Waits, InHands, At, Sending, Sent, ExecuteFrame
  <2>2. ReportInv(c)'
    BY <1>1, <1>2, <1>7 DEF ReportInv
  <2>3. OwnerInv(c)'
    BY <1>7 DEF OwnerInv, At
  <2>4. QED
    BY <2>1, <2>2, <2>3 DEF ChildInv
<1>11. FillsAddUp'
  BY <1>1, <1>2, <1>7, <1>9, SumsKept DEF At
<1>12. \A p \in Parents : parent'[p].filled >= parent[p].filled
  BY <1>9
<1>13. QED
  BY <1>2, <1>7, <1>8, <1>9, <1>10, <1>11, <1>12, OneChild DEF ExecuteFrame, Settled

(* Every step of executeChild keeps the invariant. *)
LEMMA ExecuteChildStep ==
  ASSUME IInv, NEW c \in Children, ExecuteChild(c)
  PROVE  IInv'
<1>1. ExecuteFrame
  BY DEF ExecuteChild, ExecuteFrame
<1>2. QED
  BY <1>1, ClaimStep, SendOrderStep, SendFailsStep, UnclaimStep, RequeueStep, ReadFilledStep,
     ReadStatusStep, StoreReportStep, StoreStatusStep, CreditStep, CheckTotalStep, CompleteStep
     DEF ExecuteChild

-----------------------------------------------------------------------------
(* The exchange *)

(* Another order trades with the child's: what is executed only grows, and  *)
(* an order that rests has something left to execute.                       *)
LEMMA ExchangeStepInv ==
  ASSUME IInv, NEW c \in Children, ExchangeStep(c)
  PROVE  IInv'
<1> DEFINE r == IF order[c].at = "resting"
                  THEN [order[c] EXCEPT !.at = "filling", !.executed = @ + 1]
                  ELSE OrderAfter(order[c].executed)
<1>1. TypeOK /\ PlaceInv(c) /\ ReportInv(c) /\ OwnerInv(c) /\ order[c].at \in {"resting", "filling"}
  BY DEF IInv, ChildInv, ExchangeStep, ExchangeFills, ExchangePublishes
<1>2. /\ order' = [order EXCEPT ![c] = r] /\ ExecuteFrame
      /\ UNCHANGED <<parent, child, schedulerHeap, executor, failures>>
  BY DEF ExchangeStep, ExchangeFills, ExchangePublishes, ExecuteFrame
<1>3. /\ order[c] \in OrderRecords /\ order[c].executed \in Nat
      /\ order[c].executed \in 0..SliceQty
      /\ executor[c].filled \in Nat /\ child[c].filled \in Nat
  BY <1>1, Fields, Constants
<1>4. /\ r \in OrderRecords /\ r.at # "unsent"
      /\ r.executed \in Nat /\ r.executed >= order[c].executed
      /\ r.at = "resting" => r.executed < SliceQty
  <2>1. CASE order[c].at = "resting"
    <3>1. order[c].executed < SliceQty /\ order[c].executed + 1 \in 0..SliceQty
      BY <1>1, <1>3, <2>1, Constants DEF ReportInv
    <3>2. r = [order[c] EXCEPT !.at = "filling", !.executed = @ + 1]
      BY <2>1
    <3> HIDE DEF r
    <3>3. r \in OrderRecords /\ r.at = "filling" /\ r.executed = order[c].executed + 1
      BY <1>3, <3>1, <3>2 DEF OrderRecords
    <3>4. QED
      BY <1>3, <3>3
  <2>2. CASE order[c].at = "filling"
    BY <1>3, <2>2, OrderAfterFacts
  <2>3. QED
    BY <1>1, <2>1, <2>2
<1> HIDE DEF r
<1>5. /\ order' \in [Children -> OrderRecords] /\ order'[c] = r
      /\ \A d \in Children \ {c} : order'[d] = order[d]
  BY <1>1, <1>2, <1>4 DEF TypeOK
<1>6. PlaceInv(c)'
  BY <1>1, <1>2, <1>4, <1>5 DEF PlaceInv, Waits, InHands, At, Sending, Sent, ExecuteFrame
<1>7. ReportInv(c)'
  BY <1>1, <1>2, <1>3, <1>4, <1>5 DEF ReportInv
<1>8. OwnerInv(c)'
  BY <1>1, <1>2 DEF OwnerInv, At
<1>9. QED
  BY <1>1, <1>2, <1>4, <1>5, <1>6, <1>7, <1>8, QuietStep DEF ChildInv, TypeOK, At, Settled

-----------------------------------------------------------------------------
(* The scheduler *)

(* A step of the scheduler that takes no child up and starts no goroutine.  *)
LEMMA SchedulerMoves ==
  ASSUME IInv, SchedulerFrame, UNCHANGED <<child, schedulerHeap, executor>>,
         scheduler' \in Places, thrown' \in BOOLEAN, Located',
         \A c \in Children : InHands(c)' => InHands(c)
  PROVE  IInv'
<1>1. TypeOK'
  BY DEF IInv, TypeOK, SchedulerFrame
<1>2. ASSUME NEW c \in Children PROVE ChildInv(c)'
  <2>1. ChildInv(c) /\ (InHands(c)' => InHands(c))
    BY DEF IInv
  <2>2. PlaceInv(c)'
    BY <2>1 DEF ChildInv, PlaceInv, Waits, At, SchedulerFrame
  <2>3. ReportInv(c)' /\ OwnerInv(c)'
    BY <2>1 DEF ChildInv, ReportInv, OwnerInv, At, SchedulerFrame
  <2>4. QED
    BY <2>2, <2>3 DEF ChildInv
<1>3. CancelInv' /\ CompletedInv'
  BY DEF IInv, CancelInv, CompletedInv, Settled, SchedulerFrame
<1>4. FillsAddUp'
  BY SumsKept DEF IInv, At, SchedulerFrame
<1>5. QED
  BY <1>1, <1>2, <1>3, <1>4 DEF IInv

ScheduledAts == {"select", "next", "status", "lookup", "lock", "parent", "exited"}

(* The scheduler goes on with the child and the parent it has. *)
LEMMA SchedulerGoesFacts ==
  ASSUME TypeOK, NEW a \in ScheduledAts, SchedulerGoes(a)
  PROVE  /\ scheduler \in Places /\ scheduler' \in Places /\ scheduler'.at = a
         /\ scheduler'.child = scheduler.child /\ scheduler'.parent = scheduler.parent
<1>1. scheduler \in Places
  BY DEF TypeOK
<1>2. QED
  BY <1>1 DEF Places, SchedulerGoes, ScheduledAts

(* A place with nobody in hand concerns no child. *)
LEMMA SchedulerGoesStep ==
  ASSUME IInv, SchedulerFrame, UNCHANGED <<child, schedulerHeap, executor>>,
         thrown' \in BOOLEAN, NEW a \in ScheduledAts, SchedulerGoes(a),
         a \in {"status", "lookup", "lock", "parent"}
           => scheduler.at \in {"status", "lookup", "lock", "parent"},
         a \in {"lock", "parent"} => scheduler.at \in {"lock", "parent"}
  PROVE  IInv'
<1>1. TypeOK /\ Located
  BY DEF IInv
<1>2. /\ scheduler' \in Places /\ scheduler'.at = a
      /\ scheduler'.child = scheduler.child /\ scheduler'.parent = scheduler.parent
  BY <1>1, SchedulerGoesFacts
<1>3. Located' /\ \A c \in Children : InHands(c)' => InHands(c)
  BY <1>1, <1>2 DEF Located, InHands, SchedulerFrame
<1>4. QED
  BY <1>2, <1>3, SchedulerMoves

(* The child is taken off the heap: it is in one place at a time. *)
LEMMA PopStep ==
  ASSUME IInv, Pop, SchedulerFrame
  PROVE  IInv'
<1>1. PICK c \in schedulerHeap :
        /\ schedulerHeap' = schedulerHeap \ {c}
        /\ scheduler' = [at |-> "status", child |-> c, parent |-> NoParent]
  BY DEF Pop
<1>2. /\ TypeOK /\ c \in Children /\ scheduler.at = "next" /\ ChildInv(c)
      /\ UNCHANGED <<child, executor, thrown>>
  BY DEF IInv, TypeOK, Pop
<1>3. /\ scheduler' \in Places /\ scheduler'.at = "status" /\ scheduler'.child = c
  BY <1>1, <1>2 DEF Places
<1>4. TypeOK'
  BY <1>1, <1>2, <1>3 DEF TypeOK, SchedulerFrame
<1>5. Located'
  BY <1>2, <1>3 DEF IInv, Located, SchedulerFrame
<1>6. \A d \in Children \ {c} : InHands(d)' => InHands(d)
  BY <1>3 DEF InHands
<1>7. ChildInv(c)'
  <2>1. PlaceInv(c)'
    BY <1>1, <1>2, <1>3 DEF ChildInv, PlaceInv, Waits, InHands, At, SchedulerFrame
  <2>2. ReportInv(c)' /\ OwnerInv(c)'
    BY <1>2 DEF ChildInv, ReportInv, OwnerInv, At, SchedulerFrame
  <2>3. QED
    BY <2>1, <2>2 DEF ChildInv
<1>8. FillsAddUp'
  BY <1>2, SumsKept DEF IInv, At, SchedulerFrame
<1>9. \A p \in Parents :
        /\ parent'[p].id = parent[p].id /\ parent'[p].filled >= parent[p].filled
        /\ parent'[p].status = "Completed" => parent'[p].filled >= TotalQty
  BY ParentFields DEF IInv, CompletedInv, SchedulerFrame
<1>10. Settled(c) => Settled(c)'
  BY <1>2 DEF Settled, SchedulerFrame
<1>11. /\ \A d \in Children \ {c} :
            /\ executor'[d] = executor[d] /\ child'[d] = child[d] /\ order'[d] = order[d]
            /\ d \in schedulerHeap' <=> d \in schedulerHeap
       /\ UNCHANGED <<canceller, cancelled>>
  BY <1>1, <1>2 DEF SchedulerFrame
<1>12. QED
  BY <1>2, <1>4, <1>5, <1>6, <1>7, <1>8, <1>9, <1>10, <1>11, OneChildInHand

(* The map leads the child to a parent, or the child is dropped. *)
LEMMA LookupParentStep ==
  ASSUME IInv, LookupParent, SchedulerFrame
  PROVE  IInv'
<1> DEFINE q == childToParent[ChildID(scheduler.child)]
           a == IF q = NoParent THEN "next" ELSE "lock"
<1>1. /\ TypeOK /\ Located /\ scheduler.at = "lookup" /\ scheduler \in Places
      /\ scheduler.child \in Children
      /\ scheduler' = [scheduler EXCEPT !.at = a, !.parent = q]
      /\ UNCHANGED <<child, schedulerHeap, executor, thrown>>
  BY DEF IInv, TypeOK, Located, LookupParent
<1>2. q \in Parents \cup {NoParent}
  BY <1>1, Fields DEF TypeOK, ChildID
<1>3. a \in {"next", "lock"} /\ (a = "lock" => q \in Parents)
  BY <1>2
<1> HIDE DEF q, a
<1>4. /\ scheduler' \in Places /\ scheduler'.at = a
      /\ scheduler'.child = scheduler.child /\ scheduler'.parent = q
  BY <1>1, <1>2, <1>3 DEF Places
<1>5. Located' /\ \A c \in Children : InHands(c)' => InHands(c)
  BY <1>1, <1>3, <1>4 DEF Located, InHands, SchedulerFrame
<1>6. thrown' \in BOOLEAN
  BY <1>1 DEF TypeOK
<1>7. QED
  BY <1>1, <1>4, <1>5, <1>6, SchedulerMoves

(* The scheduler lets go of the child: its parent is cancelled, and so is   *)
(* the child, or a goroutine has it from here on.                           *)
LEMMA CheckParentStep ==
  ASSUME IInv, CheckParent, SchedulerFrame
  PROVE  IInv'
<1>1. /\ TypeOK /\ Located /\ scheduler.at = "parent" /\ SchedulerGoes("next")
      /\ UNCHANGED <<schedulerHeap, thrown>>
  BY DEF IInv, CheckParent
<1>2. PICK c \in Children, q \in Parents :
        c = scheduler.child /\ q = scheduler.parent /\ InHands(c)
  BY <1>1 DEF Located, InHands
<1>3. /\ scheduler' \in Places /\ scheduler'.at = "next"
  BY <1>1, SchedulerGoesFacts DEF ScheduledAts
<1>4. ChildInv(c) /\ At(c, "none") /\ order[c].at = "unsent" /\ c \notin schedulerHeap
  BY <1>2 DEF IInv, ChildInv, PlaceInv, Waits
<1>5. CASE parent[q].status = "Cancelled"
  <2>1. child' = [child EXCEPT ![c].status = "Cancelled"] /\ UNCHANGED executor
    BY <1>2, <1>5 DEF CheckParent
  <2>2. /\ child' \in [Children -> ChildRecords]
        /\ child'[c].status = "Cancelled" /\ child'[c].filled = child[c].filled
        /\ \A d \in Children \ {c} : child'[d] = child[d]
    BY <1>1, <1>2, <2>1, StatusFacts
  <2>3. TypeOK'
    BY <1>1, <1>3, <2>1, <2>2 DEF TypeOK, SchedulerFrame
  <2>4. Located' /\ \A d \in Children : ~InHands(d)'
    BY <1>1, <1>3 DEF Located, InHands, SchedulerFrame
  <2>5. PlaceInv(c)'
    BY <1>1, <1>2, <1>4, <2>1, <2>4 DEF ChildInv, PlaceInv, Waits, At, SchedulerFrame, Sending, Sent
  <2>6. ReportInv(c)' /\ OwnerInv(c)'
    BY <1>2, <1>4, <2>1, <2>2 DEF ChildInv, ReportInv, OwnerInv, At, SchedulerFrame
  <2>7. FillsAddUp'
    <3>1. \A d \in Children : child'[d].filled = child[d].filled
      BY <2>2
    <3>2. QED
      BY <2>1, <3>1, SumsKept DEF IInv, At, SchedulerFrame
  <2>8. \A p \in Parents :
          /\ parent'[p].id = parent[p].id /\ parent'[p].filled >= parent[p].filled
          /\ parent'[p].status = "Completed" => parent'[p].filled >= TotalQty
    BY <1>1, ParentFields DEF IInv, CompletedInv, SchedulerFrame
  <2>9. Settled(c)'
    BY <2>2 DEF Settled
  <2>10. /\ \A d \in Children \ {c} :
              /\ executor'[d] = executor[d] /\ child'[d] = child[d] /\ order'[d] = order[d]
              /\ d \in schedulerHeap' <=> d \in schedulerHeap
         /\ UNCHANGED <<canceller, cancelled>>
    BY <1>1, <2>1, <2>2 DEF SchedulerFrame
  <2>11. QED
    BY <1>2, <2>3, <2>4, <2>5, <2>6, <2>7, <2>8, <2>9, <2>10, OneChildInHand DEF ChildInv
<1>6. CASE parent[q].status # "Cancelled"
  <2> DEFINE e == [executor[c] EXCEPT !.at = "claim", !.parent = q]
  <2>1. executor' = [executor EXCEPT ![c] = e] /\ UNCHANGED child
    BY <1>2, <1>6 DEF CheckParent
  <2>2. executor[c] \in Executors
    BY <1>1, <1>2, Fields
  <2>3. e \in Executors /\ e.at = "claim" /\ e.parent = q
    BY <1>2, <2>2 DEF Executors
  <2> HIDE DEF e
  <2>4. /\ executor' \in [Children -> Executors] /\ executor'[c] = e
        /\ \A d \in Children \ {c} : executor'[d] = executor[d]
    BY <1>1, <1>2, <2>1, <2>3 DEF TypeOK
  <2>5. TypeOK'
    BY <1>1, <1>3, <2>1, <2>4 DEF TypeOK, SchedulerFrame
  <2>6. Located' /\ \A d \in Children : ~InHands(d)'
    BY <1>1, <1>3 DEF Located, InHands, SchedulerFrame
  <2>7. PlaceInv(c)'
    <3>1. parent[c[1]].id > 0
      BY <1>2, <1>4 DEF ChildInv, PlaceInv, Waits
    <3>2. QED
      BY <1>1, <1>4, <2>3, <2>4, <2>6, <3>1 DEF PlaceInv, Waits, At, SchedulerFrame, Sending, Sent
  <2>8. ReportInv(c)'
    BY <1>4, <2>1, <2>3, <2>4 DEF ChildInv, ReportInv, SchedulerFrame
  <2>9. OwnerInv(c)'
    BY <1>2, <2>3, <2>4 DEF OwnerInv, At
  <2>10. FillsAddUp'
    <3>1. \A d \in Children :
            At(d, "status")' \/ At(d, "credit")' <=> At(d, "status") \/ At(d, "credit")
      BY <1>4, <2>3, <2>4 DEF At
    <3>2. QED
      BY <2>1, <3>1, SumsKept DEF IInv, SchedulerFrame
  <2>11. \A p \in Parents :
          /\ parent'[p].id = parent[p].id /\ parent'[p].filled >= parent[p].filled
          /\ parent'[p].status = "Completed" => parent'[p].filled >= TotalQty
    BY <1>1, ParentFields DEF IInv, CompletedInv, SchedulerFrame
  <2>12. Settled(c) => Settled(c)'
    BY <2>1 DEF Settled, SchedulerFrame
  <2>13. /\ \A d \in Children \ {c} :
              /\ executor'[d] = executor[d] /\ child'[d] = child[d] /\ order'[d] = order[d]
              /\ d \in schedulerHeap' <=> d \in schedulerHeap
         /\ UNCHANGED <<canceller, cancelled>>
    BY <1>1, <2>1, <2>4 DEF SchedulerFrame
  <2>14. QED
    BY <1>2, <2>5, <2>6, <2>7, <2>8, <2>9, <2>10, <2>11, <2>12, <2>13, OneChildInHand
       DEF ChildInv
<1>7. QED
  BY <1>5, <1>6

(* Every step of the scheduler keeps the invariant. *)
LEMMA SchedulerStepInv ==
  ASSUME IInv, SchedulerStep
  PROVE  IInv'
<1>1. TypeOK /\ Located /\ SchedulerFrame /\ thrown \in BOOLEAN /\ scheduler \in Places
  BY DEF IInv, TypeOK, SchedulerStep
<1>2. CASE Wake
  BY <1>1, <1>2, SchedulerGoesStep DEF Wake, ScheduledAts
<1>3. CASE CheckChild
  BY <1>1, <1>3, SchedulerGoesStep DEF CheckChild, ScheduledAts
<1>4. CASE FetchParent
  BY <1>1, <1>4, SchedulerGoesStep DEF FetchParent, ScheduledAts
<1>5. CASE ExitScheduler
  BY <1>1, <1>5, SchedulerGoesStep DEF ExitScheduler, ScheduledAts
<1>6. CASE Rest
  <2>1. scheduler' \in Places /\ scheduler'.at = "select"
    BY <1>6 DEF Rest, Select, Places
  <2>2. Located' /\ \A c \in Children : ~InHands(c)'
    BY <1>1, <2>1 DEF Located, InHands, SchedulerFrame
  <2>3. QED
    BY <1>1, <1>6, <2>1, <2>2, SchedulerMoves DEF Rest
<1>7. CASE ConcurrentMapUse
  <2>1. UNCHANGED <<child, schedulerHeap, executor, scheduler>> /\ thrown' \in BOOLEAN
    BY <1>7 DEF ConcurrentMapUse
  <2>2. Located' /\ \A c \in Children : InHands(c)' => InHands(c)
    BY <1>1, <2>1 DEF Located, InHands, SchedulerFrame
  <2>3. QED
    BY <1>1, <2>1, <2>2, SchedulerMoves
<1>8. CASE LookupParent
  BY <1>1, <1>8, LookupParentStep
<1>9. CASE Pop
  BY <1>1, <1>9, PopStep
<1>10. CASE CheckParent
  BY <1>1, <1>10, CheckParentStep
<1>11. QED
  BY <1>2, <1>3, <1>4, <1>5, <1>6, <1>7, <1>8, <1>9, <1>10 DEF SchedulerStep, Process

-----------------------------------------------------------------------------
(* Clients, Stop and CancelParent *)

(* A step that moves neither the scheduler nor a goroutine and neither      *)
(* sends nor fills an order.                                                *)
LEMMA AsideStep ==
  ASSUME IInv, TypeOK', Located', CancelInv', UNCHANGED <<schedulerHeap, scheduler, executor>>,
         \A c \in Children :
           /\ child'[c].filled = child[c].filled /\ order'[c].executed = order[c].executed
           /\ order'[c].at = "unsent" <=> order[c].at = "unsent"
           /\ order'[c].at = "resting" => order[c].at = "resting",
         \A p \in Parents :
           /\ parent'[p].id = parent[p].id /\ parent'[p].filled = parent[p].filled
           /\ parent'[p].status = "Completed" => parent[p].status = "Completed"
  PROVE  IInv'
<1>1. ASSUME NEW c \in Children PROVE ChildInv(c)'
  <2>1. ChildInv(c) /\ c[1] \in Parents
    BY Fields DEF IInv
  <2>2. PlaceInv(c)'
    BY <2>1 DEF ChildInv, PlaceInv, Waits, InHands, At
  <2>3. ReportInv(c)'
    BY <2>1 DEF ChildInv, ReportInv
  <2>4. OwnerInv(c)'
    BY <2>1 DEF ChildInv, OwnerInv, At
  <2>5. QED
    BY <2>2, <2>3, <2>4 DEF ChildInv
<1>2. CompletedInv'
  BY DEF IInv, CompletedInv
<1>3. FillsAddUp'
  BY SumsKept DEF IInv, At
<1>4. QED
  BY <1>1, <1>2, <1>3 DEF IInv

(* The parent gets an ID that is new to it, and its children, which were in *)
(* nobody's hands, are in the heap.                                         *)
LEMMA SubmitParentStep ==
  ASSUME IInv, NEW p \in Parents, SubmitParent(p)
  PROVE  IInv'
<1> DEFINE n == Cardinality(Registered) + 1
           r == [parent[p] EXCEPT !.id = n, !.status = "Running"]
<1>1. /\ TypeOK /\ parent[p] \in ParentRecords /\ parent[p].id = 0
      /\ parent' = [parent EXCEPT ![p] = r]
      /\ UNCHANGED <<scheduler, executor, canceller, stopping, thrown, failures, order,
                     cancelled, aborted>>
      /\ schedulerHeap' = schedulerHeap \cup ChildrenOf(p)
  BY ParentFields DEF IInv, SubmitParent
<1>2. n \in Nat /\ n > 0 /\ n \in ParentIDs
  <2>1. Registered \in SUBSET (Parents \ {p})
    BY <1>1 DEF Registered
  <2>2. IsFiniteSet(Parents \ {p}) /\ Cardinality(Parents \ {p}) = Cardinality(Parents) - 1
    BY Constants, FS_RemoveElement
  <2>3. /\ IsFiniteSet(Registered) /\ Cardinality(Registered) \in Nat
        /\ Cardinality(Parents) \in Nat
        /\ Cardinality(Registered) <= Cardinality(Parents \ {p})
    BY <2>1, <2>2, Constants, FS_Subset, FS_CardinalityType
  <2>4. QED
    BY <2>2, <2>3 DEF ParentIDs
<1> HIDE DEF n
<1>3. r \in ParentRecords /\ r.id = n /\ r.status = "Running" /\ r.filled = parent[p].filled
  BY <1>1, <1>2 DEF ParentRecords
<1> HIDE DEF r
<1>4. /\ parent' \in [Parents -> ParentRecords] /\ parent'[p] = r
      /\ \A q \in Parents \ {p} : parent'[q] = parent[q]
  BY <1>1, <1>3 DEF TypeOK
<1>5. \A c \in Children :
        /\ child'[c] \in ChildRecords /\ child'[c].status = child[c].status
        /\ child'[c].filled = child[c].filled
  <2>1. ASSUME NEW c \in Children
        PROVE  /\ child'[c] \in ChildRecords /\ child'[c].status = child[c].status
               /\ child'[c].filled = child[c].filled
    <3>1. child[c] \in ChildRecords /\ 0 \in ParentIDs
      BY <1>1, Fields, ParentFields
    <3>2. child'[c] = [child[c] EXCEPT !.parentID = 0] \/ child'[c] = child[c]
      BY <1>1 DEF SubmitParent
    <3>3. QED
      BY <3>1, <3>2 DEF ChildRecords
  <2>2. QED
    BY <2>1
<1>6. TypeOK'
  <2>1. child' \in [Children -> ChildRecords]
    <3>1. child' = [c \in Children |-> child'[c]]
      BY DEF SubmitParent
    <3>2. QED
      BY <1>5, <3>1
  <2>2. childToParent' \in [ParentIDs \X Slices -> Parents \cup {NoParent}]
    BY <1>1 DEF TypeOK, SubmitParent
  <2>3. schedulerHeap' \subseteq Children
    BY <1>1 DEF TypeOK, ChildrenOf, Children
  <2>4. mu' \in {"free", "submit", "cancel"} /\ (canceller'.at = "idle" <=> mu' # "cancel")
    BY <1>1 DEF TypeOK, SubmitParent
  <2>5. QED
    BY <1>1, <1>4, <2>1, <2>2, <2>3, <2>4 DEF TypeOK
<1>7. Located'
  BY <1>1 DEF IInv, Located
<1>8. ASSUME NEW c \in Children PROVE ChildInv(c)'
  <2>1. PlaceInv(c) /\ ReportInv(c) /\ OwnerInv(c) /\ c[1] \in Parents
    BY <1>1, Fields DEF IInv, ChildInv
  <2>2. PlaceInv(c)'
    <3>1. CASE c[1] = p
      BY <1>1, <1>2, <1>3, <1>4, <2>1, <3>1 DEF PlaceInv, Waits, InHands, At, Sending, Sent
    <3>2. CASE c[1] # p
      <4>1. c \in schedulerHeap' <=> c \in schedulerHeap
        BY <1>1, <3>2 DEF ChildrenOf
      <4>2. QED
        BY <1>1, <1>4, <2>1, <3>2, <4>1 DEF PlaceInv, Waits, InHands, At
    <3>3. QED
      BY <3>1, <3>2
  <2>3. ReportInv(c)'
    BY <1>1, <1>5, <2>1 DEF ReportInv
  <2>4. OwnerInv(c)'
    <3>1. \A q \in Parents : parent'[q].filled = parent[q].filled
      BY <1>3, <1>4
    <3>2. QED
      BY <1>1, <2>1, <3>1 DEF OwnerInv, At
  <2>5. QED
    BY <2>2, <2>3, <2>4 DEF ChildInv
<1>9. CancelInv'
  <2>1. \A c \in Children : Settled(c) => Settled(c)'
    BY <1>1, <1>5 DEF Settled
  <2>2. ASSUME NEW q \in cancelled, NEW c \in ChildrenOf(q) PROVE Settled(c)'
    BY <2>1 DEF IInv, TypeOK, CancelInv, ChildrenOf, Children
  <2>3. ASSUME canceller.at # "idle", NEW i \in Slices, i < canceller.slice
        PROVE  Settled(<<canceller.parent, i>>)'
    <3>1. PICK c \in Children : c = <<canceller.parent, i>>
      BY <2>3 DEF IInv, Located, Children
    <3>2. Settled(c)'
      BY <2>1, <2>3, <3>1 DEF IInv, CancelInv
    <3>3. QED
      BY <1>1, <3>1, <3>2 DEF Settled
  <2>4. QED
    BY <1>1, <2>2, <2>3 DEF CancelInv, Settled
<1>10. CompletedInv'
  BY <1>3, <1>4 DEF IInv, CompletedInv
<1>11. FillsAddUp'
  BY <1>1, <1>3, <1>4, <1>5, SumsKept DEF IInv, At
<1>12. QED
  BY <1>6, <1>7, <1>8, <1>9, <1>10, <1>11 DEF IInv

(* CancelParent takes ae.mu, and none of the parent's children is settled   *)
(* yet.                                                                     *)
LEMMA CancelParentStep ==
  ASSUME IInv, NEW p \in Parents, CancelParent(p)
  PROVE  IInv'
<1>1. /\ TypeOK /\ mu' = "cancel" /\ canceller' = [at |-> "store", parent |-> p, slice |-> 1]
      /\ UNCHANGED <<parent, child, childToParent, schedulerHeap, scheduler, executor,
                     stopping, thrown, failures, order, cancelled, aborted>>
  BY DEF IInv, CancelParent
<1>2. canceller' \in Cancellers /\ canceller'.at = "store" /\ canceller'.parent = p
      /\ canceller'.slice = 1
  BY <1>1, Constants DEF Cancellers, Slices
<1>3. TypeOK'
  BY <1>1, <1>2 DEF TypeOK
<1>4. Located'
  BY <1>1, <1>2 DEF IInv, Located
<1>5. CancelInv'
  <2>1. ~ \E i \in Slices : i < 1
    BY Constants DEF Slices
  <2>2. \A q \in cancelled : \A c \in ChildrenOf(q) : Settled(c)'
    BY <1>1 DEF IInv, CancelInv, Settled
  <2>3. QED
    BY <1>1, <1>2, <2>1, <2>2 DEF CancelInv, Settled
<1>6. QED
  BY <1>1, <1>3, <1>4, <1>5, AsideStep

(* The loop of CancelParent goes on when this child is settled: so are all  *)
(* of them when it ends.                                                    *)
LEMMA NextChildFacts ==
  ASSUME TypeOK, Located, CancelInv, canceller.at # "idle", NextChild,
         \A c \in Children : Settled(c) => Settled(c)',
         NEW d \in Children, d = ChildToCancel, Settled(d)'
  PROVE  /\ canceller' \in Cancellers /\ mu' \in {"free", "submit", "cancel"}
         /\ canceller'.at = "idle" <=> mu' # "cancel"
         /\ canceller'.at # "idle" => canceller'.parent \in Parents
         /\ cancelled' \subseteq Parents
         /\ CancelInv'
<1>1. PICK q \in Parents, i \in Slices :
        /\ q = canceller.parent /\ i = canceller.slice
        /\ canceller \in Cancellers /\ mu = "cancel"
        /\ d = <<q, i>> /\ cancelled \subseteq Parents
        /\ \A j \in Slices : j < i => Settled(<<q, j>>)
  BY DEF TypeOK, Located, Cancellers, ChildToCancel, CancelInv
<1>2. \A j \in Slices : j <= i => Settled(<<q, j>>)'
  <2>1. ASSUME NEW j \in Slices, j <= i PROVE Settled(<<q, j>>)'
    <3>1. PICK b \in Children : b = <<q, j>>
      BY <1>1 DEF Children
    <3>2. CASE j < i
      BY <1>1, <3>1, <3>2 DEF Settled
    <3>3. CASE j = i
      BY <1>1, <3>1, <3>3 DEF Settled
    <3>4. QED
      BY <1>1, <2>1, <3>2, <3>3, Constants DEF Slices
  <2>2. QED
    BY <2>1
<1>3. \A p \in cancelled : \A c \in ChildrenOf(p) : Settled(c)'
  BY <1>1 DEF CancelInv, ChildrenOf, Children
<1>4. CASE i < NumSlices
  <2>1. canceller' = [canceller EXCEPT !.at = "read", !.slice = i + 1] /\ UNCHANGED <<mu, cancelled>>
    BY <1>1, <1>4 DEF NextChild
  <2>2. i + 1 \in Slices
    BY <1>1, <1>4, Constants DEF Slices
  <2>3. /\ canceller' \in Cancellers /\ canceller'.at = "read" /\ canceller'.parent = q
        /\ canceller'.slice = i + 1
    BY <1>1, <2>1, <2>2 DEF Cancellers
  <2>4. \A j \in Slices : j < i + 1 => j <= i
    BY <1>1, Constants DEF Slices
  <2>5. CancelInv'
    BY <1>2, <1>3, <2>1, <2>3, <2>4 DEF CancelInv, Settled
  <2>6. QED
    BY <1>1, <2>1, <2>3, <2>5
<1>5. CASE ~(i < NumSlices)
  <2>1. canceller' = Idle /\ cancelled' = cancelled \cup {q} /\ mu' = "free"
    BY <1>1, <1>5 DEF NextChild
  <2>2. canceller' \in Cancellers /\ canceller'.at = "idle"
    BY <2>1, Constants DEF Idle, Cancellers, Slices
  <2>3. \A j \in Slices : j <= i
    BY <1>1, <1>5, Constants DEF Slices
  <2>4. \A c \in ChildrenOf(q) : Settled(c)'
    BY <1>2, <2>3 DEF ChildrenOf, Settled
  <2>5. CancelInv'
    BY <1>3, <2>1, <2>2, <2>4 DEF CancelInv, Settled
  <2>6. QED
    BY <1>1, <2>1, <2>2, <2>5
<1>6. QED
  BY <1>4, <1>5

(* CancelParent goes on with the same child. *)
LEMMA CancellerGoesFacts ==
  ASSUME TypeOK, Located, CancelInv, canceller.at # "idle",
         NEW a \in {"read", "abort", "write"}, CancellerGoes(a),
         \A c \in Children : Settled(c) => Settled(c)'
  PROVE  /\ canceller' \in Cancellers /\ mu' \in {"free", "submit", "cancel"}
         /\ canceller'.at = "idle" <=> mu' # "cancel"
         /\ canceller'.at # "idle" => canceller'.parent \in Parents
         /\ cancelled' \subseteq Parents
         /\ CancelInv'
<1>1. /\ canceller \in Cancellers /\ canceller.parent \in Parents /\ mu = "cancel"
      /\ canceller' = [canceller EXCEPT !.at = a] /\ UNCHANGED <<mu, cancelled>>
      /\ cancelled \subseteq Parents
  BY DEF TypeOK, Located, CancellerGoes
<1>2. /\ canceller' \in Cancellers /\ canceller'.at = a
      /\ canceller'.parent = canceller.parent /\ canceller'.slice = canceller.slice
  BY <1>1 DEF Cancellers
<1>3. \A p \in cancelled : \A c \in ChildrenOf(p) : Settled(c)'
  BY <1>1 DEF CancelInv, ChildrenOf, Children
<1>4. \A j \in Slices : j < canceller.slice => Settled(<<canceller.parent, j>>)'
  <2>1. ASSUME NEW j \in Slices, j < canceller.slice
        PROVE  Settled(<<canceller.parent, j>>)'
    <3>1. PICK b \in Children : b = <<canceller.parent, j>>
      BY <1>1 DEF Children
    <3>2. QED
      BY <1>1, <2>1, <3>1 DEF Settled, CancelInv
  <2>2. QED
    BY <2>1
<1>5. QED
  BY <1>1, <1>2, <1>3, <1>4 DEF CancelInv, Settled

(* Every step of CancelParent under ae.mu keeps the invariant. *)
LEMMA CancellerStepInv ==
  ASSUME IInv, CancellerStep
  PROVE  IInv'
<1>1. /\ TypeOK /\ Located /\ CancelInv
      /\ UNCHANGED <<childToParent, schedulerHeap, scheduler, executor, stopping, thrown, failures>>
  BY DEF IInv, CancellerStep
<1>2. CASE StoreCancelled
  <2>1. PICK q \in Parents : q = canceller.parent /\ canceller.at = "store"
    BY <1>1, <1>2 DEF StoreCancelled, Located
  <2> DEFINE r == [parent[q] EXCEPT !.status = "Cancelled"]
  <2>2. /\ parent' = [parent EXCEPT ![q] = r] /\ CancellerGoes("read")
        /\ UNCHANGED <<child, order, aborted>>
    BY <1>2, <2>1 DEF StoreCancelled
  <2>3. r \in ParentRecords /\ r.status = "Cancelled" /\ r.id = parent[q].id /\ r.filled = parent[q].filled
    BY <1>1, ParentFields DEF ParentRecords
  <2> HIDE DEF r
  <2>4. /\ parent' \in [Parents -> ParentRecords] /\ parent'[q] = r
        /\ \A p \in Parents \ {q} : parent'[p] = parent[p]
    BY <1>1, <2>2, <2>3 DEF TypeOK
  <2>5. /\ canceller' \in Cancellers /\ mu' \in {"free", "submit", "cancel"}
        /\ canceller'.at = "idle" <=> mu' # "cancel"
        /\ canceller'.at # "idle" => canceller'.parent \in Parents
        /\ cancelled' \subseteq Parents
        /\ CancelInv'
    BY <1>1, <2>1, <2>2, CancellerGoesFacts DEF Settled
  <2>6. TypeOK'
    BY <1>1, <2>2, <2>4, <2>5 DEF TypeOK
  <2>7. Located'
    BY <1>1, <2>5 DEF Located
  <2>8. \A p \in Parents :
          /\ parent'[p].id = parent[p].id /\ parent'[p].filled = parent[p].filled
          /\ parent'[p].status = "Completed" => parent[p].status = "Completed"
    BY <2>3, <2>4
  <2>9. QED
    BY <1>1, <2>2, <2>5, <2>6, <2>7, <2>8, AsideStep
<1>3. ASSUME ReadChild \/ AbortOrder \/ WriteChild
      PROVE  IInv'
  <2>1. canceller.at # "idle" /\ canceller \in Cancellers
    BY <1>1, <1>3 DEF ReadChild, AbortOrder, WriteChild, TypeOK
  <2>2. PICK d \in Children : d = ChildToCancel
    BY <1>1, <2>1 DEF Located, ChildToCancel, Children, Cancellers
  <2>3. ASSUME child' \in [Children -> ChildRecords], order' \in [Children -> OrderRecords],
               aborted' \subseteq Children, UNCHANGED parent,
               \A c \in Children :
                 /\ child'[c].filled = child[c].filled /\ order'[c].executed = order[c].executed
                 /\ order'[c].at = "unsent" <=> order[c].at = "unsent"
                 /\ order'[c].at = "resting" => order[c].at = "resting"
                 /\ child'[c].status \in {child[c].status, "Cancelled"},
               \/ NextChild /\ Settled(d)'
               \/ \E a \in {"read", "abort", "write"} : CancellerGoes(a)
        PROVE  IInv'
    <3>1. \A c \in Children : Settled(c) => Settled(c)'
      BY <2>3 DEF Settled
    <3>2. /\ canceller' \in Cancellers /\ mu' \in {"free", "submit", "cancel"}
          /\ canceller'.at = "idle" <=> mu' # "cancel"
          /\ canceller'.at # "idle" => canceller'.parent \in Parents
          /\ cancelled' \subseteq Parents
          /\ CancelInv'
      <4>1. CASE NextChild /\ Settled(d)'
        BY <1>1, <2>1, <2>2, <3>1, <4>1, NextChildFacts
      <4>2. CASE \E a \in {"read", "abort", "write"} : CancellerGoes(a)
        BY <1>1, <2>1, <3>1, <4>2, CancellerGoesFacts
      <4>3. QED
        BY <2>3, <4>1, <4>2
    <3>3. TypeOK'
      BY <1>1, <2>3, <3>2 DEF TypeOK
    <3>4. Located'
      BY <1>1, <3>2 DEF Located
    <3>5. QED
      BY <1>1, <2>3, <3>2, <3>3, <3>4, AsideStep
  <2>4. CASE ReadChild
    <3>1. UNCHANGED <<parent, child, order, aborted>>
      BY <2>4 DEF ReadChild
    <3>2. \/ NextChild /\ Settled(d)'
          \/ \E a \in {"read", "abort", "write"} : CancellerGoes(a)
      BY <2>2, <2>4, <3>1 DEF ReadChild, Settled
    <3>3. QED
      BY <1>1, <2>3, <3>1, <3>2 DEF TypeOK
  <2>5. CASE AbortOrder
    <3>1. CancellerGoes("write") /\ UNCHANGED <<parent, child, aborted>>
      BY <2>5 DEF AbortOrder
    <3>2. CASE UNCHANGED order
      BY <1>1, <2>3, <3>1, <3>2 DEF TypeOK
    <3>3. CASE order' # order
      <4> DEFINE r == [order[d] EXCEPT !.at = "done", !.status = "Cancelled"]
      <4>1. order[d].at = "resting" /\ order' = [order EXCEPT ![d] = r]
        BY <2>2, <2>5, <3>3 DEF AbortOrder
      <4>2. order[d] \in OrderRecords
        BY <1>1 DEF TypeOK
      <4>3. r \in OrderRecords /\ r.at = "done" /\ r.executed = order[d].executed
        BY <4>2 DEF OrderRecords, OrderStatuses
      <4> HIDE DEF r
      <4>4. /\ order' \in [Children -> OrderRecords] /\ order'[d] = r
            /\ \A c \in Children \ {d} : order'[c] = order[c]
        BY <1>1, <4>1, <4>3 DEF TypeOK
      <4>5. \A c \in Children :
              /\ order'[c].executed = order[c].executed
              /\ order'[c].at = "unsent" <=> order[c].at = "unsent"
              /\ order'[c].at = "resting" => order[c].at = "resting"
        BY <4>1, <4>3, <4>4
      <4>6. QED
        BY <1>1, <2>3, <3>1, <4>4, <4>5 DEF TypeOK
    <3>4. QED
      BY <3>2, <3>3
  <2>6. CASE WriteChild
    <3>1. /\ child' = [child EXCEPT ![d].status = "Cancelled"]
          /\ aborted' = aborted \cup {d} /\ NextChild /\ UNCHANGED <<parent, order>>
      BY <2>2, <2>6 DEF WriteChild
    <3>2. /\ child' \in [Children -> ChildRecords]
          /\ child'[d].status = "Cancelled" /\ child'[d].filled = child[d].filled
          /\ \A c \in Children \ {d} : child'[c] = child[c]
      BY <1>1, <3>1, StatusFacts
    <3>3. Settled(d)' /\ aborted' \subseteq Children /\ order' \in [Children -> OrderRecords]
      BY <1>1, <3>1, <3>2 DEF Settled, TypeOK
    <3>4. \A c \in Children :
            /\ child'[c].filled = child[c].filled
            /\ child'[c].status \in {child[c].status, "Cancelled"}
      BY <3>2
    <3>5. QED
      BY <2>3, <3>1, <3>2, <3>3, <3>4
  <2>7. QED
    BY <1>3, <2>4, <2>5, <2>6
<1>4. QED
  BY <1>2, <1>3 DEF CancellerStep

-----------------------------------------------------------------------------
(* The inductive invariant *)

(* The engine starts with nothing registered, sent or filled. *)
LEMMA InitInv ==
  ASSUME Init
  PROVE  IInv
<1>1. /\ 0 \in ParentIDs /\ 0 \in 0..SliceQty /\ 0 \in 0..MaxFailures /\ 1 \in Slices
  <2>1. Cardinality(Parents) \in Nat
    BY Constants, FS_CardinalityType
  <2>2. QED
    BY <2>1, Constants DEF ParentIDs, Slices
<1>2. \A p \in Parents :
        /\ parent[p] = [id |-> 0, status |-> "New", filled |-> 0]
        /\ parent[p] \in ParentRecords
  BY <1>1 DEF Init, ParentRecords
<1>3. \A c \in Children :
        /\ child[c] = [parentID |-> 0, status |-> "Pending", filled |-> 0, externalID |-> FALSE]
        /\ child[c] \in ChildRecords
  BY <1>1 DEF Init, ChildRecords
<1>4. \A c \in Children :
        /\ order[c] = [at |-> "unsent", executed |-> 0, status |-> "New"]
        /\ order[c] \in OrderRecords
  BY <1>1 DEF Init, OrderRecords, OrderStatuses
<1>5. Ended \in Executors /\ Ended.at = "none" /\ \A c \in Children : executor[c] = Ended
  BY <1>1 DEF Init, Ended, Executors, OrderStatuses
<1>6. Select \in Places /\ Select.at = "select" /\ Idle \in Cancellers /\ Idle.at = "idle"
  BY <1>1 DEF Select, Places, Idle, Cancellers
<1>7. TypeOK
  <2>1. /\ parent \in [Parents -> ParentRecords] /\ child \in [Children -> ChildRecords]
        /\ order \in [Children -> OrderRecords] /\ executor \in [Children -> Executors]
    <3>1. /\ parent = [p \in Parents |-> parent[p]] /\ child = [c \in Children |-> child[c]]
          /\ order = [c \in Children |-> order[c]] /\ executor = [c \in Children |-> executor[c]]
      BY DEF Init
    <3>2. QED
      BY <1>2, <1>3, <1>4, <1>5, <3>1
  <2>2. childToParent \in [ParentIDs \X Slices -> Parents \cup {NoParent}]
    BY DEF Init
  <2>3. QED
    BY <1>1, <1>6, <2>1, <2>2 DEF TypeOK, Init
<1>8. Located
  BY <1>6 DEF Located, Init
<1>9. ASSUME NEW c \in Children PROVE ChildInv(c)
  <2>1. ~Waits(c) /\ At(c, "none") /\ order[c].at = "unsent"
    BY <1>4, <1>5, <1>6 DEF Waits, InHands, At, Init
  <2>2. PlaceInv(c)
    BY <1>5, <2>1 DEF PlaceInv, Waits, At, Sending, Sent
  <2>3. ReportInv(c)
    BY <1>3, <1>4, <1>5 DEF ReportInv
  <2>4. OwnerInv(c)
    BY <1>5 DEF OwnerInv, At
  <2>5. QED
    BY <2>2, <2>3, <2>4 DEF ChildInv
<1>10. CancelInv /\ CompletedInv
  BY <1>2, <1>6 DEF CancelInv, CompletedInv, Init
<1>11. FillsAddUp
  <2>1. \A p \in Parents : Credited[p] = 0
    BY <1>2 DEF Credited
  <2>2. Booked \subseteq Children /\ \A c \in Children : Reported[c] = 0
    BY <1>3 DEF Booked, Reported
  <2>3. IsFiniteSet(Booked) /\ \A c \in Booked : Reported[c] = 0
    BY <2>2, Constants, FS_Subset
  <2>4. SumFunctionOnSet(Credited, Parents) = 0
    BY <2>1, Constants, SumZero
  <2>5. SumFunctionOnSet(Reported, Booked) = 0
    BY <2>3, SumZero
  <2>6. QED
    BY <2>4, <2>5 DEF FillsAddUp
<1>12. QED
  BY <1>7, <1>8, <1>9, <1>10, <1>11 DEF IInv

(* Every step keeps the invariant. *)
LEMMA NextInv ==
  ASSUME IInv, [Next]_vars
  PROVE  IInv'
<1>1. CASE UNCHANGED vars
  <2>1. TypeOK' /\ Located' /\ CancelInv'
    BY <1>1 DEF vars, IInv, TypeOK, Located, CancelInv, Settled
  <2>2. UNCHANGED <<schedulerHeap, scheduler, executor, child, order, parent>>
    BY <1>1 DEF vars
  <2>3. QED
    BY <2>1, <2>2, AsideStep
<1>2. ASSUME SubmitReturns \/ Stop PROVE IInv'
  <2>1. /\ UNCHANGED <<parent, child, childToParent, schedulerHeap, scheduler, executor,
                       canceller, thrown, failures, order, cancelled, aborted>>
        /\ mu' = mu \/ (mu = "submit" /\ mu' = "free")
        /\ stopping' \in {stopping, TRUE}
    BY <1>2 DEF SubmitReturns, Stop
  <2>2. TypeOK'
    BY <2>1 DEF IInv, TypeOK
  <2>3. Located' /\ CancelInv'
    BY <2>1 DEF IInv, Located, CancelInv, Settled
  <2>4. QED
    BY <2>1, <2>2, <2>3, AsideStep
<1>3. CASE Next
  BY <1>2, <1>3, SubmitParentStep, CancelParentStep, SchedulerStepInv, ExecuteChildStep,
     ExchangeStepInv, CancellerStepInv DEF Next
<1>4. QED
  BY <1>1, <1>3

(* IInv holds in every state of every behaviour. *)
THEOREM Inductive == Spec => []IInv
<1>1. Init => IInv
  BY InitInv
<1>2. IInv /\ [Next]_vars => IInv'
  BY NextInv
<1>3. QED
  BY <1>1, <1>2, PTL DEF Spec

-----------------------------------------------------------------------------
(* What follows from it *)

(* The types of the variables: whatever the order in which the goroutines   *)
(* run, ae.mu is with CancelParent exactly while it is under way, and the   *)
(* children's quantities stay within a slice.                               *)
THEOREM TypeCorrect == Spec => []TypeOK
BY Inductive, PTL DEF IInv

(* No order is sent twice: while a child waits in the heap or with the      *)
(* scheduler, it has no goroutine and was never sent (engine.go, Requeue    *)
(* only after a failed SendOrder).                                          *)
THEOREM NothingSentTwice == Spec => []SentOnce
<1>1. IInv => SentOnce
  BY DEF IInv, ChildInv, PlaceInv, Waits, SentOnce
<1>2. QED
  BY <1>1, Inductive, PTL

(* When CancelParent has returned, no child of the parent is pending again, *)
(* although executeChild stores statuses without ae.mu.                     *)
THEOREM CancelledForGood == Spec => []CancelSettles
<1>1. IInv => CancelSettles
  BY DEF IInv, CancelInv, Settled, CancelSettles
<1>2. QED
  BY <1>1, Inductive, PTL

(* The parents' FilledQty, added to without a lock, add up to what their    *)
(* children reported.                                                       *)
THEOREM NoFillLost == Spec => []FillsAddUp
BY Inductive, PTL DEF IInv

(* The completed parents' total is covered by what the exchange executed.   *)
THEOREM CompletedAreExecuted == Spec => []CompletedIsExecuted
<1>1. ASSUME IInv PROVE CompletedIsExecuted
  <2> DEFINE done == {p \in Parents : parent[p].status = "Completed"}
             full == {p \in Parents : Credited[p] >= TotalQty}
  <2>1. /\ TypeOK /\ TotalQty \in Nat /\ IsFiniteSet(Parents) /\ IsFiniteSet(Children)
        /\ Booked \in SUBSET Children
    BY <1>1, Constants DEF IInv, Booked
  <2>2. \A p \in Parents : Credited[p] \in Nat
    BY <2>1, ParentFields DEF Credited
  <2>3. \A c \in Children : Reported[c] \in Nat /\ Executed[c] \in Nat /\ Reported[c] <= Executed[c]
    BY <1>1, <2>1, Fields DEF Reported, Executed, IInv, ChildInv, ReportInv
  <2>4. done \in SUBSET full /\ IsFiniteSet(full)
    <3>1. done \in SUBSET full /\ full \in SUBSET Parents
      BY <1>1 DEF IInv, CompletedInv, Credited
    <3>2. QED
      BY <2>1, <3>1, FS_Subset
  <2>5. /\ Cardinality(done) \in Nat /\ Cardinality(full) \in Nat
        /\ Cardinality(done) <= Cardinality(full)
    BY <2>4, FS_Subset, FS_CardinalityType
  <2>6. TotalQty * Cardinality(full) <= SumFunctionOnSet(Credited, Parents)
    BY <2>1, <2>2, SumAtLeast
  <2>7. SumFunctionOnSet(Credited, Parents) = SumFunctionOnSet(Reported, Booked)
    BY <1>1 DEF IInv, FillsAddUp
  <2>8. /\ SumFunctionOnSet(Reported, Booked) <= SumFunctionOnSet(Reported, Children)
        /\ SumFunctionOnSet(Reported, Booked) \in Nat
    BY <2>1, <2>3, SumOfPart
  <2>9. SumFunctionOnSet(Reported, Children) <= SumFunctionOnSet(Executed, Children)
    BY <2>1, <2>3, SumAtMost
  <2>10. /\ SumFunctionOnSet(Reported, Children) \in Int
         /\ SumFunctionOnSet(Executed, Children) \in Int
    BY <2>1, <2>3, SumRemove
  <2> HIDE DEF done, full
  <2>11. TotalQty * Cardinality(done) <= TotalQty * Cardinality(full)
    BY <2>1, <2>5, Constants
  <2>12. TotalQty * Cardinality(done) \in Nat /\ TotalQty * Cardinality(full) \in Nat
    BY <2>1, <2>5
  <2> DEFINE a == TotalQty * Cardinality(done)
             b == TotalQty * Cardinality(full)
  <2> HIDE DEF a, b
  <2>13. a <= SumFunctionOnSet(Executed, Children)
    BY <2>6, <2>7, <2>8, <2>9, <2>10, <2>11, <2>12 DEF a, b
  <2>14. QED
    BY <2>13 DEF a, done, CompletedIsExecuted
<1>2. QED
  BY <1>1, Inductive, PTL
-----------------------------------------------------------------------------
(* How much work there is *)

(* The steps that the goroutine of a child has before it, at each place: a  *)
(* failed send leads to another one.                                        *)
Ahead(at) ==
  CASE at = "none"     -> 0
    [] at = "complete" -> 1
    [] at = "total"    -> 2
    [] at = "credit"   -> 3
    [] at = "status"   -> 4
    [] at = "ids"      -> 5
    [] at = "report"   -> 6
    [] at = "filled"   -> 7
    [] at = "send"     -> 8
    [] at = "claim"    -> 9
    [] at = "requeue"  -> 15
    [] at = "failed"   -> 16

(* Those of a child that waits in the heap: the scheduler's and the         *)
(* goroutine's.                                                             *)
HeapCost == 14
HeapLeft(c) == IF c \in schedulerHeap THEN HeapCost ELSE 0

(* A fill of its order that has begun is to be finished. *)
FillLeft(c) == IF order[c].at = "filling" THEN 1 ELSE 0

ChildLeft == [c \in Children |-> Ahead(executor[c].at) + HeapLeft(c) + FillLeft(c)]

(* The scheduler's steps until it has nothing in hand, with those that the  *)
(* goroutine has which it may start.                                        *)
SchedulerLeft ==
  CASE scheduler.at = "exited" -> 0
    [] scheduler.at = "select" -> 1
    [] scheduler.at = "next"   -> 2
    [] scheduler.at = "parent" -> 12
    [] scheduler.at = "lock"   -> 13
    [] scheduler.at = "lookup" -> 14
    [] scheduler.at = "status" -> 15

(* The steps of CancelParent with the child it is at, *)
SliceLeft ==
  CASE canceller.at = "idle"  -> 0
    [] canceller.at = "write" -> 1
    [] canceller.at = "abort" -> 2
    [] canceller.at = "read"  -> 3
    [] canceller.at = "store" -> 4

(* and those for which ae.mu will still be held. *)
MuLeft ==
  CASE mu = "free"   -> 0
    [] mu = "submit" -> 1
    [] mu = "cancel" -> 3 * (NumSlices - canceller.slice) + SliceLeft

WorkLeft == SumFunctionOnSet(ChildLeft, Children) + SchedulerLeft + MuLeft

(* What comes from outside adds a fixed number of steps, and every other    *)
(* step takes one off: a parent or a cancellation adds in proportion to its *)
(* children, a tick, a failed send and a fill a few.                        *)
StepBounded ==
  \/ WorkLeft' < WorkLeft
  \/ \E p \in Parents :
       \/ SubmitParent(p) /\ WorkLeft' <= WorkLeft + HeapCost * NumSlices + 1
       \/ CancelParent(p) /\ WorkLeft' = WorkLeft + 3 * NumSlices + 1
  \/ \E c \in Children :
       \/ SendFails(c) /\ WorkLeft' = WorkLeft + 8
       \/ ExchangeFills(c) /\ WorkLeft' = WorkLeft + 1
  \/ Wake /\ WorkLeft' = WorkLeft + 1
  \/ (Stop \/ ConcurrentMapUse) /\ WorkLeft' = WorkLeft

WorkBounded == [][StepBounded]_vars

(* Nobody can go on, but for a client, a tick or a fill at the exchange: a  *)
(* guard of every other action fails.                                       *)
NothingToDo ==
  /\ \/ scheduler.at = "exited"
     \/ scheduler.at = "select" /\ ~stopping
     \/ scheduler.at \in {"next", "lock"} /\ mu # "free"
  /\ \A c \in Children : At(c, "none") \/ (At(c, "requeue") /\ mu # "free")
  /\ \A c \in Children : order[c].at # "filling"
  /\ mu # "submit"
  /\ \/ canceller.at = "idle"
     \/ /\ canceller.at = "abort"
        /\ child[ChildToCancel].externalID
        /\ order[ChildToCancel].at \notin {"done", "resting"}

(* Then ae.mu is free and no goroutine is left, nor the scheduler's loop    *)
(* when the engine was stopped: nobody waits for a mutex that is not given  *)
(* back, and CancelParent, which waits for the exchange with ae.mu held,    *)
(* does not wait for one that waits for ae.mu.                              *)
NobodyStuck ==
  NothingToDo => mu = "free" /\ (\A c \in Children : At(c, "none")) /\ (stopping => Stopped)

(* A child that has an ExternalID has an order. *)
ExternalInv == \A c \in Children : child[c].externalID => order[c].at # "unsent"

(* What the numbers of the places are. *)
LEMMA AheadIs ==
  /\ Ahead("none") = 0 /\ Ahead("complete") = 1 /\ Ahead("total") = 2 /\ Ahead("credit") = 3
  /\ Ahead("status") = 4 /\ Ahead("ids") = 5 /\ Ahead("report") = 6 /\ Ahead("filled") = 7
  /\ Ahead("send") = 8 /\ Ahead("claim") = 9 /\ Ahead("requeue") = 15 /\ Ahead("failed") = 16
  /\ \A a \in Ats : Ahead(a) \in Nat
<1>1. /\ Ahead("none") = 0 /\ Ahead("complete") = 1 /\ Ahead("total") = 2 /\ Ahead("credit") = 3
      /\ Ahead("status") = 4 /\ Ahead("ids") = 5 /\ Ahead("report") = 6 /\ Ahead("filled") = 7
      /\ Ahead("send") = 8 /\ Ahead("claim") = 9 /\ Ahead("requeue") = 15
      /\ Ahead("failed") = 16
  BY DEF Ahead
<1>2. QED
  BY <1>1 DEF Ats

(* The parts of the measure are natural. *)
LEMMA WorkTypes ==
  ASSUME IInv
  PROVE  /\ \A c \in Children : ChildLeft[c] \in Nat
         /\ SumFunctionOnSet(ChildLeft, Children) \in Nat
         /\ SchedulerLeft \in Nat /\ MuLeft \in Nat /\ WorkLeft \in Nat
<1>1. TypeOK
  BY DEF IInv
<1>2. ASSUME NEW c \in Children PROVE ChildLeft[c] \in Nat
  <2>1. Ahead(executor[c].at) \in Nat
    BY <1>1, Fields, AheadIs
  <2>2. HeapLeft(c) \in Nat /\ FillLeft(c) \in Nat
    BY DEF HeapLeft, HeapCost, FillLeft
  <2>3. QED
    BY <2>1, <2>2 DEF ChildLeft
<1>3. SumFunctionOnSet(ChildLeft, Children) \in Nat
  BY <1>2, Constants, SumOfPart
<1>4. SchedulerLeft \in Nat
  <2>1. scheduler.at \in ScheduledAts
    BY <1>1 DEF TypeOK, Places, ScheduledAts
  <2>2. QED
    BY <2>1 DEF SchedulerLeft, ScheduledAts
<1>5. MuLeft \in Nat
  <2>1. SliceLeft \in Nat
    BY <1>1 DEF TypeOK, Cancellers, SliceLeft
  <2>2. NumSlices - canceller.slice \in Nat
    BY <1>1, Constants DEF TypeOK, Cancellers, Slices
  <2>3. 3 * (NumSlices - canceller.slice) \in Nat
    BY <2>2
  <2>4. mu \in {"free", "submit", "cancel"}
    BY <1>1 DEF TypeOK
  <2>5. QED
    BY <2>1, <2>3, <2>4 DEF MuLeft
<1>6. WorkLeft \in Nat
  BY <1>3, <1>4, <1>5 DEF WorkLeft
<1>7. QED
  BY <1>2, <1>3, <1>4, <1>5, <1>6

(* A step that concerns one child changes the sum by what it changes there. *)
LEMMA OneChildLeft ==
  ASSUME IInv, NEW c \in Children, NEW n \in Int, ChildLeft'[c] = n,
         \A d \in Children \ {c} :
           /\ executor'[d] = executor[d] /\ order'[d] = order[d]
           /\ d \in schedulerHeap' <=> d \in schedulerHeap
  PROVE  SumFunctionOnSet(ChildLeft, Children)'
           = SumFunctionOnSet(ChildLeft, Children) - ChildLeft[c] + n
<1>1. \A d \in Children \ {c} : ChildLeft'[d] = ChildLeft[d]
  BY DEF ChildLeft, HeapLeft, FillLeft
<1>2. \A d \in Children : ChildLeft[d] \in Int
  BY WorkTypes
<1>3. \A d \in Children : ChildLeft'[d] \in Int
  BY <1>1, <1>2
<1>4. SumFunctionOnSet(ChildLeft', Children)
        = SumFunctionOnSet(ChildLeft, Children) - ChildLeft[c] + ChildLeft'[c]
  BY <1>1, <1>2, <1>3, Constants, SumChange
<1>5. QED
  BY <1>4

(* A step that concerns none leaves it as it is. *)
LEMMA NoChildLeft ==
  ASSUME UNCHANGED <<executor, schedulerHeap>>,
         \A d \in Children : order'[d].at = "filling" <=> order[d].at = "filling"
  PROVE  SumFunctionOnSet(ChildLeft, Children)' = SumFunctionOnSet(ChildLeft, Children)
<1>1. ChildLeft' = ChildLeft
  BY DEF ChildLeft, HeapLeft, FillLeft
<1>2. QED
  BY <1>1

(* Each step of executeChild takes one off at least, but for a failed send. *)
LEMMA ExecutorWork ==
  ASSUME IInv, NEW c \in Children, ExecuteChild(c)
  PROVE  WorkLeft' < WorkLeft \/ (SendFails(c) /\ WorkLeft' = WorkLeft + 8)
<1> DEFINE sum == SumFunctionOnSet(ChildLeft, Children)
<1>1. /\ TypeOK /\ ChildInv(c) /\ executor[c].at \in Ats
      /\ executor \in [Children -> Executors] /\ order \in [Children -> OrderRecords]
  BY Fields DEF IInv, TypeOK
<1>2. /\ ChildLeft[c] \in Nat /\ sum \in Nat /\ SchedulerLeft \in Nat /\ MuLeft \in Nat
      /\ WorkLeft = sum + SchedulerLeft + MuLeft
  BY WorkTypes DEF WorkLeft
<1>3. /\ UNCHANGED <<scheduler, mu, canceller>> /\ SchedulerLeft' = SchedulerLeft
      /\ MuLeft' = MuLeft
  BY DEF ExecuteChild, SchedulerLeft, MuLeft, SliceLeft
<1>4. WorkLeft' = sum' + SchedulerLeft + MuLeft
  BY <1>3 DEF WorkLeft
<1>5. ~At(c, "none") => c \notin schedulerHeap
  BY <1>1 DEF ChildInv, PlaceInv, Waits
<1>6. /\ ChildLeft[c] = Ahead(executor[c].at) + HeapLeft(c) + FillLeft(c)
      /\ ChildLeft'[c] = Ahead(executor'[c].at) + HeapLeft(c)' + FillLeft(c)'
  BY DEF ChildLeft
<1>7. ASSUME NEW k \in Int, ChildLeft'[c] = ChildLeft[c] + k,
             \A d \in Children \ {c} :
               /\ executor'[d] = executor[d] /\ order'[d] = order[d]
               /\ d \in schedulerHeap' <=> d \in schedulerHeap
      PROVE  WorkLeft' = WorkLeft + k
  <2>1. sum' = sum - ChildLeft[c] + (ChildLeft[c] + k)
    BY <1>2, <1>7, OneChildLeft
  <2>2. QED
    BY <1>2, <1>4, <2>1
<1> HIDE DEF sum
<1>8. ASSUME NEW a \in Ats, ExecutorGoes(c, a) \/ (a = "none" /\ Return(c))
      PROVE  executor'[c].at = a /\ \A d \in Children \ {c} : executor'[d] = executor[d]
  BY <1>1, <1>8 DEF ExecutorGoes, Return, Ended, Executors
<1>9. ASSUME NEW a \in Ats, executor'[c].at = a, ~At(c, "none"),
             \A d \in Children \ {c} : executor'[d] = executor[d],
             UNCHANGED <<schedulerHeap, order>>
      PROVE  WorkLeft' = WorkLeft + (Ahead(a) - Ahead(executor[c].at))
  <2>1. HeapLeft(c)' = HeapLeft(c) /\ FillLeft(c)' = FillLeft(c)
    BY <1>9 DEF HeapLeft, FillLeft
  <2>2. Ahead(a) \in Nat /\ Ahead(executor[c].at) \in Nat
    BY <1>1, AheadIs
  <2>3. HeapLeft(c) \in Nat /\ FillLeft(c) \in Nat
    BY DEF HeapLeft, HeapCost, FillLeft
  <2>4. ChildLeft'[c] = ChildLeft[c] + (Ahead(a) - Ahead(executor[c].at))
    BY <1>6, <1>9, <2>1, <2>2, <2>3
  <2>5. Ahead(a) - Ahead(executor[c].at) \in Int
    BY <2>2
  <2>6. QED
    BY <1>7, <1>9, <2>4, <2>5
<1>10. ASSUME NEW a \in Ats, NEW b \in Ats, At(c, b), b # "none", Ahead(a) < Ahead(b),
              executor'[c].at = a,
              \A d \in Children \ {c} : executor'[d] = executor[d],
              UNCHANGED <<schedulerHeap, order>>
       PROVE  WorkLeft' < WorkLeft
  <2>1. WorkLeft' = WorkLeft + (Ahead(a) - Ahead(b))
    BY <1>9, <1>10 DEF At
  <2>2. Ahead(a) \in Nat /\ Ahead(b) \in Nat /\ WorkLeft \in Nat
    BY AheadIs, WorkTypes
  <2>3. QED
    BY <1>10, <2>1, <2>2
<1>11. CASE Claim(c)
  <2>1. CASE ExecutorGoes(c, "send")
    BY <1>8, <1>10, <1>11, <2>1, AheadIs DEF Claim, Ats
  <2>2. CASE Return(c)
    BY <1>8, <1>10, <1>11, <2>2, AheadIs DEF Claim, Ats
  <2>3. QED
    BY <1>11, <2>1, <2>2 DEF Claim
<1>12. CASE SendOrder(c)
  <2>1. At(c, "send") /\ order[c].at = "unsent"
    BY <1>1, <1>12 DEF SendOrder, ChildInv, PlaceInv, Sending, At
  <2>2. executor'[c].at = "filled" /\ \A d \in Children \ {c} : executor'[d] = executor[d]
    BY <1>8, <1>12 DEF SendOrder, Ats
  <2>3. UNCHANGED schedulerHeap /\ \A d \in Children \ {c} : order'[d] = order[d]
    BY <1>1, <1>12 DEF SendOrder
  <2>4. order'[c].at \in {"done", "resting"}
    BY <1>1, <1>12 DEF SendOrder, OrderAfter
  <2>5. FillLeft(c) = 0 /\ FillLeft(c)' = 0 /\ HeapLeft(c)' = HeapLeft(c) /\ HeapLeft(c) \in Nat
    BY <2>1, <2>3, <2>4 DEF FillLeft, HeapLeft, HeapCost
  <2>6. ChildLeft'[c] = ChildLeft[c] + (-1)
    BY <1>6, <2>1, <2>2, <2>5, AheadIs DEF At
  <2>7. WorkLeft' = WorkLeft + (-1)
    BY <1>7, <2>2, <2>3, <2>6
  <2>8. QED
    BY <2>7, WorkTypes
<1>13. CASE SendFails(c)
  <2>1. executor'[c].at = "failed" /\ \A d \in Children \ {c} : executor'[d] = executor[d]
    BY <1>8, <1>13 DEF SendFails, Ats
  <2>2. At(c, "send") /\ UNCHANGED <<schedulerHeap, order>>
    BY <1>13 DEF SendFails
  <2>3. WorkLeft' = WorkLeft + (Ahead("failed") - Ahead("send"))
    BY <1>9, <2>1, <2>2 DEF Ats, At
  <2>4. WorkLeft' = WorkLeft + 8
    BY <2>3, AheadIs, WorkTypes
  <2>5. QED
    BY <1>13, <2>4
<1>14. CASE Unclaim(c)
  BY <1>8, <1>10, <1>14, AheadIs DEF Unclaim, Ats
<1>15. CASE Requeue(c)
  <2>1. executor'[c].at = "none" /\ \A d \in Children \ {c} : executor'[d] = executor[d]
    BY <1>8, <1>15 DEF Requeue, Ats
  <2>2. At(c, "requeue") /\ c \notin schedulerHeap /\ schedulerHeap' = schedulerHeap \cup {c}
        /\ UNCHANGED order
    BY <1>5, <1>15 DEF Requeue, At
  <2>3. HeapLeft(c) = 0 /\ HeapLeft(c)' = 14 /\ FillLeft(c)' = FillLeft(c) /\ FillLeft(c) \in Nat
    BY <2>2 DEF HeapLeft, HeapCost, FillLeft
  <2>4. ChildLeft'[c] = ChildLeft[c] + (-1)
    BY <1>6, <2>1, <2>2, <2>3, AheadIs DEF At
  <2>5. WorkLeft' = WorkLeft + (-1)
    BY <1>7, <2>1, <2>2, <2>4
  <2>6. QED
    BY <2>5, WorkTypes
<1>16. CASE ReadFilled(c)
  <2>1. executor'[c].at = "report" /\ \A d \in Children \ {c} : executor'[d] = executor[d]
    BY <1>1, <1>16 DEF ReadFilled, Executors
  <2>2. At(c, "filled") /\ UNCHANGED <<schedulerHeap, order>>
    BY <1>16 DEF ReadFilled
  <2>3. WorkLeft' < WorkLeft
    BY <1>10, <2>1, <2>2, AheadIs DEF Ats
  <2>4. QED
    BY <2>3
<1>17. CASE ReadStatus(c)
  <2>1. executor'[c].at = "ids" /\ \A d \in Children \ {c} : executor'[d] = executor[d]
    BY <1>1, <1>17 DEF ReadStatus, Executors
  <2>2. At(c, "report") /\ UNCHANGED <<schedulerHeap, order>>
    BY <1>17 DEF ReadStatus
  <2>3. WorkLeft' < WorkLeft
    BY <1>10, <2>1, <2>2, AheadIs DEF Ats
  <2>4. QED
    BY <2>3
<1>18. CASE StoreReport(c)
  BY <1>8, <1>10, <1>18, AheadIs DEF StoreReport, Ats
<1>19. CASE StoreStatus(c)
  BY <1>8, <1>10, <1>19, AheadIs DEF StoreStatus, Ats
<1>20. CASE Credit(c)
  BY <1>8, <1>10, <1>20, AheadIs DEF Credit, Ats
<1>21. CASE CheckTotal(c)
  <2>1. CASE ExecutorGoes(c, "complete")
    BY <1>8, <1>10, <1>21, <2>1, AheadIs DEF CheckTotal, Ats
  <2>2. CASE Return(c)
    BY <1>8, <1>10, <1>21, <2>2, AheadIs DEF CheckTotal, Ats
  <2>3. QED
    BY <1>21, <2>1, <2>2 DEF CheckTotal
<1>22. CASE Complete(c)
  BY <1>8, <1>10, <1>22, AheadIs DEF Complete, Ats
<1>23. QED
  BY <1>11, <1>12, <1>13, <1>14, <1>15, <1>16, <1>17, <1>18, <1>19, <1>20, <1>21, <1>22
  DEF ExecuteChild

(* The exchange begins a fill, or finishes it. *)
LEMMA ExchangeWork ==
  ASSUME IInv, NEW c \in Children, ExchangeStep(c)
  PROVE  WorkLeft' < WorkLeft \/ (ExchangeFills(c) /\ WorkLeft' = WorkLeft + 1)
<1> DEFINE sum == SumFunctionOnSet(ChildLeft, Children)
<1>1. order \in [Children -> OrderRecords] /\ Ahead(executor[c].at) \in Nat
  BY Fields, AheadIs DEF IInv, TypeOK
<1>2. /\ UNCHANGED <<scheduler, mu, canceller, executor, schedulerHeap>>
      /\ SchedulerLeft' = SchedulerLeft /\ MuLeft' = MuLeft
  BY DEF ExchangeStep, SchedulerLeft, MuLeft, SliceLeft
<1>3. \A d \in Children \ {c} : order'[d] = order[d]
  BY <1>1 DEF ExchangeStep, ExchangeFills, ExchangePublishes
<1>4. /\ ChildLeft[c] \in Nat /\ sum \in Nat /\ SchedulerLeft \in Nat /\ MuLeft \in Nat
      /\ WorkLeft = sum + SchedulerLeft + MuLeft /\ WorkLeft' = sum' + SchedulerLeft + MuLeft
  BY <1>2, WorkTypes DEF WorkLeft
<1>5. /\ ChildLeft[c] = Ahead(executor[c].at) + HeapLeft(c) + FillLeft(c)
      /\ ChildLeft'[c] = Ahead(executor[c].at) + HeapLeft(c) + FillLeft(c)'
  BY <1>2 DEF ChildLeft, HeapLeft
<1>6. HeapLeft(c) \in Nat
  BY DEF HeapLeft, HeapCost
<1>7. ASSUME NEW k \in Int, ChildLeft'[c] = ChildLeft[c] + k
      PROVE  WorkLeft' = WorkLeft + k
  <2>1. sum' = sum - ChildLeft[c] + (ChildLeft[c] + k)
    BY <1>2, <1>3, <1>4, <1>7, OneChildLeft
  <2>2. QED
    BY <1>4, <2>1
<1>8. CASE ExchangeFills(c)
  <2>1. order[c].at = "resting" /\ order'[c].at = "filling"
    BY <1>1, <1>8 DEF ExchangeFills, OrderRecords
  <2>2. FillLeft(c) = 0 /\ FillLeft(c)' = 1
    BY <2>1 DEF FillLeft
  <2>3. ChildLeft'[c] = ChildLeft[c] + 1
    BY <1>1, <1>5, <1>6, <2>2
  <2>4. QED
    BY <1>7, <1>8, <2>3
<1>9. CASE ExchangePublishes(c)
  <2>1. order[c].at = "filling" /\ order'[c].at # "filling"
    BY <1>1, <1>9 DEF ExchangePublishes, OrderAfter
  <2>2. FillLeft(c) = 1 /\ FillLeft(c)' = 0
    BY <2>1 DEF FillLeft
  <2>3. ChildLeft'[c] = ChildLeft[c] + (-1)
    BY <1>1, <1>5, <1>6, <2>2
  <2>4. WorkLeft' = WorkLeft + (-1)
    BY <1>7, <2>3
  <2>5. QED
    BY <2>4, WorkTypes
<1>10. QED
  BY <1>8, <1>9 DEF ExchangeStep

(* The scheduler: a tick adds the look at the heap, everything else takes   *)
(* one off.                                                                 *)
LEMMA SchedulerWork ==
  ASSUME IInv, SchedulerStep
  PROVE  \/ WorkLeft' < WorkLeft
         \/ Wake /\ WorkLeft' = WorkLeft + 1
         \/ ConcurrentMapUse /\ WorkLeft' = WorkLeft
<1> DEFINE sum == SumFunctionOnSet(ChildLeft, Children)
<1>1. /\ TypeOK /\ Located /\ scheduler \in Places /\ executor \in [Children -> Executors]
  BY DEF IInv, TypeOK
<1>2. /\ UNCHANGED <<mu, canceller, order>> /\ MuLeft' = MuLeft
  BY DEF SchedulerStep, SchedulerFrame, MuLeft, SliceLeft
<1>3. /\ sum \in Nat /\ SchedulerLeft \in Nat /\ MuLeft \in Nat /\ WorkLeft \in Nat
      /\ WorkLeft = sum + SchedulerLeft + MuLeft /\ WorkLeft' = sum' + SchedulerLeft' + MuLeft
  BY <1>2, WorkTypes DEF WorkLeft
<1>4. UNCHANGED <<executor, schedulerHeap>> => sum' = sum
  BY <1>2, NoChildLeft
<1> HIDE DEF sum
<1>5. \A a \in ScheduledAts : SchedulerGoes(a) => scheduler'.at = a
  BY <1>1, SchedulerGoesFacts
<1>6. CASE Wake
  <2>1. scheduler.at = "select" /\ scheduler'.at = "next" /\ sum' = sum
    BY <1>4, <1>5, <1>6 DEF Wake, ScheduledAts
  <2>2. SchedulerLeft = 1 /\ SchedulerLeft' = 2
    BY <2>1 DEF SchedulerLeft
  <2>3. WorkLeft' = WorkLeft + 1
    BY <1>3, <2>1, <2>2
  <2>4. QED
    BY <1>6, <2>3
<1>7. CASE Rest
  <2>1. scheduler.at = "next" /\ scheduler'.at = "select" /\ sum' = sum
    BY <1>4, <1>7 DEF Rest, Select
  <2>2. SchedulerLeft = 2 /\ SchedulerLeft' = 1
    BY <2>1 DEF SchedulerLeft
  <2>3. WorkLeft' < WorkLeft
    BY <1>3, <2>1, <2>2
  <2>4. QED
    BY <2>3
<1>8. CASE Pop
  <2>1. PICK c \in Children : /\ c \in schedulerHeap /\ schedulerHeap' = schedulerHeap \ {c}
                              /\ scheduler'.at = "status"
    BY <1>1, <1>8 DEF Pop, TypeOK
  <2>2. scheduler.at = "next" /\ UNCHANGED executor
    BY <1>8 DEF Pop
  <2>3. SchedulerLeft = 2 /\ SchedulerLeft' = 15
    BY <2>1, <2>2 DEF SchedulerLeft
  <2>4. HeapLeft(c) = 14 /\ HeapLeft(c)' = 0 /\ FillLeft(c)' = FillLeft(c) /\ FillLeft(c) \in Nat
    BY <1>2, <2>1 DEF HeapLeft, HeapCost, FillLeft
  <2>5. Ahead(executor[c].at) \in Nat
    BY <1>1, Fields, AheadIs
  <2>6. ChildLeft[c] \in Nat /\ ChildLeft'[c] = ChildLeft[c] - 14
    BY <2>2, <2>4, <2>5 DEF ChildLeft
  <2>7. sum' = sum - ChildLeft[c] + (ChildLeft[c] - 14)
    BY <1>2, <2>1, <2>2, <2>6, OneChildLeft DEF sum
  <2>8. WorkLeft' < WorkLeft
    BY <1>3, <2>3, <2>6, <2>7
  <2>9. QED
    BY <2>8
<1>9. CASE CheckChild \/ LookupParent
  <2>1. sum' = sum
    BY <1>4, <1>9 DEF CheckChild, LookupParent
  <2>2. \/ scheduler.at = "status" /\ scheduler'.at \in {"lookup", "next"}
        \/ scheduler.at = "lookup" /\ scheduler'.at \in {"next", "lock"}
    <3>1. CASE CheckChild
      BY <1>5, <3>1 DEF CheckChild, ScheduledAts
    <3>2. CASE LookupParent
      BY <1>1, <3>2 DEF LookupParent, Places
    <3>3. QED
      BY <1>9, <3>1, <3>2
  <2>3. \/ SchedulerLeft = 15 /\ SchedulerLeft' \in {14, 2}
        \/ SchedulerLeft = 14 /\ SchedulerLeft' \in {13, 2}
    BY <2>2 DEF SchedulerLeft
  <2>4. WorkLeft' < WorkLeft
    BY <1>3, <2>1, <2>3
  <2>5. QED
    BY <2>4
<1>10. CASE ConcurrentMapUse
  <2>1. sum' = sum /\ SchedulerLeft' = SchedulerLeft
    BY <1>4, <1>10 DEF ConcurrentMapUse, SchedulerLeft
  <2>2. QED
    BY <1>3, <1>10, <2>1
<1>11. CASE FetchParent
  <2>1. scheduler.at = "lock" /\ scheduler'.at = "parent" /\ sum' = sum
    BY <1>4, <1>5, <1>11 DEF FetchParent, ScheduledAts
  <2>2. SchedulerLeft = 13 /\ SchedulerLeft' = 12
    BY <2>1 DEF SchedulerLeft
  <2>3. WorkLeft' < WorkLeft
    BY <1>3, <2>1, <2>2
  <2>4. QED
    BY <2>3
<1>12. CASE CheckParent
  <2>1. PICK c \in Children : c = scheduler.child /\ scheduler.at = "parent"
    BY <1>1, <1>12 DEF CheckParent, Located
  <2>2. scheduler'.at = "next" /\ UNCHANGED schedulerHeap
    BY <1>5, <1>12 DEF CheckParent, ScheduledAts
  <2>3. SchedulerLeft = 12 /\ SchedulerLeft' = 2
    BY <2>1, <2>2 DEF SchedulerLeft
  <2>4. CASE UNCHANGED executor
    <3>1. sum' = sum
      BY <1>4, <2>2, <2>4
    <3>2. WorkLeft' < WorkLeft
      BY <1>3, <2>3, <3>1
    <3>3. QED
      BY <3>2
  <2>5. CASE executor' = [executor EXCEPT ![c].at = "claim", ![c].parent = scheduler.parent]
    <3>1. At(c, "none")
      BY <2>1 DEF IInv, ChildInv, PlaceInv, Waits, InHands
    <3>2. executor'[c].at = "claim" /\ \A d \in Children \ {c} : executor'[d] = executor[d]
      BY <1>1, <2>5 DEF Executors
    <3>3. HeapLeft(c)' = HeapLeft(c) /\ FillLeft(c)' = FillLeft(c)
      BY <1>2, <2>2 DEF HeapLeft, FillLeft
    <3>4. HeapLeft(c) \in Nat /\ FillLeft(c) \in Nat
      BY DEF HeapLeft, HeapCost, FillLeft
    <3>5. ChildLeft[c] \in Nat /\ ChildLeft'[c] = ChildLeft[c] + 9
      BY <3>1, <3>2, <3>3, <3>4, AheadIs DEF ChildLeft, At
    <3>6. sum' = sum - ChildLeft[c] + (ChildLeft[c] + 9)
      BY <1>2, <2>2, <3>2, <3>5, OneChildLeft DEF sum
    <3>7. WorkLeft' < WorkLeft
      BY <1>3, <2>3, <3>5, <3>6
    <3>8. QED
      BY <3>7
  <2>6. QED
    BY <1>12, <2>1, <2>4, <2>5 DEF CheckParent
<1>13. CASE ExitScheduler
  <2>1. scheduler.at = "select" /\ scheduler'.at = "exited" /\ sum' = sum
    BY <1>4, <1>5, <1>13 DEF ExitScheduler, ScheduledAts
  <2>2. SchedulerLeft = 1 /\ SchedulerLeft' = 0
    BY <2>1 DEF SchedulerLeft
  <2>3. WorkLeft' < WorkLeft
    BY <1>3, <2>1, <2>2
  <2>4. QED
    BY <2>3
<1>14. QED
  BY <1>6, <1>7, <1>8, <1>9, <1>10, <1>11, <1>12, <1>13 DEF SchedulerStep, Process

(* CancelParent, with ae.mu held, comes nearer to its end with each step.   *)
LEMMA CancellerWork ==
  ASSUME IInv, CancellerStep
  PROVE  WorkLeft' < WorkLeft
<1> DEFINE sum == SumFunctionOnSet(ChildLeft, Children)
<1>1. /\ TypeOK /\ Located /\ canceller \in Cancellers /\ order \in [Children -> OrderRecords]
      /\ canceller.at = "idle" <=> mu # "cancel"
  BY DEF IInv, TypeOK
<1>2. canceller.at \in {"store", "read", "abort", "write"} /\ mu = "cancel"
  BY <1>1 DEF CancellerStep, StoreCancelled, ReadChild, AbortOrder, WriteChild
<1>3. UNCHANGED <<scheduler, executor, schedulerHeap>> /\ SchedulerLeft' = SchedulerLeft
  BY DEF CancellerStep, SchedulerLeft
<1>4. \A d \in Children : order'[d].at = "filling" <=> order[d].at = "filling"
  <2>1. CASE UNCHANGED order
    BY <2>1
  <2>2. CASE AbortOrder
    <3>1. ChildToCancel \in Children
      BY <1>1, <1>2 DEF Located, ChildToCancel, Cancellers, Children
    <3>2. QED
      BY <1>1, <2>2, <3>1 DEF AbortOrder, OrderRecords
  <2>3. QED
    BY <2>1, <2>2 DEF CancellerStep, StoreCancelled, ReadChild, WriteChild
<1>5. sum' = sum
  BY <1>3, <1>4, NoChildLeft
<1>6. /\ sum \in Nat /\ SchedulerLeft \in Nat /\ MuLeft \in Nat
      /\ WorkLeft = sum + SchedulerLeft + MuLeft /\ WorkLeft' = sum + SchedulerLeft + MuLeft'
  BY <1>3, <1>5, WorkTypes DEF WorkLeft
<1> HIDE DEF sum
<1>7. PICK i \in Slices : i = canceller.slice
  BY <1>1 DEF Cancellers
<1>8. /\ i \in Nat /\ i <= NumSlices /\ NumSlices \in Nat
      /\ MuLeft = 3 * (NumSlices - i) + SliceLeft
  BY <1>2, <1>7, Constants DEF MuLeft, Slices
<1>9. ASSUME NEW a \in {"read", "abort", "write"}, CancellerGoes(a)
      PROVE  canceller'.at = a /\ canceller'.slice = i /\ mu' = "cancel"
  BY <1>1, <1>2, <1>7, <1>9 DEF CancellerGoes, Cancellers
<1>10. ASSUME NEW a \in {"read", "abort", "write"}, CancellerGoes(a), NEW n \in Nat,
              SliceLeft = n, SliceLeft' < n, SliceLeft' \in {1, 2, 3}
       PROVE  MuLeft' < MuLeft
  <2>1. PICK k \in {1, 2, 3} : k = SliceLeft'
    BY <1>10
  <2>2. MuLeft' = 3 * (NumSlices - i) + k
    BY <1>9, <1>10, <2>1 DEF MuLeft
  <2>3. k < n /\ MuLeft = 3 * (NumSlices - i) + n
    BY <1>8, <1>10, <2>1
  <2>4. QED
    BY <1>8, <2>2, <2>3
<1>11. ASSUME NextChild, SliceLeft \in {1, 3} PROVE MuLeft' < MuLeft
  <2>1. CASE i < NumSlices
    <3>1. canceller'.at = "read" /\ canceller'.slice = i + 1 /\ mu' = "cancel"
      BY <1>1, <1>2, <1>7, <1>11, <2>1 DEF NextChild, Cancellers
    <3>2. SliceLeft' = 3
      BY <3>1 DEF SliceLeft
    <3>3. MuLeft' = 3 * (NumSlices - (i + 1)) + 3
      BY <3>1, <3>2 DEF MuLeft
    <3>4. QED
      BY <1>8, <1>11, <3>3
  <2>2. CASE ~(i < NumSlices)
    <3>1. mu' = "free"
      BY <1>7, <1>11, <2>2 DEF NextChild
    <3>2. MuLeft' = 0
      BY <3>1 DEF MuLeft
    <3>3. QED
      BY <1>8, <1>11, <2>2, <3>2
  <2>3. QED
    BY <2>1, <2>2
<1>12. MuLeft' < MuLeft
  <2>1. CASE StoreCancelled
    <3>1. CancellerGoes("read") /\ SliceLeft = 4
      BY <2>1 DEF StoreCancelled, SliceLeft
    <3>2. SliceLeft' = 3
      BY <1>9, <3>1 DEF SliceLeft
    <3>3. QED
      BY <1>10, <3>1, <3>2
  <2>2. CASE ReadChild
    <3>1. SliceLeft = 3
      BY <2>2 DEF ReadChild, SliceLeft
    <3>2. CASE NextChild
      BY <1>11, <3>1, <3>2
    <3>3. CASE CancellerGoes("write")
      <4>1. SliceLeft' = 1
        BY <1>9, <3>3 DEF SliceLeft
      <4>2. QED
        BY <1>10, <3>1, <3>3, <4>1
    <3>4. CASE CancellerGoes("abort")
      <4>1. SliceLeft' = 2
        BY <1>9, <3>4 DEF SliceLeft
      <4>2. QED
        BY <1>10, <3>1, <3>4, <4>1
    <3>5. ChildToCancel \in Children
      BY <1>1, <1>2 DEF Located, ChildToCancel, Cancellers, Children
    <3>6. NextChild \/ CancellerGoes("write") \/ CancellerGoes("abort")
      BY <2>2 DEF ReadChild
    <3>7. QED
      BY <3>2, <3>3, <3>4, <3>6
  <2>3. CASE AbortOrder
    <3>1. CancellerGoes("write") /\ SliceLeft = 2
      BY <2>3 DEF AbortOrder, SliceLeft
    <3>2. SliceLeft' = 1
      BY <1>9, <3>1 DEF SliceLeft
    <3>3. QED
      BY <1>10, <3>1, <3>2
  <2>4. CASE WriteChild
    <3>1. NextChild /\ SliceLeft = 1
      BY <2>4 DEF WriteChild, SliceLeft
    <3>2. QED
      BY <1>11, <3>1
  <2>5. QED
    BY <2>1, <2>2, <2>3, <2>4 DEF CancellerStep
<1>13. PICK m \in Nat : m = MuLeft'
  <2>1. IInv'
    BY CancellerStepInv
  <2>2. (MuLeft \in Nat)'
    BY <2>1, WorkTypes, PTL
  <2>3. QED
    BY <2>2
<1>14. m < MuLeft /\ WorkLeft' = sum + SchedulerLeft + m
  BY <1>6, <1>12, <1>13
<1>15. QED
  BY <1>6, <1>14

(* SubmitParent fills the heap with the children of the parent. *)
LEMMA SubmitWork ==
  ASSUME IInv, NEW p \in Parents, SubmitParent(p)
  PROVE  WorkLeft' <= WorkLeft + HeapCost * NumSlices + 1
<1> DEFINE sum == SumFunctionOnSet(ChildLeft, Children)
<1>1. /\ SchedulerLeft' = SchedulerLeft /\ MuLeft = 0 /\ MuLeft' = 1
      /\ UNCHANGED <<executor, order>> /\ schedulerHeap' = schedulerHeap \cup ChildrenOf(p)
  BY DEF SubmitParent, SchedulerLeft, MuLeft
<1>2. IInv'
  BY SubmitParentStep
<1>3. (\A c \in Children : ChildLeft[c] \in Nat)'
  BY <1>2, WorkTypes, PTL
<1>4. \A c \in Children : ChildLeft[c] \in Nat /\ ChildLeft'[c] \in Nat
  BY <1>3, WorkTypes
<1>5. ASSUME NEW c \in Children
      PROVE  /\ ChildLeft'[c] <= ChildLeft[c] + 14
             /\ c \notin ChildrenOf(p) => ChildLeft'[c] <= ChildLeft[c]
  <2>1. /\ ChildLeft[c] = Ahead(executor[c].at) + HeapLeft(c) + FillLeft(c)
        /\ ChildLeft'[c] = Ahead(executor[c].at) + HeapLeft(c)' + FillLeft(c)
    BY <1>1 DEF ChildLeft, FillLeft
  <2>2. /\ HeapLeft(c) \in {0, 14} /\ HeapLeft(c)' \in {0, 14}
        /\ c \notin ChildrenOf(p) => HeapLeft(c)' = HeapLeft(c)
    BY <1>1 DEF HeapLeft, HeapCost
  <2>3. Ahead(executor[c].at) \in Nat /\ FillLeft(c) \in Nat
    BY Fields, AheadIs DEF IInv, FillLeft
  <2>4. ChildLeft'[c] <= ChildLeft[c] + 14
    BY <2>1, <2>2, <2>3
  <2>5. c \notin ChildrenOf(p) => ChildLeft'[c] <= ChildLeft[c]
    BY <1>4, <2>1, <2>2
  <2>6. QED
    BY <2>4, <2>5
<1>6. IsFiniteSet(ChildrenOf(p)) /\ Cardinality(ChildrenOf(p)) = NumSlices
  <2>1. IsFiniteSet({p}) /\ Cardinality({p}) = 1
    BY FS_Singleton
  <2>2. IsFiniteSet(Slices) /\ Cardinality(Slices) = NumSlices
    BY Constants, FS_Interval DEF Slices
  <2>3. /\ IsFiniteSet(ChildrenOf(p))
        /\ Cardinality(ChildrenOf(p)) = Cardinality({p}) * Cardinality(Slices)
    BY <2>1, <2>2, FS_Product DEF ChildrenOf
  <2>4. QED
    BY <2>1, <2>2, <2>3, Constants
<1>7. ChildrenOf(p) \in SUBSET Children
  BY DEF ChildrenOf, Children
<1>8. SumFunctionOnSet(ChildLeft', Children) <= sum + 14 * Cardinality(ChildrenOf(p))
  <2> DEFINE f == ChildLeft
             g == ChildLeft'
  <2>1. /\ \A c \in Children : f[c] \in Int /\ g[c] \in Int
        /\ \A c \in ChildrenOf(p) : g[c] <= f[c] + 14
        /\ \A c \in Children \ ChildrenOf(p) : g[c] <= f[c]
    BY <1>4, <1>5, <1>7
  <2> HIDE DEF f, g
  <2>2. SumFunctionOnSet(g, Children)
          <= SumFunctionOnSet(f, Children) + 14 * Cardinality(ChildrenOf(p))
    BY <1>7, <2>1, Constants, SumShiftOn
  <2>3. QED
    BY <2>2 DEF f, g
<1>9. PICK m \in Nat : m = sum'
  <2>1. (SumFunctionOnSet(ChildLeft, Children) \in Nat)'
    BY <1>2, WorkTypes, PTL
  <2>2. QED
    BY <2>1
<1>10. PICK n \in Nat : n = sum
  BY WorkTypes
<1>11. PICK s \in Nat : s = SchedulerLeft
  BY WorkTypes
<1>12. m <= n + 14 * NumSlices
  BY <1>6, <1>8, <1>9, <1>10
<1>13. WorkLeft = n + s + 0 /\ WorkLeft' = m + s + 1
  BY <1>1, <1>9, <1>10, <1>11 DEF WorkLeft
<1>14. QED
  BY <1>12, <1>13, Constants DEF HeapCost

(* CancelParent takes ae.mu for three steps with each child, and one.       *)
LEMMA CancelWork ==
  ASSUME IInv, NEW p \in Parents, CancelParent(p)
  PROVE  WorkLeft' = WorkLeft + 3 * NumSlices + 1
<1> DEFINE sum == SumFunctionOnSet(ChildLeft, Children)
<1>1. /\ SchedulerLeft' = SchedulerLeft /\ MuLeft = 0 /\ mu' = "cancel"
      /\ canceller'.at = "store" /\ canceller'.slice = 1
      /\ UNCHANGED <<executor, schedulerHeap, order>>
  BY DEF CancelParent, SchedulerLeft, MuLeft
<1>2. sum' = sum
  BY <1>1, NoChildLeft
<1>3. SliceLeft' = 4
  BY <1>1 DEF SliceLeft
<1>4. MuLeft' = 3 * (NumSlices - 1) + 4
  BY <1>1, <1>3 DEF MuLeft
<1>5. MuLeft' = 3 * NumSlices + 1
  BY <1>4, Constants
<1>6. WorkLeft = sum + SchedulerLeft + 0 /\ WorkLeft' = sum + SchedulerLeft + (3 * NumSlices + 1)
  BY <1>1, <1>2, <1>5 DEF WorkLeft
<1>7. sum \in Nat /\ SchedulerLeft \in Nat /\ NumSlices \in Nat
  BY WorkTypes, Constants
<1> HIDE DEF sum
<1>8. QED
  BY <1>6, <1>7

(* SubmitParent gives ae.mu back; Stop asks, and does nothing else.         *)
LEMMA SideWork ==
  ASSUME IInv
  PROVE  /\ SubmitReturns => WorkLeft' < WorkLeft
         /\ Stop => WorkLeft' = WorkLeft
<1> DEFINE sum == SumFunctionOnSet(ChildLeft, Children)
<1>1. sum \in Nat /\ SchedulerLeft \in Nat /\ MuLeft \in Nat
      /\ WorkLeft = sum + SchedulerLeft + MuLeft
  BY WorkTypes DEF WorkLeft
<1>2. ASSUME SubmitReturns \/ Stop
      PROVE  sum' = sum /\ SchedulerLeft' = SchedulerLeft
  BY <1>2, NoChildLeft DEF SubmitReturns, Stop, SchedulerLeft
<1>3. ASSUME SubmitReturns PROVE WorkLeft' < WorkLeft
  <2>1. MuLeft = 1 /\ MuLeft' = 0
    BY <1>3 DEF SubmitReturns, MuLeft
  <2>2. WorkLeft = sum + SchedulerLeft + 1 /\ WorkLeft' = sum + SchedulerLeft + 0
    BY <1>1, <1>2, <1>3, <2>1 DEF WorkLeft
  <2> HIDE DEF sum
  <2>3. QED
    BY <1>1, <2>2
<1>4. ASSUME Stop PROVE WorkLeft' = WorkLeft
  <2>1. MuLeft' = MuLeft
    BY <1>4 DEF Stop, MuLeft, SliceLeft
  <2>2. QED
    BY <1>2, <1>4, <2>1 DEF WorkLeft
<1>5. QED
  BY <1>3, <1>4

(* Each step of the system. *)
LEMMA WorkStep ==
  ASSUME IInv, Next
  PROVE  StepBounded
<1>1. ASSUME NEW p \in Parents, SubmitParent(p) PROVE StepBounded
  BY <1>1, SubmitWork DEF StepBounded
<1>2. ASSUME NEW p \in Parents, CancelParent(p) PROVE StepBounded
  BY <1>2, CancelWork DEF StepBounded
<1>3. ASSUME NEW c \in Children, ExecuteChild(c) PROVE StepBounded
  BY <1>3, ExecutorWork DEF StepBounded
<1>4. ASSUME NEW c \in Children, ExchangeStep(c) PROVE StepBounded
  BY <1>4, ExchangeWork DEF StepBounded
<1>5. ASSUME SchedulerStep PROVE StepBounded
  BY <1>5, SchedulerWork DEF StepBounded
<1>6. ASSUME CancellerStep PROVE StepBounded
  BY <1>6, CancellerWork DEF StepBounded
<1>7. ASSUME SubmitReturns \/ Stop PROVE StepBounded
  BY <1>7, SideWork DEF StepBounded
<1>8. QED
  BY <1>1, <1>2, <1>3, <1>4, <1>5, <1>6, <1>7 DEF Next

(* The work that is left is a number, every step takes at least one off it, *)
(* and only a submission, a cancellation, a tick, a failed send or a fill   *)
(* at the exchange adds to it, each no more than it can: so the goroutines  *)
(* of executeChild, the scheduler and CancelParent (engine.go) have only    *)
(* finitely many steps between two such events.                             *)
THEOREM WorkIsBounded == Spec => [](WorkLeft \in Nat) /\ WorkBounded
<1>1. IInv => WorkLeft \in Nat
  BY WorkTypes
<1>2. IInv /\ [Next]_vars => [StepBounded]_vars
  BY WorkStep
<1>3. QED
  BY <1>1, <1>2, Inductive, PTL DEF Spec, WorkBounded

(* Only StoreReport sets an ExternalID, and an order that was sent stays.   *)
LEMMA ExternalStep ==
  ASSUME IInv, ExternalInv, [Next]_vars
  PROVE  ExternalInv'
<1> SUFFICES ASSUME NEW c \in Children, child'[c].externalID
             PROVE  order'[c].at # "unsent"
  BY DEF ExternalInv
<1>1. /\ child \in [Children -> ChildRecords] /\ order \in [Children -> OrderRecords]
      /\ executor[c].at \in Sent => order[c].at # "unsent"
      /\ child[c].externalID => order[c].at # "unsent" /\ Located
      /\ canceller \in Cancellers /\ scheduler \in Places
  BY DEF IInv, TypeOK, ExternalInv, ChildInv, PlaceInv
<1>2. order[c].at # "unsent" => order'[c].at # "unsent"
  <2>1. CASE UNCHANGED order
    BY <2>1
  <2>2. ASSUME NEW d \in Children, SendOrder(d) \/ ExchangeFills(d) \/ ExchangePublishes(d)
        PROVE  order[c].at # "unsent" => order'[c].at # "unsent"
    BY <1>1, <2>2 DEF SendOrder, ExchangeFills, ExchangePublishes, OrderAfter, OrderRecords
  <2>3. ASSUME AbortOrder
        PROVE  order[c].at # "unsent" => order'[c].at # "unsent"
    BY <1>1, <2>3 DEF AbortOrder, OrderRecords
  <2>4. QED
    BY <2>1, <2>2, <2>3 DEF Next, vars, SubmitParent, CancelParent, SubmitReturns, SchedulerStep,
       SchedulerFrame, Stop, ExecuteChild, Claim, SendFails, Unclaim, Requeue, ReadFilled,
       ReadStatus, StoreReport, StoreStatus, Credit, CheckTotal, Complete, ExchangeStep,
       CancellerStep, StoreCancelled, ReadChild, WriteChild
<1>3. child[c].externalID \/ executor[c].at = "ids"
  <2>1. CASE UNCHANGED child
    BY <2>1
  <2>2. ASSUME NEW d \in Children, StoreReport(d)
        PROVE  child[c].externalID \/ executor[c].at = "ids"
    BY <1>1, <2>2 DEF StoreReport, At, ChildRecords
  <2>3. ASSUME NEW d \in Children, Claim(d) \/ Unclaim(d) \/ StoreStatus(d)
        PROVE  child[c].externalID
    BY <1>1, <2>3 DEF Claim, Unclaim, StoreStatus, ChildRecords
  <2>4. ASSUME CheckParent \/ WriteChild
        PROVE  child[c].externalID
    BY <1>1, <2>4 DEF CheckParent, WriteChild, ChildRecords
  <2>5. ASSUME NEW p \in Parents, SubmitParent(p)
        PROVE  child[c].externalID
    BY <1>1, <2>5 DEF SubmitParent, ChildRecords
  <2>6. QED
    BY <2>1, <2>2, <2>3, <2>4, <2>5 DEF Next, vars, CancelParent, SubmitReturns, SchedulerStep,
       Process, Wake, Rest, Pop, CheckChild, LookupParent, ConcurrentMapUse, FetchParent,
       ExitScheduler, Stop, ExecuteChild, SendOrder, SendFails, Requeue, ReadFilled, ReadStatus,
       Credit, CheckTotal, Complete, ExchangeStep, CancellerStep, StoreCancelled, ReadChild,
       AbortOrder
<1>4. QED
  BY <1>1, <1>2, <1>3 DEF Sent

(* When there is nothing the engine can do, nobody in it waits: ae.mu is    *)
(* free, every goroutine of executeChild has returned, and if Stop was      *)
(* called the loop has ended, so that StopReturns needs only that those who *)
(* can go on do (engine.go, Stop and CancelParent).                         *)
THEOREM NobodyWaits == Spec => []NobodyStuck
<1>1. Init => ExternalInv
  BY DEF Init, ExternalInv
<1>2. IInv /\ ExternalInv /\ [Next]_vars => ExternalInv'
  BY ExternalStep
<1>3. ASSUME IInv, ExternalInv, NothingToDo
      PROVE  mu = "free" /\ (\A c \in Children : At(c, "none")) /\ (stopping => Stopped)
  <2>1. canceller.at = "idle"
    <3>1. SUFFICES ASSUME canceller.at = "abort", child[ChildToCancel].externalID,
                          order[ChildToCancel].at \notin {"done", "resting"}
                   PROVE  FALSE
      BY <1>3 DEF NothingToDo
    <3>2. ChildToCancel \in Children
      BY <1>3, <3>1 DEF IInv, TypeOK, Located, ChildToCancel, Cancellers, Children
    <3>3. order[ChildToCancel].at \in {"unsent", "resting", "filling", "done"}
      BY <1>3, <3>2, Fields DEF IInv
    <3>4. QED
      BY <1>3, <3>1, <3>2, <3>3 DEF ExternalInv, NothingToDo
  <2>2. mu = "free"
    BY <1>3, <2>1 DEF IInv, TypeOK, NothingToDo
  <2>3. \A c \in Children : At(c, "none")
    BY <1>3, <2>2 DEF NothingToDo
  <2>4. stopping => scheduler.at = "exited"
    BY <1>3, <2>2 DEF NothingToDo
  <2>5. QED
    BY <2>2, <2>3, <2>4 DEF Stopped
<1>4. IInv /\ ExternalInv => NobodyStuck
  BY <1>3 DEF NobodyStuck
<1>5. QED
  BY <1>1, <1>2, <1>4, Inductive, PTL DEF Spec
=============================================================================
