------------------------------ MODULE AlgoEngine ------------------------------
(***************************************************************************)
(* The algorithmic engine (algo/engine.go): parent orders cut into         *)
(* children, the scheduler that takes the children that are due off its    *)
(* heap, one goroutine per child that sends it to the exchange and books   *)
(* the result, and CancelParent, which aborts the children one by one.     *)
(* A step is one access to what the goroutines share; what runs under      *)
(* ae.mu without touching the atomics is one step.                         *)
(*                                                                         *)
(* The exchange is what the order and the book promise (Order, AtomicBook):*)
(* an order is filled in part on arrival, later by others, or cancelled; a *)
(* later fill claims its quantity first and sets the status afterwards.    *)
(* Time is left out: any child in the heap may be due, or not yet.         *)
(***************************************************************************)
EXTENDS Integers, FiniteSets, Functions

CONSTANTS
  Parents,       (* the parent orders submitted to the engine              *)
  NoParent,
  NumSlices,     (* the number of children GenerateSlices makes            *)
  SliceQty,      (* the quantity of each                                   *)
  MaxFailures    (* bound of the calls of SendOrder that return an error   *)

ASSUME AlgoEngineAssumption ==
  /\ IsFiniteSet(Parents)
  /\ NoParent \notin Parents
  /\ NumSlices \in Nat \ {0}
  /\ SliceQty \in Nat \ {0}
  /\ MaxFailures \in Nat

Slices == 1..NumSlices
(* A child order is named by the parent it was cut from and its place.      *)
Children == Parents \X Slices
ChildrenOf(p) == {p} \X Slices
TotalQty == NumSlices * SliceQty
ParentIDs == 0..Cardinality(Parents)

VARIABLES
  parent,          (* ID (0: none yet), Status and FilledQty               *)
  child,           (* ParentID, Status, FilledQty; whether ExternalID is set *)
  childToParent,   (* the parent a child's ID leads to                     *)
  schedulerHeap,   (* the children in the heap                             *)
  mu,              (* which call holds ae.mu across its steps              *)
  scheduler,       (* the scheduler's place, its child and its parent      *)
  executor,        (* each executeChild's place, parent and report         *)
  canceller,       (* CancelParent's place, parent and child               *)
  stopping,        (* Stop was called: ae.ctx is cancelled                 *)
  thrown,          (* the Go runtime ended the program: concurrent map use *)
  failures,        (* the calls of SendOrder that failed                   *)
  order,           (* the child's order at the exchange                    *)
  cancelled,       (* history: CancelParent returned nil for these parents *)
  aborted          (* history: the children CancelParent counted           *)

vars == <<parent, child, childToParent, schedulerHeap, mu, scheduler, executor, canceller,
          stopping, thrown, failures, order, cancelled, aborted>>

ParentRecords == [id : ParentIDs, status : {"New", "Running", "Completed", "Cancelled"},
                  filled : Nat]
ChildRecords == [parentID : ParentIDs, status : {"Pending", "Sent", "Filled", "Cancelled"},
                 filled : 0..SliceQty, externalID : BOOLEAN]
OrderStatuses == {"New", "Partially", "Filled", "Cancelled"}
OrderRecords == [at : {"unsent", "resting", "filling", "done"}, executed : 0..SliceQty,
                 status : OrderStatuses]
Places == [at : {"select", "next", "status", "lookup", "lock", "parent", "exited"},
           child : Children \cup {NoParent}, parent : Parents \cup {NoParent}]
Executors == [at : {"none", "claim", "send", "failed", "requeue", "filled", "report", "ids",
                    "status", "credit", "total", "complete"},
              parent : Parents \cup {NoParent}, filled : 0..SliceQty,
              status : OrderStatuses]
Cancellers == [at : {"idle", "store", "read", "abort", "write"},
               parent : Parents \cup {NoParent}, slice : Slices]

Select == [at |-> "select", child |-> NoParent, parent |-> NoParent]
Ended == [at |-> "none", parent |-> NoParent, filled |-> 0, status |-> "New"]
Idle == [at |-> "idle", parent |-> NoParent, slice |-> 1]

Init ==
  /\ parent = [p \in Parents |-> [id |-> 0, status |-> "New", filled |-> 0]]
  /\ child = [c \in Children |-> [parentID |-> 0, status |-> "Pending", filled |-> 0,
                                  externalID |-> FALSE]]
  /\ childToParent = [id \in ParentIDs \X Slices |-> NoParent]
  /\ schedulerHeap = {}
  /\ mu = "free"
  /\ scheduler = Select
  /\ executor = [c \in Children |-> Ended]
  /\ canceller = Idle
  /\ stopping = FALSE
  /\ thrown = FALSE
  /\ failures = 0
  /\ order = [c \in Children |-> [at |-> "unsent", executed |-> 0, status |-> "New"]]
  /\ cancelled = {}
  /\ aborted = {}

-----------------------------------------------------------------------------
(* SubmitParent *)

Registered == {p \in Parents : parent[p].id > 0}

(* ChildOrder.ID: the ID its parent had when it was cut, and its place.     *)
ChildID(c) == <<child[c].parentID, c[2]>>

(* GenerateSlices copies the parent's ID, still 0, to the children; then,   *)
(* under ae.mu, the parent gets its ID and the children are registered.     *)
SubmitParent(p) ==
  /\ mu = "free"
  /\ parent[p].id = 0
  /\ mu' = "submit"
  /\ child' = [c \in Children |->
                 IF c \in ChildrenOf(p) THEN [child[c] EXCEPT !.parentID = parent[p].id]
                 ELSE child[c]]
  /\ parent' = [parent EXCEPT ![p].id = Cardinality(Registered) + 1, ![p].status = "Running"]
  /\ childToParent' = [id \in DOMAIN childToParent |->
                         IF \E c \in ChildrenOf(p) : id = ChildID(c)' THEN p
                         ELSE childToParent[id]]
  /\ schedulerHeap' = schedulerHeap \cup ChildrenOf(p)
  /\ UNCHANGED <<scheduler, executor, canceller, stopping, thrown, failures, order,
                 cancelled, aborted>>

SubmitReturns ==
  /\ mu = "submit"
  /\ mu' = "free"
  /\ UNCHANGED <<parent, child, childToParent, schedulerHeap, scheduler, executor,
                 canceller, stopping, thrown, failures, order, cancelled, aborted>>

-----------------------------------------------------------------------------
(* schedulerLoop and processDueChildren *)

SchedulerFrame == UNCHANGED <<parent, childToParent, mu, canceller, stopping, failures,
                              order, cancelled, aborted>>

SchedulerGoes(at) == scheduler' = [scheduler EXCEPT !.at = at]

(* A tick or a wake-up: the loop looks at the heap. *)
Wake ==
  /\ scheduler.at = "select"
  /\ SchedulerGoes("next")
  /\ UNCHANGED <<child, schedulerHeap, executor, thrown>>

(* The heap is empty, or the child at its top is not due yet.               *)
Rest ==
  /\ scheduler.at = "next"
  /\ mu = "free"
  /\ scheduler' = Select
  /\ UNCHANGED <<child, schedulerHeap, executor, thrown>>

Pop ==
  /\ scheduler.at = "next"
  /\ mu = "free"
  /\ \E c \in schedulerHeap :
       /\ schedulerHeap' = schedulerHeap \ {c}
       /\ scheduler' = [at |-> "status", child |-> c, parent |-> NoParent]
  /\ UNCHANGED <<child, executor, thrown>>

CheckChild ==
  /\ scheduler.at = "status"
  /\ SchedulerGoes(IF child[scheduler.child].status = "Pending" THEN "lookup" ELSE "next")
  /\ UNCHANGED <<child, schedulerHeap, executor, thrown>>

(* childToParent is read without ae.mu. *)
LookupParent ==
  /\ scheduler.at = "lookup"
  /\ LET p == childToParent[ChildID(scheduler.child)]
     IN  scheduler' = [scheduler EXCEPT !.at = IF p = NoParent THEN "next" ELSE "lock",
                                        !.parent = p]
  /\ UNCHANGED <<child, schedulerHeap, executor, thrown>>

(* When that read meets SubmitParent's write to the map, the Go runtime may *)
(* end the program.                                                         *)
ConcurrentMapUse ==
  /\ scheduler.at = "lookup"
  /\ mu = "submit"
  /\ thrown' = TRUE
  /\ UNCHANGED <<child, schedulerHeap, executor, scheduler>>

(* ae.parents is read under ae.mu; the parent is always there. *)
FetchParent ==
  /\ scheduler.at = "lock"
  /\ mu = "free"
  /\ SchedulerGoes("parent")
  /\ UNCHANGED <<child, schedulerHeap, executor, thrown>>

(* The child of a cancelled parent is cancelled; any other gets a goroutine. *)
CheckParent ==
  LET c == scheduler.child
      p == scheduler.parent
  IN  /\ scheduler.at = "parent"
      /\ IF parent[p].status = "Cancelled"
           THEN child' = [child EXCEPT ![c].status = "Cancelled"] /\ UNCHANGED executor
           ELSE executor' = [executor EXCEPT ![c].at = "claim", ![c].parent = p]
                /\ UNCHANGED child
      /\ SchedulerGoes("next")
      /\ UNCHANGED <<schedulerHeap, thrown>>

(* schedulerLoop sees that ae.ctx is done. *)
ExitScheduler ==
  /\ scheduler.at = "select"
  /\ stopping
  /\ SchedulerGoes("exited")
  /\ UNCHANGED <<child, schedulerHeap, executor, thrown>>

Process == Wake \/ CheckChild \/ LookupParent \/ FetchParent \/ CheckParent

SchedulerStep ==
  /\ Process \/ Rest \/ Pop \/ ConcurrentMapUse \/ ExitScheduler
  /\ SchedulerFrame

Stop ==
  /\ ~stopping
  /\ stopping' = TRUE
  /\ UNCHANGED <<parent, child, childToParent, schedulerHeap, mu, scheduler, executor,
                 canceller, thrown, failures, order, cancelled, aborted>>

-----------------------------------------------------------------------------
(* executeChild *)

At(c, at) == executor[c].at = at
ExecutorGoes(c, at) == executor' = [executor EXCEPT ![c].at = at]
Return(c) == executor' = [executor EXCEPT ![c] = Ended]

(* The compare-and-swap from Pending to Sent. *)
Claim(c) ==
  /\ At(c, "claim")
  /\ IF child[c].status = "Pending"
       THEN child' = [child EXCEPT ![c].status = "Sent"] /\ ExecutorGoes(c, "send")
       ELSE UNCHANGED child /\ Return(c)
  /\ UNCHANGED <<parent, schedulerHeap, failures, order>>

(* The order when f of it is executed and its status says so. *)
OrderAfter(f) ==
  [at |-> IF f = SliceQty THEN "done" ELSE "resting",
   executed |-> f,
   status |-> IF f = SliceQty THEN "Filled" ELSE IF f > 0 THEN "Partially" ELSE "New"]

(* SendOrder: the order is filled by f, and what is left of it rests.       *)
SendOrder(c) ==
  /\ At(c, "send")
  /\ \E f \in 0..SliceQty : order' = [order EXCEPT ![c] = OrderAfter(f)]
  /\ ExecutorGoes(c, "filled")
  /\ UNCHANGED <<parent, child, schedulerHeap, failures>>

(* SendOrder returns an error. *)
SendFails(c) ==
  /\ At(c, "send")
  /\ failures < MaxFailures
  /\ failures' = failures + 1
  /\ ExecutorGoes(c, "failed")
  /\ UNCHANGED <<parent, child, schedulerHeap, order>>

(* Mutant of Unclaim: the status is stored, whatever it has become.         *)
UnclaimBlindly(c) ==
  /\ At(c, "failed")
  /\ child' = [child EXCEPT ![c].status = "Pending"]
  /\ ExecutorGoes(c, "requeue")
  /\ UNCHANGED <<parent, schedulerHeap, failures, order>>

(* The compare-and-swap from Sent to Pending. *)
Unclaim(c) ==
  /\ At(c, "failed")
  /\ child' = [child EXCEPT ![c].status = IF @ = "Sent" THEN "Pending" ELSE @]
  /\ ExecutorGoes(c, "requeue")
  /\ UNCHANGED <<parent, schedulerHeap, failures, order>>

(* Mutant of Requeue: the child is not scheduled again. *)
RequeueForgotten(c) ==
  /\ At(c, "requeue")
  /\ mu = "free"
  /\ Return(c)
  /\ UNCHANGED <<parent, child, schedulerHeap, failures, order>>

Requeue(c) ==
  /\ At(c, "requeue")
  /\ mu = "free"
  /\ schedulerHeap' = schedulerHeap \cup {c}
  /\ Return(c)
  /\ UNCHANGED <<parent, child, failures, order>>

(* The report reads the order's FilledQty, and then its status.             *)
ReadFilled(c) ==
  /\ At(c, "filled")
  /\ executor' = [executor EXCEPT ![c].at = "report", ![c].filled = order[c].executed]
  /\ UNCHANGED <<parent, child, schedulerHeap, failures, order>>

(* Mutant of ReadStatus: an order that rests is taken for one that failed.  *)
ReadStatusRetries(c) ==
  /\ At(c, "report")
  /\ executor' = [executor EXCEPT ![c].at = IF order[c].status = "New" THEN "failed" ELSE "ids",
                                  ![c].status = order[c].status]
  /\ UNCHANGED <<parent, child, schedulerHeap, failures, order>>

ReadStatus(c) ==
  /\ At(c, "report")
  /\ executor' = [executor EXCEPT ![c].at = "ids", ![c].status = order[c].status]
  /\ UNCHANGED <<parent, child, schedulerHeap, failures, order>>

(* child.ExternalID and child.FilledQty; only this goroutine uses the latter. *)
StoreReport(c) ==
  /\ At(c, "ids")
  /\ child' = [child EXCEPT ![c].externalID = TRUE, ![c].filled = executor[c].filled]
  /\ ExecutorGoes(c, "status")
  /\ UNCHANGED <<parent, schedulerHeap, failures, order>>

(* The status is stored over whatever it has become meanwhile.              *)
StoreStatus(c) ==
  /\ At(c, "status")
  /\ child' = [child EXCEPT ![c].status =
                 IF executor[c].status = "Filled" THEN "Filled"
                 ELSE IF executor[c].status = "Partially" \/ executor[c].filled > 0 THEN "Sent"
                 ELSE @]
  /\ ExecutorGoes(c, "credit")
  /\ UNCHANGED <<parent, schedulerHeap, failures, order>>

(* Mutant of FillToCredit: what is executed by now is credited.             *)
FillReread(c) == order[c].executed

FillToCredit(c) == executor[c].filled

(* parent.FilledQty.Add: to the parent that childToParent led to. *)
Credit(c) ==
  /\ At(c, "credit")
  /\ parent' = [parent EXCEPT ![executor[c].parent].filled = @ + FillToCredit(c)]
  /\ ExecutorGoes(c, "total")
  /\ UNCHANGED <<child, schedulerHeap, failures, order>>

(* Mutant of IsComplete: the last slice need not be filled.                 *)
IsCompleteEarly(p) == parent[p].filled > TotalQty - SliceQty

IsComplete(p) == parent[p].filled >= TotalQty

CheckTotal(c) ==
  /\ At(c, "total")
  /\ IF IsComplete(executor[c].parent) THEN ExecutorGoes(c, "complete") ELSE Return(c)
  /\ UNCHANGED <<parent, child, schedulerHeap, failures, order>>

Complete(c) ==
  /\ At(c, "complete")
  /\ parent' = [parent EXCEPT ![executor[c].parent].status = "Completed"]
  /\ Return(c)
  /\ UNCHANGED <<child, schedulerHeap, failures, order>>

ExecuteChild(c) ==
  /\ \/ Claim(c)
     \/ SendOrder(c)
     \/ SendFails(c)
     \/ Unclaim(c)
     \/ Requeue(c)
     \/ ReadFilled(c)
     \/ ReadStatus(c)
     \/ StoreReport(c)
     \/ StoreStatus(c)
     \/ Credit(c)
     \/ CheckTotal(c)
     \/ Complete(c)
  /\ UNCHANGED <<childToParent, mu, scheduler, canceller, stopping, thrown, cancelled, aborted>>

-----------------------------------------------------------------------------
(* CancelParent holds ae.mu from its first step to its last. *)

CancelParent(p) ==
  /\ mu = "free"
  /\ p \in Registered
  /\ parent[p].status \notin {"Completed", "Cancelled"}
  /\ mu' = "cancel"
  /\ canceller' = [at |-> "store", parent |-> p, slice |-> 1]
  /\ UNCHANGED <<parent, child, childToParent, schedulerHeap, scheduler, executor,
                 stopping, thrown, failures, order, cancelled, aborted>>

CancellerGoes(at) ==
  canceller' = [canceller EXCEPT !.at = at] /\ UNCHANGED <<mu, cancelled>>

StoreCancelled ==
  /\ canceller.at = "store"
  /\ parent' = [parent EXCEPT ![canceller.parent].status = "Cancelled"]
  /\ CancellerGoes("read")
  /\ UNCHANGED <<child, order, aborted>>

ChildToCancel == <<canceller.parent, canceller.slice>>

(* Mutant of NextChild: CancelParent returns without unlocking ae.mu.       *)
NextChildKeepsLock ==
  IF canceller.slice < NumSlices
    THEN /\ canceller' = [canceller EXCEPT !.at = "read", !.slice = @ + 1]
         /\ UNCHANGED <<mu, cancelled>>
    ELSE /\ canceller' = Idle
         /\ cancelled' = cancelled \cup {canceller.parent}
         /\ UNCHANGED mu

(* The loop goes on to the next child, or CancelParent returns. *)
NextChild ==
  IF canceller.slice < NumSlices
    THEN /\ canceller' = [canceller EXCEPT !.at = "read", !.slice = @ + 1]
         /\ UNCHANGED <<mu, cancelled>>
    ELSE /\ canceller' = Idle
         /\ cancelled' = cancelled \cup {canceller.parent}
         /\ mu' = "free"

ReadChild ==
  /\ canceller.at = "read"
  /\ CASE child[ChildToCancel].status = "Pending" -> CancellerGoes("write")
       [] child[ChildToCancel].status = "Sent" -> CancellerGoes("abort")
       [] OTHER -> NextChild
  /\ UNCHANGED <<parent, child, order, aborted>>

(* CancelOrder, if the child has an ExternalID: it waits for the book's     *)
(* mutex, and its error is ignored.                                         *)
AbortOrder ==
  /\ canceller.at = "abort"
  /\ IF child[ChildToCancel].externalID /\ order[ChildToCancel].at # "done"
       THEN /\ order[ChildToCancel].at = "resting"
            /\ order' = [order EXCEPT ![ChildToCancel].at = "done",
                                      ![ChildToCancel].status = "Cancelled"]
       ELSE UNCHANGED order
  /\ CancellerGoes("write")
  /\ UNCHANGED <<parent, child, aborted>>

WriteChild ==
  /\ canceller.at = "write"
  /\ child' = [child EXCEPT ![ChildToCancel].status = "Cancelled"]
  /\ aborted' = aborted \cup {ChildToCancel}
  /\ NextChild
  /\ UNCHANGED <<parent, order>>

CancellerStep ==
  /\ StoreCancelled \/ ReadChild \/ AbortOrder \/ WriteChild
  /\ UNCHANGED <<childToParent, schedulerHeap, scheduler, executor, stopping, thrown, failures>>

-----------------------------------------------------------------------------
(* Another order trades with the child's order that rests: it claims its    *)
(* quantity, and then sets its status, before it lets go of the book.       *)
ExchangeFills(c) ==
  /\ order[c].at = "resting"
  /\ order' = [order EXCEPT ![c].at = "filling", ![c].executed = @ + 1]

ExchangePublishes(c) ==
  /\ order[c].at = "filling"
  /\ order' = [order EXCEPT ![c] = OrderAfter(order[c].executed)]

ExchangeStep(c) ==
  /\ ExchangeFills(c) \/ ExchangePublishes(c)
  /\ UNCHANGED <<parent, child, childToParent, schedulerHeap, mu, scheduler, executor,
                 canceller, stopping, thrown, failures, cancelled, aborted>>

Next ==
  /\ ~thrown
  /\ \/ \E p \in Parents : SubmitParent(p) \/ CancelParent(p)
     \/ SubmitReturns
     \/ SchedulerStep
     \/ \E c \in Children : ExecuteChild(c) \/ ExchangeStep(c)
     \/ CancellerStep
     \/ Stop

Spec == Init /\ [][Next]_vars

(* Goroutines that can run do.  A child that stays in the heap becomes due, *)
(* since time passes; select does not pass over a cancelled context for     *)
(* ever.  A fill that was begun is finished.  No client is obliged to call, *)
(* and the exchange need not trade.                                         *)
Runs(A) == ~thrown /\ A

Fairness ==
  /\ WF_vars(Runs((Process \/ Rest) /\ SchedulerFrame))
  /\ SF_vars(Runs(Pop /\ SchedulerFrame))
  /\ SF_vars(Runs(ExitScheduler /\ SchedulerFrame))
  /\ \A c \in Children : WF_vars(Runs(ExecuteChild(c)))
  /\ \A c \in Children : WF_vars(Runs(order[c].at = "filling" /\ ExchangeStep(c)))
  /\ WF_vars(Runs(SubmitReturns))
  /\ WF_vars(Runs(CancellerStep))

FairSpec == Spec /\ Fairness

-----------------------------------------------------------------------------
(* Types of the variables. *)
TypeOK ==
  /\ parent \in [Parents -> ParentRecords]
  /\ child \in [Children -> ChildRecords]
  /\ childToParent \in [ParentIDs \X Slices -> Parents \cup {NoParent}]
  /\ schedulerHeap \subseteq Children
  /\ mu \in {"free", "submit", "cancel"}
  /\ scheduler \in Places
  /\ executor \in [Children -> Executors]
  /\ canceller \in Cancellers
  /\ canceller.at = "idle" <=> mu # "cancel"
  /\ stopping \in BOOLEAN
  /\ thrown \in BOOLEAN
  /\ failures \in 0..MaxFailures
  /\ order \in [Children -> OrderRecords]
  /\ cancelled \subseteq Parents
  /\ aborted \subseteq Children

InHands(c) == scheduler.child = c /\ scheduler.at \in {"status", "lookup", "lock", "parent"}

(* No order is sent twice: a child that is in the heap or in the            *)
(* scheduler's hands has no goroutine, and its order was never sent.        *)
SentOnce ==
  \A c \in Children :
    c \in schedulerHeap \/ InHands(c) => At(c, "none") /\ order[c].at = "unsent"

Credited == [p \in Parents |-> parent[p].filled]
Reported == [c \in Children |-> child[c].filled]
Executed == [c \in Children |-> order[c].executed]

(* The children whose goroutine is not between the report and the credit.   *)
Booked == {c \in Children : ~At(c, "status") /\ ~At(c, "credit")}

(* The parents' FilledQty add up to what the children reported.             *)
FillsAddUp == SumFunctionOnSet(Credited, Parents) = SumFunctionOnSet(Reported, Booked)

(* No more parents are reported as completed than the exchange executed     *)
(* quantity for.                                                            *)
CompletedIsExecuted ==
  TotalQty * Cardinality({p \in Parents : parent[p].status = "Completed"})
    <= SumFunctionOnSet(Executed, Children)

(* When CancelParent has returned, no child of the parent waits to be sent. *)
CancelSettles ==
  \A p \in cancelled : \A c \in ChildrenOf(p) : child[c].status # "Pending"

(* The scheduler leaves no child behind: unless the engine is stopped or    *)
(* the program ended, every registered child is in the end sent or          *)
(* cancelled for good, failed sends included.                               *)
ChildrenSettle ==
  \A c \in Children :
    <>[](c[1] \in Registered /\ ~stopping /\ ~thrown => child[c].status # "Pending")

(* Stop waits for the scheduler and for every goroutine it started; they    *)
(* all end, although they need ae.mu and CancelParent holds it long.        *)
Stopped == scheduler.at = "exited" /\ \A c \in Children : At(c, "none")
StopReturns == stopping ~> Stopped \/ thrown

(* What the log of a completed parent says: "COMPLETED: filled=%d/%d", of   *)
(* the parent's own children.                                               *)
CompletedByItsChildren ==
  \A p \in Parents :
    parent[p].status = "Completed"
      => SumFunctionOnSet(Executed, ChildrenOf(p)) = TotalQty

(* What the log of CancelParent says of the children it counted: "aborted". *)
(* It found them Pending, or Sent, and stores Cancelled a step later.       *)
AbortedDoNotRest ==
  \A p \in cancelled : \A c \in aborted \cap ChildrenOf(p) : order[c].at # "resting"
=============================================================================
