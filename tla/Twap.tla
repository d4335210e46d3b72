--------------------------------- MODULE Twap ---------------------------------
(***************************************************************************)
(* How a parent order becomes slices (algo/http.go, handleSubmitParent;    *)
(* algo/engine.go, the defaults of SubmitParent; algo/twap.go): defaults,  *)
(* checks, and GenerateSlices, one slice per step.  Times are integers, a  *)
(* perturbation is a percentage, and what the random source makes of them  *)
(* is a free choice.  A slice is kept with the quantities allocated before *)
(* and after it, so that its quantity is the difference.                   *)
(***************************************************************************)
EXTENDS Integers, Sequences

CONSTANTS
  Now,
  TwoHours, HalfMinute, Millisecond,
  MinSlices, MaxSlices,    (* 100 and 10000                                *)
  ParentRequests           (* what clients ask for                         *)

ASSUME TwapAssumption ==
  /\ Now \in Nat \ {0}
  /\ TwoHours \in Nat \ {0} /\ HalfMinute \in Nat \ {0} /\ Millisecond \in Nat \ {0}
  /\ MinSlices \in Nat \ {0} /\ MaxSlices \in Nat /\ MinSlices <= MaxSlices
  /\ ParentRequests \subseteq
       [qty : Int, start : Int, end : Int, duration : Int, sliceCount : Int,
        minInterval : Int, perturbPct : Int, buyWithoutPrice : BOOLEAN]

VARIABLES
  cut,             (* where the call is                                    *)
  parent,          (* the parent order                                     *)
  numSlices, interval,
  slot,            (* interval * i after start                             *)
  slices           (* the children made so far                             *)

twapVars == <<cut, parent, numSlices, interval, slot, slices>>

TwapInit ==
  /\ cut \in {"http", "submit"}
  /\ parent \in ParentRequests
  /\ numSlices = 0
  /\ interval = 0
  /\ slot = 0
  /\ slices = <<>>

Lesser(a, b) == IF a < b THEN a ELSE b
Greater(a, b) == IF a < b THEN b ELSE a
Clamp(low, x, high) == Lesser(Greater(low, x), high)

-----------------------------------------------------------------------------
(* handleSubmitParent: an end that is not given is counted from now, not    *)
(* from the start.                                                          *)
HandleSubmitParent ==
  /\ cut = "http"
  /\ IF parent.qty <= 0
       THEN cut' = "refused" /\ UNCHANGED parent
       ELSE /\ cut' = "submit"
            /\ parent' = [parent EXCEPT
                 !.start = IF @ > 0 THEN @ ELSE Now,
                 !.end = IF @ > 0 THEN @
                         ELSE Now + (IF parent.duration > 0 THEN parent.duration ELSE TwoHours)]
  /\ UNCHANGED <<numSlices, interval, slot, slices>>

EstimateSliceCount(duration) == Clamp(MinSlices, duration \div HalfMinute, MaxSlices)

(* The defaults of SubmitParent.                                            *)
WithTimes(p) ==
  LET start == IF p.start = 0 THEN Now ELSE p.start
  IN  [p EXCEPT !.start = start,
                !.end = IF @ # 0 THEN @
                        ELSE start + (IF p.sliceCount > 0 THEN p.sliceCount * HalfMinute
                                      ELSE TwoHours)]

Completed(p) ==
  [p EXCEPT !.sliceCount = IF @ = 0 THEN EstimateSliceCount(p.end - p.start) ELSE @,
            !.perturbPct = IF @ <= 0 THEN 10 ELSE @]

Validate(p) ==
  /\ p.qty > 0
  /\ p.end > p.start
  /\ p.sliceCount > 0
  /\ p.perturbPct \in 0..100
  /\ ~p.buyWithoutPrice

SubmitParent ==
  /\ cut = "submit"
  /\ parent' = Completed(WithTimes(parent))
  /\ cut' = IF Validate(parent') THEN "count" ELSE "refused"
  /\ UNCHANGED <<numSlices, interval, slot, slices>>

(* GenerateSlices: the number of slices and the time between them.  Slices  *)
(* that would be closer than the minimal interval become fewer; slices that *)
(* would be empty are an error.                                             *)
CountSlices ==
  LET duration == parent.end - parent.start
      wanted == Clamp(MinSlices, parent.sliceCount, MaxSlices)
      least == parent.minInterval * Millisecond
      close == duration \div wanted < least /\ least > 0
  IN  /\ cut = "count"
      /\ interval' = IF close THEN least ELSE duration \div wanted
      /\ numSlices' = IF close THEN Greater(1, duration \div least) ELSE wanted
      /\ cut' = IF parent.qty \div numSlices' > 0 THEN "loop" ELSE "refused"
      /\ UNCHANGED <<parent, slot, slices>>

-----------------------------------------------------------------------------
(* The loop *)

AllocatedQty == IF slices = <<>> THEN 0 ELSE slices[Len(slices)].upto
Remaining == parent.qty - AllocatedQty

(* Slice i + 1 before the perturbation.                                     *)
BaseQty(i) ==
  LET base == parent.qty \div numSlices
  IN  IF i < parent.qty - base * numSlices THEN base + 1 ELSE base

(* int64(float64(qty) * factor), at least 1; the factor is at least 0.1.    *)
Perturbed(qty) ==
  {Greater(1, q) : q \in ((qty * Greater(100 - parent.perturbPct, 10)) \div 100)
                         ..((qty * (100 + parent.perturbPct)) \div 100)}

JitterRange == IF interval > Millisecond THEN interval \div 10 ELSE 0
Jitters == IF JitterRange > 0 THEN (1 - JitterRange)..(JitterRange - 1) ELSE {0}

ScheduledTime(jitter) == Clamp(parent.start, parent.start + slot + jitter, parent.end)

(* Mutant of MoreSlices: what remains is not looked at.                     *)
MoreSlicesAlways == Len(slices) < numSlices

MoreSlices == Len(slices) < numSlices /\ Remaining > 0

NextSlice ==
  /\ cut = "loop"
  /\ MoreSlices
  /\ \E qty \in Perturbed(BaseQty(Len(slices))), jitter \in Jitters :
       LET last == Len(slices) = numSlices - 1
           upto == IF last \/ qty > Remaining THEN parent.qty ELSE AllocatedQty + qty
       IN  slices' = Append(slices, [from |-> AllocatedQty, upto |-> upto,
                                     at |-> ScheduledTime(jitter)])
  /\ slot' = slot + interval
  /\ UNCHANGED <<cut, parent, numSlices, interval>>

AllocatedFrom == slices[Len(slices)].from

(* What is missing is added to the last slice, what is too much is taken    *)
(* from it as far as one unit.                                              *)
Finish ==
  /\ cut = "loop"
  /\ ~MoreSlices
  /\ slices' = IF slices = <<>> THEN slices
               ELSE [slices EXCEPT ![Len(slices)].upto = Greater(parent.qty, AllocatedFrom + 1)]
  /\ cut' = "done"
  /\ UNCHANGED <<parent, numSlices, interval, slot>>

TwapNext == HandleSubmitParent \/ SubmitParent \/ CountSlices \/ NextSlice \/ Finish

TwapSpec == TwapInit /\ [][TwapNext]_twapVars

-----------------------------------------------------------------------------
(* The slices that SubmitParent registers cover the parent order: their     *)
(* quantities follow on one another from 0 to its quantity, none is empty,  *)
(* there are as many as were counted at most, and they are due one after    *)
(* the other inside the window, whatever was drawn (GenerateSlices).        *)
ScheduleCoversParent ==
  cut = "done" =>
    /\ slices # <<>> /\ Len(slices) <= numSlices
    /\ slices[1].from = 0 /\ slices[Len(slices)].upto = parent.qty
    /\ \A i \in 1..(Len(slices) - 1) :
         slices[i].upto = slices[i + 1].from /\ slices[i].at <= slices[i + 1].at
    /\ \A i \in DOMAIN slices :
         /\ slices[i].from < slices[i].upto
         /\ slices[i].at \in parent.start..parent.end
=============================================================================
