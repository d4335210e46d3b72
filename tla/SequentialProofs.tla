------------------------------ MODULE SequentialProofs ---------------------------
(***************************************************************************)
(* Proofs about what one goroutine does by itself: that the slices of a    *)
(* parent order cover it (Twap, for any requests and positive durations),  *)
(* that a message is decoded as it was sent (FixStream, for streams of any *)
(* length), and that numbers are read exactly (ParseInt, for any width and *)
(* any number of characters).                                              *)
(***************************************************************************)
EXTENDS Twap, FixStream, ParseInt, TLAPS

ParentRecords ==
  [qty : Int, start : Int, end : Int, duration : Int, sliceCount : Int,
   minInterval : Int, perturbPct : Int, buyWithoutPrice : BOOLEAN]
Slices == [from : Int, upto : Int, at : Int]

Types ==
  /\ cut \in {"http", "submit", "count", "loop", "done", "refused"}
  /\ parent \in ParentRecords
  /\ numSlices \in Nat /\ interval \in Int /\ slot \in Int
  /\ slices \in Seq(Slices)

(* What the checks and the counting leave to the loop.                      *)
Checked == parent.qty > 0 /\ parent.start < parent.end

Counted ==
  /\ cut \in {"http", "submit", "count"} => slices = <<>> /\ slot = 0
  /\ cut \in {"count", "loop", "done"} => Checked
  /\ cut \in {"loop", "done"} => numSlices > 0 /\ interval >= 0 /\ Len(slices) <= numSlices

(* The slices made so far follow on one another, in the window; the last one *)
(* is due before the next can be.                                           *)
Chained ==
  /\ slices # <<>> => slices[1].from = 0
  /\ \A i \in 1..(Len(slices) - 1) :
       slices[i].upto = slices[i + 1].from /\ slices[i].at <= slices[i + 1].at
  /\ \A i \in DOMAIN slices :
       /\ slices[i].from < slices[i].upto
       /\ slices[i].at >= parent.start /\ slices[i].at <= parent.end

LoopInv ==
  cut = "loop" =>
    /\ AllocatedQty <= parent.qty
    /\ Len(slices) = numSlices => AllocatedQty = parent.qty
    /\ slices = <<>> => slot = 0
    /\ slices # <<>> => /\ slot >= interval
                        /\ slices[Len(slices)].at <= parent.start + (slot - interval) + JitterRange

DoneInv == cut = "done" => slices # <<>> /\ slices[Len(slices)].upto = parent.qty

IInv == Types /\ Counted /\ Chained /\ LoopInv /\ DoneInv

-----------------------------------------------------------------------------
(* What the type of the parent order says of the fields the slicer computes with. *)
LEMMA ParentTyped ==
  ASSUME parent \in ParentRecords
  PROVE  /\ parent.qty \in Int /\ parent.start \in Int /\ parent.end \in Int
         /\ parent.sliceCount \in Int /\ parent.minInterval \in Int
         /\ parent.perturbPct \in Int
BY DEF ParentRecords

(* A parent whose times are replaced by integers is still well typed. *)
LEMMA TimesTyped ==
  ASSUME NEW p \in ParentRecords, NEW s \in Int, NEW e \in Int
  PROVE  [p EXCEPT !.start = s, !.end = e] \in ParentRecords
BY DEF ParentRecords

(* A parent whose slice count and perturbation are replaced is still well typed. *)
LEMMA CountsTyped ==
  ASSUME NEW p \in ParentRecords, NEW n \in Int, NEW pct \in Int
  PROVE  [p EXCEPT !.sliceCount = n, !.perturbPct = pct] \in ParentRecords
BY DEF ParentRecords

(* What the type of the slices says of their number, bounds and times. *)
LEMMA SlicesTyped ==
  ASSUME slices \in Seq(Slices)
  PROVE  /\ Len(slices) \in Nat /\ DOMAIN slices = 1..Len(slices)
         /\ slices # <<>> => Len(slices) >= 1
         /\ \A i \in DOMAIN slices :
              /\ slices[i] \in Slices
              /\ slices[i].from \in Int /\ slices[i].upto \in Int /\ slices[i].at \in Int
         /\ AllocatedQty \in Int
<1>1. /\ Len(slices) \in Nat /\ DOMAIN slices = 1..Len(slices)
      /\ slices # <<>> => Len(slices) >= 1
  OBVIOUS
<1>2. \A i \in DOMAIN slices : slices[i] \in Slices
  BY <1>1
<1>3. \A x \in Slices : x.from \in Int /\ x.upto \in Int /\ x.at \in Int
  BY DEF Slices
<1>4. AllocatedQty \in Int
  <2>1. slices # <<>> => slices[Len(slices)] \in Slices
    BY <1>1, <1>2
  <2> QED
    BY <2>1, <1>3 DEF AllocatedQty
<1> QED
  BY <1>1, <1>2, <1>3, <1>4

(* The jitter of two neighbours is less than the time between them.         *)
LEMMA JitterSmall ==
  ASSUME interval \in Int, interval >= 0
  PROVE  /\ JitterRange \in Int /\ JitterRange >= 0 /\ 2 * JitterRange <= interval
         /\ \A j \in Jitters : j \in Int /\ -JitterRange <= j /\ j <= JitterRange
<1>1. Millisecond \in Nat
  BY TwapAssumption
<1>2. JitterRange \in Int /\ JitterRange >= 0 /\ 2 * JitterRange <= interval
  BY <1>1 DEF JitterRange
<1> QED
  BY <1>2 DEF Jitters

(* The initial states.                                                      *)
LEMMA InitInv == TwapInit => IInv
BY TwapAssumption DEF TwapInit, IInv, Types, Counted, Checked, Chained, LoopInv, DoneInv, Slices,
                      ParentRecords

(* The HTTP handler that reads a parent order keeps the invariant. *)
LEMMA HandleInv == IInv /\ HandleSubmitParent => IInv'
<1> SUFFICES ASSUME IInv, HandleSubmitParent PROVE IInv'
  OBVIOUS
<1>1. cut = "http" /\ slices = <<>> /\ slot = 0
  BY DEF IInv, Counted, HandleSubmitParent
<1>2. parent' \in ParentRecords /\ cut' \in {"refused", "submit"}
  <2> DEFINE s == IF parent.start > 0 THEN parent.start ELSE Now
             e == IF parent.end > 0 THEN parent.end
                  ELSE Now + (IF parent.duration > 0 THEN parent.duration ELSE TwoHours)
  <2>1. parent \in ParentRecords
    BY DEF IInv, Types
  <2>2. s \in Int /\ e \in Int
    BY <2>1, TwapAssumption DEF ParentRecords
  <2>3. /\ cut' \in {"refused", "submit"}
        /\ parent' = parent \/ parent' = [parent EXCEPT !.start = s, !.end = e]
    BY DEF HandleSubmitParent
  <2> HIDE DEF s, e
  <2> QED
    BY <2>1, <2>2, <2>3, TimesTyped
<1>3. Types'
  BY <1>2 DEF IInv, Types, HandleSubmitParent
<1> QED
  BY <1>1, <1>2, <1>3 DEF IInv, Counted, Checked, Chained, LoopInv, DoneInv, HandleSubmitParent

(* The checks of SubmitParent keep the invariant. *)
LEMMA SubmitInv == IInv /\ SubmitParent => IInv'
<1> SUFFICES ASSUME IInv, SubmitParent PROVE IInv'
  OBVIOUS
<1>1. cut = "submit" /\ slices = <<>> /\ slot = 0
  BY DEF IInv, Counted, SubmitParent
<1>2. WithTimes(parent) \in ParentRecords
  <2> DEFINE s == IF parent.start = 0 THEN Now ELSE parent.start
             d == IF parent.sliceCount > 0 THEN parent.sliceCount * HalfMinute ELSE TwoHours
             e == IF parent.end # 0 THEN parent.end ELSE s + d
  <2>1. parent \in ParentRecords
    BY DEF IInv, Types
  <2>2. s \in Int /\ d \in Int /\ parent.end \in Int
    BY <2>1, TwapAssumption DEF ParentRecords
  <2>3. WithTimes(parent) = [parent EXCEPT !.start = s, !.end = e]
    BY DEF WithTimes
  <2> HIDE DEF s, d
  <2>4. e \in Int
    BY <2>2
  <2> HIDE DEF e
  <2> QED
    BY <2>1, <2>2, <2>3, <2>4, TimesTyped
<1>3. ASSUME NEW d \in Int PROVE EstimateSliceCount(d) \in Int
  BY TwapAssumption DEF EstimateSliceCount, Clamp, Lesser, Greater
<1>4. Completed(WithTimes(parent)) \in ParentRecords
  <2> DEFINE p == WithTimes(parent)
  <2>1. p \in ParentRecords
    BY <1>2
  <2> HIDE DEF p
  <2>2. EstimateSliceCount(p.end - p.start) \in Int
    BY <1>3, <2>1 DEF ParentRecords
  <2>3. Completed(p) \in ParentRecords
    <3> DEFINE n == IF p.sliceCount = 0 THEN EstimateSliceCount(p.end - p.start)
                    ELSE p.sliceCount
               pct == IF p.perturbPct <= 0 THEN 10 ELSE p.perturbPct
    <3>1. n \in Int /\ pct \in Int
      BY <2>1, <2>2 DEF ParentRecords
    <3>2. Completed(p) = [p EXCEPT !.sliceCount = n, !.perturbPct = pct]
      BY DEF Completed
    <3> HIDE DEF n, pct
    <3> QED
      BY <2>1, <3>1, <3>2, CountsTyped
  <2> QED
    BY <2>3 DEF p
<1>5. parent' \in ParentRecords /\ cut' \in {"count", "refused"}
  BY <1>4 DEF SubmitParent
<1>6. cut' = "count" => Checked'
  BY <1>5 DEF SubmitParent, Validate, Checked, ParentRecords
<1>7. Types'
  BY <1>5 DEF IInv, Types, SubmitParent
<1> QED
  BY <1>1, <1>5, <1>6, <1>7 DEF IInv, Counted, Chained, LoopInv, DoneInv, SubmitParent

(* Computing the number of slices keeps the invariant. *)
LEMMA CountInv == IInv /\ CountSlices => IInv'
<1> SUFFICES ASSUME IInv, CountSlices PROVE IInv'
  OBVIOUS
<1> DEFINE duration == parent.end - parent.start
           wanted == Clamp(MinSlices, parent.sliceCount, MaxSlices)
           least == parent.minInterval * Millisecond
<1>1. cut = "count" /\ slices = <<>> /\ slot = 0 /\ Checked
  BY DEF IInv, Counted, CountSlices
<1>2. /\ parent.qty \in Int /\ parent.start \in Int /\ parent.end \in Int
      /\ parent.sliceCount \in Int /\ parent.minInterval \in Int
  BY ParentTyped DEF IInv, Types
<1>3. duration \in Nat /\ duration > 0
  BY <1>1, <1>2 DEF Checked
<1>4. wanted \in Nat /\ wanted > 0
  BY <1>2, TwapAssumption DEF Clamp, Lesser, Greater
<1>5. least \in Int
  BY <1>2, TwapAssumption
<1>6. /\ interval' = IF duration \div wanted < least /\ least > 0 THEN least
                     ELSE duration \div wanted
      /\ numSlices' = IF duration \div wanted < least /\ least > 0
                        THEN Greater(1, duration \div least) ELSE wanted
      /\ cut' \in {"loop", "refused"}
      /\ UNCHANGED <<parent, slot, slices>>
  BY DEF CountSlices
<1> HIDE DEF duration, wanted, least
<1>7. duration \div wanted \in Int /\ duration \div wanted >= 0
  BY <1>3, <1>4
<1>8. interval' \in Int /\ interval' >= 0
  BY <1>5, <1>6, <1>7
<1>9. numSlices' \in Nat /\ numSlices' > 0
  <2>1. CASE duration \div wanted < least /\ least > 0
    <3>1. duration \div least \in Int
      BY <2>1, <1>3, <1>5
    <3> QED
      BY <3>1, <2>1, <1>6 DEF Greater
  <2>2. CASE ~(duration \div wanted < least /\ least > 0)
    BY <2>2, <1>4, <1>6
  <2> QED
    BY <2>1, <2>2
<1>10. Types'
  BY <1>6, <1>8, <1>9 DEF IInv, Types
<1>11. AllocatedQty' = 0
  BY <1>1, <1>6 DEF AllocatedQty
<1> QED
  BY <1>1, <1>2, <1>6, <1>8, <1>9, <1>10, <1>11
     DEF IInv, Counted, Checked, Chained, LoopInv, DoneInv

(* One turn of the slicing loop keeps the invariant. *)
LEMMA SliceInv == IInv /\ NextSlice => IInv'
<1> SUFFICES ASSUME IInv, NextSlice PROVE IInv'
  OBVIOUS
<1>1. /\ parent \in ParentRecords /\ numSlices \in Nat /\ interval \in Int /\ slot \in Int
      /\ slices \in Seq(Slices)
  BY DEF IInv, Types
<1>2. /\ cut = "loop" /\ Checked /\ numSlices > 0 /\ interval >= 0
      /\ Len(slices) < numSlices /\ Remaining > 0
      /\ slot' = slot + interval
      /\ UNCHANGED <<cut, parent, numSlices, interval>>
  BY DEF IInv, Counted, NextSlice, MoreSlices
<1>3. parent.qty \in Int /\ parent.start \in Int /\ parent.end \in Int /\ parent.perturbPct \in Int
  BY <1>1, ParentTyped
<1>4. Len(slices) \in Nat /\ AllocatedQty \in Int
  BY <1>1, SlicesTyped
<1>5. /\ JitterRange \in Int /\ JitterRange >= 0 /\ 2 * JitterRange <= interval
      /\ \A j \in Jitters : j \in Int /\ -JitterRange <= j /\ j <= JitterRange
  BY <1>1, <1>2, JitterSmall
<1>6. PICK qty \in Perturbed(BaseQty(Len(slices))), jitter \in Jitters :
        slices' = Append(slices,
          [from |-> AllocatedQty,
           upto |-> IF Len(slices) = numSlices - 1 \/ qty > Remaining THEN parent.qty
                    ELSE AllocatedQty + qty,
           at |-> ScheduledTime(jitter)])
  BY DEF NextSlice
<1>7. qty \in Int /\ qty >= 1
  <2>1. PICK q \in Int : qty = Greater(1, q)
    BY DEF Perturbed
  <2> QED
    BY <2>1 DEF Greater
<1> DEFINE n == Len(slices)
           upto == IF Len(slices) = numSlices - 1 \/ qty > Remaining THEN parent.qty
                   ELSE AllocatedQty + qty
           at == ScheduledTime(jitter)
           new == [from |-> AllocatedQty, upto |-> upto, at |-> at]
<1>8. /\ upto \in Int /\ AllocatedQty < upto /\ upto <= parent.qty
      /\ n = numSlices - 1 => upto = parent.qty
  BY <1>2, <1>3, <1>4, <1>7 DEF Remaining
<1>9. jitter \in Int /\ -JitterRange <= jitter /\ jitter <= JitterRange
  BY <1>5
<1>10. /\ at \in Int /\ at >= parent.start /\ at <= parent.end
       /\ at <= parent.start \/ at <= parent.start + slot + jitter
       /\ at = parent.end \/ at >= parent.start + slot + jitter
  BY <1>1, <1>2, <1>3, <1>9 DEF ScheduledTime, Clamp, Lesser, Greater, Checked
<1> HIDE DEF n, upto, at
<1>11. new \in Slices
  BY <1>4, <1>8, <1>10 DEF Slices
<1>12. slices' = Append(slices, new)
  BY <1>6 DEF upto, at
<1>13. new.from = AllocatedQty /\ new.upto = upto /\ new.at = at
  OBVIOUS
<1> HIDE DEF new
<1>14. n \in Nat /\ n = Len(slices)
  BY <1>4 DEF n
<1>15. /\ slices' \in Seq(Slices) /\ Len(slices') = n + 1 /\ slices'[n + 1] = new
       /\ \A i \in 1..n : slices'[i] = slices[i]
       /\ slices' # <<>>
  BY <1>1, <1>11, <1>12, <1>14
<1>16. Types'
  BY <1>1, <1>2, <1>15 DEF IInv, Types
<1>17. Counted'
  BY <1>1, <1>2, <1>14, <1>15 DEF IInv, Counted, Checked
<1>18. AllocatedQty' = upto
  BY <1>13, <1>15 DEF AllocatedQty
<1>19. /\ slices = <<>> => n = 0 /\ AllocatedQty = 0 /\ slot = 0
       /\ slices # <<>> => /\ n >= 1 /\ AllocatedQty = slices[n].upto /\ slot >= interval
                           /\ slices[n].at <= parent.start + (slot - interval) + JitterRange
                           /\ slices[n].at <= parent.end /\ slices[n].at \in Int
                           /\ slices[1].from = 0
  <2>1. slices = <<>> => n = 0 /\ AllocatedQty = 0 /\ slot = 0
    BY <1>2, <1>14 DEF IInv, LoopInv, AllocatedQty
  <2>2. ASSUME slices # <<>>
        PROVE  /\ n >= 1 /\ AllocatedQty = slices[n].upto /\ slot >= interval
               /\ slices[n].at <= parent.start + (slot - interval) + JitterRange
               /\ slices[n].at <= parent.end /\ slices[n].at \in Int
               /\ slices[1].from = 0
    <3>1. n >= 1 /\ n \in DOMAIN slices
      BY <2>2, <1>1, <1>14
    <3>2. slices[n].at \in Int
      BY <3>1, <1>1, SlicesTyped
    <3> QED
      BY <2>2, <3>1, <3>2, <1>2, <1>14 DEF IInv, LoopInv, Chained, AllocatedQty
  <2> QED
    BY <2>1, <2>2
<1>20. Chained'
  <2>1. slices'[1].from = 0
    BY <1>13, <1>14, <1>15, <1>19
  <2>2. ASSUME NEW i \in 1..(Len(slices') - 1)
        PROVE  slices'[i].upto = slices'[i + 1].from /\ slices'[i].at <= slices'[i + 1].at
    <3>1. CASE i < n
      <4>1. i \in 1..(Len(slices) - 1) /\ slices'[i] = slices[i] /\ slices'[i + 1] = slices[i + 1]
        BY <3>1, <1>14, <1>15
      <4> QED
        BY <4>1 DEF IInv, Chained
    <3>2. CASE i = n
      <4>1. slices # <<>> /\ slices'[i] = slices[n] /\ slices'[i + 1] = new
        BY <3>2, <1>1, <1>14, <1>15
      <4>2. slices[n].at <= at
        <5> DEFINE last == slices[n].at
        <5>1. /\ last \in Int /\ last <= parent.end
              /\ last <= parent.start + (slot - interval) + JitterRange
          BY <4>1, <1>19
        <5>2. at \in Int /\ (at = parent.end \/ at >= parent.start + slot + jitter)
          BY <1>10
        <5> HIDE DEF last
        <5>3. last <= at
          BY <1>1, <1>3, <1>5, <1>9, <5>1, <5>2
        <5> QED
          BY <5>3 DEF last
      <4> QED
        BY <4>1, <4>2, <1>13, <1>19
    <3> QED
      BY <3>1, <3>2, <1>14, <1>15
  <2>3. ASSUME NEW i \in DOMAIN slices'
        PROVE  /\ slices'[i].from < slices'[i].upto
               /\ slices'[i].at >= parent.start /\ slices'[i].at <= parent.end
    <3>1. CASE i \in 1..n
      <4>1. i \in DOMAIN slices /\ slices'[i] = slices[i]
        BY <3>1, <1>1, <1>14, <1>15
      <4> QED
        BY <4>1 DEF IInv, Chained
    <3>2. CASE i = n + 1
      BY <3>2, <1>8, <1>10, <1>13, <1>15
    <3> QED
      BY <3>1, <3>2, <1>14, <1>15
  <2> QED
    BY <2>1, <2>2, <2>3, <1>2 DEF Chained
<1>21. LoopInv'
  <2>1. JitterRange' = JitterRange
    BY <1>2 DEF JitterRange
  <2>2. at <= parent.start + (slot' - interval) + JitterRange
    BY <1>1, <1>2, <1>3, <1>5, <1>9, <1>10, <1>19
  <2>3. slot' >= interval
    BY <1>1, <1>2, <1>19
  <2> QED
    BY <2>1, <2>2, <2>3, <1>1, <1>2, <1>8, <1>13, <1>14, <1>15, <1>18 DEF LoopInv
<1> QED
  BY <1>2, <1>16, <1>17, <1>20, <1>21 DEF IInv, DoneInv

(* Leaving the slicing loop keeps the invariant. *)
LEMMA FinishInv == IInv /\ Finish => IInv'
<1> SUFFICES ASSUME IInv, Finish PROVE IInv'
  OBVIOUS
<1>1. /\ parent \in ParentRecords /\ numSlices \in Nat /\ interval \in Int /\ slot \in Int
      /\ slices \in Seq(Slices) /\ parent.qty \in Int
  BY ParentTyped DEF IInv, Types
<1>2. /\ cut = "loop" /\ cut' = "done" /\ Checked /\ numSlices > 0
      /\ Len(slices) <= numSlices /\ ~MoreSlices
      /\ UNCHANGED <<parent, numSlices, interval, slot>>
  BY DEF IInv, Counted, Finish
<1> DEFINE n == Len(slices)
<1>3. AllocatedQty \in Int /\ n \in Nat
  BY <1>1, SlicesTyped
<1>4. AllocatedQty = parent.qty
  BY <1>1, <1>2, <1>3 DEF IInv, LoopInv, MoreSlices, Remaining
<1>5. slices # <<>>
  BY <1>1, <1>2, <1>4 DEF AllocatedQty, Checked
<1>6. n >= 1 /\ n \in DOMAIN slices /\ slices[n] \in Slices /\ slices[n].upto = parent.qty
  BY <1>1, <1>4, <1>5 DEF AllocatedQty
<1>7. slices[n].from < parent.qty /\ slices[n].from \in Int
  BY <1>6 DEF IInv, Chained, Slices
<1>8. Greater(parent.qty, AllocatedFrom + 1) = parent.qty
  BY <1>1, <1>7 DEF Greater, AllocatedFrom
<1>9. slices' = [slices EXCEPT ![n].upto = parent.qty]
  BY <1>5, <1>8 DEF Finish
<1>10. slices' = slices
  <2>1. [slices[n] EXCEPT !.upto = parent.qty] = slices[n]
    BY <1>6 DEF Slices
  <2> HIDE DEF n
  <2> QED
    BY <2>1, <1>1, <1>6, <1>9
<1> QED
  BY <1>1, <1>2, <1>5, <1>6, <1>10 DEF IInv, Types, Counted, Checked, Chained, LoopInv, DoneInv

(* A stuttering step keeps the invariant. *)
LEMMA StutterInv == IInv /\ UNCHANGED twapVars => IInv'
BY DEF twapVars, IInv, Types, Counted, Checked, Chained, LoopInv, DoneInv, AllocatedQty,
       JitterRange

(* The inductive invariant holds in every reachable state of the slicer: what SlicesCover
   is read from. *)
THEOREM Inductive == TwapSpec => []IInv
<1>1. IInv /\ [TwapNext]_twapVars => IInv'
  BY HandleInv, SubmitInv, CountInv, SliceInv, FinishInv, StutterInv DEF TwapNext
<1> QED
  BY InitInv, <1>1, PTL DEF TwapSpec

(* For any request, any positive durations and any draw of the random       *)
(* source, the slices that GenerateSlices returns follow on one another     *)
(* from 0 to the quantity of the parent order, none is empty, and they are  *)
(* due one after the other inside its window.                               *)
THEOREM SlicesCover == TwapSpec => []ScheduleCoversParent
<1>1. IInv => ScheduleCoversParent
  <2> SUFFICES ASSUME IInv, cut = "done" PROVE ScheduleCoversParent
    BY DEF ScheduleCoversParent
  <2>1. \A i \in DOMAIN slices : slices[i].at \in Int
    BY SlicesTyped DEF IInv, Types
  <2>2. parent.start \in Int /\ parent.end \in Int
    BY ParentTyped DEF IInv, Types
  <2> QED
    BY <2>1, <2>2 DEF IInv, Counted, Chained, DoneInv, ScheduleCoversParent
<1> QED
  BY Inductive, <1>1, PTL

-----------------------------------------------------------------------------
(* What the buffer holds when a field has come: it is looked through after  *)
(* every field, so that a field with "10=" in it never stays in it, and it  *)
(* holds what was sent since the last such field.                           *)
StreamInv ==
  /\ sent \in Seq(Body)
  /\ buf \in Seq(Body \ {"110"})
  /\ (\A i \in DOMAIN sent : sent[i] # "110") => buf = sent
  /\ sent = <<>> /\ whole # <<>> /\ WellFormed(whole) => decoded = whole

(* The last field with "10=" of a buffer that held none before.             *)
LEMMA LastArrived ==
  ASSUME NEW s \in Seq(Body \ {"110"}), NEW f \in Body \cup {"10"}
  PROVE  LastChecksum(Append(s, f)) = IF HasChecksum(f) THEN Len(s) + 1 ELSE 0
<1> DEFINE b == Append(s, f)
           I == {i \in 1..Len(b) : HasChecksum(b[i])}
<1>1. LastChecksum(b) = IF I # {} THEN Max(I) ELSE 0
  BY Zenon DEF LastChecksum, SelectLastInSeq
<1>2. /\ Len(s) \in Nat /\ Len(b) = Len(s) + 1 /\ b[Len(s) + 1] = f
      /\ \A i \in 1..Len(s) : b[i] = s[i] /\ s[i] \in Body \ {"110"}
  OBVIOUS
<1>3. \A i \in 1..Len(s) : ~HasChecksum(b[i])
  BY <1>2 DEF HasChecksum, Body
<1> HIDE DEF b
<1>4. CASE HasChecksum(f)
  <2>1. I = {Len(s) + 1}
    BY <1>2, <1>3, <1>4
  <2>2. Max({Len(s) + 1}) = Len(s) + 1
    BY <1>2 DEF Max
  <2> QED
    BY <1>1, <1>4, <2>1, <2>2, Zenon DEF b
<1>5. CASE ~HasChecksum(f)
  <2>1. I = {}
    BY <1>2, <1>3, <1>5
  <2> QED
    BY <1>1, <1>5, <2>1, Zenon DEF b
<1> QED
  BY <1>4, <1>5

(* A message begins where its first field has "8=" in it.                   *)
LEMMA BeginsAtOnce ==
  ASSUME NEW s \in Seq(Body \cup {"10"}), s # <<>>, s[1] = "8"
  PROVE  Begin(s) = 1
<1> DEFINE I == {i \in 1..Len(s) : HasBegin(s[i])}
<1>1. Begin(s) = IF I # {} THEN Min(I) ELSE 0
  BY Zenon DEF Begin, SelectInSeq
<1>2. 1 \in I /\ \A i \in I : i \in Int /\ 1 <= i
  BY DEF HasBegin
<1> HIDE DEF I
<1>3. Min(I) = 1
  <2>1. \A x \in I : (\A y \in I : x <= y) => x = 1
    BY <1>2
  <2> QED
    BY <1>2, <2>1 DEF Min
<1> QED
  BY <1>1, <1>2, <1>3, Zenon

(* Parsing keeps a message that begins with its BeginString and whose       *)
(* fields all have a tag.                                                   *)
LEMMA ParseKeeps ==
  ASSUME NEW s \in Seq(Body \cup {"10"}), s # <<>>, s[1] = "8",
         \A i \in DOMAIN s : s[i] # "junk"
  PROVE  Parse(s) = s
<1>1. [s EXCEPT ![1] = "8"] = s
  OBVIOUS
<1>2. {j \in DOMAIN s : s[j] # "junk"} = DOMAIN s
  OBVIOUS
<1>3. [i \in DOMAIN s |-> s[i]] = s
  OBVIOUS
<1> QED
  BY <1>1, <1>2, <1>3 DEF Parse

(* What a whole message that was sent becomes, when its checksum comes.     *)
LEMMA WholeIsDecoded ==
  ASSUME NEW s \in Seq(Body \ {"110"}), NEW b, b = Append(s, "10"), WellFormed(b)
  PROVE  Message(b) = b
<1>1. b \in Seq(Body \cup {"10"}) /\ b # <<>> /\ Len(b) = Len(s) + 1 /\ Len(s) \in Nat
  BY DEF Body
<1>2. b[1] = "8" /\ \A i \in DOMAIN b : b[i] # "junk"
  BY <1>1 DEF WellFormed
<1>3. Begin(b) = 1
  BY <1>1, <1>2, BeginsAtOnce
<1>4. LastChecksum(b) = Len(b)
  BY <1>1, LastArrived DEF HasChecksum
<1>5. SubSeq(b, 1, Len(b)) = b
  BY <1>1
<1>6. Parse(b) = b
  BY <1>1, <1>2, ParseKeeps
<1>7. Message(b) = Parse(SubSeq(b, 1, Len(b)))
  BY <1>3, <1>4 DEF Message
<1> QED
  BY <1>5, <1>6, <1>7

(* A checksum empties the buffer, whatever was before it.                   *)
LEMMA ArrivalEmpties ==
  ASSUME buf \in Seq(Body \ {"110"}), NEW f \in {"10", "110"}, Receive(f)
  PROVE  buf' = <<>> /\ decoded' = Message(Append(buf, f))
<1> DEFINE b == Append(buf, f)
<1>1. LastChecksum(b) = Len(buf) + 1 /\ Len(b) = Len(buf) + 1 /\ Len(buf) \in Nat
  BY LastArrived DEF HasChecksum, Body
<1>2. LastChecksum(b) # 0 /\ buf' = Rest(b) /\ decoded' = Message(b)
  BY <1>1 DEF Receive, Line
<1>3. Rest(b) = <<>>
  <2>1. SubSeq(b, Len(buf) + 2, Len(buf) + 1) = <<>>
    BY <1>1
  <2>2. LastChecksum(b) + 1 = Len(buf) + 2
    BY <1>1
  <2> HIDE DEF b
  <2> QED
    BY <1>1, <2>1, <2>2 DEF Rest
<1> QED
  BY <1>2, <1>3

(* A field without "10=" in it waits in the buffer.                         *)
LEMMA FieldWaits ==
  ASSUME buf \in Seq(Body \ {"110"}), NEW f \in Body \ {"110"}, Receive(f)
  PROVE  buf' = Append(buf, f)
<1>1. LastChecksum(Append(buf, f)) = 0
  BY LastArrived DEF HasChecksum, Body
<1> QED
  BY <1>1 DEF Receive, Line

LEMMA ReadFieldInv ==
  ASSUME StreamInv, NEW f \in Body, ReadField(f)
  PROVE  StreamInv'
<1>1. sent \in Seq(Body) /\ buf \in Seq(Body \ {"110"})
  BY DEF StreamInv
<1>2. Receive(f) /\ sent' = Append(sent, f)
  BY DEF ReadField
<1>3. sent' \in Seq(Body) /\ sent' # <<>>
  BY <1>1, <1>2
<1>4. Len(sent') = Len(sent) + 1 /\ sent'[Len(sent) + 1] = f /\ Len(sent) \in Nat
      /\ \A i \in 1..Len(sent) : sent'[i] = sent[i]
  BY <1>1, <1>2
<1>5. CASE f = "110"
  <2>1. buf' = <<>>
    BY <1>1, <1>2, <1>5, ArrivalEmpties
  <2>2. ~\A i \in DOMAIN sent' : sent'[i] # "110"
    BY <1>3, <1>4, <1>5
  <2>3. <<>> \in Seq(Body \ {"110"})
    OBVIOUS
  <2> QED
    BY <1>3, <2>1, <2>2, <2>3 DEF StreamInv
<1>6. CASE f # "110"
  <2>1. buf' = Append(buf, f)
    BY <1>1, <1>2, <1>6, FieldWaits
  <2>2. buf' \in Seq(Body \ {"110"})
    BY <1>1, <1>6, <2>1
  <2>3. ASSUME \A i \in DOMAIN sent' : sent'[i] # "110"
        PROVE  buf' = sent'
    <3>1. \A i \in DOMAIN sent : sent[i] # "110"
      BY <1>1, <1>3, <1>4, <2>3
    <3> QED
      BY <1>2, <2>1, <3>1 DEF StreamInv
  <2> QED
    BY <1>3, <2>2, <2>3 DEF StreamInv
<1> QED
  BY <1>5, <1>6

LEMMA ReadChecksumInv ==
  ASSUME StreamInv, ReadChecksum
  PROVE  StreamInv'
<1>1. sent \in Seq(Body) /\ buf \in Seq(Body \ {"110"})
  BY DEF StreamInv
<1>2. Receive("10") /\ sent' = <<>> /\ whole' = Append(sent, "10")
  BY DEF ReadChecksum
<1>3. buf' = <<>> /\ decoded' = Message(Append(buf, "10"))
  BY <1>1, <1>2, ArrivalEmpties
<1>4. ASSUME WellFormed(whole')
      PROVE  decoded' = whole'
  <2>1. \A i \in DOMAIN sent : sent[i] # "110"
    <3> SUFFICES ASSUME NEW i \in DOMAIN sent PROVE sent[i] # "110"
      OBVIOUS
    <3>1. i \in DOMAIN whole' /\ whole'[i] = sent[i]
      BY <1>1, <1>2
    <3> QED
      BY <1>4, <3>1 DEF WellFormed
  <2>2. buf = sent
    BY <2>1 DEF StreamInv
  <2> QED
    BY <1>1, <1>2, <1>3, <1>4, <2>2, WholeIsDecoded
<1>5. <<>> \in Seq(Body) /\ <<>> \in Seq(Body \ {"110"})
  OBVIOUS
<1> QED
  BY <1>2, <1>3, <1>4, <1>5 DEF StreamInv, WellFormed

(* The invariant of the stream holds in every reachable state.              *)
LEMMA StreamInductive == StreamSpec => []StreamInv
<1>1. StreamInit => StreamInv
  BY DEF StreamInit, StreamInv
<1>2. StreamInv /\ [StreamNext]_streamVars => StreamInv'
  <2> SUFFICES ASSUME StreamInv, [StreamNext]_streamVars PROVE StreamInv'
    OBVIOUS
  <2>1. CASE Timeout
    BY <2>1 DEF Timeout, StreamInv, WellFormed
  <2>2. CASE ReadChecksum
    BY <2>2, ReadChecksumInv
  <2>3. ASSUME NEW f \in Body, ReadField(f) PROVE StreamInv'
    BY <2>3, ReadFieldInv
  <2>4. CASE UNCHANGED streamVars
    BY <2>4 DEF streamVars, StreamInv, WellFormed
  <2> QED
    BY <2>1, <2>2, <2>3, <2>4 DEF StreamNext
<1> QED
  BY <1>1, <1>2, PTL DEF StreamSpec

(* For streams of any length, with time-outs anywhere: a message that       *)
(* begins with its BeginString and has no "10=" before its checksum is      *)
(* decoded with all of its fields and nothing else, whatever was sent       *)
(* before it, and nothing is left of it (ReadFIXMessage, ParseFIXMessage).  *)
THEOREM StreamDecodes == StreamSpec => []DecodesWhatWasSent
<1>1. StreamInv => DecodesWhatWasSent
  BY DEF StreamInv, DecodesWhatWasSent
<1> QED
  BY StreamInductive, <1>1, PTL

-----------------------------------------------------------------------------
(* The digits read so far are those of the value, modulo 2^64.              *)
NumberInv ==
  /\ result \in Int /\ value \in Int
  /\ parse = "start" => result = 0 /\ value = 0
  /\ parse \in {"digits", "end"} => result = Wrap(value)

(* A wrapped number is in range, and a multiple of the modulus away.        *)
LEMMA WrapIs ==
  ASSUME NEW x \in Int
  PROVE  /\ Wrap(x) \in Lowest..(Limit - 1)
         /\ \E k \in Int : Wrap(x) = x + k * Modulus
<1>1. Modulus \in Nat /\ Modulus > 0 /\ Lowest \in Int /\ Limit \in Int /\ Lowest + Modulus = Limit
  BY ParseIntAssumption DEF Modulus, Lowest
<1> DEFINE d == x - Lowest
<1>2. d \in Int
  BY <1>1
<1> HIDE DEF d
<1>3. d % Modulus \in 0..(Modulus - 1) /\ d \div Modulus \in Int
  BY <1>1, <1>2
<1>4. d = Modulus * (d \div Modulus) + (d % Modulus)
  BY <1>1, <1>2
<1>5. Wrap(x) = (d % Modulus) + Lowest
  BY DEF Wrap, d
<1>6. Wrap(x) = x + (-(d \div Modulus)) * Modulus
  BY <1>1, <1>3, <1>4, <1>5 DEF d
<1>7. Wrap(x) \in Lowest..(Limit - 1)
  BY <1>1, <1>3, <1>5
<1>8. -(d \div Modulus) \in Int
  BY <1>3
<1> QED
  BY <1>6, <1>7, <1>8

(* There is no other.                                                       *)
LEMMA WrapUnique ==
  ASSUME NEW x \in Int, NEW y \in Lowest..(Limit - 1), NEW k \in Int, y = x + k * Modulus
  PROVE  y = Wrap(x)
<1>1. Modulus \in Nat /\ Modulus > 0 /\ Lowest \in Int /\ Limit \in Int /\ Lowest + Modulus = Limit
  BY ParseIntAssumption DEF Modulus, Lowest
<1>2. PICK j \in Int : Wrap(x) = x + j * Modulus
  BY WrapIs
<1>3. Wrap(x) \in Lowest..(Limit - 1)
  BY WrapIs
<1>4. y - Wrap(x) = (k - j) * Modulus
  BY <1>1, <1>2, <1>3
<1>5. y - Wrap(x) < Modulus /\ Wrap(x) - y < Modulus
  BY <1>1, <1>3
<1>6. ~(k - j >= 1)
  <2> SUFFICES ASSUME k - j >= 1 PROVE FALSE
    OBVIOUS
  <2>1. (k - j) * Modulus >= Modulus
    BY <1>1
  <2> QED
    BY <1>1, <1>3, <1>4, <1>5, <2>1
<1>7. ~(k - j <= -1)
  <2> SUFFICES ASSUME k - j <= -1 PROVE FALSE
    OBVIOUS
  <2>1. (k - j) * Modulus <= -Modulus
    BY <1>1
  <2> QED
    BY <1>1, <1>3, <1>4, <1>5, <2>1
<1>8. k = j
  BY <1>6, <1>7
<1> QED
  BY <1>2, <1>8

(* A number in range is itself.                                             *)
LEMMA WrapSame ==
  ASSUME NEW x \in Lowest..(Limit - 1)
  PROVE  x = Wrap(x)
<1>1. x \in Int /\ x = x + 0 * Modulus
  BY ParseIntAssumption DEF Modulus, Lowest
<1> QED
  BY <1>1, WrapUnique

(* Wrapping early or late makes no difference to a linear function.         *)
LEMMA WrapLinear ==
  ASSUME NEW x \in Int, NEW a \in Int, NEW c \in Int
  PROVE  Wrap(Wrap(x) * a + c) = Wrap(x * a + c)
<1>1. Modulus \in Int /\ Lowest \in Int /\ Limit \in Int
  BY ParseIntAssumption DEF Modulus, Lowest
<1>2. PICK k \in Int : Wrap(x) = x + k * Modulus
  BY WrapIs
<1>3. Wrap(x) \in Int
  BY <1>1, WrapIs
<1> DEFINE y == Wrap(x) * a + c
<1>4. y \in Int /\ x * a + c \in Int
  BY <1>3
<1>5. y = (x * a + c) + (k * a) * Modulus
  BY <1>1, <1>2, <1>3
<1> HIDE DEF y
<1>6. PICK j \in Int : Wrap(y) = y + j * Modulus
  BY <1>4, WrapIs
<1>7. Wrap(y) = (x * a + c) + (k * a + j) * Modulus
  BY <1>1, <1>4, <1>5, <1>6
<1>8. Wrap(y) \in Lowest..(Limit - 1)
  BY <1>4, WrapIs
<1>9. Wrap(y) = Wrap(x * a + c)
  BY <1>4, <1>7, <1>8, WrapUnique
<1> QED
  BY <1>9 DEF y

LEMMA ReadCharInv ==
  ASSUME NumberInv, NEW c \in 0..10, ReadChar(c)
  PROVE  NumberInv'
<1>1. parse = "digits" /\ value' = value * 10 + c /\ c \in Int /\ value \in Int /\ result \in Int
  BY DEF ReadChar, NumberInv
<1>2. result = Wrap(value)
  BY <1>1 DEF NumberInv
<1>3. value' \in Int
  BY <1>1
<1>4. CASE IsDigit(c)
  <2>1. parse' = "digits" /\ result' = Wrap(result * 10 + c)
    BY <1>4 DEF ReadChar, Shifted
  <2>2. result' = Wrap(value * 10 + c)
    BY <1>1, <1>2, <2>1, WrapLinear
  <2>3. result' = Wrap(value')
    BY <1>1, <2>2
  <2>4. result' \in Int
    BY <1>3, <2>3, WrapIs, ParseIntAssumption DEF Lowest
  <2> QED
    BY <1>3, <2>1, <2>3, <2>4 DEF NumberInv, Wrap, Modulus, Lowest
<1>5. CASE ~IsDigit(c)
  BY <1>3, <1>5 DEF ReadChar, NumberInv
<1> QED
  BY <1>4, <1>5

LEMMA EndInv ==
  ASSUME NumberInv, End
  PROVE  NumberInv'
<1>1. parse = "digits" /\ parse' = "end" /\ value \in Int /\ result \in Int
  BY DEF End, NumberInv
<1>2. result = Wrap(value)
  BY <1>1 DEF NumberInv
<1>3. CASE negative
  <2>1. result' = Wrap(-result) /\ value' = -value
    BY <1>3 DEF End
  <2>2. Wrap(value) * (-1) + 0 = -result /\ value * (-1) + 0 = -value
    BY <1>1, <1>2
  <2>3. result' = Wrap(-value)
    BY <1>1, <2>1, <2>2, WrapLinear
  <2>4. value' \in Int /\ -value \in Int
    BY <1>1, <2>1
  <2>5. result' \in Int
    BY <2>3, <2>4, WrapIs, ParseIntAssumption DEF Lowest
  <2> QED
    BY <1>1, <2>1, <2>3, <2>4, <2>5 DEF NumberInv, Wrap, Modulus, Lowest
<1>4. CASE ~negative
  <2>1. result' = result /\ value' = value
    BY <1>4 DEF End
  <2> QED
    BY <1>1, <1>2, <2>1 DEF NumberInv, Wrap, Modulus, Lowest
<1> QED
  BY <1>3, <1>4

(* The invariant of the parser holds in every reachable state.              *)
LEMMA NumberInductive == IntSpec => []NumberInv
<1>1. 0 = Wrap(0)
  BY WrapSame, ParseIntAssumption DEF Lowest
<1>2. IntInit => NumberInv
  BY DEF IntInit, NumberInv
<1>3. NumberInv /\ [IntNext]_intVars => NumberInv'
  <2> SUFFICES ASSUME NumberInv, [IntNext]_intVars PROVE NumberInv'
    OBVIOUS
  <2>1. ASSUME NEW minus \in BOOLEAN, Sign(minus) PROVE NumberInv'
    <3>1. parse = "start" /\ parse' = "digits" /\ result' = result /\ value' = value
      BY <2>1 DEF Sign
    <3>2. result = 0 /\ value = 0
      BY <3>1 DEF NumberInv
    <3> QED
      BY <1>1, <3>1, <3>2 DEF NumberInv, Wrap, Modulus, Lowest
  <2>2. ASSUME NEW c \in 0..10, ReadChar(c) PROVE NumberInv'
    BY <2>2, ReadCharInv
  <2>3. CASE End
    BY <2>3, EndInv
  <2>4. CASE UNCHANGED intVars
    BY <2>4 DEF intVars, NumberInv, Wrap, Modulus, Lowest
  <2> QED
    BY <2>1, <2>2, <2>3, <2>4 DEF IntNext
<1> QED
  BY <1>2, <1>3, PTL DEF IntSpec

(* For any width and any number of characters: strconvParseInt reads what   *)
(* an int64 can hold exactly, the lowest number included, although the      *)
(* digits' sum overflows before the sign is applied; what is too great is   *)
(* not refused, and has its last bits.                                      *)
THEOREM NumbersRead == IntSpec => []NumbersAreExact
<1>1. NumberInv => NumbersAreExact
  BY WrapSame DEF NumberInv, NumbersAreExact
<1> QED
  BY NumberInductive, <1>1, PTL
=============================================================================
