----------------------------- MODULE MCSequential -----------------------------
(* Instances of the parts that run in one goroutine, and share nothing:     *)
(* a behaviour is of one of them.                                           *)
EXTENDS Twap, FixStream, ParseInt, TLC

SmallRequests ==
  [qty : {0, 1, 5, 7}, start : {0, 30}, end : {0, 61}, duration : {0, 4}, sliceCount : {-1, 0, 1, 3, 9},
   minInterval : {0, 25}, perturbPct : {-1, 50, 100, 101}, buyWithoutPrice : BOOLEAN]

(* The others move while the parent order is this one, and not yet looked   *)
(* at.                                                                      *)
Untouched == cut = "http" /\ parent = (CHOOSE r \in ParentRequests : TRUE) /\ TwapInit

AnyInit == TwapInit /\ StreamInit /\ IntInit

AnyNext ==
  \/ TwapNext /\ StreamInit /\ IntInit /\ UNCHANGED <<streamVars, intVars>>
  \/ Untouched /\ StreamNext /\ IntInit /\ UNCHANGED <<twapVars, intVars>>
  \/ Untouched /\ StreamInit /\ IntNext /\ UNCHANGED <<twapVars, streamVars>>

AnySpec == AnyInit /\ [][AnyNext]_<<twapVars, streamVars, intVars>>
=============================================================================
