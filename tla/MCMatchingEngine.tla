-------------------------- MODULE MCMatchingEngine --------------------------
(* Instances of MatchingEngine and RingBuffer for TLC.  The engine never    *)
(* looks at the ring buffer it pushes to, so that a behaviour of both is no *)
(* more than one of each: a behaviour here is of the one or of the other.   *)
EXTENDS MatchingEngine, RingBuffer, TLC

CONSTANTS p1, p2, p3, sa, sb

ThreeCallers == {p1, p2, p3}
TwoSymbols == {sa, sb}

Symmetry == Permutations(ThreeCallers) \cup Permutations(TwoSymbols)

EitherInit == Init /\ RingInit

EitherNext ==
  \/ RingInit /\ Next /\ UNCHANGED ringVars
  \/ Init /\ RingNext /\ UNCHANGED vars

EitherSpec == EitherInit /\ [][EitherNext]_<<vars, ringVars>>
=============================================================================
