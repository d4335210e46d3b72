---------------------------- MODULE MCAlgoEngine ----------------------------
(* Instances of AlgoEngine for TLC. *)
EXTENDS AlgoEngine, TLC

CONSTANTS p1, p2

OneParent == {p1}
TwoParents == {p1, p2}

Symmetry == Permutations(TwoParents)
=============================================================================
