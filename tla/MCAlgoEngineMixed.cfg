SPECIFICATION Spec
CONSTANTS
  p1 = p1
  p2 = p2
  NoParent = NoParent
  Parents <- TwoParents
  NumSlices = 1
  SliceQty = 2
  MaxFailures = 0
CHECK_DEADLOCK FALSE
SYMMETRY Symmetry
INVARIANT CompletedByItsChildren
