SPECIFICATION Spec
CONSTANTS
  p1 = p1
  p2 = p2
  NoParent = NoParent
  Parents <- OneParent
  NumSlices = 1
  SliceQty = 2
  MaxFailures = 0
CHECK_DEADLOCK FALSE
INVARIANT AbortedDoNotRest
