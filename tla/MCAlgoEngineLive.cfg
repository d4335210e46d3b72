SPECIFICATION FairSpec
CONSTANTS
  p1 = p1
  p2 = p2
  NoParent = NoParent
  Parents <- OneParent
  NumSlices = 2
  SliceQty = 1
  MaxFailures = 1
CHECK_DEADLOCK FALSE
INVARIANTS SentOnce CancelSettles
PROPERTIES ChildrenSettle StopReturns
