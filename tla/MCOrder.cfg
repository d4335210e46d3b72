SPECIFICATION FairSpec
CONSTANTS
  Fillers = {f1, f2}
  Cancellers = {c1, c2}
  Quantity = 4
  FillSizes = {0, 1, 3, 4, 5}
INVARIANTS TypeOK QuantityConserved CancelSettles FilledIsFull
PROPERTIES CancelIsFinal CallsReturn
