SPECIFICATION EitherSpec
CONSTANTS
  p1 = p1
  p2 = p2
  p3 = p3
  sa = sa
  sb = sb
  Callers <- ThreeCallers
  Symbols <- TwoSymbols
  MaxOrders = 4
  Producers <- ThreeCallers
  Size = 2
  MaxItems = 5
CHECK_DEADLOCK FALSE
SYMMETRY Symmetry
INVARIANTS RingTypes PopsArePushes NamesOneOrder
