SPECIFICATION Spec
CONSTANTS
  o1 = o1
  o2 = o2
  o3 = o3
  o4 = o4
  NoOrder = NoOrder
  Orders <- FourOrders
  MinPrice = 1
  MaxPrice = 2
  MaxQty = 2
  TradeChCap = 1
SYMMETRY Symmetry4
INVARIANTS TypeOK BookConsistent ActiveRests NotCrossed AccountsAgree
           ExposureBounded LimitRespected
PROPERTY PriceTimePriority
