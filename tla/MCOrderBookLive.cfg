SPECIFICATION FairSpec
CONSTANTS
  o1 = o1
  o2 = o2
  o3 = o3
  o4 = o4
  NoOrder = NoOrder
  Orders <- ThreeOrders
  MinPrice = 1
  MaxPrice = 2
  MaxQty = 2
  TradeChCap = 1
PROPERTIES SubmitReturns BookIsAtomic
