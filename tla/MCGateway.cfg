SPECIFICATION Spec
CONSTANTS
  c1 = c1
  c2 = c2
  ida = ida
  idb = idb
  cl1 = cl1
  NoSession = NoSession
  Conns <- TwoConns
  CompIDs <- TwoIDs
  ClOrdIDs <- OneClOrdID
  Script <- TwoClients
  Quantity = 1
  OutCap = 1
  MaxOrders = 1
  MaxFaults = 1
CHECK_DEADLOCK FALSE
INVARIANTS TypeOK NoSendOnClosed NumbersInOrder AnswersAreTrue
PROPERTIES GatewayStops
