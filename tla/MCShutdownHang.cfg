SPECIFICATION FairSpec
CONSTANTS
  AlgoSenders = {a1}
  GatewaySenders = {g1}
  MaxTrades = 5
  ChSize = 2
  BatchSize = 2
  Retries = 1
  MaxLen = 3
  MaxFaults = 1
CHECK_DEADLOCK FALSE
PROPERTY ShutdownEnds
