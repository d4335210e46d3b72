SPECIFICATION FairSpec
CONSTANTS
  AlgoSenders = {a1}
  GatewaySenders = {g1}
  MaxTrades = 4
  ChSize = 2
  BatchSize = 2
  Retries = 1
  MaxLen = 2
  MaxFaults = 3
CHECK_DEADLOCK FALSE
INVARIANTS TypeOK EachAccountedFor FirstSeenInOrder NoSendOnClosed
PROPERTIES FullBatchLeaves HangsOnlyWhenFull
