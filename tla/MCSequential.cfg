SPECIFICATION AnySpec
CONSTANTS
  Now = 1
  TwoHours = 60
  HalfMinute = 15
  Millisecond = 1
  MinSlices = 2
  MaxSlices = 4
  ParentRequests <- SmallRequests
  MaxFields = 4
  MaxChecksums = 2
  Limit = 128
  MaxChars = 4
CHECK_DEADLOCK FALSE
INVARIANTS ScheduleCoversParent DecodesWhatWasSent NumbersAreExact
