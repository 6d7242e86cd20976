SPECIFICATION PushSpec
CONSTANTS
  QueueMax = 2
  HighMark = 2
  PageSize = 2
  Mishaps = {}
  MaxEvents = 2
  MaxConns = 1
  MaxWire = 1
  MaxStarts = 1
  MaxCrashes = 0
CHECK_DEADLOCK FALSE
INVARIANT NothingLost
