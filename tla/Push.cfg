SPECIFICATION FairPushSpec
CONSTANTS
  QueueMax = 1
  HighMark = 1
  PageSize = 1
  Mishaps = {"lost", "overtaken"}
  MaxEvents = 2
  MaxConns = 1
  MaxWire = 1
  MaxStarts = 2
  MaxCrashes = 1
CHECK_DEADLOCK FALSE
INVARIANT PushTypeOK
INVARIANT LostOnlyByOvertaking
PROPERTY PollTakesOver
PROPERTY QueueDrains
