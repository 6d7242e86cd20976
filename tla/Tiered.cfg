SPECIFICATION TieredSpec
CONSTANTS
  a = a
  Producers = {p1}
  Keys = {}
  NoKey = NoKey
  Types = {a}
  Subs = {s1}
  Ttls = {0, 1}
  DedupTtl = 0
  Cap = 1
  Policy = "retain"
  ArchiveMode = FALSE
  NoRow = NoRow
  MaxRetries = 1
  ReplayFrom = {}
  MaxEvents = 2
  MaxHour = 2
  Sweepers = {w1, w2}
  Readers = {r1}
  SweepBatch = 2
  PageSize = 2
  MonthLength = 1
  MaxSplit = 1
  Filter <- AllTypes
INVARIANT TieredTypeOK
INVARIANT InSomeTier
INVARIANT FoundByRange
INVARIANT OwedLeavesNamed
INVARIANT NeverTurnedAway
PROPERTY UnfilledPageHasNoGap
CONSTRAINT Instances
SYMMETRY Alike
