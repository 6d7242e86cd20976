SPECIFICATION FairSpec
CONSTANTS
  a = a
  b = b
  Producers = {p1}
  Keys = {}
  NoKey = NoKey
  Types = {a, b}
  Subs = {s1}
  Ttls = {0, 1}
  DedupTtl = 0
  Cap = 2
  Policy = "retain"
  ArchiveMode = FALSE
  NoRow = NoRow
  MaxRetries = 1
  ReplayFrom = {1}
  MaxEvents = 2
  MaxHour = 3
  Filter <- OnlyA
INVARIANT TypeOK
INVARIANT RetainedUntilCap
INVARIANT LossIsReported
PROPERTY PendingRetrySurvives
PROPERTY BacklogDrains
