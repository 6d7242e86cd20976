SPECIFICATION FairCliSpec
CONSTANTS
  a = a
  c1 = c1
  c2 = c2
  Producers = {p1}
  Keys = {}
  NoKey = NoKey
  Types = {a}
  Ttls = {0}
  DedupTtl = 0
  Cap = 1
  Policy = "archive"
  ArchiveMode = FALSE
  NoRow = NoRow
  MaxRetries = 0
  ReplayFrom = {}
  MaxEvents = 2
  MaxHour = 1
  Subs = {1, 2}
  NoSub = 0
  Clis = {c1, c2}
  BatchSize = 1
  Filter <- AllTypes
  Modes <- OneStreamsOneDrains
  Budget <- Faults
INVARIANT CliTypeOK
INVARIANT DrainDeliversPending
PROPERTY LoopsImplementAtLeastOnce
PROPERTY DrainEnds
PROPERTY ClaimsServed
