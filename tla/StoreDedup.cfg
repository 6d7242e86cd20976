SPECIFICATION Spec
CONSTANTS
  a = a
  b = b
  Producers = {p1, p2}
  Keys = {k1}
  NoKey = NoKey
  Types = {a}
  Subs = {}
  Ttls = {1, 2}
  DedupTtl = 1
  Cap = 2
  Policy = "retain"
  ArchiveMode = TRUE
  NoRow = NoRow
  MaxRetries = 1
  ReplayFrom = {1}
  MaxEvents = 3
  MaxHour = 3
  Filter <- AllTypes
SYMMETRY SymProducers
INVARIANT DedupWindow
INVARIANT ArchiveModeKeepsAll
