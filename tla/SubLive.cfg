SPECIFICATION FairSubscriberSpec
CONSTANTS
  a = a
  Producers = {p1}
  Keys = {}
  NoKey = NoKey
  Types = {a}
  Ttls = {0}
  DedupTtl = 0
  Cap = 1
  Policy = "archive"
  ArchiveMode = FALSE
  NoRow = NoRow
  MaxRetries = 1
  ReplayFrom = {1}
  MaxEvents = 2
  MaxHour = 1
  Subs = {1}
  NoSub = 0
  Workers = {w1}
  BatchSize = 2
  Filter <- AllTypes
  Budget <- Serviced
PROPERTY EveryClaimSettles
PROPERTY ReplayRequestServed
PROPERTY StopCompletes
INVARIANT DeadLetterAfterBudget
