SPECIFICATION FairLockSpec
CONSTANTS
  Daemons = {d1, d2, d3}
  Racers = {r1, r2}
  None = None
  MaxCrashes = 1
CHECK_DEADLOCK FALSE
INVARIANT LockTypeOK
INVARIANT SecondOwnerNeedsRobbery
INVARIANT ServingIsReachable
PROPERTY StartsSettle
