SPECIFICATION CasSpec
CONSTANTS
  Producers = {p1, p2}
  Blobs = {x1}
  Buckets = {b1, b2}
  Allowed = {b2}
  Grace = 2
  MaxRows = 2
  MaxClock = 3
INVARIANT CasTypeOK
INVARIANT ReferencedIsKept
