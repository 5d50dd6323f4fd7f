SPECIFICATION MCSpec
CONSTANTS
  None = None
  f1 = f1
  f2 = f2
  f3 = f3
  f4 = f4
  o1 = o1
  o2 = o2
  w1 = w1
  w2 = w2
  Fetches = {f1, f2, f3, f4}
  MaxStarts = 2
  OriginOf <- Origin
  Malformed = {f4}
  Words <- AllWords
  HeadRows <- HeadTables
  LegacyRows <- LegacyTables
  Disallowed = {f1, f4}
INVARIANTS OneLoadPerOrigin LastWord RoundTrips StuckOnlyFor
PROPERTIES LinesArrive
CHECK_DEADLOCK FALSE
