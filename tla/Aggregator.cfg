\* Two replicas, windows of two ticks with a grace of one, two records of which any may
\* be poison, and one fault of any kind.
CONSTANTS
  c1 = c1
  c2 = c2
  p1 = p1
  m0 = m0
  m1 = m1
  m2 = m2
  bad = bad
  Consumers = {c1, c2}
  Partitions = {p1}
  Messages = {m0, m1, m2, bad}
  Valid = {m0, m1, m2}
  Route <- OnePartition
  None = None
  MaxLog = 2
  MaxFaults = 1
  Size = 2
  Lateness = 1
  Second = 1
  EventTime <- MeasuredAt
  MaxTime = 5
SPECIFICATION FairSpec
INVARIANTS TypeOK Accounted CountedOnce InItsWindow RewriteBounded
PROPERTY WindowsClose
CHECK_DEADLOCK FALSE
