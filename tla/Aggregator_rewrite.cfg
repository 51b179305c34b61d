\* One replica, no faults: the lateness check races the flusher.
CONSTANTS
  c1 = c1
  c2 = c2
  p1 = p1
  m0 = m0
  m1 = m1
  m2 = m2
  bad = bad
  Consumers = {c1}
  Partitions = {p1}
  Messages = {m0, m1, m2}
  Valid = {m0, m1, m2}
  Route <- OnePartition
  None = None
  MaxLog = 2
  MaxFaults = 0
  Size = 2
  Lateness = 1
  Second = 1
  EventTime <- MeasuredAt
  MaxTime = 5
SPECIFICATION Spec
INVARIANT NoRewrite
CHECK_DEADLOCK FALSE
