\* One replica and one fault: Run returns an error and the process has to end.
CONSTANTS
  c1 = c1
  c2 = c2
  p1 = p1
  m0 = m0
  m1 = m1
  m2 = m2
  bad = bad
  Consumers = {c1}
  Partitions = {p1}
  Messages = {m0}
  Valid = {m0}
  Route <- OnePartition
  None = None
  MaxLog = 1
  MaxFaults = 1
  Size = 2
  Lateness = 1
  Second = 1
  EventTime <- MeasuredAt
  MaxTime = 3
SPECIFICATION FairSpec
PROPERTY RetryByRestart
CHECK_DEADLOCK FALSE
