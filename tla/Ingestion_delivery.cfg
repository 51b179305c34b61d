\* Two replicas on one partition; three records, any of them poison; two faults.
CONSTANTS
  c1 = c1
  c2 = c2
  p1 = p1
  p2 = p2
  r1 = r1
  r2 = r2
  bad = bad
  Consumers = {c1, c2}
  Partitions = {p1}
  Messages = {r1, bad}
  Valid = {r1}
  Route <- OnePartition
  None = None
  MaxLog = 3
  MaxFaults = 2
SPECIFICATION FairSpec
INVARIANTS TypeOK NoSilentLoss CleanContract CleanInOrder DuplicatesBounded
PROPERTIES Implements DeliversAll
CHECK_DEADLOCK FALSE
