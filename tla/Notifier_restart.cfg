\* One browser, two records, and one fault: the process is killed, or the group rebalanced,
\* before the host's first commit.
CONSTANTS
  b1 = b1
  b2 = b2
  p1 = p1
  agg = agg
  bad = bad
  Clients = {b1}
  Buffer = 1
  MaxMessages = 2
  Host = Host
  Partitions = {p1}
  Aggregates = {agg, bad}
  Valid = {agg}
  Route <- OnePartition
  None = None
  MaxLog = 2
  MaxFaults = 1
SPECIFICATION AllSpec
INVARIANT WholeStream
CHECK_DEADLOCK FALSE
