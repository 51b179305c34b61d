\* Two browsers with channels of one message, two records, one of them perhaps
\* poison, one fault.
CONSTANTS
  b1 = b1
  b2 = b2
  p1 = p1
  agg = agg
  bad = bad
  Clients = {b1, b2}
  Buffer = 1
  MaxMessages = 2
  Host = Host
  Partitions = {p1}
  Aggregates = {agg, bad}
  Valid = {agg}
  Route <- OnePartition
  None = None
  MaxLog = 2
  MaxFaults = 1
SPECIFICATION FairAllSpec
INVARIANTS TypeOK NoSendOnClosed InOrder MissesCounted LiveOnly NoGapOnceBegun
PROPERTIES BroadcastEnds WedgedLetGo ConsumerErrorEnds
CHECK_DEADLOCK FALSE
