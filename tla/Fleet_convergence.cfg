\* One sensor, one request at a time, two faults of any kind.
CONSTANTS
  s1 = s1
  s2 = s2
  q1 = q1
  q2 = q2
  Ids = {s1}
  Clients = {q1}
  None = None
  FaultKinds = {"redis", "notify", "crash", "wipe"}
  MaxFaults = 2
SPECIFICATION FairSpec
PROPERTIES Converges ShutdownEnds
