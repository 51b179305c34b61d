\* One request, and one failure: that of a notification.
CONSTANTS
  s1 = s1
  s2 = s2
  q1 = q1
  q2 = q2
  Ids = {s1}
  Clients = {q1}
  None = None
  FaultKinds = {"notify"}
  MaxFaults = 1
SPECIFICATION Spec
INVARIANT NoOrphans
