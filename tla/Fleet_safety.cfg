\* Two sensors, two requests at a time, one fault of any kind.
CONSTANTS
  s1 = s1
  s2 = s2
  q1 = q1
  q2 = q2
  Ids = {s1, s2}
  Clients = {q1, q2}
  None = None
  FaultKinds = {"redis", "notify", "crash"}
  MaxFaults = 1
SPECIFICATION Spec
SYMMETRY Symmetric
INVARIANTS TypeOK AnswersHold OneWorkerPerSensor NothingAfterClose
PROPERTY KeepsRegistered
