CONSTANTS
  r1 = r1
  r2 = r2
  NoId = NoId
  RequestIds = {r1}
  Workers = {w1, w2}
  Reporters = {p1}
  Unprobed = {}
  Asks <- NoAsks
  Evidence <- BothKinds
  MaxAsks = 0
  MaxReports = 1
  MaxCalls = 3
  CasAttempts = 2
  Calls = {"commit","heartbeat","preempted","discard"}
  Starts = {"head"}
  Faults = {"crash"}
SPECIFICATION Spec
INVARIANTS OneIterationInFlight NoForeignParent
PROPERTIES HeadKeepsCommits ImplementsRegister
SYMMETRY Symmetric
CHECK_DEADLOCK FALSE
