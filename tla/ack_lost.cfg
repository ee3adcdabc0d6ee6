CONSTANTS
  r1 = r1
  r2 = r2
  NoId = NoId
  RequestIds = {r1}
  Workers = {w1}
  Reporters = {p1}
  Unprobed = {}
  Asks <- NoAsks
  Evidence <- Release
  MaxAsks = 0
  MaxReports = 0
  MaxCalls = 1
  CasAttempts = 8
  Calls = {"commit","preempted"}
  Starts = {"root"}
  Faults = {"ack"}
SPECIFICATION Spec
INVARIANTS HeadAlwaysReads
SYMMETRY Symmetric
CHECK_DEADLOCK FALSE
