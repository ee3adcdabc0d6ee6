CONSTANTS
  r1 = r1
  r2 = r2
  NoId = NoId
  RequestIds = {r1}
  Workers = {w1, w2}
  Reporters = {p1}
  Unprobed = {}
  Asks <- StopAsks
  Evidence <- Release
  MaxAsks = 2
  MaxReports = 1
  MaxCalls = 1
  CasAttempts = 8
  Calls = {"commit","preempted"}
  Starts = {"root"}
  Faults = {}
SPECIFICATION Spec
INVARIANTS TypeOK ClaimsExclusive StopsAnswered
PROPERTIES ReleasedAnswersNothing
SYMMETRY Symmetric
CHECK_DEADLOCK FALSE
