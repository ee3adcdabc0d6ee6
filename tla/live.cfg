CONSTANTS
  r1 = r1
  r2 = r2
  NoId = NoId
  RequestIds = {r1}
  Workers = {w1,w2}
  Reporters = {p1}
  Unprobed = {}
  Asks <- LiveAsks
  Evidence <- Release
  MaxAsks = 1
  MaxReports = 0
  MaxCalls = 2
  CasAttempts = 8
  Calls = {"commit","preempted","rewind"}
  Starts = {"root","node"}
  Faults = {"crash"}
SPECIFICATION FairSpec
INVARIANTS LeasesBound HeadAlwaysReads
PROPERTIES StopsEventuallyAnswered DeadClaimReported
CHECK_DEADLOCK FALSE
