CONSTANTS
  r1 = r1
  r2 = r2
  NoId = NoId
  RequestIds = {r1}
  Workers = {w1}
  Reporters = {p1}
  Unprobed = {}
  Asks <- FaultAsks
  Evidence <- Release
  MaxAsks = 2
  MaxReports = 0
  MaxCalls = 4
  CasAttempts = 1
  Calls = {"commit","retire","emit","include","discard","set","rewind","completed"}
  Starts = {"root"}
  Faults = {"raise","fold","ack"}
SPECIFICATION Spec
INVARIANTS WatermarksHonest SamplesOnLineage LineagesWalk
PROPERTIES RetiresIdle
CONSTRAINT SharedBudget
SYMMETRY Symmetric
CHECK_DEADLOCK FALSE
