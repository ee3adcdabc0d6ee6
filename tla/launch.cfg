CONSTANTS
  s1 = s1
  l1 = l1
  l2 = l2
  NoId = NoId
  Lease = Lease
  RequestIds = {l1, l2, Lease}
  Supervisors = {s1}
  Kinds <- KindsOf
  Statuses <- StatusesOf
  MaxClaims = 2
  MaxFaults = 1
SPECIFICATION Spec
INVARIANTS EndRecordedOnce ReportsAreTrue
PROPERTIES KillsOnlyOrphans DeadClaimsEnd OrphansKilled DemandWakes
CHECK_DEADLOCK FALSE
