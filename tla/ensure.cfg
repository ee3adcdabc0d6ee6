CONSTANTS
  e1 = e1
  e2 = e2
  l1 = l1
  l2 = l2
  l3 = l3
  f1 = f1
  NoId = NoId
  RequestIds = {l1, l2, l3}
  Ensurers = {e1}
  Foreign = {f1}
  Wrapped = {l1}
  Target = 2
  MaxClaims = 2
  MaxCommits = 3
  SaveEvery = 2
SPECIFICATION Spec
INVARIANTS RaisesOfItsDrive NoLineageLie
PROPERTIES EnsureEnds
CHECK_DEADLOCK FALSE
