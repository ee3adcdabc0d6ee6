\* The system may stop: every claim used, the log full, the clock at its bound.
SPECIFICATION Spec
CONSTANTS
  eager = eager
  src = src
  none = none
  Stream = eager
  Source = src
  Nil = none
  Plans <- SmallPlans
  MaxNodes = 3
  MaxClaims = 2
  MaxTime = 1
INVARIANTS ReplayAgrees WindowRefusals
CHECK_DEADLOCK FALSE
