CONSTANTS
  h1 = h1
  h2 = h2
  k1 = k1
  k2 = k2
  Handles = {h1, h2}
  Backends = {"memory", "sqlite", "postgres"}
  Topics = {"a", "b"}
  Keys = {k1, k2}
  Retries = 2
  MaxCalls = 3
  MaxOpens = 3
  MaxFaults = 1
SPECIFICATION Spec
INVARIANTS NothingMissed
PROPERTIES ImplementsLog EndedWritesNothing
SYMMETRY Symmetric
CHECK_DEADLOCK FALSE
