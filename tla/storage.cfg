SPECIFICATION Spec
CONSTANTS
  Writers = {w1}
  Calls <- MCCalls
  Homes <- MCHomes
  Journal = "wal"
  Quiet = TRUE
  MaxRows = 5
  MaxCrashes = 1
INVARIANTS MovedWhole
PROPERTIES SnapshotsHonest RetriesComplete
