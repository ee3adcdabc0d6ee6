SPECIFICATION Spec
CONSTANTS
  Writers = {w1}
  Calls <- MCCalls
  Homes <- MCHomes
  Journal = "rollback"
  Quiet = TRUE
  MaxRows = 4
  MaxCrashes = 0
PROPERTIES SealedTakesNothing
