SPECIFICATION Safety
CONSTANTS
  Absent = Absent
  Events <- Supported
  MaxEvents = 1
  MaxRestarts = 0
  MaxCrashes = 0
INVARIANT
  FailedIsNotCarriedOut
