SPECIFICATION Safety
CONSTANTS
  Absent = Absent
  MaxServe = 1
  MaxRecord = 6
  MaxLag = 0
  MaxFaults = 0
INVARIANT
  SnapshotIsClean
CHECK_DEADLOCK FALSE
