SPECIFICATION Safety
CONSTANTS
  Absent = Absent
  MaxServe = 1
  MaxRecord = 6
  MaxLag = 1
  MaxFaults = 1
INVARIANTS
  CalmSuitePasses
  EvaluationTable
  BrokerLeftRunning
  DeathIsNoticed
CHECK_DEADLOCK FALSE
