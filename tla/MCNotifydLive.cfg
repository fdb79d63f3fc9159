SPECIFICATION Spec
CONSTANTS
  Absent = Absent
  Events <- Mixed
  MaxEvents = 2
  MaxRestarts = 0
  MaxCrashes = 0
INVARIANTS
  RejectionReasons
PROPERTIES
  NestedNameAsksNobody
  EventClassified
  SignalEndsProcess
