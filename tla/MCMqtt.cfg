SPECIFICATION Spec
CONSTANTS
  Capacity = 2
  Types = {fire, gas}
  Absent = Absent
  NoRecord = NoRecord
  MaxRecords = 3
  MaxCrashes = 1
INVARIANTS
  TypeOK
  Conservation
  SleepsOnlyWhenIdle
  QueueTellsAlarm
  CaughtUpBrokerAgrees
PROPERTIES
  OnlyResendsGoBack
  ImplementsQueue
  RecordLeavesQueue
  SignalEndsProcess
