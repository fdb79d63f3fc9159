SPECIFICATION Spec
CONSTANTS
  Capacity = 2
  Types = {fire}
  Absent = Absent
  NoRecord = NoRecord
  MaxRecords = 2
  MaxCrashes = 0
PROPERTY
  SubscriberLearnsEnd
