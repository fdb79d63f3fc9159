SPECIFICATION Safety
CONSTANTS
  Absent = Absent
  Events <- Supported
  MaxEvents = 2
  MaxRestarts = 1
  MaxCrashes = 1
INVARIANTS
  TypeOK
  StatsBalance
  SentWasHandled
  NoOlderAlarmAfterSent
PROPERTIES
  AlarmBeginsOnce
