SPECIFICATION Spec
CONSTANTS
  Threads = {t1, t2}
  NoThread = NoThread
  Absent = Absent
  Unreadable = Unreadable
  WordSize <- MCWordSize
  LedIds <- MCLedIds
  Durations <- MCDurations
  MaximaReadings <- MCMaxima
  AmbientReadings <- MCAmbient
  ScreenReadings <- MCScreen
  FailingChannels <- MCFailing
  MaxCrashes = 1
INVARIANTS
  TypeOK
  OnlyThePatternsColour
  StatusMatchesWorker
  BrightnessFits
  DimmedOnlyAtNight
PROPERTIES
  ImplementsReaction
