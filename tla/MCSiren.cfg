SPECIFICATION Spec
CONSTANTS
  Threads = {t1, t2}
  NoThread = NoThread
  Absent = Absent
  WordSize <- MCWordSize
  SirenIds <- MCSirenIds
  Durations <- MCDurations
  HwMayFail = TRUE
  MaxCrashes = 1
INVARIANTS
  TypeOK
  NoOrphanThread
  SoundsOnlyUnderWorker
  StatusMatchesWorker
  CutShortOnlyByStop
  AlarmReplyNotStale
  ReplyTearsOneWay
PROPERTIES
  RequestReturns
  FinitePatternEnds
  ImplementsReaction
