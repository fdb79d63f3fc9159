SPECIFICATION Safety
CONSTANTS
  Threads = {t1}
  NoThread = NoThread
  Absent = Absent
  WordSize <- MCWordSize
  SirenIds <- MCOkIds
  Durations <- MCOkDurations
  HwMayFail = FALSE
  MaxCrashes = 0
INVARIANTS
  OkReplyMeansSounded
