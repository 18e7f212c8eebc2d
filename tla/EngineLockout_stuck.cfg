SPECIFICATION FairSpec
CONSTANTS
  LOCKOUT_TIMED_THRESHOLD = 1
  LOCKOUT_PERMANENT_THRESHOLD = 2
  LOCKOUT_TIMED_DURATION = 1
  Timers = {t1}
  MaxFailed = 2
  MaxAhead = 1
  GarbageAtStart = TRUE
PROPERTIES
  TimedLockoutClearedInTheEnd
