SPECIFICATION SpecWithSessions
CONSTANTS
  LOCKOUT_TIMED_THRESHOLD = 2
  LOCKOUT_PERMANENT_THRESHOLD = 4
  LOCKOUT_TIMED_DURATION = 1
  Timers = {t1}
  MaxFailed = 4
  MaxAhead = 1
  GarbageAtStart = TRUE
  MaxSessions = 3
CONSTRAINT
  UntilDisturbed
CHECK_DEADLOCK FALSE
INVARIANTS
  SessionsTypeOK
  ClearedWhereTold
PROPERTIES
  TimerFlagComesDown
  TimerTellsItsSession
