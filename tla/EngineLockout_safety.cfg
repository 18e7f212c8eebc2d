SPECIFICATION Spec
CONSTANTS
  LOCKOUT_TIMED_THRESHOLD = 2
  LOCKOUT_PERMANENT_THRESHOLD = 4
  LOCKOUT_TIMED_DURATION = 1
  Timers = {t1, t2}
  MaxFailed = 4
  MaxAhead = 1
  GarbageAtStart = TRUE
SYMMETRY TimerSymmetry
INVARIANTS
  TypeOK
  LockoutIsReported
  OneTimerPerFlag
  TimerClearsOnlyTimed
PROPERTIES
  FailuresForgivenOnlyByReset
  TimedLockoutNotProlonged
  LockoutPolicyKept
