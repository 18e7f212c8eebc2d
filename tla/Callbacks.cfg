SPECIFICATION Spec
CONSTANTS
  MaxTasks = 4
  MAX_WORKER_QUEUE_SIZE = 2
  SAMPLES = 2
  INT_HALF = 2
  LONG_HALF = 4
  ENUM_HALF = 128
  HMAC_SIZE = 2
  Byte = {1, 2}
  Words <- TwoBytes
  Macs <- SomeMacs
  Fids = {1, 3}
  Longs <- SomeLongs
  Codes <- SomeCodes
CHECK_DEADLOCK FALSE
INVARIANTS
  TypeOK
  CacheInSync
  ChallengeIsGood
  TokenSurvives
  NewIdIsExact
PROPERTIES
  AuthenticationIsOwn
