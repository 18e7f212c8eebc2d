SPECIFICATION FairSpec
CONSTANTS
  MaxSessions = 1
  MaxRequests = 1
  MaxParts = 1
  Ops <- OnlyAuthenticate
  MAX_WORKER_QUEUE_SIZE = 1
  DetectInteractionSupported = FALSE
CHECK_DEADLOCK FALSE
PROPERTIES
  CancelIsHonoured
