SPECIFICATION FairSpec
CONSTANTS
  MaxSessions = 1
  MaxRequests = 2
  MaxParts = 1
  Ops <- OnlyGenerateChallenge
  MAX_WORKER_QUEUE_SIZE = 1
  DetectInteractionSupported = FALSE
CHECK_DEADLOCK FALSE
PROPERTIES
  EveryRequestEnds
