SPECIFICATION Spec
CONSTANTS
  MaxSessions = 2
  MaxRequests = 1
  MaxParts = 1
  Ops <- OnlyEnumerate
  MAX_WORKER_QUEUE_SIZE = 1
  DetectInteractionSupported = FALSE
CHECK_DEADLOCK FALSE
PROPERTIES
  NoOrderForLaterUser
