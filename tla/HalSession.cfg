SPECIFICATION FairSpec
CONSTANTS
  MaxSessions = 2
  MaxRequests = 2
  MaxParts = 1
  Ops <- OneOfEach
  MAX_WORKER_QUEUE_SIZE = 1
  DetectInteractionSupported = FALSE
CHECK_DEADLOCK FALSE
INVARIANTS
  TypeOK
  EndedAtMostOnce
  AtMostOneStray
  ClosedAtMostOnce
  AbortsOnlyForOrphans
PROPERTIES
  OpenSessionsOrdersAreDue
  EarlyCancelIsHonoured
  AcceptedIsAnswered
