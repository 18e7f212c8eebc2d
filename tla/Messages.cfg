SPECIFICATION FairSpec
CONSTANTS
  MaxSessions = 2
  MaxTasks = 3
  TaskKinds <- AllTasks
  MAX_WORKER_QUEUE_SIZE = 2
  Templates <- TwoUsers
  Codes <- SomeCodes
  Ids <- SomeIds
  INT_HALF = 8
CHECK_DEADLOCK FALSE
INVARIANTS
  TypeOK
  LiftedIsDark
  DevicesAgree
  WholeUnlessCut
PROPERTIES
  UdfpsSpec
  LiftedGoesDark
