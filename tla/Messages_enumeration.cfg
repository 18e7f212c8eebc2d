SPECIFICATION Spec
CONSTANTS
  MaxSessions = 2
  MaxTasks = 2
  TaskKinds <- OnlyEnumerate
  MAX_WORKER_QUEUE_SIZE = 2
  Templates <- TwoUsers
  Codes <- SomeCodes
  Ids <- SomeIds
  INT_HALF = 8
CHECK_DEADLOCK FALSE
INVARIANTS
  EnumerationIsOwn
