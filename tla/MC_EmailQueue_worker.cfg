SPECIFICATION Spec
CONSTANTS
  Concurrency = 2
  MaxAttempts = 2
  MaxJobs = 2
  MaxResends = 1
  MaxFaults = 2
CHECK_DEADLOCK FALSE
INVARIANTS TypeOK SentOnce NewsInOrder
PROPERTIES EmailsSettle
