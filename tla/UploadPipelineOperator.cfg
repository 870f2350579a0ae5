SPECIFICATION FairSpec
CONSTRAINT Bounded
CONSTANTS
  Jobs = {j1, j2}
  Contents = {c1}
  Content <- OneContent
  Objects = {o1, o2}
  NoJob = NoJob
  MaxConcurrent = 2
  RetryCount = 2
  SheetConfigured = TRUE
  MaxRestarts = 0
  MaxInterventions = 1
  MaxDbErrors = 1
  MaxPauses = 1
INVARIANTS
  WorkersAccountedFor
PROPERTIES
  PauseDrains
  JobsSettle
CHECK_DEADLOCK FALSE
