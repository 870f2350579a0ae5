SPECIFICATION Spec
CONSTANTS
  Jobs = {j1, j2}
  Contents = {c1}
  Content <- OneContent
  Objects = {o1, o2}
  NoJob = NoJob
  MaxConcurrent = 2
  RetryCount = 2
  SheetConfigured = TRUE
  MaxRestarts = 1
  MaxInterventions = 0
  MaxDbErrors = 1
  MaxPauses = 0
SYMMETRY Symmetry
INVARIANTS
  TypeOK
  ActiveHasCarrier
  NoLeakedClaim
  IndexIsOnDrive
  DuplicateIsOnDrive
  WaitingSurvivesRestart
  SettledFileIsFound
  DeadWorkerStrandsOne
PROPERTY DeliversAsPromised
CHECK_DEADLOCK FALSE
