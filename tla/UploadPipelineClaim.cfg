SPECIFICATION Spec
CONSTANTS
  Jobs = {j1, j2}
  Contents = {c1}
  Content <- OneContent
  Objects = {o1, o2}
  NoJob = NoJob
  MaxConcurrent = 2
  RetryCount = 2
  SheetConfigured = TRUE
  MaxRestarts = 0
  MaxInterventions = 0
  MaxDbErrors = 0
  MaxPauses = 0
SYMMETRY Symmetry
INVARIANT ExclusiveClaim
CHECK_DEADLOCK FALSE
