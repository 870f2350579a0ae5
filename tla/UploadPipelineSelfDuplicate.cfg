SPECIFICATION Spec
CONSTANTS
  Jobs = {j1}
  Contents = {c1}
  Content <- OneContent
  Objects = {o1}
  NoJob = NoJob
  MaxConcurrent = 1
  RetryCount = 2
  SheetConfigured = TRUE
  MaxRestarts = 0
  MaxInterventions = 0
  MaxDbErrors = 0
  MaxPauses = 0
SYMMETRY Symmetry
INVARIANT NeverItsOwnDuplicate
CHECK_DEADLOCK FALSE
