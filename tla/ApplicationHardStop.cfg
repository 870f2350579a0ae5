SPECIFICATION Spec
CONSTANTS
  q1 = q1
  q2 = q2
  q3 = q3
  Procs = {p1}
  Jobs = {j1}
  Postings = {q1, q2}
  Fingerprint <- OneFingerprint
  Company <- Same
  Source <- Same
  AnswerSets = {open, full}
  Open = {open}
  NoJob = NoJob
  NoPosting = NoPosting
  MaxPerDay = 2
  MaxPerHour = 2
  MaxPerCompany = 1
  MaxPerSource = 2
  Level4 = TRUE
  MaxPreparations = 2
  MaxApprovals = 2
  MaxListings = 2
  MaxRescans = 0
  MaxDeaths = 0
SYMMETRY Symmetry
INVARIANT HardStopHolds
CHECK_DEADLOCK FALSE
