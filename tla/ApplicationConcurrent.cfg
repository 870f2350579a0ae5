SPECIFICATION Spec
CONSTANTS
  q1 = q1
  q2 = q2
  q3 = q3
  Procs = {p1, p2}
  Jobs = {j1, j2}
  Postings = {q1, q2}
  Fingerprint <- OneFingerprint
  Company <- Same
  Source <- Same
  AnswerSets = {a1, a2}
  Open = {}
  NoJob = NoJob
  NoPosting = NoPosting
  MaxPerDay = 2
  MaxPerHour = 2
  MaxPerCompany = 1
  MaxPerSource = 2
  Level4 = TRUE
  MaxPreparations = 1
  MaxApprovals = 1
  MaxListings = 1
  MaxRescans = 0
  MaxDeaths = 0
SYMMETRY Symmetry
INVARIANTS
  SendsOnlyApproved
  SubmittedIsReal
  NoTwins
PROPERTIES
  NewAnswersVoidApprovals
CHECK_DEADLOCK FALSE
