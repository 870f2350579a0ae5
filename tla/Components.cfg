SPECIFICATION ComponentsSpec
CONSTANTS
  Names = {"a"}
  Sentinel = Sentinel
  MaxVideos = 2
  MaxFolderFaults = 1
  Installations = {i1, i2}
  MaxUploads = 2
  MaxDriveFaults = 1
  MaxUserActs = 1
  i1 = i1
  i2 = i2
  s1 = s1
  s2 = s2
  s3 = s3
  file1 = file1
  file2 = file2
  Writers = {s1, s2, s3}
  Clients = {i1, i2}
  ClientOf <- MCClientOf
  SheetFiles = {file1, file2}
  FilesOf <- MCFilesOf
  MaxUpserts = 3
  MaxSheetFaults = 1
  MaxEdits = 1
  Callers = {t1, t2}
  Nobody = Nobody
  MaxAuthCalls = 4
  MaxExpiries = 2
  Keep = 1
  MaxSeconds = 3
  MaxStarts = 3
  MaxBackupFaults = 2
  MaxRestores = 1
  Engines <- Engines2
  MinConfidence = 3
  FullScans = {TRUE, FALSE}
  Frames <- MCFrames
  Lengths = {1, 3}
  Window = 2
  FullScanCap = 2
  Batches = {b1, b2}
  NoBatch = NoBatch
  Offers = {p1, p2}
  MaxBatches = 2
  MaxBatchFaults = 1
  MaxChanges = 1
  Candidate <- MCCandidate
  Evidences <- MCEvidences
  Weights <- MCWeights
  BlendWeight = 40
  AutoApply = 90
  Review = 80
  Save = 70
  Opinions <- MCOpinions
  HardPhrases = {"salary", "visa"}
  FactPhrases <- MCFactPhrases
  VerifiedFacts = {"email"}
  EmployerPhrase = "current company"
  SlugPhrases <- MCSlugPhrases
  BankEntries = {"why us", "your strengths"}
  BankHuman = {"why us"}
  PlainPhrase = "anything else"
  Claims = {"known name", "new name", "new word"}
  Checkable = {"known name", "new name"}
  KnownClaims = {"known name"}
  MaxQuestions = 2
  Runs = {r1, r2}
  Pages <- MCPages
  FirstPage <- PlainPage
  AnswersTo <- MCAnswersTo
  RowContents = {"c1", "c2"}
  FirstPosting = "c1"
  MaxCommands = 3
  MaxOutside = 1
  Parsers = {p3, p4}
  ConfigFiles <- MCConfigFiles
  CandidateFiles <- MCCandidateFiles
  ResumeFile = "resume_master.docx"
  Drafts <- MCDrafts
  FirstDraft <- MCFirstDraft
  MaxParses = 3
  MaxDisturbances = 1
INVARIANTS
  ComponentsTypeOK
  TwiceOnlyAfterReuse
  OneVisibleFolder
  OneRowPerFile
  AlwaysAGoodBackup
  BestReadingIsReturned
  OneRowPerPosting
  ReturnedMeansStored
  ShortcutLosesNothing
  ProtectedQuestionsStayHuman
  FillIsApproved
  TypedAnswersItsQuestion
  ReportIsTrue
PROPERTIES
  EveryVideoReported
  StopEndsThread
  NeverTrashesContent
  SignedOutStaysOut
  SilentCallsReturn
CHECK_DEADLOCK FALSE
