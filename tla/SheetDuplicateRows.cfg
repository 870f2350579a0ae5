SPECIFICATION SheetSpec
CONSTANTS
  Writers = {s1, s2}
  Clients = {i1}
  ClientOf <- OneClient
  SheetFiles = {file1}
  FilesOf <- EveryFile
  MaxUpserts = 2
  MaxSheetFaults = 1
  MaxEdits = 0
INVARIANT NeverDuplicateRows
CHECK_DEADLOCK FALSE
