SPECIFICATION DriveSpec
CONSTANTS
  Installations = {i1, i2}
  MaxUploads = 2
  MaxDriveFaults = 1
  MaxUserActs = 1
INVARIANT GivenFolderIsVisible
CHECK_DEADLOCK FALSE
