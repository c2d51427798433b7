\* Two calls of any steps and clients, and one restart.
SPECIFICATION Spec
CONSTANTS
  MaxCalls = 2
  MaxCrashes = 1
INVARIANTS StoredClean  FilesAccounted StoredIsReported
CHECK_DEADLOCK FALSE
