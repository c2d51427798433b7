SPECIFICATION FairSpec
CONSTANTS
  Submitters = {s1}
  Cancellers = {}
  Workers = {w1}
  TailorJobs = {t1}
  EvaluateJobs = {}
  NoJob = NoJob
  MaxAttempts = 2
  MaxRequests = 2
  MaxCrashes = 1
PROPERTY NotLostOnRestart
CHECK_DEADLOCK FALSE
