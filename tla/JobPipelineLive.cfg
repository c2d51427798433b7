\* The evaluate and the tailor job of one description under one evaluation and
\* one more call; nothing crashes and every job must settle.
SPECIFICATION PipelineFairSpec
CONSTANTS
  Submitters = {s1}
  Cancellers = {c1}
  Workers = {w1, w2}
  TailorJobs = {t1}
  EvaluateJobs = {e1}
  NoJob = NoJob
  MaxAttempts = 2
  MaxRequests = 2
  MaxCrashes = 0
  AnalysisOf <- OneAnalysis
  CheckMayRaise = FALSE
  MaxDeliveries = 0
PROPERTIES CancelHonoured Settles
CHECK_DEADLOCK FALSE
