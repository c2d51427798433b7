\* One job description: its evaluate job and its tailor job, an enqueueing and
\* a cancelling session, two workers of which one may die once, and one resume
\* delivered from outside.
SPECIFICATION PipelineSpec
CONSTANTS
  Submitters = {s1}
  Cancellers = {c1}
  Workers = {w1, w2}
  TailorJobs = {t1}
  EvaluateJobs = {e1}
  NoJob = NoJob
  MaxAttempts = 2
  MaxRequests = 2
  MaxCrashes = 1
  AnalysisOf <- OneAnalysis
  CheckMayRaise = TRUE
  MaxDeliveries = 1
SYMMETRY Symmetry
INVARIANTS
  SubmittableIffDocument PdfBeforeRow EvaluateHandsOver
PROPERTY QueueKept
CHECK_DEADLOCK FALSE
