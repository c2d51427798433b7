\* One analysis tailored under two enqueueing sessions, a cancelling session
\* and two workers, one of which may die once: enough calls to finish a job,
\* put it back and race two requeues.
SPECIFICATION PipelineSpec
CONSTANTS
  Submitters = {s1, s2}
  Cancellers = {c1}
  Workers = {w1, w2}
  TailorJobs = {t1}
  EvaluateJobs = {}
  NoJob = NoJob
  MaxAttempts = 2
  MaxRequests = 4
  MaxCrashes = 1
  AnalysisOf <- OneAnalysis
  CheckMayRaise = TRUE
  MaxDeliveries = 0
SYMMETRY Symmetry
PROPERTY LifecycleKept
INVARIANTS
  LockDiscipline Exclusive FinishedIffTerminal FailedExhausted
  SucceededHasResume OneDraft
CHECK_DEADLOCK FALSE
