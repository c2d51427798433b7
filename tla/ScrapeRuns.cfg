\* Up to two runs of one or two sources, two sessions, two background tasks, one
\* death of a task or of the server.
SPECIFICATION FairSpec
CONSTANTS
  Clients = {c1, c2}
  Tasks = {t1, t2}
  MaxSources = 2
  MaxRuns = 2
  MaxCalls = 3
  MaxCrashes = 1
INVARIANTS Worked StoredIffSucceeded
PROPERTIES  RunsSettle
CHECK_DEADLOCK FALSE
