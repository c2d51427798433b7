\* One listing key under two upserts, two batches of up to two items with a cap of
\* one tailoring job, a deletion and a crash.
SPECIFICATION Spec
CONSTANTS
  Keys = {k1}
  Descriptions = {short, long}
  Long = long
  NoText = "no text"
  Headers = {h}
  NoLink = "no link"
  Versions = {v}
  Scrapers = {s1}
  Evaluators = {e1, e2}
  Deleters = {d1}
  MaxTailoring = 1
  MaxItems = 2
  MaxTodo = 2
  Chars <- MCChars
  GapChars <- MCGapChars
  ProfileChars = 2000
  ProviderCalls = TRUE
  MaxTokens = 6600
  MaxCost = 68000
  InputRate = 300
  OutputRate = 1500
  MaxIds = 2
  MaxScrapes = 2
  MaxBatches = 2
  MaxDeletes = 1
  MaxCrashes = 1
SYMMETRY Symmetry
INVARIANTS LinkIsCurrent TailoringAccounted
CHECK_DEADLOCK FALSE
