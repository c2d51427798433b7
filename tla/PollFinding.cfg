\* The bounds of EvaluatePage.cfg; one failing poll among two that overlap.
CONSTANTS
  MaxEvaluations = 2
  MaxErrors = 1
  MaxSaves = 1
  Slots = {s1, s2}
SPECIFICATION Spec
INVARIANTS
  PollsUntilEnd
CHECK_DEADLOCK FALSE
