\* Two evaluations, two requests in flight, one that fails, one saved revision.
CONSTANTS
  MaxEvaluations = 2
  MaxErrors = 1
  MaxSaves = 1
  Slots = {s1, s2}
SPECIFICATION Spec
INVARIANTS
  OneInterval
  TailoringWatched
  SavedWhereEdited
PROPERTIES
  PageSettles
CHECK_DEADLOCK FALSE
