\* Two profiles stored, a third one created, and one proof point, under three
\* requests of two sessions and one restart.
SPECIFICATION Spec
CONSTANTS
  Sessions = {s1, s2}
  Texts = {"t1", "t2"}
  Points = {q1}
  Keep = "keep"
  Existing = 2
  MaxProfiles = 3
  MaxRequests = 3
  MaxRestarts = 1
INVARIANTS OneDefault BaselineKept EvidenceOwned UploadKept
PROPERTIES AloneKeepsPromise
CHECK_DEADLOCK FALSE
SYMMETRY Symmetry
