\* Two listings, two analyses, three requests of two sessions, and three changes
\* of what they link to.
SPECIFICATION Spec
CONSTANTS
  Sessions = {s1, s2}
  Listings = {l1, l2}
  Analyses = {a1, a2}
  Status = {planned, applied}
  Bodies = {{"status"}, {"listing"}, {"analysis"}, {"resume"}, {"listing", "resume"}}
  None = none
  MaxApps = 2
  MaxChanges = 3
  MaxRequests = 3
SYMMETRY Symmetry
INVARIANTS OneApplication LinksAgree
PROPERTIES SentResumeKept StatusKept
CHECK_DEADLOCK FALSE
