SPECIFICATION Spec
CONSTANTS
  NULL = NULL
  e1 = e1
  e2 = e2
  x1 = x1
  Runs = {r1}
  Slots = {w1, w2}
  Requests = {q1, q2}
  EntItems <- OneEntItem
  Existing = {}
  RelItems <- MCRelItems
  Reports <- MCReports
  EntEdits = {}
  RelEdits <- MCRelEdits
  MaxLinks = 1
  ReviewSettings = {TRUE}
  SerialReviews = FALSE
  Faults = TRUE
INVARIANTS
  RecordedAreReal
  WrittenWasApproved
  ParkedIsUntouched
SYMMETRY Symmetry
CHECK_DEADLOCK FALSE
