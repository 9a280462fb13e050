SPECIFICATION Spec
CONSTANTS
  NULL = NULL
  e1 = e1
  e2 = e2
  x1 = x1
  Runs = {r1}
  Slots = {w1, w2}
  Requests = {q1, q2}
  EntItems <- MCEntItems
  Existing <- MCExisting
  RelItems <- MCRelItems
  Reports <- MCReports
  EntEdits <- MCEntEdits
  RelEdits <- MCRelEdits
  MaxLinks = 1
  ReviewSettings = {TRUE, FALSE}
  SerialReviews = TRUE
  Faults = TRUE
INVARIANTS
  TypeOK
  SucceededIsComplete
  OneOwnerPerRun
PROPERTIES
  ImplementsLifecycle
SYMMETRY Symmetry
CHECK_DEADLOCK FALSE
