SPECIFICATION FairPageSpec
CONSTANTS
  NULL = NULL
  e1 = e1
  x1 = x1
  r1 = r1
  Runs = {r1}
  Viewed = r1
  Slots = {w1}
  Requests = {q1}
  EntItems <- MCEntItems
  Existing = {}
  RelItems <- MCRelItems
  Reports <- MCReports
  EntEdits = {}
  RelEdits <- MCRelEdits
  MaxLinks = 1
  ReviewSettings = {TRUE, FALSE}
  SerialReviews = TRUE
  Faults = FALSE
  WireCap = 2
  Breaks = TRUE
INVARIANTS
  NoOrphanRun
  EndedStreamIsCurrent
PROPERTIES
  RunSettles
  PageCatchesUp
CHECK_DEADLOCK FALSE
