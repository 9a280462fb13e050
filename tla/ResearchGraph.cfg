SPECIFICATION FairSpec
CONSTANTS
  NULL = NULL
  Uuid = Uuid
  u1 = u1
  u2 = u2
  a = a
  b = b
  Urls = {u1, u2}
  Temps = {a, b}
  ModelEdges <- MCEdges
  InDigest = {b}
  MaxSources = 2
  SearchRetries = 2
  CritiqueRetries = 1
  LookupCap = 1
INVARIANTS
  TypeOK
  StepsBounded
  SourcesAccounted
  RevisionsHonoured
  DraftResolves
PROPERTIES
  NotesAreKept
  GraphEnds
CHECK_DEADLOCK FALSE
