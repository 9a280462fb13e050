SPECIFICATION TxSpec
CONSTANTS
  NULL = NULL
  Users = {u1, u2}
  EntityIds = {a, b, c}
  RelIds = {r1, r2}
  Urls = {s1}
  Sessions = {t1}
  MaxExtras = 1
CONSTRAINT FewExtras
INVARIANTS
  TxTypeOK
  EdgeNotMoreVisible
  OwnersSeeTheirEdges
  SourcesMirrorEntity
  SearchFindsComponent
PROPERTIES
  TenantIsolation
  AtomicChanges
SYMMETRY Symmetry
