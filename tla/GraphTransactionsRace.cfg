SPECIFICATION TxSpec
CONSTANTS
  NULL = NULL
  Users = {u1, u2}
  EntityIds = {a, b}
  RelIds = {r1}
  Urls = {}
  Sessions = {t1, t2}
  MaxExtras = 0
CONSTRAINT FewExtras
INVARIANTS
  EdgeNotMoreVisible
SYMMETRY Symmetry
