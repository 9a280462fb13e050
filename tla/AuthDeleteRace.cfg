SPECIFICATION Spec
CONSTANTS
  NULL = NULL
  Users = {u1}
  Emails = {m1}
  Passkeys = {p1, p2}
  Challenges = {c1, c2}
  Tokens = {t1}
  Slots = {s1, s2}
  SerialDeletes = FALSE
INVARIANTS
  KeepsOnePasskey
CHECK_DEADLOCK FALSE
