SPECIFICATION Spec
CONSTANTS
  NULL = NULL
  Users = {u1, u2}
  Emails = {m1, m2}
  Passkeys = {p1, p2}
  Challenges = {c1, c2, c3}
  Tokens = {t1, t2}
  Slots = {s1, s2}
  SerialDeletes = TRUE
INVARIANTS
  TypeOK
  ChallengeUsedOnce
  PasskeysAreOwners
  SessionsAreProven
  KeepsOnePasskey
SYMMETRY Symmetry
CHECK_DEADLOCK FALSE
