--------------------------------- MODULE MCAuth --------------------------------
(* Small instances of Auth for TLC.                                        *)
EXTENDS Auth, TLC

Symmetry == Permutations(Users) \cup Permutations(Emails)
              \cup Permutations(Passkeys) \cup Permutations(Challenges)
              \cup Permutations(Tokens) \cup Permutations(Slots)
=============================================================================
