-------------------------- MODULE MCGraphTransactions --------------------------
(* Small instances of GraphTransactions for TLC.                           *)
EXTENDS GraphTransactions, TLC

\* Bound: so many entities cited or embedded at a time.
CONSTANT MaxExtras

Extras == Cardinality(embedded)
            + Cardinality({e \in EntityIds : cites[e] # NoCites})

FewExtras == Extras <= MaxExtras

Symmetry == Permutations(Users) \cup Permutations(EntityIds)
              \cup Permutations(RelIds) \cup Permutations(Sessions)
===============================================================================
