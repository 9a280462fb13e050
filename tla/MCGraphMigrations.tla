--------------------------- MODULE MCGraphMigrations ---------------------------
(* An instance of GraphMigrations for TLC: the three migrations of the     *)
(* repository and, as a fourth, one that writes data.                      *)
EXTENDS GraphMigrations, TLC

MCOrder == <<"0001", "0002", "0003", "0004">>

\* Statements of one kind that make, or drop, items one after the other.
Each(kind, op, items) ==
  [i \in 1..Len(items) |-> [kind |-> kind, op |-> op, item |-> items[i]]]

MCForward ==
  ("0001" :> Each("schema", "make",
               <<"entity_id_unique", "entity_owner_visibility",
                 "related_to_id", "related_to_owner_visibility">>))
  @@ ("0002" :> Each("schema", "make", <<"entity_embedding">>))
  @@ ("0003" :> Each("schema", "make", <<"source_url_unique">>))
  @@ ("0004" :> Each("data", "make", <<"one", "other">>))

MCRollback ==
  ("0001" :> Each("schema", "drop",
               <<"related_to_owner_visibility", "related_to_id",
                 "entity_owner_visibility", "entity_id_unique">>))
  @@ ("0002" :> Each("schema", "drop", <<"entity_embedding">>))
  @@ ("0003" :> Each("schema", "drop", <<"source_url_unique">>))
  @@ ("0004" :> Each("data", "drop", <<"one", "other">>))

MCItems == UNION {{MCForward[m][i].item : i \in DOMAIN MCForward[m]} :
                    m \in DOMAIN MCForward}

Symmetry == Permutations(Runners)
===============================================================================
