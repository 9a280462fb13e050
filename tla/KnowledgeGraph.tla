---------------------------- MODULE KnowledgeGraph ----------------------------
(***************************************************************************)
(* The tenant-scoped knowledge graph in Neo4j: backend/app/graph/service.py*)
(* and the statements under backend/app/graph/cypher/.  Entity nodes and   *)
(* RELATED_TO edges each carry an owner and a visibility; Source nodes are *)
(* shared and ownerless, only the SOURCED_FROM edge to one is private or   *)
(* public.  Each service call is one Cypher statement or one write         *)
(* transaction and is one action here: what the service promises, which    *)
(* GraphTransactions implements statement by statement.                    *)
(***************************************************************************)
EXTENDS Integers, FiniteSets

CONSTANTS
  Users,      \* owner_id values: the callers
  EntityIds,  \* ids a new Entity may draw (uuid4)
  RelIds,     \* ids a new RELATED_TO edge may draw
  Urls,       \* the :Source nodes, by url
  NULL        \* owner or endpoint of what does not exist

ASSUME UsersAssumption == NULL \notin Users /\ NULL \notin EntityIds

VARIABLES
  entity,    \* the Entity nodes
  rel,       \* the RELATED_TO edges
  cites,     \* the SOURCED_FROM edges: their visibility, per entity and url
  embedded   \* the entities in the vector index entity_embedding

vars == <<entity, rel, cites, embedded>>

-----------------------------------------------------------------------------

Visibility == {"private", "public"}

\* Visibility "none" marks an id no node or edge has.
NoEntity == [owner |-> NULL, visibility |-> "none"]
NoRel    == [owner |-> NULL, from |-> NULL, to |-> NULL, visibility |-> "none"]
NoCites  == [url \in Urls |-> "none"]

EntityExists(e) == entity[e].visibility # "none"
RelExists(r)    == rel[r].visibility # "none"
Entities == {e \in EntityIds : EntityExists(e)}
Rels     == {r \in RelIds : RelExists(r)}

Owns(u, e) == EntityExists(e) /\ entity[e].owner = u
Ends(r)    == {rel[r].from, rel[r].to}

\* The predicate of every entity read: own or public.
Visible(u, e) == entity[e].visibility = "public" \/ Owns(u, e)

\* owned_neighbours.cypher: one hop over the caller's edges, in either
\* direction, to the caller's entities.
OwnedNeighbours(u, ids) ==
  {b \in EntityIds : Owns(u, b) /\ \E r \in Rels, a \in ids :
                                     rel[r].owner = u /\ Ends(r) = {a, b}}

\* The caller-owned connected sub-graph around an entity: what any set with
\* the entity in it and closed under OwnedNeighbours contains.
OwnedComponent(u, start) ==
  {n \in EntityIds :
     \A C \in SUBSET EntityIds :
       start \in C /\ OwnedNeighbours(u, C) \subseteq C => n \in C}

Init ==
  /\ entity = [e \in EntityIds |-> NoEntity]
  /\ rel = [r \in RelIds |-> NoRel]
  /\ cites = [e \in EntityIds |-> NoCites]
  /\ embedded = {}

-----------------------------------------------------------------------------
(* Entities and their sources.                                             *)

\* Mutant of CreateEntity: a visibility left out is stored as null.
CreateEntityNoDefault(u, e, v) ==
  /\ ~EntityExists(e)
  /\ entity' = [entity EXCEPT ![e] = [owner |-> u,
                  visibility |-> IF v = "private" THEN NULL ELSE v]]
  /\ UNCHANGED <<rel, cites, embedded>>

\* create_entity.cypher.
CreateEntity(u, e, v) ==
  /\ ~EntityExists(e)
  /\ entity' = [entity EXCEPT ![e] = [owner |-> u, visibility |-> v]]
  /\ UNCHANGED <<rel, cites, embedded>>

\* Mutant of AttachSources: the entity is matched by id alone.
AttachSourcesById(u, e, urls) ==
  /\ EntityExists(e)
  /\ cites' = [cites EXCEPT ![e] = [url \in Urls |->
                 IF url \in urls THEN entity[e].visibility ELSE cites[e][url]]]
  /\ UNCHANGED <<entity, rel, embedded>>

\* attach_sources.cypher: MERGE the edge, then copy the entity's visibility.
AttachSources(u, e, urls) ==
  /\ Owns(u, e)
  /\ cites' = [cites EXCEPT ![e] = [url \in Urls |->
                 IF url \in urls THEN entity[e].visibility ELSE cites[e][url]]]
  /\ UNCHANGED <<entity, rel, embedded>>

\* set_entity_embedding.cypher.
SetEntityEmbedding(u, e) ==
  /\ Owns(u, e)
  /\ embedded' = embedded \cup {e}
  /\ UNCHANGED <<entity, rel, cites>>

\* delete_entity.cypher: DETACH removes every edge on the entity, whoever
\* owns it, its SOURCED_FROM edges and its entry in the vector index.
DeleteEntity(u, e) ==
  /\ Owns(u, e)
  /\ entity' = [entity EXCEPT ![e] = NoEntity]
  /\ rel' = [r \in RelIds |-> IF e \in Ends(r) THEN NoRel ELSE rel[r]]
  /\ cites' = [cites EXCEPT ![e] = NoCites]
  /\ embedded' = embedded \ {e}

-----------------------------------------------------------------------------
(* Relationships.                                                          *)

\* create_relationship.cypher: both ends visible, one owned, and a public edge
\* only between public entities; otherwise no row, a 404 or a 422.
CreateRelationship(u, r, a, b, v) ==
  /\ ~RelExists(r)
  /\ Visible(u, a) /\ Visible(u, b)
  /\ Owns(u, a) \/ Owns(u, b)
  /\ v = "public" => /\ entity[a].visibility = "public"
                     /\ entity[b].visibility = "public"
  /\ rel' = [rel EXCEPT ![r] =
              [owner |-> u, from |-> a, to |-> b, visibility |-> v]]
  /\ UNCHANGED <<entity, cites, embedded>>

\* delete_relationship.cypher: an own edge, or any edge on an own entity.
DeleteRelationship(u, r) ==
  /\ RelExists(r)
  /\ rel[r].owner = u \/ \E e \in Ends(r) : Owns(u, e)
  /\ rel' = [rel EXCEPT ![r] = NoRel]
  /\ UNCHANGED <<entity, cites, embedded>>

-----------------------------------------------------------------------------
(* Visibility changes, each one write transaction.                         *)

\* set_entity_visibility.cypher and flip_entities.cypher.
Flipped(u, ids, v) ==
  [e \in EntityIds |-> IF e \in ids /\ Owns(u, e)
                         THEN [entity[e] EXCEPT !.visibility = v]
                         ELSE entity[e]]

\* flip_relationships.cypher: the caller's edges wholly inside ids.
FlippedRels(u, ids, v) ==
  [r \in RelIds |-> IF RelExists(r) /\ Ends(r) \subseteq ids /\ rel[r].owner = u
                      THEN [rel[r] EXCEPT !.visibility = v]
                      ELSE rel[r]]

\* _clean_incident_edges: demote_owned_edges.cypher and
\* remove_foreign_edges.cypher on the edges that touch ids.
Cleaned(u, ids, rels) ==
  [r \in RelIds |->
     IF rels[r].visibility = "none" \/ {rels[r].from, rels[r].to} \cap ids = {}
       THEN rels[r]
     ELSE IF rels[r].owner = u THEN [rels[r] EXCEPT !.visibility = "private"]
     ELSE NoRel]

\* sync_entity_sources.cypher on the entities that changed.
SyncedSources(u, ids, v) ==
  [e \in EntityIds |-> IF e \in ids /\ Owns(u, e)
     THEN [url \in Urls |-> IF cites[e][url] = "none" THEN "none" ELSE v]
     ELSE cites[e]]

Changed(u, ids, v) == {e \in ids : Owns(u, e) /\ entity[e].visibility # v}

\* _single_visibility_tx: the edges are cleaned even if nothing changed.
SetVisibility(u, e, v) ==
  /\ Owns(u, e)
  /\ entity' = Flipped(u, {e}, v)
  /\ cites' = SyncedSources(u, Changed(u, {e}, v), v)
  /\ rel' = IF v = "private" THEN Cleaned(u, {e}, rel) ELSE rel
  /\ UNCHANGED embedded

\* _cascade_tx.
CascadeVisibility(u, e, v) ==
  /\ Owns(u, e)
  /\ LET ids == OwnedComponent(u, e)
         flipped == FlippedRels(u, ids, v)
     IN
     /\ entity' = Flipped(u, ids, v)
     /\ cites' = SyncedSources(u, Changed(u, ids, v), v)
     /\ rel' = IF v = "private" THEN Cleaned(u, ids, flipped) ELSE flipped
  /\ UNCHANGED embedded

-----------------------------------------------------------------------------

EntityStep(u) ==
  \E e \in EntityIds :
    \/ \E v \in Visibility : CreateEntity(u, e, v)
    \/ \E urls \in SUBSET Urls : AttachSources(u, e, urls)
    \/ SetEntityEmbedding(u, e)
    \/ DeleteEntity(u, e)

RelStep(u) ==
  \E r \in RelIds :
    \/ \E a, b \in EntityIds, v \in Visibility : CreateRelationship(u, r, a, b, v)
    \/ DeleteRelationship(u, r)

VisibilityStep(u) ==
  \E e \in EntityIds, v \in Visibility :
    SetVisibility(u, e, v) \/ CascadeVisibility(u, e, v)

Act(u) == EntityStep(u) \/ RelStep(u) \/ VisibilityStep(u)

Next == \E u \in Users : Act(u)

Spec == Init /\ [][Next]_vars

-----------------------------------------------------------------------------
(* What a caller reads.                                                    *)

\* list_visible_relationships.cypher: the edge and both its ends.
VisibleRels(u) == {r \in Rels : /\ \A e \in Ends(r) : Visible(u, e)
                                /\ rel[r].visibility = "public"
                                   \/ rel[r].owner = u}

-----------------------------------------------------------------------------
(* Properties.                                                             *)

EntityRecords == [owner : Users, visibility : Visibility] \cup {NoEntity}
RelRecords == [owner : Users, from : EntityIds, to : EntityIds,
               visibility : Visibility] \cup {NoRel}

\* Every variable keeps its type.
TypeOK ==
  /\ entity \in [EntityIds -> EntityRecords]
  /\ rel \in [RelIds -> RelRecords]
  /\ cites \in [EntityIds -> [Urls -> Visibility \cup {"none"}]]
  /\ embedded \subseteq EntityIds

\* create_relationship.cypher, "an edge must not be more visible than its
\* endpoints": holds after every create, promotion, demotion and cascade.
EdgeNotMoreVisible ==
  \A r \in Rels : rel[r].visibility = "public" =>
    \A e \in Ends(r) : entity[e].visibility = "public"

\* remove_foreign_edges.cypher: whoever owns an edge sees both its ends, which
\* therefore exist, and owns one of them; no delete or demotion by anybody
\* else leaves an edge that dangles or that its owner cannot see.
OwnersSeeTheirEdges ==
  \A r \in Rels : /\ r \in VisibleRels(rel[r].owner)
                  /\ \E e \in Ends(r) : Owns(rel[r].owner, e)

\* attach_sources.cypher and sync_entity_sources.cypher: a SOURCED_FROM edge
\* has its entity's visibility whatever came first, the flip or the citation.
SourcesMirrorEntity ==
  \A e \in EntityIds, url \in Urls :
    cites[e][url] # "none" => cites[e][url] = entity[e].visibility

\* What a step of caller u may do to others: nothing to their entities and
\* sources, and to their edges only removal, where one ends at u's entity.
OnlyOwn(u) ==
  /\ \A e \in Entities : entity[e].owner # u =>
       /\ entity'[e] = entity[e] /\ cites'[e] = cites[e]
       /\ e \in embedded <=> e \in embedded'
  /\ \A r \in Rels : rel[r].owner # u /\ rel'[r] # rel[r] =>
       rel'[r] = NoRel /\ \E e \in Ends(r) : Owns(u, e)

\* The owner_id predicates of the statements together: whatever caller u does
\* is one of the things a caller may do to others.
TenantIsolation == [][\A u \in Users : Act(u) => OnlyOwn(u)]_vars

=============================================================================
