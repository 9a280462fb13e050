----------------------- MODULE GraphTransactions_proofs -----------------------
(***************************************************************************)
(* Proofs about KnowledgeGraph and GraphTransactions for any users, ids    *)
(* and urls. First the atomic service calls: the graph's visibility rules  *)
(* are an inductive invariant, and no step of a caller touches what        *)
(* belongs to others except by detaching it from own nodes. Then the       *)
(* statements, for any number of sessions side by side: types, the lock    *)
(* discipline, and that citations follow their entity, for which the lock  *)
(* on the entity is enough. Last what one session at a time adds: the      *)
(* search finds the whole component, and the statements of a change, with  *)
(* all their failures, are the one atomic step of KnowledgeGraph or none,  *)
(* by an invariant that says, statement by statement, which part of that   *)
(* step the transaction has written.                                       *)
(***************************************************************************)
EXTENDS GraphTransactions, TLAPS

(* The inductive invariant.  EdgeNotMoreVisible alone is not inductive:    *)
(* when a caller hides an entity, only the edges found on it are demoted   *)
(* or removed, so OwnersSeeEnds has to say whose edges there are: it is    *)
(* OwnersSeeTheirEdges without the read of the edge itself.                *)
OwnersSeeEnds ==
  \A r \in Rels : /\ \A e \in Ends(r) : Visible(rel[r].owner, e)
                  /\ \E e \in Ends(r) : Owns(rel[r].owner, e)

GraphInv == /\ TypeOK
            /\ EdgeNotMoreVisible
            /\ OwnersSeeEnds
            /\ SourcesMirrorEntity

-----------------------------------------------------------------------------
(* The start of the search is in the caller-owned component, and all of it *)
(* is owned by the caller: the owned entities are closed under             *)
(* OwnedNeighbours, so the component is inside them (_owned_component).    *)
LEMMA ComponentIsOwned ==
  ASSUME NEW u, NEW e \in EntityIds, Owns(u, e)
  PROVE  /\ OwnedComponent(u, e) \subseteq EntityIds
         /\ e \in OwnedComponent(u, e)
         /\ \A n \in OwnedComponent(u, e) : Owns(u, n)
<1> DEFINE O == {n \in EntityIds : Owns(u, n)}
<1>1. O \in SUBSET EntityIds /\ e \in O
  OBVIOUS
<1>2. OwnedNeighbours(u, O) \subseteq O
  BY DEF OwnedNeighbours
<1>3. \A n \in OwnedComponent(u, e) : n \in O
  BY <1>1, <1>2 DEF OwnedComponent
<1>4. e \in OwnedComponent(u, e)
  BY DEF OwnedComponent
<1> QED
  BY <1>3, <1>4 DEF OwnedComponent

\* What an edge in the graph looks like.
LEMMA RelFields ==
  ASSUME TypeOK, NEW r \in Rels
  PROVE  /\ rel[r] \in [owner : Users, from : EntityIds, to : EntityIds,
                        visibility : Visibility]
         /\ Ends(r) \subseteq EntityIds
BY DEF TypeOK, RelRecords, Rels, RelExists, NoRel, Ends

\* What an entity in the graph looks like.
LEMMA EntityFields ==
  ASSUME TypeOK, NEW e \in EntityIds, EntityExists(e)
  PROVE  entity[e] \in [owner : Users, visibility : Visibility]
BY DEF TypeOK, EntityRecords, EntityExists, NoEntity

-----------------------------------------------------------------------------
(* What both visibility transactions do: the caller's entities in ids take *)
(* visibility v, their SOURCED_FROM edges follow, own edges inside ids may *)
(* take v as well (rels), and going private cleans the edges on ids.       *)
LEMMA FlipPreserves ==
  ASSUME GraphInv,
         NEW u \in Users, NEW v \in Visibility, NEW ids \in SUBSET EntityIds,
         \A e \in ids : Owns(u, e),
         NEW rels,
         rels = rel \/ rels = FlippedRels(u, ids, v),
         entity' = Flipped(u, ids, v),
         cites' = SyncedSources(u, Changed(u, ids, v), v),
         rel' = IF v = "private" THEN Cleaned(u, ids, rels) ELSE rels,
         UNCHANGED embedded
  PROVE  GraphInv'
<1> USE DEF GraphInv
<1>1. /\ \A r \in RelIds : rels[r] \in RelRecords
      /\ \A r \in RelIds :
           \/ rels[r] = rel[r]
           \/ /\ RelExists(r) /\ Ends(r) \subseteq ids /\ rel[r].owner = u
              /\ rels[r] = [rel[r] EXCEPT !.visibility = v]
      /\ rels \in [RelIds -> RelRecords]
  <2>1. CASE rels = rel
    BY <2>1 DEF TypeOK
  <2>2. CASE rels = FlippedRels(u, ids, v)
    BY <2>2, RelFields DEF FlippedRels, TypeOK, Rels, RelRecords
  <2> QED
    BY <2>1, <2>2
<1>2. /\ \A e \in EntityIds : entity'[e].owner = entity[e].owner
      /\ \A e \in EntityIds : e \notin ids => entity'[e] = entity[e]
      /\ \A e \in ids : entity'[e] = [owner |-> u, visibility |-> v]
      /\ entity' \in [EntityIds -> EntityRecords]
  BY EntityFields DEF Flipped, Owns, EntityRecords, TypeOK
<1>3. TypeOK'
  <2>1. rel' \in [RelIds -> RelRecords]
    <3>1. CASE v = "private"
      <4> SUFFICES ASSUME NEW r \in RelIds
                   PROVE  Cleaned(u, ids, rels)[r] \in RelRecords
        BY <3>1 DEF Cleaned
      <4>1. rels[r].visibility # "none" =>
              [rels[r] EXCEPT !.visibility = "private"] \in RelRecords
        BY <1>1 DEF RelRecords, NoRel, Visibility
      <4> QED
        BY <1>1, <4>1 DEF Cleaned, RelRecords
    <3>2. CASE v # "private"
      BY <1>1, <3>2
    <3> QED
      BY <3>1, <3>2
  <2>2. cites' \in [EntityIds -> [Urls -> Visibility \cup {"none"}]]
    BY DEF SyncedSources, TypeOK
  <2> QED
    BY <1>2, <2>1, <2>2 DEF TypeOK
<1>4. ASSUME NEW r \in RelIds, RelExists(r)'
      PROVE  /\ RelExists(r) /\ Ends(r)' = Ends(r)
             /\ rel'[r].owner = rel[r].owner
             /\ Ends(r) \cap ids # {} /\ v = "private" =>
                  rel'[r].visibility = "private" /\ rel[r].owner = u
             /\ rel'[r].visibility = "public" =>
                  \/ rel[r].visibility = "public"
                  \/ v = "public" /\ Ends(r) \subseteq ids
  <2>1. RelExists(r) /\ rels[r].visibility # "none"
        /\ rels[r].owner = rel[r].owner
        /\ rels[r].from = rel[r].from /\ rels[r].to = rel[r].to
    BY <1>1, <1>4, RelFields DEF Cleaned, RelExists, NoRel, Rels, TypeOK,
         RelRecords, Visibility
  <2>2. CASE v = "private"
    <3>1. rel'[r] = Cleaned(u, ids, rels)[r]
      BY <2>2
    <3>2. CASE Ends(r) \cap ids = {}
      BY <1>1, <2>1, <2>2, <3>1, <3>2 DEF Cleaned, Ends
    <3>3. CASE Ends(r) \cap ids # {}
      <4>1. rels[r].owner = u
        BY <1>4, <2>1, <3>1, <3>3 DEF Cleaned, Ends, RelExists, NoRel
      <4>2. rel'[r] = [rels[r] EXCEPT !.visibility = "private"]
        BY <2>1, <3>1, <3>3, <4>1 DEF Cleaned, Ends
      <4>3. rels[r] \in [owner : Users, from : EntityIds, to : EntityIds,
                         visibility : Visibility]
        BY <1>1, <2>1 DEF RelRecords, NoRel
      <4> QED
        BY <2>1, <2>2, <4>1, <4>2, <4>3 DEF Ends
    <3> QED
      BY <3>2, <3>3
  <2>3. CASE v = "public"
    BY <1>1, <2>1, <2>3 DEF Ends
  <2> QED
    BY <2>2, <2>3 DEF Visibility
<1>5. EdgeNotMoreVisible'
  <2> SUFFICES ASSUME NEW r \in RelIds, RelExists(r)',
                      rel'[r].visibility = "public", NEW e \in Ends(r)'
               PROVE  entity'[e].visibility = "public"
    BY DEF EdgeNotMoreVisible, Rels
  <2>1. r \in Rels /\ e \in Ends(r) /\ e \in EntityIds
    BY <1>4, RelFields DEF Rels
  <2>2. e \in ids => v = "public"
    BY <1>4, <2>1 DEF Visibility
  <2>3. e \notin ids => entity[e].visibility = "public"
    BY <1>4, <2>1 DEF EdgeNotMoreVisible
  <2> QED
    BY <1>2, <2>1, <2>2, <2>3
<1>6. OwnersSeeEnds'
  <2> SUFFICES ASSUME NEW r \in RelIds, RelExists(r)'
               PROVE  (/\ \A e \in Ends(r) : Visible(rel[r].owner, e)
                       /\ \E e \in Ends(r) : Owns(rel[r].owner, e))'
    BY DEF OwnersSeeEnds, Rels
  <2> PICK o : o = rel[r].owner
    OBVIOUS
  <2>1. r \in Rels /\ Ends(r)' = Ends(r) /\ rel'[r].owner = o
    BY <1>4 DEF Rels
  <2>2. Ends(r) \subseteq EntityIds
    BY <2>1, RelFields
  <2>3. \A e \in Ends(r) : Owns(o, e) => Owns(o, e)'
    BY <1>2, <2>2 DEF Owns, EntityExists, Visibility
  <2>4. \A e \in Ends(r) : Visible(o, e) => Visible(o, e)'
    <3> SUFFICES ASSUME NEW e \in Ends(r), Visible(o, e)
                 PROVE  Visible(o, e)'
      OBVIOUS
    <3>1. CASE e \notin ids
      BY <1>2, <2>2, <3>1 DEF Visible, Owns, EntityExists
    <3>2. CASE e \in ids /\ v = "public"
      BY <1>2, <3>2 DEF Visible
    <3>3. CASE e \in ids /\ v = "private"
      BY <1>2, <1>4, <3>3 DEF Visible, Owns, EntityExists
    <3> QED
      BY <3>1, <3>2, <3>3 DEF Visibility
  <2> QED
    BY <2>1, <2>3, <2>4 DEF OwnersSeeEnds, Visible, Owns, EntityExists
<1>7. SourcesMirrorEntity'
  <2> SUFFICES ASSUME NEW e \in EntityIds, NEW url \in Urls,
                      cites'[e][url] # "none"
               PROVE  cites'[e][url] = entity'[e].visibility
    BY DEF SourcesMirrorEntity
  <2>1. CASE e \in Changed(u, ids, v)
    BY <1>2, <2>1 DEF SyncedSources, Changed
  <2>2. CASE e \notin Changed(u, ids, v)
    <3>1. cites'[e] = cites[e]
      BY <2>2 DEF SyncedSources
    <3>2. entity'[e].visibility = entity[e].visibility
      BY <1>2, <2>2 DEF Changed
    <3> QED
      BY <3>1, <3>2 DEF SourcesMirrorEntity
  <2> QED
    BY <2>1, <2>2
<1> QED
  BY <1>3, <1>5, <1>6, <1>7

-----------------------------------------------------------------------------
(* The actions, one lemma each for the two transactions and one for the    *)
(* single statements.                                                      *)

\* set_entity_visibility: one flipped entity.
LEMMA SetVisibilityPreserves ==
  ASSUME GraphInv, NEW u \in Users, NEW e \in EntityIds, NEW v \in Visibility,
         SetVisibility(u, e, v)
  PROVE  GraphInv'
<1>1. \A n \in {e} : Owns(u, n)
  BY DEF SetVisibility
<1>2. {e} \in SUBSET EntityIds
  OBVIOUS
<1> QED
  BY <1>1, <1>2, FlipPreserves DEF SetVisibility

\* _cascade_tx: the flipped entities are the caller-owned component.
LEMMA CascadeVisibilityPreserves ==
  ASSUME GraphInv, NEW u \in Users, NEW e \in EntityIds, NEW v \in Visibility,
         CascadeVisibility(u, e, v)
  PROVE  GraphInv'
<1>1. PICK ids : ids = OwnedComponent(u, e)
  OBVIOUS
<1>2. ids \in SUBSET EntityIds /\ \A n \in ids : Owns(u, n)
  BY <1>1, ComponentIsOwned DEF CascadeVisibility
<1>3. PICK rels : rels = FlippedRels(u, ids, v)
  OBVIOUS
<1> QED
  BY <1>1, <1>2, <1>3, FlipPreserves DEF CascadeVisibility

\* Every step on one entity: create, delete, cite, embed, flip.
LEMMA EntityStepPreserves ==
  ASSUME GraphInv, NEW u \in Users, EntityStep(u)
  PROVE  GraphInv'
<1> USE DEF GraphInv
<1> PICK e \in EntityIds :
      \/ \E v \in Visibility : CreateEntity(u, e, v)
      \/ \E urls \in SUBSET Urls : AttachSources(u, e, urls)
      \/ SetEntityEmbedding(u, e)
      \/ DeleteEntity(u, e)
  BY DEF EntityStep
<1>1. CASE \E v \in Visibility : CreateEntity(u, e, v)
  <2> PICK v \in Visibility : CreateEntity(u, e, v)
    BY <1>1
  <2>1. /\ entity' \in [EntityIds -> EntityRecords]
        /\ \A n \in EntityIds : n # e => entity'[n] = entity[n]
        /\ UNCHANGED <<rel, cites, embedded>>
    BY DEF CreateEntity, TypeOK, EntityRecords
  <2>2. \A r \in Rels : e \notin Ends(r)
    BY DEF OwnersSeeEnds, Visible, Owns, CreateEntity, EntityExists
  <2>3. Rels' = Rels /\ \A r \in Rels : Ends(r)' = Ends(r)
    BY <2>1 DEF Rels, RelExists, Ends
  <2>4. \A r \in Rels : \A n \in Ends(r) : n \in EntityIds /\ entity'[n] = entity[n]
    BY <2>1, <2>2, RelFields
  <2>5. EdgeNotMoreVisible'
    BY <2>1, <2>3, <2>4 DEF EdgeNotMoreVisible
  <2>6. OwnersSeeEnds'
    BY <2>1, <2>3, <2>4 DEF OwnersSeeEnds, Visible, Owns, EntityExists
  <2>7. SourcesMirrorEntity'
    <3>1. \A url \in Urls : cites[e][url] = "none"
      BY DEF SourcesMirrorEntity, TypeOK, CreateEntity, EntityExists, Visibility
    <3> QED
      BY <2>1, <3>1 DEF SourcesMirrorEntity
  <2> QED
    BY <2>1, <2>5, <2>6, <2>7 DEF TypeOK
<1>2. CASE \E urls \in SUBSET Urls : AttachSources(u, e, urls)
  <2> PICK urls \in SUBSET Urls : AttachSources(u, e, urls)
    BY <1>2
  <2>1. entity[e].visibility \in Visibility
    BY EntityFields DEF AttachSources, Owns
  <2>2. cites' \in [EntityIds -> [Urls -> Visibility \cup {"none"}]]
    BY <2>1 DEF AttachSources, TypeOK
  <2>3. SourcesMirrorEntity'
    BY DEF AttachSources, SourcesMirrorEntity, TypeOK
  <2> QED
    BY <2>2, <2>3 DEF AttachSources, TypeOK, EdgeNotMoreVisible,
         OwnersSeeEnds, Rels, RelExists, Ends, Visible, Owns,
         EntityExists
<1>3. CASE SetEntityEmbedding(u, e)
  BY <1>3 DEF SetEntityEmbedding, TypeOK, EdgeNotMoreVisible,
       OwnersSeeEnds, SourcesMirrorEntity, Rels, RelExists, Ends,
       Visible, Owns, EntityExists
<1>4. CASE DeleteEntity(u, e)
  <2>1. /\ entity' \in [EntityIds -> EntityRecords]
        /\ rel' \in [RelIds -> RelRecords]
        /\ cites' \in [EntityIds -> [Urls -> Visibility \cup {"none"}]]
        /\ embedded' \subseteq EntityIds
    BY <1>4 DEF DeleteEntity, TypeOK, EntityRecords, RelRecords, NoCites
  <2>2. \A r \in Rels' : r \in Rels /\ rel'[r] = rel[r] /\ e \notin Ends(r)
    BY <1>4 DEF DeleteEntity, Rels, RelExists, NoRel
  <2>3. \A r \in Rels' : Ends(r)' = Ends(r)
    BY <2>2 DEF Ends
  <2>4. \A n \in EntityIds : n # e => entity'[n] = entity[n] /\ cites'[n] = cites[n]
    BY <1>4 DEF DeleteEntity, TypeOK
  <2>5. \A r \in Rels' : \A n \in Ends(r) : n \in EntityIds /\ entity'[n] = entity[n]
    BY <2>2, <2>4, RelFields
  <2>6. EdgeNotMoreVisible'
    BY <2>2, <2>3, <2>5 DEF EdgeNotMoreVisible
  <2>7. OwnersSeeEnds'
    BY <2>2, <2>3, <2>5 DEF OwnersSeeEnds, Visible, Owns, EntityExists
  <2>8. SourcesMirrorEntity'
    BY <1>4, <2>4 DEF SourcesMirrorEntity, DeleteEntity, NoCites, TypeOK
  <2> QED
    BY <2>1, <2>6, <2>7, <2>8 DEF TypeOK
<1> QED
  BY <1>1, <1>2, <1>3, <1>4

\* Creating and deleting an edge.
LEMMA RelStepPreserves ==
  ASSUME GraphInv, NEW u \in Users, RelStep(u)
  PROVE  GraphInv'
<1> USE DEF GraphInv
<1> PICK r \in RelIds :
      \/ \E a, b \in EntityIds, v \in Visibility : CreateRelationship(u, r, a, b, v)
      \/ DeleteRelationship(u, r)
  BY DEF RelStep
<1>1. /\ UNCHANGED <<entity, cites, embedded>>
      /\ \A q \in RelIds : q # r => rel'[q] = rel[q]
  BY DEF CreateRelationship, DeleteRelationship, TypeOK
<1>2. SourcesMirrorEntity'
  BY <1>1 DEF SourcesMirrorEntity
<1>3. CASE \E a, b \in EntityIds, v \in Visibility : CreateRelationship(u, r, a, b, v)
  <2> PICK a \in EntityIds, b \in EntityIds, v \in Visibility :
        CreateRelationship(u, r, a, b, v)
    BY <1>3
  <2>1. rel'[r] = [owner |-> u, from |-> a, to |-> b, visibility |-> v]
        /\ rel' \in [RelIds -> RelRecords]
    BY DEF CreateRelationship, TypeOK, RelRecords
  <2>2. \A q \in Rels' : q # r => q \in Rels /\ rel'[q] = rel[q]
    BY <1>1 DEF Rels, RelExists
  <2>3. Ends(r)' = {a, b}
    BY <2>1 DEF Ends
  <2>4. \A q \in Rels' : q # r => Ends(q)' = Ends(q)
    BY <2>2 DEF Ends
  <2>5. EdgeNotMoreVisible'
    <3> SUFFICES ASSUME NEW q \in Rels', rel'[q].visibility = "public",
                        NEW e \in Ends(q)'
                 PROVE  entity'[e].visibility = "public"
      BY DEF EdgeNotMoreVisible
    <3>1. CASE q = r
      BY <1>1, <2>1, <2>3, <3>1 DEF CreateRelationship
    <3>2. CASE q # r
      BY <1>1, <2>2, <2>4, <3>2 DEF EdgeNotMoreVisible
    <3> QED
      BY <3>1, <3>2
  <2>6. OwnersSeeEnds'
    <3> SUFFICES ASSUME NEW q \in Rels'
                 PROVE  (/\ \A e \in Ends(q) : Visible(rel[q].owner, e)
                         /\ \E e \in Ends(q) : Owns(rel[q].owner, e))'
      BY DEF OwnersSeeEnds
    <3>1. CASE q = r
      BY <1>1, <2>1, <2>3, <3>1 DEF CreateRelationship, Visible, Owns,
           EntityExists
    <3>2. CASE q # r
      BY <1>1, <2>2, <2>4, <3>2 DEF OwnersSeeEnds, Visible, Owns,
           EntityExists
    <3> QED
      BY <3>1, <3>2
  <2> QED
    BY <1>1, <1>2, <2>1, <2>5, <2>6 DEF TypeOK
<1>4. CASE DeleteRelationship(u, r)
  <2>1. rel' \in [RelIds -> RelRecords] /\ rel'[r] = NoRel
    BY <1>4 DEF DeleteRelationship, TypeOK, RelRecords
  <2>2. \A q \in Rels' : q \in Rels /\ rel'[q] = rel[q]
    BY <1>1, <2>1 DEF Rels, RelExists, NoRel
  <2>3. \A q \in Rels' : Ends(q)' = Ends(q)
    BY <2>2 DEF Ends
  <2>4. EdgeNotMoreVisible' /\ OwnersSeeEnds'
    BY <1>1, <2>2, <2>3 DEF EdgeNotMoreVisible, OwnersSeeEnds, Visible,
         Owns, EntityExists
  <2> QED
    BY <1>1, <1>2, <2>1, <2>4 DEF TypeOK
<1> QED
  BY <1>3, <1>4

-----------------------------------------------------------------------------
(* The graph keeps its types, no edge is more visible than an end of it,   *)
(* every owner sees the own edges, and every SOURCED_FROM edge has the     *)
(* visibility of its entity, in every reachable state.                     *)
THEOREM GraphInvariant == Spec => []GraphInv
<1>1. Init => GraphInv
  BY DEF Init, GraphInv, TypeOK, EntityRecords, RelRecords, NoCites,
       EdgeNotMoreVisible, OwnersSeeEnds, SourcesMirrorEntity, Rels,
       RelExists, NoRel
<1>2. GraphInv /\ [Next]_vars => GraphInv'
  <2> SUFFICES ASSUME GraphInv, [Next]_vars PROVE GraphInv'
    OBVIOUS
  <2>1. CASE UNCHANGED vars
    BY <2>1 DEF vars, GraphInv, TypeOK, EdgeNotMoreVisible,
         OwnersSeeEnds, SourcesMirrorEntity, Rels, RelExists, Ends,
         Visible, Owns, EntityExists
  <2>2. ASSUME NEW u \in Users, Act(u) PROVE GraphInv'
    <3>1. CASE EntityStep(u)
      BY <3>1, EntityStepPreserves
    <3>2. CASE RelStep(u)
      BY <3>2, RelStepPreserves
    <3>3. CASE VisibilityStep(u)
      BY <3>3, SetVisibilityPreserves, CascadeVisibilityPreserves
         DEF VisibilityStep
    <3> QED
      BY <2>2, <3>1, <3>2, <3>3 DEF Act
  <2> QED
    BY <2>1, <2>2 DEF Next
<1> QED
  BY <1>1, <1>2, PTL DEF Spec

(* create_relationship.cypher, "an edge must not be more visible than its  *)
(* endpoints": for any number of users, entities and edges.                *)
THEOREM EdgeVisibility == Spec => []EdgeNotMoreVisible
BY GraphInvariant, PTL DEF GraphInv

(* remove_foreign_edges.cypher: nobody is left with an edge to a node he   *)
(* cannot see.                                                             *)
THEOREM OwnersKeepSight == Spec => []OwnersSeeTheirEdges
<1>1. GraphInv => OwnersSeeTheirEdges
  BY DEF GraphInv, OwnersSeeEnds, OwnersSeeTheirEdges, VisibleRels
<1> QED
  BY <1>1, GraphInvariant, PTL

(* sync_entity_sources.cypher: citations follow their entity.              *)
THEOREM SourcesFollow == Spec => []SourcesMirrorEntity
BY GraphInvariant, PTL DEF GraphInv
-----------------------------------------------------------------------------
(* TenantIsolation: the foreign side of a step.                            *)

\* A visibility flip changes nothing foreign but removes edges.
LEMMA FlipTouchesOwn ==
  ASSUME GraphInv,
         NEW u \in Users, NEW v \in Visibility, NEW ids \in SUBSET EntityIds,
         \A e \in ids : Owns(u, e),
         NEW rels,
         rels = rel \/ rels = FlippedRels(u, ids, v),
         entity' = Flipped(u, ids, v),
         cites' = SyncedSources(u, Changed(u, ids, v), v),
         rel' = IF v = "private" THEN Cleaned(u, ids, rels) ELSE rels,
         UNCHANGED embedded
  PROVE  OnlyOwn(u)
<1>1. \A e \in Entities : entity[e].owner # u =>
        entity'[e] = entity[e] /\ cites'[e] = cites[e]
  BY DEF Entities, Owns, Flipped, SyncedSources, Changed
<1>2. ASSUME NEW r \in Rels, rel[r].owner # u
      PROVE  rels[r] = rel[r]
  BY <1>2 DEF FlippedRels, Rels
<1>3. ASSUME NEW r \in Rels, rel[r].owner # u, rel'[r] # rel[r]
      PROVE  rel'[r] = NoRel /\ \E e \in Ends(r) : Owns(u, e)
  <2>1. rels[r] = rel[r] /\ r \in RelIds
    BY <1>2, <1>3 DEF Rels
  <2>2. v = "private" /\ rel'[r] = Cleaned(u, ids, rels)[r]
    BY <1>3, <2>1
  <2>3. rel'[r] = NoRel /\ Ends(r) \cap ids # {}
    BY <1>3, <2>1, <2>2 DEF Cleaned, Ends
  <2> QED
    BY <2>3
<1> QED
  BY <1>1, <1>3 DEF OnlyOwn

\* No step of a caller changes what is not theirs otherwise.
LEMMA StepTouchesOwn ==
  ASSUME GraphInv, NEW u \in Users, Act(u)
  PROVE  OnlyOwn(u)
<1> USE DEF GraphInv
<1>1. CASE EntityStep(u)
  <2> PICK e \in EntityIds :
        \/ \E v \in Visibility : CreateEntity(u, e, v)
        \/ \E urls \in SUBSET Urls : AttachSources(u, e, urls)
        \/ SetEntityEmbedding(u, e)
        \/ DeleteEntity(u, e)
    BY <1>1 DEF EntityStep
  <2>1. CASE \E v \in Visibility : CreateEntity(u, e, v)
    BY <2>1 DEF CreateEntity, OnlyOwn, Entities, TypeOK
  <2>2. CASE \E urls \in SUBSET Urls : AttachSources(u, e, urls)
    BY <2>2 DEF AttachSources, OnlyOwn, Entities, Owns, TypeOK
  <2>3. CASE SetEntityEmbedding(u, e)
    BY <2>3 DEF SetEntityEmbedding, OnlyOwn, Entities, Owns, TypeOK
  <2>4. CASE DeleteEntity(u, e)
    <3>1. \A r \in Rels : rel'[r] # rel[r] => rel'[r] = NoRel /\ e \in Ends(r)
      BY <2>4 DEF DeleteEntity, Rels
    <3>2. Owns(u, e)
      BY <2>4 DEF DeleteEntity
    <3>3. \A n \in Entities : entity[n].owner # u =>
            /\ entity'[n] = entity[n] /\ cites'[n] = cites[n]
            /\ n \in embedded <=> n \in embedded'
      BY <2>4 DEF DeleteEntity, Entities, Owns, TypeOK
    <3> QED
      BY <3>1, <3>2, <3>3 DEF OnlyOwn
  <2> QED
    BY <2>1, <2>2, <2>3, <2>4
<1>2. CASE RelStep(u)
  BY <1>2 DEF RelStep, CreateRelationship, DeleteRelationship, OnlyOwn, Rels,
       TypeOK
<1>3. CASE VisibilityStep(u)
  <2> PICK e \in EntityIds, v \in Visibility :
        SetVisibility(u, e, v) \/ CascadeVisibility(u, e, v)
    BY <1>3 DEF VisibilityStep
  <2>1. CASE SetVisibility(u, e, v)
    <3>1. (\A n \in {e} : Owns(u, n)) /\ {e} \in SUBSET EntityIds
      BY <2>1 DEF SetVisibility
    <3> QED
      BY <2>1, <3>1, FlipTouchesOwn DEF SetVisibility
  <2>2. CASE CascadeVisibility(u, e, v)
    <3>1. PICK ids : ids = OwnedComponent(u, e)
      OBVIOUS
    <3>2. ids \in SUBSET EntityIds /\ \A n \in ids : Owns(u, n)
      BY <2>2, <3>1, ComponentIsOwned DEF CascadeVisibility
    <3>3. PICK rels : rels = FlippedRels(u, ids, v)
      OBVIOUS
    <3> QED
      BY <2>2, <3>1, <3>2, <3>3, FlipTouchesOwn DEF CascadeVisibility
  <2> QED
    BY <2>1, <2>2
<1> QED
  BY <1>1, <1>2, <1>3 DEF Act

(* The owner_id predicates of all statements together keep the tenants     *)
(* apart: a caller changes what is the caller's own, and of others' things *)
(* only removes edges that end at a node of the caller.                    *)
THEOREM TenantsAreIsolated == Spec => TenantIsolation
<1>1. GraphInv => \A u \in Users : Act(u) => OnlyOwn(u)
  BY StepTouchesOwn
<1> QED
  BY <1>1, GraphInvariant, PTL DEF TenantIsolation

-----------------------------------------------------------------------------
(* GraphTransactions, with any number of sessions: uncommitted writes.     *)

\* What a session can have written: new values for some of the ids.
Partial(D, R) == UNION {[X -> R] : X \in SUBSET D}

CiteRecords == [Urls -> Visibility \cup {"none"}]

WriteSets == [entity : Partial(EntityIds, EntityRecords),
              rel    : Partial(RelIds, RelRecords),
              cites  : Partial(EntityIds, CiteRecords)]

LEMMA PartialIntro ==
  ASSUME NEW D, NEW R, NEW X \in SUBSET D, NEW f \in [X -> R]
  PROVE  f \in Partial(D, R)
  BY DEF Partial

LEMMA PartialElim ==
  ASSUME NEW D, NEW R, NEW f \in Partial(D, R)
  PROVE  /\ DOMAIN f \subseteq D
         /\ \A x \in DOMAIN f : f[x] \in R
         /\ f \in [DOMAIN f -> R]
<1> PICK X \in SUBSET D : f \in [X -> R]
  BY DEF Partial
<1> QED
  OBVIOUS

\* What a session reads is of the type of what it would read committed.
LEMMA OverType ==
  ASSUME NEW D, NEW R, NEW base \in [D -> R], NEW f \in Partial(D, R)
  PROVE  /\ Over(f, base) \in [D -> R]
         /\ \A x \in D : Over(f, base)[x] = IF x \in DOMAIN f THEN f[x] ELSE base[x]
  BY PartialElim DEF Over

\* The lock discipline and the types of a session's part of the state.
Typed(s) ==
  /\ tx[s] \in Work
  /\ wrote[s] \in WriteSets
  /\ DOMAIN wrote[s].entity \cup DOMAIN wrote[s].rel \subseteq tx[s].locks
  /\ Free(s, tx[s].locks)

Synced == {"demote", "remove", "commit"}

\* What the transaction of a session has written by the statement it runs
\* next: the new visibility of the entities that change and, from the sync on,
\* of their citations.
Agree(t, w) ==
  /\ t.step \in {"idle", "create", "search"} => w = NoWrites
  /\ t.step = "idle" => t = NoWork
  /\ t.step \notin {"idle", "create"} => t.v \in Visibility
  /\ DOMAIN w.entity = t.changed
  /\ \A e \in t.changed : w.entity[e].visibility = t.v
  /\ DOMAIN w.cites = IF t.step \in Synced THEN t.changed ELSE {}
  /\ \A e \in DOMAIN w.cites, url \in Urls : w.cites[e][url] \in {"none", t.v}

Consistent(s) == Agree(tx[s], wrote[s])

TxInv ==
  /\ TypeOK
  /\ SourcesMirrorEntity
  /\ tx \in [Sessions -> Work]
  /\ wrote \in [Sessions -> WriteSets]
  /\ \A s \in Sessions : Typed(s) /\ Consistent(s)

\* The invariant is at least as strong as the type invariant that is checked.
LEMMA TxInvTypes == TxInv => TxTypeOK
<1> SUFFICES ASSUME TxInv, NEW s \in Sessions
             PROVE  /\ \A e \in DOMAIN wrote[s].entity :
                         wrote[s].entity[e] \in EntityRecords
                    /\ \A r \in DOMAIN wrote[s].rel : wrote[s].rel[r] \in RelRecords
                    /\ DOMAIN wrote[s].cites \subseteq tx[s].locks
  BY DEF TxInv, TxTypeOK, Typed
<1>1. /\ wrote[s].entity \in Partial(EntityIds, EntityRecords)
      /\ wrote[s].rel \in Partial(RelIds, RelRecords)
  BY DEF TxInv, WriteSets
<1>2. DOMAIN wrote[s].cites \subseteq DOMAIN wrote[s].entity
  BY DEF TxInv, Consistent, Agree
<1>3. DOMAIN wrote[s].cites \subseteq tx[s].locks
  BY <1>2 DEF TxInv, Typed
<1> QED
  BY <1>1, <1>3, PartialElim

LEMMA NothingIsPartial ==
  ASSUME NEW D, NEW R
  PROVE  Nothing \in Partial(D, R) /\ DOMAIN Nothing = {}
<1>1. Nothing \in [{} -> R] /\ DOMAIN Nothing = {}
  BY DEF Nothing
<1> QED
  BY <1>1, PartialIntro

LEMMA NoWritesTyped ==
  /\ NoWrites \in WriteSets
  /\ DOMAIN NoWrites.entity = {} /\ DOMAIN NoWrites.rel = {}
  /\ DOMAIN NoWrites.cites = {}
  BY NothingIsPartial DEF NoWrites, WriteSets

LEMMA NoWorkTyped ==
  /\ NoWork \in Work
  /\ NoWork.step = "idle" /\ NoWork.changed = {} /\ NoWork.locks = {}
  BY DEF NoWork, Work, Steps, RelRecords

-----------------------------------------------------------------------------
(* A step that touches one session's part of the state and leaves the      *)
(* committed graph alone.                                                  *)
LEMMA OneSessionMoves ==
  ASSUME TxInv, NEW s \in Sessions,
         NEW t \in Work, NEW w \in WriteSets,
         tx' = [tx EXCEPT ![s] = t],
         wrote' = [wrote EXCEPT ![s] = w],
         DOMAIN w.entity \cup DOMAIN w.rel \subseteq t.locks,
         Free(s, t.locks),
         Agree(t, w),
         TypeOK', SourcesMirrorEntity'
  PROVE  TxInv'
<1>1. tx' \in [Sessions -> Work] /\ wrote' \in [Sessions -> WriteSets]
  BY DEF TxInv
<1>2. /\ tx'[s] = t /\ wrote'[s] = w
      /\ \A q \in Sessions \ {s} : tx'[q] = tx[q] /\ wrote'[q] = wrote[q]
  BY DEF TxInv
<1>3. Typed(s)' /\ Consistent(s)'
  BY <1>2 DEF Typed, Free, Consistent
<1>4. ASSUME NEW q \in Sessions \ {s}
      PROVE  Typed(q)' /\ Consistent(q)'
  <2>1. Typed(q) /\ Consistent(q)
    BY DEF TxInv
  <2>2. Free(q, tx[q].locks)'
    BY <1>2, <2>1 DEF Typed, Free
  <2>3. Typed(q)'
    BY <1>2, <2>1, <2>2 DEF Typed
  <2>4. Consistent(q)'
    BY <1>2, <2>1 DEF Consistent
  <2> QED
    BY <2>3, <2>4
<1> QED
  BY <1>1, <1>3, <1>4 DEF TxInv

\* What a step that leaves the committed graph alone leaves true of it.
LEMMA GraphKept ==
  ASSUME TypeOK, SourcesMirrorEntity, UNCHANGED vars
  PROVE  TypeOK' /\ SourcesMirrorEntity'
  BY DEF vars, TypeOK, SourcesMirrorEntity

\* The types of one session's part of the state.
LEMMA SessionTypes ==
  ASSUME TxInv, NEW s \in Sessions
  PROVE  /\ tx[s] \in Work /\ wrote[s] \in WriteSets
         /\ wrote[s].entity \in Partial(EntityIds, EntityRecords)
         /\ wrote[s].rel \in Partial(RelIds, RelRecords)
         /\ wrote[s].cites \in Partial(EntityIds, CiteRecords)
         /\ EntityFor(s) \in [EntityIds -> EntityRecords]
         /\ RelFor(s) \in [RelIds -> RelRecords]
         /\ CitesFor(s) \in [EntityIds -> CiteRecords]
<1>1. /\ wrote[s].entity \in Partial(EntityIds, EntityRecords)
      /\ wrote[s].rel \in Partial(RelIds, RelRecords)
      /\ wrote[s].cites \in Partial(EntityIds, CiteRecords)
  BY DEF TxInv, WriteSets
<1>2. EntityFor(s) \in [EntityIds -> EntityRecords]
  BY <1>1, OverType DEF TxInv, TypeOK, EntityFor
<1>3. RelFor(s) \in [RelIds -> RelRecords]
  BY <1>1, OverType DEF TxInv, TypeOK, RelFor
<1>4. CitesFor(s) \in [EntityIds -> CiteRecords]
  BY <1>1, OverType DEF TxInv, TypeOK, CitesFor, CiteRecords
<1> QED
  BY <1>1, <1>2, <1>3, <1>4 DEF TxInv

-----------------------------------------------------------------------------
(* The first statements of a transaction.                                  *)

LEMMA MatchEndsKeeps ==
  ASSUME TxInv, NEW s \in Sessions, NEW u \in Users, NEW a \in EntityIds,
         NEW b \in EntityIds, NEW v \in Visibility, MatchEnds(s, u, a, b, v)
  PROVE  TxInv'
<1> DEFINE edge == [owner |-> u, from |-> a, to |-> b, visibility |-> v]
           t == [NoWork EXCEPT !.step = "create", !.user = u, !.edge = edge]
<1>1. wrote[s] = NoWrites /\ wrote' = [wrote EXCEPT ![s] = NoWrites]
  BY DEF TxInv, Consistent, Agree, MatchEnds, Idle
<1>2. tx' = [tx EXCEPT ![s] = t]
  BY DEF TxInv, MatchEnds
<1>3. t \in Work /\ t.locks = {} /\ t.changed = {} /\ t.step = "create"
  <2>1. edge \in RelRecords
    BY DEF RelRecords
  <2> QED
    BY <2>1, NoWorkTyped DEF Work, Steps, NoWork
<1>4. Agree(t, NoWrites)
  BY <1>3, NoWritesTyped DEF Agree, Synced
<1>5. TypeOK' /\ SourcesMirrorEntity'
  BY GraphKept DEF MatchEnds, vars, TxInv
<1>6. Free(s, t.locks)
  BY <1>3 DEF Free
<1> HIDE DEF t
<1> QED
  BY <1>1, <1>2, <1>3, <1>4, <1>5, <1>6, NoWritesTyped, OneSessionMoves

LEMMA OwnedEntityExistsKeeps ==
  ASSUME TxInv, NEW s \in Sessions, NEW u \in Users, NEW e \in EntityIds,
         NEW v \in Visibility, OwnedEntityExists(s, u, e, v)
  PROVE  TxInv'
<1> DEFINE t == [NoWork EXCEPT !.step = "search", !.cascade = TRUE,
                   !.user = u, !.start = e, !.v = v, !.ids = {e},
                   !.frontier = {e}]
<1>1. wrote[s] = NoWrites /\ wrote' = [wrote EXCEPT ![s] = NoWrites]
  BY DEF TxInv, Consistent, Agree, OwnedEntityExists, Idle
<1>2. tx' = [tx EXCEPT ![s] = t]
  BY DEF TxInv, OwnedEntityExists
<1>3. t \in Work /\ t.locks = {} /\ t.changed = {} /\ t.step = "search"
  BY NoWorkTyped DEF Work, Steps, NoWork
<1>4. Agree(t, NoWrites)
  BY <1>3, NoWritesTyped DEF Agree, Synced
<1>5. TypeOK' /\ SourcesMirrorEntity'
  BY GraphKept DEF OwnedEntityExists, vars, TxInv
<1>6. Free(s, t.locks)
  BY <1>3 DEF Free
<1> HIDE DEF t
<1> QED
  BY <1>1, <1>2, <1>3, <1>4, <1>5, <1>6, NoWritesTyped, OneSessionMoves

\* The new values of the entities that change.
LEMMA FlippedEntities ==
  ASSUME TypeOK, NEW u, NEW v \in Visibility, NEW ids \in SUBSET EntityIds
  PROVE  /\ Changed(u, ids, v) \subseteq ids
         /\ [x \in Changed(u, ids, v) |-> [entity[x] EXCEPT !.visibility = v]]
              \in Partial(EntityIds, EntityRecords)
         /\ \A x \in Changed(u, ids, v) :
              [entity[x] EXCEPT !.visibility = v].visibility = v
<1>1. \A x \in Changed(u, ids, v) :
        /\ [entity[x] EXCEPT !.visibility = v] \in EntityRecords
        /\ [entity[x] EXCEPT !.visibility = v].visibility = v
  BY EntityFields DEF Changed, Owns, EntityRecords
<1>2. Changed(u, ids, v) \in SUBSET EntityIds /\ Changed(u, ids, v) \subseteq ids
  BY DEF Changed
<1>3. [x \in Changed(u, ids, v) |-> [entity[x] EXCEPT !.visibility = v]]
        \in [Changed(u, ids, v) -> EntityRecords]
  BY <1>1
<1> QED
  BY <1>1, <1>2, <1>3, PartialIntro

LEMMA SetEntityVisibilityKeeps ==
  ASSUME TxInv, NEW s \in Sessions, NEW u \in Users, NEW e \in EntityIds,
         NEW v \in Visibility, SetEntityVisibility(s, u, e, v)
  PROVE  TxInv'
<1> DEFINE C == Changed(u, {e}, v)
           new == [x \in C |-> [entity[x] EXCEPT !.visibility = v]]
           t == [NoWork EXCEPT !.step = AfterFlip(C, v), !.user = u,
                   !.start = e, !.v = v, !.ids = {e}, !.changed = C,
                   !.locks = C]
           w == [NoWrites EXCEPT !.entity = new]
<1>1. /\ C \in SUBSET EntityIds /\ new \in Partial(EntityIds, EntityRecords)
      /\ \A x \in C : new[x].visibility = v
  BY FlippedEntities DEF TxInv
<1>2. wrote[s] = NoWrites
  BY DEF TxInv, Consistent, Agree, SetEntityVisibility, Idle
<1>3. tx' = [tx EXCEPT ![s] = t] /\ wrote' = [wrote EXCEPT ![s] = w]
  BY <1>2 DEF TxInv, SetEntityVisibility
<1>4. AfterFlip(C, v) \in {"sync", "demote", "commit"}
      /\ (AfterFlip(C, v) # "sync" => C = {})
  BY DEF AfterFlip, AfterSync
<1>5. /\ t \in Work /\ t.locks = C /\ t.changed = C /\ t.v = v
      /\ t.step = AfterFlip(C, v)
  BY <1>1, <1>4, NoWorkTyped DEF Work, Steps, NoWork
<1>6. /\ w \in WriteSets /\ w.entity = new /\ DOMAIN w.entity = C
      /\ DOMAIN w.rel = {} /\ DOMAIN w.cites = {}
  BY <1>1, NoWritesTyped DEF WriteSets, NoWrites
<1>7. Agree(t, w)
  BY <1>1, <1>4, <1>5, <1>6 DEF Agree, Synced
<1>8. TypeOK' /\ SourcesMirrorEntity'
  BY GraphKept DEF SetEntityVisibility, TxInv
<1>9. Free(s, t.locks)
  BY <1>5 DEF SetEntityVisibility
<1> HIDE DEF t, w, new
<1> QED
  BY <1>3, <1>5, <1>6, <1>7, <1>8, <1>9, OneSessionMoves

LEMMA SearchRoundKeeps ==
  ASSUME TxInv, NEW s \in Sessions, SearchRound(s)
  PROVE  TxInv'
<1> DEFINE found == OwnedNeighbours(tx[s].user, tx[s].frontier) \ tx[s].ids
           t == [tx[s] EXCEPT !.ids = tx[s].ids \cup found, !.frontier = found]
<1>1. /\ wrote[s] = NoWrites /\ wrote' = [wrote EXCEPT ![s] = NoWrites]
      /\ tx[s] \in Work /\ tx[s].step = "search" /\ tx[s].changed = {}
      /\ tx[s].v \in Visibility
  BY NoWritesTyped DEF TxInv, Consistent, Agree, SearchRound
<1>2. found \subseteq EntityIds
  BY DEF OwnedNeighbours
<1>3. tx' = [tx EXCEPT ![s] = t]
  BY DEF TxInv, SearchRound
<1>4. /\ t \in Work /\ t.locks = tx[s].locks /\ t.changed = {}
      /\ t.step = "search" /\ t.v = tx[s].v
  BY <1>1, <1>2 DEF Work
<1>5. Agree(t, NoWrites)
  BY <1>1, <1>4, NoWritesTyped DEF Agree, Synced
<1>6. TypeOK' /\ SourcesMirrorEntity'
  BY GraphKept DEF SearchRound, vars, TxInv
<1>7. Free(s, t.locks)
  BY <1>4 DEF TxInv, Typed
<1> HIDE DEF t
<1> QED
  BY <1>1, <1>3, <1>4, <1>5, <1>6, <1>7, NoWritesTyped, OneSessionMoves


LEMMA FlipEntitiesKeeps ==
  ASSUME TxInv, NEW s \in Sessions, FlipEntities(s)
  PROVE  TxInv'
<1> DEFINE v == tx[s].v
           C == Changed(tx[s].user, tx[s].ids, v)
           new == [x \in C |-> [entity[x] EXCEPT !.visibility = v]]
           t == [tx[s] EXCEPT !.step = "flip_relationships", !.changed = C,
                   !.locks = C]
           w == [NoWrites EXCEPT !.entity = new]
<1>1. /\ wrote[s] = NoWrites /\ v \in Visibility
      /\ tx[s] \in Work /\ tx[s].ids \subseteq EntityIds
  BY DEF TxInv, Consistent, Agree, FlipEntities, Work
<1>2. /\ C \in SUBSET EntityIds /\ new \in Partial(EntityIds, EntityRecords)
      /\ \A x \in C : new[x].visibility = v
  BY <1>1, FlippedEntities DEF TxInv
<1>3. tx' = [tx EXCEPT ![s] = t] /\ wrote' = [wrote EXCEPT ![s] = w]
  BY <1>1 DEF TxInv, FlipEntities
<1>4. /\ t \in Work /\ t.locks = C /\ t.changed = C /\ t.v = v
      /\ t.step = "flip_relationships"
  BY <1>1, <1>2 DEF Work, Steps
<1>5. /\ w \in WriteSets /\ w.entity = new /\ DOMAIN w.entity = C
      /\ DOMAIN w.rel = {} /\ DOMAIN w.cites = {}
  BY <1>2, NoWritesTyped DEF WriteSets, NoWrites
<1>6. Agree(t, w)
  BY <1>1, <1>2, <1>4, <1>5 DEF Agree, Synced
<1>7. TypeOK' /\ SourcesMirrorEntity'
  BY GraphKept DEF FlipEntities, TxInv
<1>8. Free(s, t.locks)
  BY <1>4 DEF FlipEntities
<1> HIDE DEF t, w, new
<1> QED
  BY <1>3, <1>4, <1>5, <1>6, <1>7, <1>8, OneSessionMoves

-----------------------------------------------------------------------------
(* The statements that write edges.                                        *)

LEMMA RelWritesTyped ==
  ASSUME TxInv, NEW s \in Sessions, NEW new \in Partial(RelIds, RelRecords)
  PROVE  /\ RelWrites(s, new) \in Partial(RelIds, RelRecords)
         /\ DOMAIN RelWrites(s, new) = DOMAIN wrote[s].rel \cup DOMAIN new
<1> DEFINE D == DOMAIN wrote[s].rel \cup DOMAIN new
<1>1. wrote[s].rel \in Partial(RelIds, RelRecords)
  BY SessionTypes
<1>2. /\ D \in SUBSET RelIds
      /\ \A r \in DOMAIN wrote[s].rel : wrote[s].rel[r] \in RelRecords
      /\ \A r \in DOMAIN new : new[r] \in RelRecords
  BY <1>1, PartialElim
<1>3. RelWrites(s, new) \in [D -> RelRecords]
  BY <1>2 DEF RelWrites
<1> QED
  BY <1>2, <1>3, PartialIntro

\* What flip_relationships, demote_owned_edges and remove_foreign_edges have
\* in common: they lock what they write, and leave the entities alone.
LEMMA RelStatementKeeps ==
  ASSUME TxInv, NEW s \in Sessions,
         NEW new \in Partial(RelIds, RelRecords),
         NEW L \in SUBSET (EntityIds \cup RelIds), DOMAIN new \subseteq L,
         Free(s, L),
         NEW next \in Steps, next \notin {"idle", "create", "search"},
         tx[s].step \notin {"idle", "create"},
         tx[s].changed # {} => (next \in Synced <=> tx[s].step \in Synced),
         tx' = [tx EXCEPT ![s] = [tx[s] EXCEPT !.step = next,
                                     !.locks = tx[s].locks \cup L]],
         wrote' = [wrote EXCEPT ![s] = [wrote[s] EXCEPT
                                          !.rel = RelWrites(s, new)]],
         UNCHANGED vars
  PROVE  TxInv'
<1> DEFINE t == [tx[s] EXCEPT !.step = next, !.locks = tx[s].locks \cup L]
           w == [wrote[s] EXCEPT !.rel = RelWrites(s, new)]
<1>1. /\ tx[s] \in Work /\ wrote[s] \in WriteSets
      /\ Agree(tx[s], wrote[s])
      /\ DOMAIN wrote[s].entity \cup DOMAIN wrote[s].rel \subseteq tx[s].locks
      /\ Free(s, tx[s].locks)
  BY DEF TxInv, Typed, Consistent
<1>2. /\ t \in Work /\ t.locks = tx[s].locks \cup L /\ t.step = next
      /\ t.changed = tx[s].changed /\ t.v = tx[s].v
  BY <1>1 DEF Work
<1>3. /\ w \in WriteSets
      /\ w.entity = wrote[s].entity /\ w.cites = wrote[s].cites
      /\ DOMAIN w.rel = DOMAIN wrote[s].rel \cup DOMAIN new
  BY <1>1, RelWritesTyped DEF WriteSets
<1>4. Agree(t, w)
  <2>1. DOMAIN wrote[s].cites =
          IF next \in Synced THEN tx[s].changed ELSE {}
    BY <1>1 DEF Agree
  <2> HIDE DEF t, w
  <2> QED
    BY <1>1, <1>2, <1>3, <2>1 DEF Agree
<1>5. Free(s, t.locks)
  BY <1>1, <1>2 DEF Free
<1>6. DOMAIN w.entity \cup DOMAIN w.rel \subseteq t.locks
  BY <1>1, <1>2, <1>3
<1>7. TypeOK' /\ SourcesMirrorEntity'
  BY GraphKept DEF TxInv
<1>8. tx' = [tx EXCEPT ![s] = t] /\ wrote' = [wrote EXCEPT ![s] = w]
  OBVIOUS
<1> HIDE DEF t, w
<1> QED
  BY <1>2, <1>3, <1>4, <1>5, <1>6, <1>7, <1>8, OneSessionMoves

LEMMA FlipRelationshipsKeeps ==
  ASSUME TxInv, NEW s \in Sessions, FlipRelationships(s)
  PROVE  TxInv'
<1> DEFINE v == tx[s].v
           L == {r \in Rels : /\ Ends(r) \subseteq tx[s].ids
                              /\ rel[r].owner = tx[s].user
                              /\ rel[r].visibility # tx[s].v}
           new == [r \in L |-> [rel[r] EXCEPT !.visibility = v]]
           next == AfterFlip(tx[s].changed, v)
<1>1. tx[s] \in Work /\ v \in Visibility /\ tx[s].step = "flip_relationships"
  BY DEF TxInv, Consistent, Agree, FlipRelationships
<1>2. /\ next \in {"sync", "demote", "commit"}
      /\ tx[s].changed # {} => next = "sync"
  BY DEF AfterFlip, AfterSync
<1>3. new \in Partial(RelIds, RelRecords)
  <2>1. L \in SUBSET RelIds
    BY DEF Rels
  <2>2. \A r \in L : [rel[r] EXCEPT !.visibility = v] \in RelRecords
    BY <1>1, RelFields DEF TxInv, RelRecords
  <2>3. new \in [L -> RelRecords]
    BY <2>2
  <2> QED
    BY <2>1, <2>3, PartialIntro
<1>4. L \in SUBSET (EntityIds \cup RelIds) /\ DOMAIN new = L /\ Free(s, L)
  BY DEF Rels, FlipRelationships
<1>5. /\ tx' = [tx EXCEPT ![s] = [tx[s] EXCEPT !.step = next,
                                     !.locks = tx[s].locks \cup L]]
      /\ wrote' = [wrote EXCEPT ![s] = [wrote[s] EXCEPT
                                          !.rel = RelWrites(s, new)]]
      /\ UNCHANGED vars
  BY DEF TxInv, FlipRelationships
<1>6. next \in Steps /\ next \notin {"idle", "create", "search"}
      /\ (tx[s].changed # {} => (next \in Synced <=> tx[s].step \in Synced))
  BY <1>1, <1>2 DEF Steps, Synced
<1> HIDE DEF new, next, L
<1> QED
  BY <1>1, <1>3, <1>4, <1>5, <1>6, RelStatementKeeps

LEMMA IncidentFields ==
  ASSUME TxInv, NEW s \in Sessions, NEW r \in Incident(s)
  PROVE  /\ r \in RelIds
         /\ RelFor(s)[r] \in [owner : Users, from : EntityIds, to : EntityIds,
                              visibility : Visibility]
         /\ EndsOf(RelFor(s)[r]) \subseteq EntityIds
BY SessionTypes DEF Incident, RelRecords, NoRel, EndsOf

LEMMA DemoteOwnedEdgesKeeps ==
  ASSUME TxInv, NEW s \in Sessions, DemoteOwnedEdges(s)
  PROVE  TxInv'
<1> DEFINE L == {r \in Incident(s) : /\ RelFor(s)[r].owner = tx[s].user
                                     /\ RelFor(s)[r].visibility = "public"}
           new == [r \in L |-> [RelFor(s)[r] EXCEPT !.visibility = "private"]]
<1>1. L \in SUBSET RelIds
  BY DEF Incident
<1>2. new \in Partial(RelIds, RelRecords)
  <2>1. \A r \in L : [RelFor(s)[r] EXCEPT !.visibility = "private"] \in RelRecords
    BY IncidentFields DEF RelRecords, Visibility
  <2>2. new \in [L -> RelRecords]
    BY <2>1
  <2> QED
    BY <1>1, <2>2, PartialIntro
<1>3. L \in SUBSET (EntityIds \cup RelIds) /\ DOMAIN new = L /\ Free(s, L)
  BY <1>1 DEF DemoteOwnedEdges
<1>4. /\ tx' = [tx EXCEPT ![s] = [tx[s] EXCEPT !.step = "remove",
                                     !.locks = tx[s].locks \cup L]]
      /\ wrote' = [wrote EXCEPT ![s] = [wrote[s] EXCEPT
                                          !.rel = RelWrites(s, new)]]
      /\ UNCHANGED vars /\ tx[s].step = "demote"
  BY DEF TxInv, DemoteOwnedEdges
<1> HIDE DEF new, L
<1> QED
  BY <1>2, <1>3, <1>4, RelStatementKeeps DEF Steps, Synced

LEMMA RemoveForeignEdgesKeeps ==
  ASSUME TxInv, NEW s \in Sessions, RemoveForeignEdges(s)
  PROVE  TxInv'
<1> DEFINE T == {r \in Incident(s) : RelFor(s)[r].owner # tx[s].user}
           ends == UNION {EndsOf(RelFor(s)[r]) : r \in T}
           L == T \cup ends
           new == [r \in T |-> NoRel]
<1>1. T \in SUBSET RelIds /\ ends \subseteq EntityIds
  BY IncidentFields
<1>2. new \in Partial(RelIds, RelRecords)
  <2>1. new \in [T -> RelRecords]
    BY DEF RelRecords
  <2> QED
    BY <1>1, <2>1, PartialIntro
<1>3. L \in SUBSET (EntityIds \cup RelIds) /\ DOMAIN new \subseteq L /\ Free(s, L)
  BY <1>1 DEF RemoveForeignEdges
<1>4. /\ tx' = [tx EXCEPT ![s] = [tx[s] EXCEPT !.step = "commit",
                                     !.locks = (tx[s].locks \cup T) \cup ends]]
      /\ wrote' = [wrote EXCEPT ![s] = [wrote[s] EXCEPT
                                          !.rel = RelWrites(s, new)]]
      /\ UNCHANGED vars /\ tx[s].step = "remove"
  BY DEF TxInv, RemoveForeignEdges
<1>5. (tx[s].locks \cup T) \cup ends = tx[s].locks \cup L
  OBVIOUS
<1> HIDE DEF new, L, T, ends
<1> QED
  BY <1>2, <1>3, <1>4, <1>5, RelStatementKeeps DEF Steps, Synced


-----------------------------------------------------------------------------
(* The citations, and the end of a transaction.                            *)

LEMMA SyncSourcesKeeps ==
  ASSUME TxInv, NEW s \in Sessions, SyncSources(s)
  PROVE  TxInv'
<1> DEFINE C == tx[s].changed
           v == tx[s].v
           new == [e \in C |-> [url \in Urls |->
                     IF cites[e][url] = "none" THEN "none"
                     ELSE EntityFor(s)[e].visibility]]
           next == AfterSync(v)
           t == [tx[s] EXCEPT !.step = next]
           w == [wrote[s] EXCEPT !.cites = new]
<1>1. /\ tx[s] \in Work /\ wrote[s] \in WriteSets
      /\ Agree(tx[s], wrote[s]) /\ tx[s].step = "sync"
      /\ DOMAIN wrote[s].entity \cup DOMAIN wrote[s].rel \subseteq tx[s].locks
      /\ Free(s, tx[s].locks)
  BY DEF TxInv, Typed, Consistent, SyncSources
<1>2. /\ C \in SUBSET EntityIds /\ v \in Visibility
      /\ DOMAIN wrote[s].entity = C
      /\ \A e \in C : wrote[s].entity[e].visibility = v
  BY <1>1 DEF Agree, Work
<1>3. \A e \in C : EntityFor(s)[e].visibility = v
  BY <1>2 DEF EntityFor, Over, TxInv, TypeOK
<1>4. \A e \in C, url \in Urls : new[e][url] \in {"none", v}
  BY <1>3
<1>5. new \in Partial(EntityIds, CiteRecords)
  <2>1. \A e \in C : new[e] \in CiteRecords
    BY <1>2, <1>3 DEF CiteRecords
  <2>2. new \in [C -> CiteRecords]
    BY <2>1
  <2> QED
    BY <1>2, <2>2, PartialIntro
<1>6. next \in {"demote", "commit"}
  BY DEF AfterSync
<1>7. /\ t \in Work /\ t.locks = tx[s].locks /\ t.step = next
      /\ t.changed = C /\ t.v = v
  BY <1>1, <1>6 DEF Work, Steps
<1>8. /\ w \in WriteSets
      /\ w.entity = wrote[s].entity /\ w.rel = wrote[s].rel /\ w.cites = new
  BY <1>1, <1>5 DEF WriteSets
<1>9. DOMAIN new = C
  OBVIOUS
<1>10. tx' = [tx EXCEPT ![s] = t] /\ wrote' = [wrote EXCEPT ![s] = w]
  BY DEF TxInv, SyncSources
<1>11. TypeOK' /\ SourcesMirrorEntity'
  BY GraphKept DEF SyncSources, TxInv
<1> HIDE DEF t, w, new, next
<1>12. Agree(t, w)
  BY <1>1, <1>2, <1>4, <1>6, <1>7, <1>8, <1>9 DEF Agree, Synced
<1>13. DOMAIN w.entity \cup DOMAIN w.rel \subseteq t.locks /\ Free(s, t.locks)
  BY <1>1, <1>7, <1>8
<1> QED
  BY <1>7, <1>8, <1>10, <1>11, <1>12, <1>13, OneSessionMoves

\* A transaction that is over has neither locks nor writes.
LEMMA EndKeeps ==
  ASSUME TxInv, NEW s \in Sessions,
         tx' = [tx EXCEPT ![s] = NoWork],
         wrote' = [wrote EXCEPT ![s] = NoWrites],
         TypeOK', SourcesMirrorEntity'
  PROVE  TxInv'
<1>1. Agree(NoWork, NoWrites)
  BY NoWorkTyped, NoWritesTyped DEF Agree, Synced
<1>2. Free(s, NoWork.locks)
  BY NoWorkTyped DEF Free
<1> QED
  BY <1>1, <1>2, NoWorkTyped, NoWritesTyped, OneSessionMoves

\* What is committed keeps every citation in step with its entity: the entities
\* that flip and the ones whose citations were rewritten are the same.
LEMMA CommitKeeps ==
  ASSUME TxInv, NEW s \in Sessions, Commit(s)
  PROVE  TxInv'
<1>1. TypeOK'
  BY SessionTypes DEF Commit, TxInv, TypeOK, CiteRecords
<1>2. /\ wrote[s].entity \in Partial(EntityIds, EntityRecords)
      /\ wrote[s].cites \in Partial(EntityIds, CiteRecords)
      /\ Agree(tx[s], wrote[s]) /\ tx[s].step = "commit"
  BY SessionTypes DEF TxInv, Consistent, Commit
<1>3. DOMAIN wrote[s].cites = tx[s].changed /\ DOMAIN wrote[s].entity = tx[s].changed
  BY <1>2 DEF Agree, Synced
<1>4. ASSUME NEW e \in EntityIds, NEW url \in Urls, cites'[e][url] # "none"
      PROVE  cites'[e][url] = entity'[e].visibility
  <2>1. CASE e \in tx[s].changed
    <3>1. entity'[e] = wrote[s].entity[e] /\ cites'[e] = wrote[s].cites[e]
      BY <1>3, <2>1 DEF Commit, EntityFor, CitesFor, Over, TxInv, TypeOK
    <3>2. /\ wrote[s].entity[e].visibility = tx[s].v
          /\ wrote[s].cites[e][url] \in {"none", tx[s].v}
      BY <1>2, <1>3, <2>1 DEF Agree
    <3> QED
      BY <1>4, <3>1, <3>2
  <2>2. CASE e \notin tx[s].changed
    <3>1. entity'[e] = entity[e] /\ cites'[e] = cites[e]
      BY <1>3, <2>2 DEF Commit, EntityFor, CitesFor, Over, TxInv, TypeOK
    <3> QED
      BY <1>4, <3>1 DEF TxInv, SourcesMirrorEntity
  <2> QED
    BY <2>1, <2>2
<1>5. SourcesMirrorEntity'
  BY <1>4 DEF SourcesMirrorEntity
<1> QED
  BY <1>1, <1>5, EndKeeps DEF Commit

LEMMA AbortKeepsInv ==
  ASSUME TxInv, NEW s \in Sessions, Abort(s)
  PROVE  TxInv'
  BY GraphKept, EndKeeps DEF Abort, TxInv

LEMMA CreateEdgeKeeps ==
  ASSUME TxInv, NEW s \in Sessions, CreateEdge(s)
  PROVE  TxInv'
<1>1. wrote[s] = NoWrites /\ tx[s].edge \in RelRecords
  BY DEF TxInv, Consistent, Agree, CreateEdge, Work
<1>2. wrote' = [wrote EXCEPT ![s] = NoWrites]
  BY <1>1 DEF TxInv, CreateEdge
<1>3. TypeOK'
  BY <1>1 DEF TxInv, TypeOK, CreateEdge
<1>4. SourcesMirrorEntity'
  BY DEF TxInv, SourcesMirrorEntity, CreateEdge
<1> QED
  BY <1>2, <1>3, <1>4, EndKeeps DEF CreateEdge

-----------------------------------------------------------------------------
(* Single statements.                                                      *)

LEMMA StatementKeeps ==
  ASSUME TxInv, UNCHANGED <<tx, wrote>>, TypeOK', SourcesMirrorEntity'
  PROVE  TxInv'
BY DEF TxInv, Typed, Consistent, Free

LEMMA EntityStatementKeeps ==
  ASSUME TxInv, NEW s \in Sessions, EntityStatement(s)
  PROVE  TxInv'
<1> USE DEF TxInv
<1> PICK u \in Users, e \in EntityIds :
      \/ \E v \in Visibility : CreateEntity(u, e, v)
      \/ \E urls \in SUBSET Urls : AttachSources(u, e, urls)
      \/ SetEntityEmbedding(u, e)
  BY DEF EntityStatement
<1>1. UNCHANGED <<tx, wrote>>
  BY DEF EntityStatement
<1>2. CASE \E v \in Visibility : CreateEntity(u, e, v)
  <2>1. TypeOK'
    BY <1>2 DEF CreateEntity, TypeOK, EntityRecords
  <2>2. \A url \in Urls : cites[e][url] = "none"
    BY <1>2 DEF SourcesMirrorEntity, TypeOK, CreateEntity, EntityExists
  <2>3. SourcesMirrorEntity'
    BY <1>2, <2>2 DEF SourcesMirrorEntity, CreateEntity, TypeOK
  <2> QED
    BY <1>1, <2>1, <2>3, StatementKeeps
<1>3. CASE \E urls \in SUBSET Urls : AttachSources(u, e, urls)
  <2> PICK urls \in SUBSET Urls : AttachSources(u, e, urls)
    BY <1>3
  <2>1. entity[e].visibility \in Visibility
    BY EntityFields DEF AttachSources, Owns
  <2>2. TypeOK'
    BY <2>1 DEF AttachSources, TypeOK
  <2>3. SourcesMirrorEntity'
    BY DEF AttachSources, SourcesMirrorEntity, TypeOK
  <2> QED
    BY <1>1, <2>2, <2>3, StatementKeeps
<1>4. CASE SetEntityEmbedding(u, e)
  <2>1. TypeOK' /\ SourcesMirrorEntity'
    BY <1>4 DEF SetEntityEmbedding, TypeOK, SourcesMirrorEntity
  <2> QED
    BY <1>1, <2>1, StatementKeeps
<1> QED
  BY <1>2, <1>3, <1>4

LEMMA DeleteStatementKeeps ==
  ASSUME TxInv, NEW s \in Sessions, DeleteStatement(s)
  PROVE  TxInv'
<1> USE DEF TxInv
<1>1. UNCHANGED <<tx, wrote>>
  BY DEF DeleteStatement
<1>2. CASE \E u \in Users, e \in EntityIds : DeleteEntity(u, e)
  <2> PICK u \in Users, e \in EntityIds : DeleteEntity(u, e)
    BY <1>2
  <2>1. TypeOK'
    BY DEF DeleteEntity, TypeOK, EntityRecords, RelRecords, NoCites
  <2>2. SourcesMirrorEntity'
    BY DEF SourcesMirrorEntity, DeleteEntity, NoCites, TypeOK
  <2> QED
    BY <1>1, <2>1, <2>2, StatementKeeps
<1>3. CASE \E u \in Users, r \in Rels : DeleteRelationship(u, r)
  <2>1. TypeOK' /\ SourcesMirrorEntity'
    BY <1>3 DEF DeleteRelationship, TypeOK, RelRecords, SourcesMirrorEntity, Rels
  <2> QED
    BY <1>1, <2>1, StatementKeeps
<1> QED
  BY <1>2, <1>3 DEF DeleteStatement

-----------------------------------------------------------------------------

THEOREM TxInvariant == TxSpec => []TxInv
<1>1. TxInit => TxInv
  <2> SUFFICES ASSUME TxInit PROVE TxInv
    OBVIOUS
  <2>1. TypeOK /\ SourcesMirrorEntity
    BY DEF TxInit, Init, TypeOK, SourcesMirrorEntity, EntityRecords,
         RelRecords, NoCites
  <2>2. /\ tx \in [Sessions -> Work] /\ wrote \in [Sessions -> WriteSets]
        /\ \A s \in Sessions : tx[s] = NoWork /\ wrote[s] = NoWrites
    BY NoWorkTyped, NoWritesTyped DEF TxInit
  <2>3. Agree(NoWork, NoWrites)
    BY NoWorkTyped, NoWritesTyped DEF Agree, Synced
  <2>4. \A s \in Sessions : Typed(s) /\ Consistent(s)
    BY <2>2, <2>3, NoWorkTyped, NoWritesTyped DEF Typed, Consistent, Free
  <2> QED
    BY <2>1, <2>2, <2>4 DEF TxInv
<1>2. TxInv /\ [TxNext]_txVars => TxInv'
  <2> SUFFICES ASSUME TxInv, [TxNext]_txVars PROVE TxInv'
    OBVIOUS
  <2>1. CASE UNCHANGED txVars
    BY <2>1, StatementKeeps, GraphKept DEF txVars, vars, TxInv
  <2>2. ASSUME NEW s \in Sessions, Begin(s)
        PROVE  TxInv'
    <3> PICK u \in Users, a \in EntityIds, v \in Visibility :
          \/ \E b \in EntityIds : MatchEnds(s, u, a, b, v)
          \/ SetEntityVisibility(s, u, a, v)
          \/ OwnedEntityExists(s, u, a, v)
      BY <2>2 DEF Begin
    <3> QED
      BY MatchEndsKeeps, SetEntityVisibilityKeeps, OwnedEntityExistsKeeps
  <2>3. CASE TxNext
    <3> PICK s \in Sessions :
          \/ EntityStatement(s) \/ DeleteStatement(s)
          \/ Begin(s) \/ CreateEdge(s)
          \/ SearchRound(s) \/ FlipEntities(s) \/ FlipRelationships(s)
          \/ SyncSources(s) \/ DemoteOwnedEdges(s) \/ RemoveForeignEdges(s)
          \/ Commit(s) \/ Abort(s)
      BY <2>3 DEF TxNext
    <3> QED
      BY <2>2, EntityStatementKeeps, DeleteStatementKeeps, CreateEdgeKeeps,
         SearchRoundKeeps, FlipEntitiesKeeps, FlipRelationshipsKeeps,
         SyncSourcesKeeps, DemoteOwnedEdgesKeeps, RemoveForeignEdgesKeeps,
         CommitKeeps, AbortKeepsInv
  <2> QED
    BY <2>1, <2>3
<1> QED
  BY <1>1, <1>2, PTL DEF TxSpec

\* Types and locks, for any number of sessions: nothing is ever written that
\* its transaction has not locked, and no two transactions lock the same.
THEOREM TxTypes == TxSpec => []TxTypeOK
BY TxInvariant, TxInvTypes, PTL

\* A citation has its entity's visibility however many changes, citations and
\* deletes run side by side: the lock on the entity is enough for it.
THEOREM SourcesFollowTx == TxSpec => []SourcesMirrorEntity
<1>1. TxInv => SourcesMirrorEntity
  BY DEF TxInv
<1> QED
  BY <1>1, TxInvariant, PTL

-----------------------------------------------------------------------------
(* GraphTransactions with one session at a time.                          *)
OneSession == \A s, t \in Sessions : s = t

-----------------------------------------------------------------------------
(* The component.                                                          *)

LEMMA NeighboursGrow ==
  ASSUME NEW u, NEW A, NEW B, A \subseteq B
  PROVE  OwnedNeighbours(u, A) \subseteq OwnedNeighbours(u, B)
  BY DEF OwnedNeighbours

\* One more hop from inside the component stays inside it.
LEMMA ComponentIsClosed ==
  ASSUME NEW u, NEW e \in EntityIds
  PROVE  OwnedNeighbours(u, OwnedComponent(u, e)) \subseteq OwnedComponent(u, e)
<1> SUFFICES ASSUME NEW n \in OwnedNeighbours(u, OwnedComponent(u, e)),
                    NEW C \in SUBSET EntityIds,
                    e \in C, OwnedNeighbours(u, C) \subseteq C
             PROVE  n \in EntityIds /\ n \in C
  BY DEF OwnedComponent, OwnedNeighbours
<1>1. OwnedComponent(u, e) \subseteq C
  BY DEF OwnedComponent
<1>2. n \in OwnedNeighbours(u, C)
  BY <1>1, NeighboursGrow
<1> QED
  BY <1>2 DEF OwnedNeighbours

\* What a search has seen, and what of it is still to be expanded.
Searching(u, start, ids, frontier) ==
  /\ start \in ids /\ frontier \subseteq ids
  /\ ids \subseteq OwnedComponent(u, start)
  /\ OwnedNeighbours(u, ids \ frontier) \subseteq ids

LEMMA SearchStarts ==
  ASSUME NEW u, NEW e \in EntityIds, Owns(u, e)
  PROVE  Searching(u, e, {e}, {e})
<1>1. OwnedNeighbours(u, {e} \ {e}) = {}
  BY DEF OwnedNeighbours
<1> QED
  BY <1>1, ComponentIsOwned DEF Searching

LEMMA SearchGoesOn ==
  ASSUME NEW u, NEW start \in EntityIds, NEW ids, NEW frontier,
         Searching(u, start, ids, frontier),
         NEW found, found = OwnedNeighbours(u, frontier) \ ids
  PROVE  Searching(u, start, ids \cup found, found)
<1>1. found \subseteq OwnedComponent(u, start)
  <2>1. OwnedNeighbours(u, frontier)
          \subseteq OwnedNeighbours(u, OwnedComponent(u, start))
    BY NeighboursGrow DEF Searching
  <2> QED
    BY <2>1, ComponentIsClosed
<1>2. (ids \cup found) \ found = ids
  OBVIOUS
<1>3. OwnedNeighbours(u, ids) \subseteq ids \cup found
  <2>1. OwnedNeighbours(u, ids)
          \subseteq OwnedNeighbours(u, ids \ frontier) \cup OwnedNeighbours(u, frontier)
    BY DEF OwnedNeighbours
  <2> QED
    BY <2>1 DEF Searching
<1> QED
  BY <1>1, <1>2, <1>3 DEF Searching

LEMMA SearchEnds ==
  ASSUME NEW u, NEW start \in EntityIds, NEW ids, Searching(u, start, ids, {})
  PROVE  ids = OwnedComponent(u, start)
<1>1. ids \subseteq EntityIds /\ ids \subseteq OwnedComponent(u, start)
  BY DEF Searching, OwnedComponent
<1>2. OwnedNeighbours(u, ids) \subseteq ids
  <2>1. ids \ {} = ids
    OBVIOUS
  <2> QED
    BY <2>1 DEF Searching
<1>3. OwnedComponent(u, start) \subseteq ids
  BY <1>1, <1>2 DEF OwnedComponent, Searching
<1> QED
  BY <1>1, <1>3

-----------------------------------------------------------------------------
(* The invariant: how far a transaction is.                                *)

\* The edges before they are cleaned.
Base(t) == IF t.cascade THEN FlippedRels(t.user, t.ids, t.v) ELSE rel

\* The edges between demote_owned_edges and remove_foreign_edges.
Demoted(u, ids, rels) ==
  [r \in RelIds |->
     IF /\ rels[r].visibility = "public" /\ rels[r].owner = u
        /\ {rels[r].from, rels[r].to} \cap ids # {}
     THEN [rels[r] EXCEPT !.visibility = "private"]
     ELSE rels[r]]

\* The edges of the atomic step.
Result(t) == IF t.v = "private" THEN Cleaned(t.user, t.ids, Base(t)) ELSE Base(t)

\* What has been checked of an edge still holds when it is created.
EdgeMatched(t) ==
  \E a \in EntityIds, b \in EntityIds, v \in Visibility :
    /\ t.edge = [owner |-> t.user, from |-> a, to |-> b, visibility |-> v]
    /\ Visible(t.user, a) /\ Visible(t.user, b)
    /\ Owns(t.user, a) \/ Owns(t.user, b)
    /\ v = "public" => \A e \in {a, b} : entity[e].visibility = "public"

\* The change a session is making: of what, and which entities it flips.
ChangeBegun(t) ==
  /\ t.user \in Users /\ t.start \in EntityIds /\ t.v \in Visibility
  /\ Owns(t.user, t.start)

EntitiesFlipped(t, w) ==
  /\ t.frontier = {}
  /\ t.ids = IF t.cascade THEN OwnedComponent(t.user, t.start) ELSE {t.start}
  /\ t.changed = Changed(t.user, t.ids, t.v)
  /\ \A e \in t.changed : w.entity[e] = [entity[e] EXCEPT !.visibility = t.v]

CitationsSynced(t, w) ==
  \A e \in t.changed :
    w.cites[e] = [url \in Urls |-> IF cites[e][url] = "none" THEN "none" ELSE t.v]

EdgesWritten(t, rels) ==
  /\ t.step = "flip_relationships" => t.cascade /\ rels = rel
  /\ t.step \in {"sync", "demote"} => rels = Base(t)
  /\ t.step = "remove" => rels = Demoted(t.user, t.ids, Base(t))
  /\ t.step \in {"demote", "remove"} => t.v = "private"
  /\ t.step = "commit" => rels = Result(t)

Progress(t, w, rels) ==
  /\ t.step = "create" => t.user \in Users /\ ~t.cascade /\ EdgeMatched(t)
  /\ t.step \notin {"idle", "create"} => ChangeBegun(t)
  /\ t.step = "search" =>
       t.cascade /\ Searching(t.user, t.start, t.ids, t.frontier)
  /\ t.step \notin {"idle", "create", "search"} => EntitiesFlipped(t, w)
  /\ t.step \in Synced => CitationsSynced(t, w)
  /\ EdgesWritten(t, rels)

SerialInv == /\ TxInv
             /\ \A s \in Sessions : Progress(tx[s], wrote[s], RelFor(s))

-----------------------------------------------------------------------------
(* With one session, its own step is all that happens.                     *)

LEMMA SessionMoves ==
  ASSUME OneSession, SerialInv, TxInv', NEW s \in Sessions,
         Progress(tx[s], wrote[s], RelFor(s))'
  PROVE  SerialInv'
  BY DEF SerialInv, OneSession

\* What Progress says of the committed graph, as long as nobody writes to it.
LEMMA GraphStays ==
  ASSUME UNCHANGED vars, NEW u, NEW ids, NEW v, NEW e
  PROVE  /\ OwnedComponent(u, e)' = OwnedComponent(u, e)
         /\ OwnedNeighbours(u, ids)' = OwnedNeighbours(u, ids)
         /\ FlippedRels(u, ids, v)' = FlippedRels(u, ids, v)
         /\ Changed(u, ids, v)' = Changed(u, ids, v)
         /\ Owns(u, e)' = Owns(u, e)
  BY DEF vars, OwnedComponent, OwnedNeighbours, FlippedRels, Changed, Owns,
       EntityExists, Rels, RelExists, Ends

\* A transaction that is over has nothing to keep.
LEMMA NoProgress ==
  ASSUME NEW t, NEW w, NEW rels, t.step = "idle"
  PROVE  Progress(t, w, rels)
  BY DEF Progress, EdgesWritten, Synced

\* The edges before they are cleaned are of the type of the committed ones.
LEMMA BaseTyped ==
  ASSUME SerialInv, NEW s \in Sessions, tx[s].v \in Visibility
  PROVE  \A r \in RelIds : Base(tx[s])[r] \in RelRecords
<1>1. \A r \in RelIds : rel[r] \in RelRecords
  BY DEF SerialInv, TxInv, TypeOK
<1>2. \A r \in RelIds : RelExists(r) =>
        [rel[r] EXCEPT !.visibility = tx[s].v] \in RelRecords
  BY RelFields DEF SerialInv, TxInv, Rels, RelRecords
<1> QED
  BY <1>1, <1>2 DEF Base, FlippedRels

\* The same for the next state.
LEMMA IdleAfter ==
  ASSUME NEW s \in Sessions, tx'[s].step = "idle"
  PROVE  Progress(tx[s], wrote[s], RelFor(s))'
  BY DEF Progress, EdgesWritten, Synced

\* Between the first write and the commit a statement changes only the step,
\* the locks and its own writes.
LEMMA ChangeKept ==
  ASSUME SerialInv, NEW s \in Sessions, UNCHANGED vars,
         tx[s].step \notin {"idle", "create", "search"},
         tx'[s].user = tx[s].user, tx'[s].start = tx[s].start,
         tx'[s].v = tx[s].v, tx'[s].ids = tx[s].ids,
         tx'[s].frontier = tx[s].frontier, tx'[s].cascade = tx[s].cascade,
         tx'[s].changed = tx[s].changed,
         wrote'[s].entity = wrote[s].entity
  PROVE  /\ ChangeBegun(tx[s])'
         /\ EntitiesFlipped(tx[s], wrote[s])'
         /\ Base(tx[s])' = Base(tx[s])
         /\ wrote'[s].cites = wrote[s].cites /\ CitationsSynced(tx[s], wrote[s])
              => CitationsSynced(tx[s], wrote[s])'
<1>1. ChangeBegun(tx[s]) /\ EntitiesFlipped(tx[s], wrote[s])
  BY DEF SerialInv, Progress
<1>2. ChangeBegun(tx[s])'
  BY <1>1, GraphStays DEF ChangeBegun
<1>3. EntitiesFlipped(tx[s], wrote[s])'
  BY <1>1, GraphStays DEF EntitiesFlipped, vars
<1>4. Base(tx[s])' = Base(tx[s])
  BY GraphStays DEF Base, vars
<1>5. wrote'[s].cites = wrote[s].cites /\ CitationsSynced(tx[s], wrote[s])
        => CitationsSynced(tx[s], wrote[s])'
  BY DEF CitationsSynced, vars
<1> QED
  BY <1>2, <1>3, <1>4, <1>5

\* Nothing is lost while nothing happens.
LEMMA NothingMoves ==
  ASSUME SerialInv, NEW s \in Sessions, UNCHANGED vars, tx' = tx, wrote' = wrote
  PROVE  Progress(tx[s], wrote[s], RelFor(s))'
<1>1. Progress(tx[s], wrote[s], RelFor(s))
  BY DEF SerialInv
<1>2. RelFor(s)' = RelFor(s) /\ rel' = rel
  BY DEF RelFor, Over, vars
<1>3. CASE tx[s].step = "create"
  <2>1. EdgeMatched(tx[s])'
    BY <1>1, <1>3 DEF Progress, EdgeMatched, Visible, Owns, EntityExists, vars
  <2> QED
    BY <1>1, <1>3, <2>1 DEF Progress, EdgesWritten, Synced
<1>4. CASE tx[s].step = "search"
  <2>1. ChangeBegun(tx[s])'
    BY <1>1, <1>4, GraphStays DEF Progress, ChangeBegun
  <2>2. Searching(tx[s].user, tx[s].start, tx[s].ids, tx[s].frontier)'
    BY <1>1, <1>4, GraphStays DEF Progress, Searching
  <2> QED
    BY <1>1, <1>4, <2>1, <2>2 DEF Progress, EdgesWritten, Synced
<1>5. CASE tx[s].step \notin {"idle", "create", "search"}
  <2>1. /\ ChangeBegun(tx[s])' /\ EntitiesFlipped(tx[s], wrote[s])'
        /\ Base(tx[s])' = Base(tx[s])
        /\ CitationsSynced(tx[s], wrote[s]) => CitationsSynced(tx[s], wrote[s])'
    BY <1>5, ChangeKept
  <2>2. Result(tx[s])' = Result(tx[s])
    BY <2>1 DEF Result, Cleaned
  <2>3. EdgesWritten(tx[s], RelFor(s))'
    BY <1>1, <1>2, <2>1, <2>2 DEF Progress, EdgesWritten, Demoted
  <2> QED
    BY <1>1, <1>5, <2>1, <2>3 DEF Progress, Synced
<1> QED
  BY <1>3, <1>4, <1>5, IdleAfter

\* What a session reads of the edges after it wrote to some more.
LEMMA RelForWritten ==
  ASSUME TxInv, NEW s \in Sessions, NEW new \in Partial(RelIds, RelRecords),
         wrote' = [wrote EXCEPT ![s] = [wrote[s] EXCEPT !.rel = RelWrites(s, new)]],
         rel' = rel
  PROVE  RelFor(s)' = [r \in RelIds |-> IF r \in DOMAIN new THEN new[r]
                                        ELSE RelFor(s)[r]]
<1>1. wrote'[s].rel = RelWrites(s, new)
  BY DEF TxInv, WriteSets
<1>2. DOMAIN rel = RelIds
  BY DEF TxInv, TypeOK
<1>3. RelFor(s)' = Over(RelWrites(s, new), rel)
  BY <1>1 DEF RelFor, Over
<1>4. DOMAIN RelWrites(s, new) = DOMAIN wrote[s].rel \cup DOMAIN new
  BY DEF RelWrites
<1>5. \A r \in RelIds : Over(RelWrites(s, new), rel)[r] =
        IF r \in DOMAIN new THEN new[r] ELSE RelFor(s)[r]
  BY <1>2, <1>4 DEF Over, RelWrites, RelFor
<1> QED
  BY <1>2, <1>3, <1>5 DEF Over

-----------------------------------------------------------------------------
(* One lemma per statement: what it leaves written.                        *)

LEMMA MatchEndsSerial ==
  ASSUME SerialInv, NEW s \in Sessions, NEW u \in Users, NEW a \in EntityIds,
         NEW b \in EntityIds, NEW v \in Visibility, MatchEnds(s, u, a, b, v)
  PROVE  Progress(tx[s], wrote[s], RelFor(s))'
<1>1. /\ tx'[s].step = "create" /\ tx'[s].user = u /\ ~tx'[s].cascade
      /\ tx'[s].edge = [owner |-> u, from |-> a, to |-> b, visibility |-> v]
  BY DEF SerialInv, TxInv, MatchEnds, NoWork
<1>2. EdgeMatched(tx[s])'
  BY <1>1 DEF EdgeMatched, MatchEnds, Visible, Owns, EntityExists
<1> QED
  BY <1>1, <1>2 DEF Progress, EdgesWritten, Synced

LEMMA OwnedEntityExistsSerial ==
  ASSUME SerialInv, NEW s \in Sessions, NEW u \in Users, NEW e \in EntityIds,
         NEW v \in Visibility, OwnedEntityExists(s, u, e, v)
  PROVE  Progress(tx[s], wrote[s], RelFor(s))'
<1>1. /\ tx'[s].step = "search" /\ tx'[s].cascade /\ tx'[s].user = u
      /\ tx'[s].start = e /\ tx'[s].v = v
      /\ tx'[s].ids = {e} /\ tx'[s].frontier = {e}
  BY DEF SerialInv, TxInv, OwnedEntityExists, NoWork
<1>2. UNCHANGED vars /\ Owns(u, e)
  BY DEF OwnedEntityExists, vars
<1>3. ChangeBegun(tx[s])'
  BY <1>1, <1>2, GraphStays DEF ChangeBegun
<1>4. Searching(tx[s].user, tx[s].start, tx[s].ids, tx[s].frontier)'
  <2>1. Searching(u, e, {e}, {e})
    BY <1>2, SearchStarts
  <2>2. /\ OwnedComponent(u, e)' = OwnedComponent(u, e)
        /\ OwnedNeighbours(u, {e} \ {e})' = OwnedNeighbours(u, {e} \ {e})
    BY <1>2, GraphStays
  <2> QED
    BY <1>1, <2>1, <2>2 DEF Searching
<1> QED
  BY <1>1, <1>3, <1>4 DEF Progress, EdgesWritten, Synced

LEMMA SearchRoundSerial ==
  ASSUME SerialInv, NEW s \in Sessions, SearchRound(s)
  PROVE  Progress(tx[s], wrote[s], RelFor(s))'
<1> DEFINE found == OwnedNeighbours(tx[s].user, tx[s].frontier) \ tx[s].ids
<1>1. /\ tx[s].step = "search" /\ tx[s].cascade /\ ChangeBegun(tx[s])
      /\ Searching(tx[s].user, tx[s].start, tx[s].ids, tx[s].frontier)
  BY DEF SerialInv, Progress, SearchRound
<1>2. /\ tx'[s].step = tx[s].step /\ tx'[s].cascade = tx[s].cascade
      /\ tx'[s].user = tx[s].user /\ tx'[s].start = tx[s].start
      /\ tx'[s].v = tx[s].v
      /\ tx'[s].ids = tx[s].ids \cup found /\ tx'[s].frontier = found
  BY DEF SerialInv, TxInv, Work, SearchRound
<1>3. UNCHANGED vars
  BY DEF SearchRound, vars
<1>4. Searching(tx[s].user, tx[s].start, tx[s].ids \cup found, found)
  BY <1>1, SearchGoesOn DEF ChangeBegun
<1>5. Searching(tx[s].user, tx[s].start, tx[s].ids, tx[s].frontier)'
  BY <1>2, <1>3, <1>4, GraphStays DEF Searching
<1>6. ChangeBegun(tx[s])'
  BY <1>1, <1>2, <1>3, GraphStays DEF ChangeBegun
<1> QED
  BY <1>1, <1>2, <1>5, <1>6 DEF Progress, EdgesWritten, Synced

LEMMA SetEntityVisibilitySerial ==
  ASSUME SerialInv, NEW s \in Sessions, NEW u \in Users, NEW e \in EntityIds,
         NEW v \in Visibility, SetEntityVisibility(s, u, e, v)
  PROVE  Progress(tx[s], wrote[s], RelFor(s))'
<1> DEFINE C == Changed(u, {e}, v)
           new == [x \in C |-> [entity[x] EXCEPT !.visibility = v]]
<1>1. /\ tx'[s].step = AfterFlip(C, v) /\ ~tx'[s].cascade /\ tx'[s].user = u
      /\ tx'[s].start = e /\ tx'[s].v = v /\ tx'[s].ids = {e}
      /\ tx'[s].frontier = {} /\ tx'[s].changed = C
  BY DEF SerialInv, TxInv, SetEntityVisibility, NoWork
<1>2. wrote[s] = NoWrites
  BY DEF SerialInv, TxInv, Consistent, Agree, SetEntityVisibility, Idle
<1>3. wrote'[s].entity = new /\ wrote'[s].rel = wrote[s].rel
  BY DEF SerialInv, TxInv, WriteSets, SetEntityVisibility
<1>4. UNCHANGED vars /\ Owns(u, e)
  BY DEF SetEntityVisibility
<1>5. ChangeBegun(tx[s])'
  BY <1>1, <1>4, GraphStays DEF ChangeBegun
<1>6. EntitiesFlipped(tx[s], wrote[s])'
  <2>1. Changed(u, {e}, v)' = C
    BY <1>4, GraphStays
  <2>2. entity' = entity
    BY <1>4 DEF vars
  <2> QED
    BY <1>1, <1>3, <2>1, <2>2 DEF EntitiesFlipped
<1>7. RelFor(s)' = rel /\ Base(tx[s])' = rel
  <2>1. DOMAIN wrote'[s].rel = {} /\ rel' = rel
    BY <1>2, <1>3, <1>4, NoWritesTyped DEF vars
  <2>2. RelFor(s)' = [r \in DOMAIN rel |-> rel[r]]
    BY <2>1 DEF RelFor, Over
  <2> QED
    BY <1>1, <2>1, <2>2 DEF Base, SerialInv, TxInv, TypeOK
<1>8. /\ AfterFlip(C, v) \in {"sync", "demote", "commit"}
      /\ AfterFlip(C, v) # "sync" => C = {}
      /\ AfterFlip(C, v) = "demote" => v = "private"
      /\ AfterFlip(C, v) = "commit" => v # "private"
  BY DEF AfterFlip, AfterSync
<1>9. EdgesWritten(tx[s], RelFor(s))'
  BY <1>1, <1>7, <1>8 DEF EdgesWritten, Result
<1>10. tx'[s].step \in Synced => CitationsSynced(tx[s], wrote[s])'
  BY <1>1, <1>8 DEF CitationsSynced, Synced
<1> QED
  BY <1>1, <1>5, <1>6, <1>8, <1>9, <1>10 DEF Progress

LEMMA FlipEntitiesSerial ==
  ASSUME SerialInv, NEW s \in Sessions, FlipEntities(s)
  PROVE  Progress(tx[s], wrote[s], RelFor(s))'
<1> DEFINE C == Changed(tx[s].user, tx[s].ids, tx[s].v)
           new == [x \in C |-> [entity[x] EXCEPT !.visibility = tx[s].v]]
<1>1. /\ tx[s].step = "search" /\ tx[s].cascade /\ ChangeBegun(tx[s])
      /\ Searching(tx[s].user, tx[s].start, tx[s].ids, {})
  BY DEF SerialInv, Progress, FlipEntities
<1>2. /\ tx'[s].step = "flip_relationships" /\ tx'[s].cascade
      /\ tx'[s].user = tx[s].user /\ tx'[s].start = tx[s].start
      /\ tx'[s].v = tx[s].v /\ tx'[s].ids = tx[s].ids
      /\ tx'[s].frontier = {} /\ tx'[s].changed = C
  BY <1>1 DEF SerialInv, TxInv, Work, FlipEntities
<1>3. wrote[s] = NoWrites
  BY <1>1 DEF SerialInv, TxInv, Consistent, Agree
<1>4. wrote'[s].entity = new /\ wrote'[s].rel = wrote[s].rel
  BY DEF SerialInv, TxInv, WriteSets, FlipEntities
<1>5. UNCHANGED vars
  BY DEF FlipEntities
<1>6. ChangeBegun(tx[s])'
  BY <1>1, <1>2, <1>5, GraphStays DEF ChangeBegun
<1>7. tx[s].ids = OwnedComponent(tx[s].user, tx[s].start)
  BY <1>1, SearchEnds DEF ChangeBegun
<1>8. EntitiesFlipped(tx[s], wrote[s])'
  <2>1. /\ Changed(tx[s].user, tx[s].ids, tx[s].v)' = C
        /\ OwnedComponent(tx[s].user, tx[s].start)' = tx[s].ids
    BY <1>2, <1>5, <1>7, GraphStays
  <2>2. entity' = entity
    BY <1>5 DEF vars
  <2> QED
    BY <1>2, <1>4, <2>1, <2>2 DEF EntitiesFlipped
<1>9. RelFor(s)' = rel'
  <2>1. DOMAIN wrote'[s].rel = {} /\ rel' = rel
    BY <1>3, <1>4, <1>5, NoWritesTyped DEF vars
  <2>2. RelFor(s)' = [r \in DOMAIN rel |-> rel[r]]
    BY <2>1 DEF RelFor, Over
  <2> QED
    BY <2>1, <2>2 DEF SerialInv, TxInv, TypeOK
<1> QED
  BY <1>2, <1>6, <1>8, <1>9 DEF Progress, EdgesWritten, Synced

LEMMA FlipRelationshipsSerial ==
  ASSUME SerialInv, TxInv', NEW s \in Sessions, FlipRelationships(s)
  PROVE  Progress(tx[s], wrote[s], RelFor(s))'
<1> DEFINE t == tx[s]
           L == {r \in Rels : /\ Ends(r) \subseteq tx[s].ids
                              /\ rel[r].owner = tx[s].user
                              /\ rel[r].visibility # tx[s].v}
           new == [r \in L |-> [rel[r] EXCEPT !.visibility = tx[s].v]]
<1>1. /\ t.step = "flip_relationships" /\ ChangeBegun(t)
      /\ t.cascade /\ RelFor(s) = rel /\ UNCHANGED vars
  BY DEF SerialInv, Progress, EdgesWritten, FlipRelationships
<1> DEFINE next == AfterFlip(t.changed, t.v)
<1>2. /\ tx'[s].step = next
      /\ tx'[s].user = t.user /\ tx'[s].start = t.start
      /\ tx'[s].v = t.v /\ tx'[s].ids = t.ids
      /\ tx'[s].frontier = t.frontier /\ tx'[s].cascade = t.cascade
      /\ tx'[s].changed = t.changed
  <2>1. tx' = [tx EXCEPT ![s] = [tx[s] EXCEPT !.step = next,
                                     !.locks = tx[s].locks \cup L]]
    BY DEF SerialInv, TxInv, FlipRelationships
  <2>2. tx \in [Sessions -> Work]
    BY DEF SerialInv, TxInv
  <2> HIDE DEF next, L
  <2> QED
    BY <2>1, <2>2 DEF Work
<1>3. /\ wrote' = [wrote EXCEPT ![s] = [wrote[s] EXCEPT !.rel = RelWrites(s, new)]]
      /\ wrote'[s].entity = wrote[s].entity
  BY DEF SerialInv, TxInv, WriteSets, FlipRelationships
<1>4. /\ ChangeBegun(tx[s])' /\ EntitiesFlipped(tx[s], wrote[s])'
      /\ Base(tx[s])' = Base(t)
  BY <1>1, <1>2, <1>3, ChangeKept
<1>5. RelFor(s)' = Base(t)
  <2>1. L \in SUBSET RelIds
    BY DEF Rels
  <2>2. \A r \in L : [rel[r] EXCEPT !.visibility = t.v] \in RelRecords
    BY <1>1, RelFields DEF SerialInv, TxInv, RelRecords, ChangeBegun
  <2>3. new \in Partial(RelIds, RelRecords)
    <3>1. new \in [L -> RelRecords]
      BY <2>2
    <3> QED
      BY <2>1, <3>1, PartialIntro
  <2>4. RelFor(s)' = [r \in RelIds |-> IF r \in L THEN new[r] ELSE rel[r]]
    <3>1. DOMAIN new = L /\ rel' = rel
      BY <1>1 DEF vars
    <3> HIDE DEF new, L
    <3>2. RelFor(s)' = [r \in RelIds |-> IF r \in DOMAIN new THEN new[r]
                                         ELSE RelFor(s)[r]]
      BY <1>3, <2>3, <3>1, RelForWritten DEF SerialInv
    <3> QED
      BY <1>1, <3>1, <3>2
  <2>5. ASSUME NEW r \in RelIds
        PROVE  (IF r \in L THEN new[r] ELSE rel[r])
                 = IF RelExists(r) /\ Ends(r) \subseteq t.ids /\ rel[r].owner = t.user
                   THEN [rel[r] EXCEPT !.visibility = t.v] ELSE rel[r]
    <3>1. CASE r \in L
      BY <3>1 DEF Rels
    <3>2. CASE r \notin L /\ r \in Rels /\ rel[r].visibility = t.v
      <4>1. [rel[r] EXCEPT !.visibility = t.v] = rel[r]
        BY <3>2, RelFields DEF SerialInv, TxInv
      <4> QED
        BY <3>2, <4>1
    <3>3. CASE r \notin L /\ ~(r \in Rels /\ rel[r].visibility = t.v)
      BY <3>3 DEF Rels
    <3> QED
      BY <3>1, <3>2, <3>3
  <2> QED
    BY <1>1, <2>4, <2>5 DEF Base, FlippedRels
<1>6. /\ AfterFlip(t.changed, t.v) \in {"sync", "demote", "commit"}
      /\ AfterFlip(t.changed, t.v) # "sync" => t.changed = {}
      /\ AfterFlip(t.changed, t.v) = "demote" => t.v = "private"
      /\ AfterFlip(t.changed, t.v) = "commit" => t.v # "private"
  BY DEF AfterFlip, AfterSync
<1>7. EdgesWritten(tx[s], RelFor(s))'
  BY <1>2, <1>4, <1>5, <1>6 DEF EdgesWritten, Result
<1>8. tx'[s].step \in Synced => CitationsSynced(tx[s], wrote[s])'
  BY <1>2, <1>6 DEF CitationsSynced, Synced
<1> QED
  BY <1>2, <1>4, <1>6, <1>7, <1>8 DEF Progress

LEMMA SyncSourcesSerial ==
  ASSUME SerialInv, NEW s \in Sessions, SyncSources(s)
  PROVE  Progress(tx[s], wrote[s], RelFor(s))'
<1> DEFINE t == tx[s]
           new == [e \in t.changed |-> [url \in Urls |->
                     IF cites[e][url] = "none" THEN "none"
                     ELSE EntityFor(s)[e].visibility]]
<1>1. /\ t.step = "sync" /\ ChangeBegun(t) /\ EntitiesFlipped(t, wrote[s])
      /\ RelFor(s) = Base(t) /\ UNCHANGED vars
  BY DEF SerialInv, Progress, EdgesWritten, SyncSources, Synced
<1>2. /\ tx'[s].step = AfterSync(t.v)
      /\ tx'[s].user = t.user /\ tx'[s].start = t.start
      /\ tx'[s].v = t.v /\ tx'[s].ids = t.ids
      /\ tx'[s].frontier = t.frontier /\ tx'[s].cascade = t.cascade
      /\ tx'[s].changed = t.changed
  BY DEF SerialInv, TxInv, Work, SyncSources
<1>3. /\ wrote'[s].entity = wrote[s].entity /\ wrote'[s].rel = wrote[s].rel
      /\ wrote'[s].cites = new
  BY DEF SerialInv, TxInv, WriteSets, SyncSources
<1>4. /\ ChangeBegun(tx[s])' /\ EntitiesFlipped(tx[s], wrote[s])'
      /\ Base(tx[s])' = Base(t)
  BY <1>1, <1>2, <1>3, ChangeKept
<1>5. RelFor(s)' = Base(t)
  BY <1>1, <1>3 DEF RelFor, Over, vars
<1>6. CitationsSynced(tx[s], wrote[s])'
  <2>1. Agree(t, wrote[s]) /\ t.changed \subseteq EntityIds
    BY DEF SerialInv, TxInv, Consistent, Work
  <2>2. \A e \in t.changed : EntityFor(s)[e].visibility = t.v
    BY <2>1 DEF Agree, EntityFor, Over, SerialInv, TxInv, TypeOK
  <2>3. cites' = cites
    BY <1>1 DEF vars
  <2> QED
    BY <1>2, <1>3, <2>2, <2>3 DEF CitationsSynced
<1>7. /\ AfterSync(t.v) \in {"demote", "commit"}
      /\ AfterSync(t.v) = "demote" => t.v = "private"
      /\ AfterSync(t.v) = "commit" => t.v # "private"
  BY DEF AfterSync
<1>8. EdgesWritten(tx[s], RelFor(s))'
  BY <1>2, <1>4, <1>5, <1>7 DEF EdgesWritten, Result
<1> QED
  BY <1>2, <1>4, <1>6, <1>7, <1>8 DEF Progress

LEMMA DemoteOwnedEdgesSerial ==
  ASSUME SerialInv, NEW s \in Sessions, DemoteOwnedEdges(s)
  PROVE  Progress(tx[s], wrote[s], RelFor(s))'
<1> DEFINE t == tx[s]
           L == {r \in Incident(s) : /\ RelFor(s)[r].owner = tx[s].user
                                     /\ RelFor(s)[r].visibility = "public"}
           new == [r \in L |-> [RelFor(s)[r] EXCEPT !.visibility = "private"]]
<1>1. /\ t.step = "demote" /\ ChangeBegun(t) /\ EntitiesFlipped(t, wrote[s])
      /\ CitationsSynced(t, wrote[s]) /\ t.v = "private"
      /\ RelFor(s) = Base(t) /\ UNCHANGED vars
  BY DEF SerialInv, Progress, EdgesWritten, DemoteOwnedEdges, Synced
<1>2. /\ tx'[s].step = "remove"
      /\ tx'[s].user = t.user /\ tx'[s].start = t.start
      /\ tx'[s].v = t.v /\ tx'[s].ids = t.ids
      /\ tx'[s].frontier = t.frontier /\ tx'[s].cascade = t.cascade
      /\ tx'[s].changed = t.changed
      /\ wrote' = [wrote EXCEPT ![s] = [wrote[s] EXCEPT !.rel = RelWrites(s, new)]]
  BY DEF SerialInv, TxInv, Work, DemoteOwnedEdges
<1>3. wrote'[s].entity = wrote[s].entity /\ wrote'[s].cites = wrote[s].cites
  BY <1>2 DEF SerialInv, TxInv, WriteSets
<1>4. /\ ChangeBegun(tx[s])' /\ EntitiesFlipped(tx[s], wrote[s])'
      /\ CitationsSynced(tx[s], wrote[s])' /\ Base(tx[s])' = Base(t)
  BY <1>1, <1>2, <1>3, ChangeKept
<1>5. RelFor(s)' = [r \in RelIds |-> IF r \in L THEN new[r] ELSE RelFor(s)[r]]
  <2>1. \A r \in L : [RelFor(s)[r] EXCEPT !.visibility = "private"] \in RelRecords
    BY IncidentFields DEF SerialInv, RelRecords, Visibility
  <2>2. L \in SUBSET RelIds /\ new \in [L -> RelRecords]
    BY <2>1 DEF Incident
  <2>3. new \in Partial(RelIds, RelRecords)
    BY <2>2, PartialIntro
  <2>4. DOMAIN new = L /\ rel' = rel
    BY <1>1 DEF vars
  <2> HIDE DEF new, L
  <2>5. RelFor(s)' = [r \in RelIds |-> IF r \in DOMAIN new THEN new[r]
                                       ELSE RelFor(s)[r]]
    BY <1>2, <2>3, <2>4, RelForWritten DEF SerialInv
  <2> QED
    BY <2>4, <2>5
<1>6. RelFor(s)' = Demoted(t.user, t.ids, Base(t))
  <2>1. \A r \in RelIds :
          r \in L <=> /\ Base(t)[r].visibility = "public"
                      /\ Base(t)[r].owner = t.user
                      /\ {Base(t)[r].from, Base(t)[r].to} \cap t.ids # {}
    BY <1>1 DEF Incident, EndsOf
  <2>2. \A r \in L : new[r] = [Base(t)[r] EXCEPT !.visibility = "private"]
    BY <1>1
  <2> HIDE DEF new, L
  <2> QED
    BY <1>1, <1>5, <2>1, <2>2 DEF Demoted
<1>7. EdgesWritten(tx[s], RelFor(s))'
  BY <1>1, <1>2, <1>4, <1>6 DEF EdgesWritten
<1> QED
  BY <1>2, <1>4, <1>7 DEF Progress, Synced

LEMMA RemoveForeignEdgesSerial ==
  ASSUME SerialInv, NEW s \in Sessions, RemoveForeignEdges(s)
  PROVE  Progress(tx[s], wrote[s], RelFor(s))'
<1> DEFINE t == tx[s]
           T == {r \in Incident(s) : RelFor(s)[r].owner # tx[s].user}
           new == [r \in T |-> NoRel]
           B == Base(t)
<1>1. /\ t.step = "remove" /\ ChangeBegun(t) /\ EntitiesFlipped(t, wrote[s])
      /\ CitationsSynced(t, wrote[s]) /\ t.v = "private"
      /\ RelFor(s) = Demoted(t.user, t.ids, B) /\ UNCHANGED vars
  BY DEF SerialInv, Progress, EdgesWritten, RemoveForeignEdges, Synced
<1>2. /\ tx'[s].step = "commit"
      /\ tx'[s].user = t.user /\ tx'[s].start = t.start
      /\ tx'[s].v = t.v /\ tx'[s].ids = t.ids
      /\ tx'[s].frontier = t.frontier /\ tx'[s].cascade = t.cascade
      /\ tx'[s].changed = t.changed
      /\ wrote' = [wrote EXCEPT ![s] = [wrote[s] EXCEPT !.rel = RelWrites(s, new)]]
  BY DEF SerialInv, TxInv, Work, RemoveForeignEdges
<1>3. wrote'[s].entity = wrote[s].entity /\ wrote'[s].cites = wrote[s].cites
  BY <1>2 DEF SerialInv, TxInv, WriteSets
<1>4. /\ ChangeBegun(tx[s])' /\ EntitiesFlipped(tx[s], wrote[s])'
      /\ CitationsSynced(tx[s], wrote[s])' /\ Base(tx[s])' = B
  BY <1>1, <1>2, <1>3, ChangeKept
<1>5. RelFor(s)' = [r \in RelIds |-> IF r \in T THEN NoRel ELSE RelFor(s)[r]]
  <2>1. T \in SUBSET RelIds /\ new \in [T -> RelRecords]
    BY DEF Incident, RelRecords
  <2>2. new \in Partial(RelIds, RelRecords)
    BY <2>1, PartialIntro
  <2>3. DOMAIN new = T /\ (\A r \in T : new[r] = NoRel) /\ rel' = rel
    BY <1>1 DEF vars
  <2> HIDE DEF new, T
  <2>4. RelFor(s)' = [r \in RelIds |-> IF r \in DOMAIN new THEN new[r]
                                       ELSE RelFor(s)[r]]
    BY <1>2, <2>2, <2>3, RelForWritten DEF SerialInv
  <2> QED
    BY <2>3, <2>4
<1>6. ASSUME NEW r \in RelIds
      PROVE  (IF r \in T THEN NoRel ELSE RelFor(s)[r]) = Cleaned(t.user, t.ids, B)[r]
  <2>1. B[r] \in RelRecords
    BY <1>1, BaseTyped DEF ChangeBegun
  <2>2. RelFor(s)[r] =
          IF /\ B[r].visibility = "public" /\ B[r].owner = t.user
             /\ {B[r].from, B[r].to} \cap t.ids # {}
          THEN [B[r] EXCEPT !.visibility = "private"] ELSE B[r]
    BY <1>1 DEF Demoted
  <2>3. Cleaned(t.user, t.ids, B)[r] =
          IF B[r].visibility = "none" \/ {B[r].from, B[r].to} \cap t.ids = {}
          THEN B[r]
          ELSE IF B[r].owner = t.user THEN [B[r] EXCEPT !.visibility = "private"]
          ELSE NoRel
    BY DEF Cleaned
  <2>4. r \in T <=> /\ RelFor(s)[r].visibility # "none"
                    /\ {RelFor(s)[r].from, RelFor(s)[r].to} \cap t.ids # {}
                    /\ RelFor(s)[r].owner # t.user
    BY DEF Incident, EndsOf
  <2> HIDE DEF B, T
  <2>5. CASE B[r].visibility = "none" \/ {B[r].from, B[r].to} \cap t.ids = {}
    BY <2>2, <2>3, <2>4, <2>5
  <2>6. CASE /\ B[r].visibility # "none" /\ {B[r].from, B[r].to} \cap t.ids # {}
             /\ B[r].owner # t.user
    BY <2>2, <2>3, <2>4, <2>6
  <2>7. CASE /\ B[r].visibility # "none" /\ {B[r].from, B[r].to} \cap t.ids # {}
             /\ B[r].owner = t.user
    <3>1. B[r] \in [owner : Users, from : EntityIds, to : EntityIds,
                    visibility : Visibility]
      BY <2>1, <2>7 DEF RelRecords, NoRel
    <3>2. B[r].visibility = "private" => [B[r] EXCEPT !.visibility = "private"] = B[r]
      BY <3>1
    <3>3. RelFor(s)[r] = [B[r] EXCEPT !.visibility = "private"]
      BY <2>2, <2>7, <3>1, <3>2 DEF Visibility
    <3>4. RelFor(s)[r].owner = t.user
      BY <2>7, <3>1, <3>3
    <3> QED
      BY <2>3, <2>4, <2>7, <3>3, <3>4
  <2> QED
    BY <2>5, <2>6, <2>7
<1>7. RelFor(s)' = Cleaned(t.user, t.ids, B)
  BY <1>5, <1>6 DEF Cleaned
<1>8. Result(tx[s])' = Cleaned(t.user, t.ids, B)
  BY <1>1, <1>2, <1>4 DEF Result, Cleaned
<1>9. EdgesWritten(tx[s], RelFor(s))'
  BY <1>2, <1>7, <1>8 DEF EdgesWritten
<1> QED
  BY <1>2, <1>4, <1>9 DEF Progress, Synced

-----------------------------------------------------------------------------
(* The statements add up.                                                  *)

\* What is committed is what KnowledgeGraph does in one step.
LEMMA CommitIsAtomic ==
  ASSUME SerialInv, NEW s \in Sessions, Commit(s)
  PROVE  \E u \in Users : Act(u)
<1> DEFINE t == tx[s]
<1>1. /\ t.step = "commit" /\ ChangeBegun(t) /\ EntitiesFlipped(t, wrote[s])
      /\ CitationsSynced(t, wrote[s]) /\ RelFor(s) = Result(t)
      /\ Agree(t, wrote[s])
  BY DEF SerialInv, TxInv, Consistent, Progress, EdgesWritten, Commit, Synced
<1>2. DOMAIN wrote[s].entity = t.changed /\ DOMAIN wrote[s].cites = t.changed
  BY <1>1 DEF Agree, Synced
<1>3. t.changed = Changed(t.user, t.ids, t.v)
  BY <1>1 DEF EntitiesFlipped
<1>4. entity' = Flipped(t.user, t.ids, t.v)
  <2>1. entity' = [e \in EntityIds |-> IF e \in t.changed THEN wrote[s].entity[e]
                                       ELSE entity[e]]
    BY <1>2 DEF Commit, EntityFor, Over, SerialInv, TxInv, TypeOK
  <2>2. ASSUME NEW e \in EntityIds
        PROVE  (IF e \in t.changed THEN wrote[s].entity[e] ELSE entity[e])
                 = IF e \in t.ids /\ Owns(t.user, e)
                   THEN [entity[e] EXCEPT !.visibility = t.v] ELSE entity[e]
    <3>1. CASE e \in t.changed
      BY <1>1, <1>3, <3>1 DEF EntitiesFlipped, Changed
    <3>2. CASE e \notin t.changed /\ e \in t.ids /\ Owns(t.user, e)
      <4>1. entity[e] \in [owner : Users, visibility : Visibility]
        BY <3>2, EntityFields DEF Owns, SerialInv, TxInv
      <4>2. entity[e].visibility = t.v
        BY <1>3, <3>2 DEF Changed
      <4> QED
        BY <3>2, <4>1, <4>2
    <3>3. CASE e \notin t.changed /\ ~(e \in t.ids /\ Owns(t.user, e))
      BY <3>3
    <3> QED
      BY <3>1, <3>2, <3>3
  <2> QED
    BY <2>1, <2>2 DEF Flipped
<1>5. cites' = SyncedSources(t.user, Changed(t.user, t.ids, t.v), t.v)
  <2>1. cites' = [e \in EntityIds |-> IF e \in t.changed THEN wrote[s].cites[e]
                                      ELSE cites[e]]
    BY <1>2 DEF Commit, CitesFor, Over, SerialInv, TxInv, TypeOK
  <2>2. \A e \in t.changed : Owns(t.user, e)
    BY <1>3 DEF Changed
  <2> QED
    BY <1>1, <1>3, <2>1, <2>2 DEF SyncedSources, CitationsSynced
<1>6. rel' = Result(t) /\ UNCHANGED embedded
  BY <1>1 DEF Commit
<1>7. CASE t.cascade
  <2>1. t.ids = OwnedComponent(t.user, t.start)
    BY <1>1, <1>7 DEF EntitiesFlipped
  <2>2. Result(t) = IF t.v = "private"
                    THEN Cleaned(t.user, t.ids, FlippedRels(t.user, t.ids, t.v))
                    ELSE FlippedRels(t.user, t.ids, t.v)
    BY <1>7 DEF Result, Base
  <2>3. CascadeVisibility(t.user, t.start, t.v)
    BY <1>1, <1>4, <1>5, <1>6, <2>1, <2>2 DEF CascadeVisibility, ChangeBegun
  <2> QED
    BY <1>1, <2>3 DEF Act, VisibilityStep, ChangeBegun
<1>8. CASE ~t.cascade
  <2>1. t.ids = {t.start}
    BY <1>1, <1>8 DEF EntitiesFlipped
  <2>2. Result(t) = IF t.v = "private" THEN Cleaned(t.user, t.ids, rel) ELSE rel
    BY <1>8 DEF Result, Base
  <2>3. SetVisibility(t.user, t.start, t.v)
    BY <1>1, <1>4, <1>5, <1>6, <2>1, <2>2 DEF SetVisibility, ChangeBegun
  <2> QED
    BY <1>1, <2>3 DEF Act, VisibilityStep, ChangeBegun
<1> QED
  BY <1>7, <1>8

\* An edge is created under the conditions its ends were matched under.
LEMMA CreateIsAtomic ==
  ASSUME SerialInv, NEW s \in Sessions, CreateEdge(s)
  PROVE  \E u \in Users : Act(u)
<1> DEFINE t == tx[s]
<1>1. t.user \in Users /\ EdgeMatched(t)
  BY DEF SerialInv, Progress, CreateEdge
<1>2. PICK a \in EntityIds, b \in EntityIds, v \in Visibility :
        /\ t.edge = [owner |-> t.user, from |-> a, to |-> b, visibility |-> v]
        /\ Visible(t.user, a) /\ Visible(t.user, b)
        /\ Owns(t.user, a) \/ Owns(t.user, b)
        /\ v = "public" => \A e \in {a, b} : entity[e].visibility = "public"
  BY <1>1 DEF EdgeMatched
<1>3. PICK r \in RelIds \ Rels : rel' = [rel EXCEPT ![r] = t.edge]
  BY DEF CreateEdge
<1>4. CreateRelationship(t.user, r, a, b, v)
  BY <1>2, <1>3 DEF CreateRelationship, CreateEdge, Rels
<1> QED
  BY <1>1, <1>4 DEF Act, RelStep

LEMMA StatementIsAtomic ==
  ASSUME NEW s \in Sessions, EntityStatement(s) \/ DeleteStatement(s)
  PROVE  \E u \in Users : Act(u)
  BY DEF EntityStatement, DeleteStatement, Act, EntityStep, RelStep, Rels

\* Every step of a session keeps the invariant, and is a step of the graph or
\* leaves it as it is.
LEMMA SerialStep ==
  ASSUME OneSession, SerialInv, TxInv', TxNext
  PROVE  SerialInv' /\ [Next]_vars
<1> PICK s \in Sessions :
      \/ EntityStatement(s) \/ DeleteStatement(s)
      \/ Begin(s) \/ CreateEdge(s)
      \/ SearchRound(s) \/ FlipEntities(s) \/ FlipRelationships(s)
      \/ SyncSources(s) \/ DemoteOwnedEdges(s) \/ RemoveForeignEdges(s)
      \/ Commit(s) \/ Abort(s)
  BY DEF TxNext
<1>1. CASE EntityStatement(s) \/ DeleteStatement(s)
  <2>1. tx'[s].step = "idle"
    BY <1>1 DEF EntityStatement, DeleteStatement, Idle
  <2> QED
    BY <1>1, <2>1, IdleAfter, SessionMoves, StatementIsAtomic DEF Next
<1>2. CASE CreateEdge(s) \/ Commit(s)
  <2>1. tx'[s].step = "idle"
    BY <1>2, NoWorkTyped DEF CreateEdge, Commit, SerialInv, TxInv
  <2> QED
    BY <1>2, <2>1, IdleAfter, SessionMoves, CreateIsAtomic, CommitIsAtomic DEF Next
<1>3. CASE Abort(s)
  <2>1. tx'[s].step = "idle"
    BY <1>3, NoWorkTyped DEF Abort, SerialInv, TxInv
  <2> QED
    BY <1>3, <2>1, IdleAfter, SessionMoves DEF Abort
<1>4. CASE Begin(s)
  <2> PICK u \in Users, a \in EntityIds, v \in Visibility :
        \/ \E b \in EntityIds : MatchEnds(s, u, a, b, v)
        \/ SetEntityVisibility(s, u, a, v)
        \/ OwnedEntityExists(s, u, a, v)
    BY <1>4 DEF Begin
  <2>1. Progress(tx[s], wrote[s], RelFor(s))'
    BY MatchEndsSerial, SetEntityVisibilitySerial, OwnedEntityExistsSerial
  <2>2. UNCHANGED vars
    BY DEF MatchEnds, SetEntityVisibility, OwnedEntityExists, vars
  <2> QED
    BY <2>1, <2>2, SessionMoves
<1>5. CASE \/ SearchRound(s) \/ FlipEntities(s) \/ FlipRelationships(s)
           \/ SyncSources(s) \/ DemoteOwnedEdges(s) \/ RemoveForeignEdges(s)
  <2>1. Progress(tx[s], wrote[s], RelFor(s))'
    BY <1>5, SearchRoundSerial, FlipEntitiesSerial, FlipRelationshipsSerial,
       SyncSourcesSerial, DemoteOwnedEdgesSerial, RemoveForeignEdgesSerial
  <2>2. UNCHANGED vars
    BY <1>5 DEF SearchRound, FlipEntities, FlipRelationships, SyncSources,
         DemoteOwnedEdges, RemoveForeignEdges, vars
  <2> QED
    BY <2>1, <2>2, SessionMoves
<1> QED
  BY <1>1, <1>2, <1>3, <1>4, <1>5

-----------------------------------------------------------------------------

THEOREM SerialInvariant ==
  ASSUME OneSession PROVE TxSpec => []SerialInv
<1>1. TxInit /\ TxInv => SerialInv
  BY NoProgress, NoWorkTyped DEF TxInit, SerialInv
<1>2. SerialInv /\ TxInv' /\ [TxNext]_txVars => SerialInv'
  <2> SUFFICES ASSUME SerialInv, TxInv', [TxNext]_txVars PROVE SerialInv'
    OBVIOUS
  <2>1. CASE TxNext
    BY <2>1, SerialStep
  <2>2. CASE UNCHANGED txVars
    <3>1. UNCHANGED vars /\ tx' = tx /\ wrote' = wrote
      BY <2>2 DEF txVars, vars
    <3> SUFFICES ASSUME NEW s \in Sessions
                 PROVE  Progress(tx[s], wrote[s], RelFor(s))'
      BY DEF SerialInv
    <3> QED
      BY <3>1, NothingMoves
  <2> QED
    BY <2>1, <2>2
<1> QED
  BY <1>1, <1>2, TxInvariant, PTL DEF TxSpec

\* _owned_component finds all of the caller's connected sub-graph: when its
\* loop ends, nothing in the component is left out, and nothing else is in.
THEOREM SearchIsComplete ==
  ASSUME OneSession PROVE TxSpec => []SearchFindsComponent
<1>1. SerialInv => SearchFindsComponent
  <2> SUFFICES ASSUME SerialInv, NEW s \in Sessions,
                      tx[s].cascade, tx[s].frontier = {}
               PROVE  tx[s].ids = OwnedComponent(tx[s].user, tx[s].start)
    BY DEF SearchFindsComponent
  <2>1. tx[s].step = "search" =>
          tx[s].ids = OwnedComponent(tx[s].user, tx[s].start)
    BY SearchEnds DEF SerialInv, Progress, ChangeBegun
  <2>2. tx[s].step \notin {"idle", "create", "search"} =>
          tx[s].ids = OwnedComponent(tx[s].user, tx[s].start)
    BY DEF SerialInv, Progress, EntitiesFlipped
  <2>3. tx[s].step \notin {"idle", "create"}
    BY DEF SerialInv, TxInv, Consistent, Agree, NoWork, Progress
  <2> QED
    BY <2>1, <2>2, <2>3
<1> QED
  BY <1>1, SerialInvariant, PTL

\* session.execute_write: with one writer at a time every change is one step
\* of KnowledgeGraph or none, whatever fails and wherever.
THEOREM ChangesAreAtomic ==
  ASSUME OneSession PROVE TxSpec => AtomicChanges
<1>1. TxInit => Init
  BY DEF TxInit
<1>2. SerialInv /\ TxInv' /\ [TxNext]_txVars => [Next]_vars
  BY SerialStep DEF txVars, vars
<1> QED
  BY <1>1, <1>2, SerialInvariant, TxInvariant, PTL DEF TxSpec, AtomicChanges, Spec

\* So the statements keep what the atomic steps keep: an edge is never more
\* visible than its ends, and its owner sees it.
THEOREM SerialEdgeVisibility ==
  ASSUME OneSession PROVE TxSpec => []EdgeNotMoreVisible
BY ChangesAreAtomic, EdgeVisibility, PTL DEF AtomicChanges

THEOREM SerialOwnersKeepSight ==
  ASSUME OneSession PROVE TxSpec => []OwnersSeeTheirEdges
BY ChangesAreAtomic, OwnersKeepSight, PTL DEF AtomicChanges

THEOREM SerialTenantsAreIsolated ==
  ASSUME OneSession PROVE TxSpec => TenantIsolation
BY ChangesAreAtomic, TenantsAreIsolated, PTL DEF AtomicChanges
=============================================================================
