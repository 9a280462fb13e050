--------------------------- MODULE GraphTransactions ---------------------------
(***************************************************************************)
(* The knowledge graph as Neo4j runs it: what KnowledgeGraph does in one   *)
(* step, a visibility change does in several statements of one write       *)
(* transaction (session.execute_write), and other sessions may run between *)
(* them.  Neo4j is external: a statement reads what is committed and what  *)
(* its own transaction wrote, what it writes is locked until the end, reads*)
(* lock nothing, and a transaction that fails leaves no trace.             *)
(***************************************************************************)
EXTENDS KnowledgeGraph

CONSTANT Sessions   \* requests in flight, each with a session of the driver

ASSUME SessionsAssumption == Users \cap Sessions = {}

VARIABLES
  tx,      \* what the session is about, and what it holds locked
  wrote    \* its uncommitted writes: what a node or edge will be

txVars == <<entity, rel, cites, embedded, tx, wrote>>

-----------------------------------------------------------------------------

\* The statement a session runs next.
Steps == {"idle", "create", "search", "flip_relationships", "sync", "demote",
          "remove", "commit"}

NoWork == [step |-> "idle", cascade |-> FALSE, user |-> NULL, start |-> NULL,
           v |-> "none", ids |-> {}, frontier |-> {}, changed |-> {},
           edge |-> NoRel, locks |-> {}]

Nothing  == [x \in {} |-> NULL]
NoWrites == [entity |-> Nothing, rel |-> Nothing, cites |-> Nothing]

\* base with the writes in place of what they replace.
Over(writes, base) ==
  [x \in DOMAIN base |-> IF x \in DOMAIN writes THEN writes[x] ELSE base[x]]

EntityFor(s) == Over(wrote[s].entity, entity)
RelFor(s)    == Over(wrote[s].rel, rel)
CitesFor(s)  == Over(wrote[s].cites, cites)

\* No other session has one of xs locked.
Free(s, xs) == \A t \in Sessions \ {s} : tx[t].locks \cap xs = {}

Idle(s) == tx[s].step = "idle"
EndsOf(edge) == {edge.from, edge.to}

\* An id no statement still to come names: uuid4 never draws one twice.
Fresh(e) == \A t \in Sessions : e \notin tx[t].ids \cup EndsOf(tx[t].edge)

RelsOn(e) == {r \in Rels : e \in Ends(r)}

\* service.py, `if row["changed"]` and `if visibility == "private"`: where
\* _single_visibility_tx and _cascade_tx go from here.
AfterSync(v) == IF v = "private" THEN "demote" ELSE "commit"
AfterFlip(changed, v) == IF changed # {} THEN "sync" ELSE AfterSync(v)

TxInit ==
  /\ Init
  /\ tx = [s \in Sessions |-> NoWork]
  /\ wrote = [s \in Sessions |-> NoWrites]

-----------------------------------------------------------------------------
(* Single statements, committed as they end.                               *)

\* attach_sources.cypher locks its entity by creating an edge at it, which the
\* MERGE of an existing edge does not: its one caller, commit.py, attaches a
\* run's sources once, to an entity it has just created.
EntityStatement(s) ==
  /\ Idle(s)
  /\ \E u \in Users, e \in EntityIds :
       /\ Free(s, {e})
       /\ \/ Fresh(e) /\ \E v \in Visibility : CreateEntity(u, e, v)
          \/ \E urls \in SUBSET {url \in Urls : cites[e][url] = "none"} :
               AttachSources(u, e, urls)
          \/ SetEntityEmbedding(u, e)
  /\ UNCHANGED <<tx, wrote>>

\* Deleting a node or an edge locks the nodes at its ends too.
DeleteStatement(s) ==
  /\ Idle(s)
  /\ \E u \in Users :
       \/ \E e \in EntityIds :
            /\ Free(s, {e} \cup RelsOn(e) \cup UNION {Ends(r) : r \in RelsOn(e)})
            /\ DeleteEntity(u, e)
       \/ \E r \in Rels : Free(s, {r} \cup Ends(r)) /\ DeleteRelationship(u, r)
  /\ UNCHANGED <<tx, wrote>>

\* Mutant of MatchEnds: one public end is enough for a public edge.
MatchEndsHalfPublic(s, u, a, b, v) ==
  /\ Idle(s)
  /\ Visible(u, a) /\ Visible(u, b)
  /\ Owns(u, a) \/ Owns(u, b)
  /\ v = "public" => \E e \in {a, b} : entity[e].visibility = "public"
  /\ tx' = [tx EXCEPT ![s] = [NoWork EXCEPT !.step = "create", !.user = u,
              !.edge = [owner |-> u, from |-> a, to |-> b, visibility |-> v]]]
  /\ UNCHANGED <<entity, rel, cites, embedded, wrote>>

\* create_relationship.cypher, MATCH and WHERE: the ends are read unlocked.
MatchEnds(s, u, a, b, v) ==
  /\ Idle(s)
  /\ Visible(u, a) /\ Visible(u, b)
  /\ Owns(u, a) \/ Owns(u, b)
  /\ v = "public" => \A e \in {a, b} : entity[e].visibility = "public"
  /\ tx' = [tx EXCEPT ![s] = [NoWork EXCEPT !.step = "create", !.user = u,
              !.edge = [owner |-> u, from |-> a, to |-> b, visibility |-> v]]]
  /\ UNCHANGED <<entity, rel, cites, embedded, wrote>>

\* create_relationship.cypher, CREATE: locks both ends, which must be there
\* still, and looks at nothing else again.
CreateEdge(s) ==
  LET edge == tx[s].edge IN
  /\ tx[s].step = "create"
  /\ Free(s, EndsOf(edge)) /\ \A e \in EndsOf(edge) : EntityExists(e)
  /\ \E r \in RelIds \ Rels : rel' = [rel EXCEPT ![r] = edge]
  /\ tx' = [tx EXCEPT ![s] = NoWork]
  /\ UNCHANGED <<entity, cites, embedded, wrote>>

-----------------------------------------------------------------------------
(* The statements of a visibility change.                                  *)

\* set_entity_visibility.cypher, the first statement of _single_visibility_tx.
SetEntityVisibility(s, u, e, v) ==
  LET changed == Changed(u, {e}, v) IN
  /\ Idle(s) /\ Owns(u, e) /\ Free(s, changed)
  /\ tx' = [tx EXCEPT ![s] = [NoWork EXCEPT
              !.step = AfterFlip(changed, v), !.user = u, !.start = e, !.v = v,
              !.ids = {e}, !.changed = changed, !.locks = changed]]
  /\ wrote' = [wrote EXCEPT ![s].entity =
                 [x \in changed |-> [entity[x] EXCEPT !.visibility = v]]]
  /\ UNCHANGED vars

\* owned_entity_exists.cypher, the first statement of _cascade_tx.
OwnedEntityExists(s, u, e, v) ==
  /\ Idle(s) /\ Owns(u, e)
  /\ tx' = [tx EXCEPT ![s] = [NoWork EXCEPT !.step = "search",
              !.cascade = TRUE, !.user = u, !.start = e, !.v = v,
              !.ids = {e}, !.frontier = {e}]]
  /\ UNCHANGED <<entity, rel, cites, embedded, wrote>>

\* Mutant of SearchRound: the loop ends after its first round.
SearchOneRound(s) ==
  LET found == OwnedNeighbours(tx[s].user, tx[s].frontier) \ tx[s].ids IN
  /\ tx[s].step = "search" /\ tx[s].frontier # {}
  /\ tx' = [tx EXCEPT ![s].ids = @ \cup found, ![s].frontier = {}]
  /\ UNCHANGED <<entity, rel, cites, embedded, wrote>>

\* _owned_component: one turn of the loop around owned_neighbours.cypher.
SearchRound(s) ==
  LET found == OwnedNeighbours(tx[s].user, tx[s].frontier) \ tx[s].ids IN
  /\ tx[s].step = "search" /\ tx[s].frontier # {}
  /\ tx' = [tx EXCEPT ![s].ids = @ \cup found, ![s].frontier = found]
  /\ UNCHANGED <<entity, rel, cites, embedded, wrote>>

\* flip_entities.cypher, once the search has nothing more to find.
FlipEntities(s) ==
  LET changed == Changed(tx[s].user, tx[s].ids, tx[s].v) IN
  /\ tx[s].step = "search" /\ tx[s].frontier = {}
  /\ Free(s, changed)
  /\ tx' = [tx EXCEPT ![s].step = "flip_relationships",
              ![s].changed = changed, ![s].locks = changed]
  /\ wrote' = [wrote EXCEPT ![s].entity =
                 [x \in changed |-> [entity[x] EXCEPT !.visibility = tx[s].v]]]
  /\ UNCHANGED vars

\* What the session has written to edges once it wrote those of new as well.
RelWrites(s, new) ==
  [r \in DOMAIN wrote[s].rel \cup DOMAIN new |->
     IF r \in DOMAIN new THEN new[r] ELSE wrote[s].rel[r]]

\* flip_relationships.cypher.
FlipRelationships(s) ==
  LET targets == {r \in Rels : /\ Ends(r) \subseteq tx[s].ids
                               /\ rel[r].owner = tx[s].user
                               /\ rel[r].visibility # tx[s].v}
      new == [r \in targets |-> [rel[r] EXCEPT !.visibility = tx[s].v]]
  IN
  /\ tx[s].step = "flip_relationships"
  /\ Free(s, targets)
  /\ tx' = [tx EXCEPT ![s].step = AfterFlip(tx[s].changed, tx[s].v),
              ![s].locks = @ \cup targets]
  /\ wrote' = [wrote EXCEPT ![s].rel = RelWrites(s, new)]
  /\ UNCHANGED vars

\* Mutant of SyncSources: run before the flip is visible to it.
SyncSourcesStale(s) ==
  /\ tx[s].step = "sync"
  /\ tx' = [tx EXCEPT ![s].step = AfterSync(tx[s].v)]
  /\ wrote' = [wrote EXCEPT ![s].cites = [e \in tx[s].changed |->
                 [url \in Urls |-> IF cites[e][url] = "none" THEN "none"
                                   ELSE entity[e].visibility]]]
  /\ UNCHANGED vars

\* _sync_sources: sync_entity_sources.cypher copies the visibility the entities
\* have by now; they are locked, and so are their citations.
SyncSources(s) ==
  /\ tx[s].step = "sync"
  /\ tx' = [tx EXCEPT ![s].step = AfterSync(tx[s].v)]
  /\ wrote' = [wrote EXCEPT ![s].cites = [e \in tx[s].changed |->
                 [url \in Urls |-> IF cites[e][url] = "none" THEN "none"
                                   ELSE EntityFor(s)[e].visibility]]]
  /\ UNCHANGED vars

\* The edges in the graph of session s that touch the ids of its change.
Incident(s) == {r \in RelIds : /\ RelFor(s)[r].visibility # "none"
                               /\ EndsOf(RelFor(s)[r]) \cap tx[s].ids # {}}

\* demote_owned_edges.cypher.
DemoteOwnedEdges(s) ==
  LET targets == {r \in Incident(s) : /\ RelFor(s)[r].owner = tx[s].user
                                      /\ RelFor(s)[r].visibility = "public"}
      new == [r \in targets |->
                [RelFor(s)[r] EXCEPT !.visibility = "private"]]
  IN
  /\ tx[s].step = "demote"
  /\ Free(s, targets)
  /\ tx' = [tx EXCEPT ![s].step = "remove", ![s].locks = @ \cup targets]
  /\ wrote' = [wrote EXCEPT ![s].rel = RelWrites(s, new)]
  /\ UNCHANGED vars

\* Mutant of RemoveForeignEdges: only the public ones are removed.
RemovePublicForeignEdges(s) ==
  LET targets == {r \in Incident(s) : /\ RelFor(s)[r].owner # tx[s].user
                                      /\ RelFor(s)[r].visibility = "public"}
      ends == UNION {EndsOf(RelFor(s)[r]) : r \in targets}
      new == [r \in targets |-> NoRel]
  IN
  /\ tx[s].step = "remove"
  /\ Free(s, targets \cup ends)
  /\ tx' = [tx EXCEPT ![s].step = "commit", ![s].locks = @ \cup targets \cup ends]
  /\ wrote' = [wrote EXCEPT ![s].rel = RelWrites(s, new)]
  /\ UNCHANGED vars

\* remove_foreign_edges.cypher.
RemoveForeignEdges(s) ==
  LET targets == {r \in Incident(s) : RelFor(s)[r].owner # tx[s].user}
      ends == UNION {EndsOf(RelFor(s)[r]) : r \in targets}
      new == [r \in targets |-> NoRel]
  IN
  /\ tx[s].step = "remove"
  /\ Free(s, targets \cup ends)
  /\ tx' = [tx EXCEPT ![s].step = "commit", ![s].locks = @ \cup targets \cup ends]
  /\ wrote' = [wrote EXCEPT ![s].rel = RelWrites(s, new)]
  /\ UNCHANGED vars

\* The end of execute_write: all writes of the transaction at once.
Commit(s) ==
  /\ tx[s].step = "commit"
  /\ entity' = EntityFor(s) /\ rel' = RelFor(s) /\ cites' = CitesFor(s)
  /\ tx' = [tx EXCEPT ![s] = NoWork]
  /\ wrote' = [wrote EXCEPT ![s] = NoWrites]
  /\ UNCHANGED embedded

\* Mutant of Abort: the writes done so far are kept, as they would be with
\* one session.run per statement.
AbortKeeps(s) ==
  /\ ~Idle(s)
  /\ entity' = EntityFor(s) /\ rel' = RelFor(s) /\ cites' = CitesFor(s)
  /\ tx' = [tx EXCEPT ![s] = NoWork]
  /\ wrote' = [wrote EXCEPT ![s] = NoWrites]
  /\ UNCHANGED embedded

\* A statement or the commit fails, the connection or the process is gone, or
\* Neo4j picks the transaction to break a deadlock; execute_write may then
\* start over, which is a new change.
Abort(s) ==
  /\ ~Idle(s)
  /\ tx' = [tx EXCEPT ![s] = NoWork]
  /\ wrote' = [wrote EXCEPT ![s] = NoWrites]
  /\ UNCHANGED vars

-----------------------------------------------------------------------------

Begin(s) ==
  \E u \in Users, a \in EntityIds, v \in Visibility :
    \/ \E b \in EntityIds : MatchEnds(s, u, a, b, v)
    \/ SetEntityVisibility(s, u, a, v)
    \/ OwnedEntityExists(s, u, a, v)

TxNext ==
  \E s \in Sessions :
    \/ EntityStatement(s) \/ DeleteStatement(s)
    \/ Begin(s) \/ CreateEdge(s)
    \/ SearchRound(s) \/ FlipEntities(s) \/ FlipRelationships(s)
    \/ SyncSources(s) \/ DemoteOwnedEdges(s) \/ RemoveForeignEdges(s)
    \/ Commit(s) \/ Abort(s)

TxSpec == TxInit /\ [][TxNext]_txVars

-----------------------------------------------------------------------------
(* Properties.                                                             *)

Work == [step : Steps, cascade : BOOLEAN, user : Users \cup {NULL},
         start : EntityIds \cup {NULL}, v : Visibility \cup {"none"},
         ids : SUBSET EntityIds, frontier : SUBSET EntityIds,
         changed : SUBSET EntityIds, edge : RelRecords,
         locks : SUBSET (EntityIds \cup RelIds)]

\* Every variable keeps its type; what a session wrote it has locked, and no
\* two sessions have the same node or edge locked.
TxTypeOK ==
  /\ TypeOK
  /\ tx \in [Sessions -> Work]
  /\ \A s \in Sessions :
       /\ \A e \in DOMAIN wrote[s].entity : wrote[s].entity[e] \in EntityRecords
       /\ \A r \in DOMAIN wrote[s].rel : wrote[s].rel[r] \in RelRecords
       /\ DOMAIN wrote[s].entity \cup DOMAIN wrote[s].rel \subseteq tx[s].locks
       /\ DOMAIN wrote[s].cites \subseteq tx[s].locks
       /\ Free(s, tx[s].locks)

\* _owned_component: when the loop ends, what it has seen is the connected
\* sub-graph of the caller's entities and edges around the start, and it stays
\* so up to the commit that flips it.
SearchFindsComponent ==
  \A s \in Sessions :
    tx[s].cascade /\ tx[s].frontier = {}
      => tx[s].ids = OwnedComponent(tx[s].user, tx[s].start)

\* session.execute_write, "all-or-nothing": with one writer at a time, the
\* statements of a change, failures and all, add up to the one atomic step
\* that KnowledgeGraph takes, or to none.
AtomicChanges == Spec
===============================================================================
