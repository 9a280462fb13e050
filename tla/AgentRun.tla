------------------------------- MODULE AgentRun -------------------------------
(***************************************************************************)
(* The life of a research run: the gateway's run and review handlers       *)
(* (backend/app/agent/router.py, service.py), the Redis list that carries  *)
(* jobs, the taskiq tasks run_agent and commit_agent_run                   *)
(* (backend/app/agent/tasks.py) and the two graph nodes that write to      *)
(* Neo4j (nodes/commit.py, nodes/enrich.py).                               *)
(*                                                                         *)
(* Every await of the code is a point where other requests and tasks run,  *)
(* so each database, queue or Neo4j call is an action of its own.  What    *)
(* the research phase finds is abstracted to the draft it parks; the       *)
(* module ResearchGraph looks inside that phase.                           *)
(***************************************************************************)
EXTENDS Integers, Sequences, FiniteSets

CONSTANTS
  Runs,            \* ids of agent_runs rows
  Slots,           \* concurrent taskiq tasks (agent_worker_concurrency)
  Requests,        \* POST /agent/runs/{id}/review requests, each served once
  EntItems,        \* draft entities, named by temp_id
  Existing,        \* those of them that lookup matched to an existing_id
  RelItems,        \* draft relationships
  Reports,         \* what a research phase can report: analysis and notes
  EntEdits,        \* entity lists a reviewer may send instead of the drafts
  RelEdits,        \* relationship lists a reviewer may send
  MaxLinks,        \* links the model proposes for one entity in enrich
  ReviewSettings,  \* the values of agent_review_required workers run with
  SerialReviews,   \* the owner sends one review of a run at a time
  Faults,          \* process crashes and failing database or queue calls
  NULL             \* SQL NULL

ASSUME ItemAssumption == /\ Existing \subseteq EntItems
                         /\ EntEdits \subseteq SUBSET EntItems
                         /\ RelEdits \subseteq SUBSET RelItems
ASSUME FlagAssumption == /\ ReviewSettings \subseteq BOOLEAN
                         /\ SerialReviews \in BOOLEAN
                         /\ Faults \in BOOLEAN
                         /\ MaxLinks \in Nat

VARIABLES
  row,        \* the agent_runs table
  queue,      \* the Redis list "agent"
  task,       \* what each worker slot is executing
  creating,   \* runs inserted by POST /agent/runs and not yet enqueued
  req,        \* the review requests
  entities,   \* Entity nodes the runs created in Neo4j
  edges,      \* RELATED_TO edges the runs created in Neo4j
  sourced,    \* ids of entities with SOURCED_FROM edges
  embedded,   \* ids of entities with an embedding
  nextId,     \* source of fresh UUIDs
  approved,   \* history: the drafts approve_review wrote, per run
  rejected,   \* history: runs mark_cancelled was executed for
  report      \* history: what the research phase of each run reported

rowVars   == <<row, approved, rejected, report>>
graphVars == <<entities, edges, sourced, embedded, nextId>>
vars == <<row, queue, task, creating, req, entities, edges, sourced, embedded,
          nextId, approved, rejected, report>>

-----------------------------------------------------------------------------
(* State.                                                                  *)

Drafts  == [entities : SUBSET EntItems, relationships : SUBSET RelItems]
NoDraft == [entities |-> {}, relationships |-> {}]

Status   == {"none", "queued", "running", "awaiting_review",
             "succeeded", "failed", "cancelled"}
Terminal == {"succeeded", "failed", "cancelled"}
Nodes    == {"research", "commit", "enrich"}

\* A note in AgentRunResult.skipped: a research note, a relationship that was
\* not written, or an entity whose sources or embedding could not be stored.
Notes == [what : {"research", "rel", "link", "attach", "embed"},
          item : RelItems \cup Nat]
Note(what, item) == [what |-> what, item |-> item]

Analyses == {r.analysis : r \in Reports} \cup {NULL}
Results == [analysis : Analyses, skipped : SUBSET Notes,
            entities_created : Nat, relationships_created : Nat]

\* What report remembers of a research phase.
Findings == [analysis : Analyses, skipped : SUBSET Notes, sources : BOOLEAN,
             drafts : Drafts]

ASSUME ReportAssumption == \A r \in Reports : r.skipped \subseteq Notes
ASSUME NullAssumption == /\ NULL \notin Runs /\ NULL \notin Drafts
                         /\ NULL \notin Results /\ NULL \notin Findings

BlankRow == [status |-> "none", pending |-> NULL, current_node |-> NULL,
             result |-> NULL, sources |-> FALSE, error |-> NULL,
             entity_ids |-> {}, relationship_ids |-> {}]

\* AgentState as far as the task wrappers and the two writing nodes use it.
\* ents/rels are the graph state's committed lists; lents/lrels the local
\* lists a node fills and returns only when it finishes.
IdleTask == [pc |-> "idle", job |-> "none", run |-> NULL,
             structured |-> NoDraft, sources |-> FALSE,
             analysis |-> NULL, skipped |-> {},
             ents |-> {}, rels |-> {}, lents |-> {}, lrels |-> {},
             todo |-> {}, cur |-> 0, links |-> 0, cause |-> NULL]

IdleReq == [pc |-> "new", run |-> NULL, decision |-> NULL, pending |-> NoDraft]

\* The loops of commit_node and enrich_node.
EntityPc       == {"ents", "append_ent", "attach", "embed"}
RelationshipPc == {"rels", "append_rel"}
LinkPc         == {"record_commit", "enrich", "append_link"}

\* Inside asyncio.wait_for: any failure here ends in mark_failed.
GuardedPc == {"research", "record_enrich"}
               \cup EntityPc \cup RelationshipPc \cup LinkPc
\* Outside it: a failing call leaves the row as it is.
UnguardedPc == {"start", "park", "finish", "failing"}
TaskPc == GuardedPc \cup UnguardedPc \cup {"idle"}

Init ==
  /\ row = [r \in Runs |-> BlankRow]
  /\ queue = <<>>
  /\ task = [w \in Slots |-> IdleTask]
  /\ creating = {}
  /\ req = [q \in Requests |-> IdleReq]
  /\ entities = {} /\ edges = {} /\ sourced = {} /\ embedded = {}
  /\ nextId = 1
  /\ approved = [r \in Runs |-> {}]
  /\ rejected = {}
  /\ report = [r \in Runs |-> NULL]

-----------------------------------------------------------------------------
(* The gateway.                                                            *)

\* service.create_run: insert_run.sql leaves status 'queued'.
CreateRun(r) ==
  /\ row[r].status = "none"
  /\ row' = [row EXCEPT ![r].status = "queued"]
  /\ creating' = creating \cup {r}
  /\ UNCHANGED <<queue, task, req, graphVars, approved, rejected, report>>

\* enqueue_run: run_agent.kiq pushes the job.
EnqueueRun(r) ==
  /\ r \in creating
  /\ creating' = creating \ {r}
  /\ queue' = Append(queue, [job |-> "run", run |-> r])
  /\ UNCHANGED <<task, req, graphVars, rowVars>>

\* .kiq raises, or the gateway dies between the insert and the push.
EnqueueRunFails(r) ==
  /\ Faults
  /\ r \in creating
  /\ creating' = creating \ {r}
  /\ UNCHANGED <<queue, task, req, graphVars, rowVars>>

\* Mutant of ReadForReview: the 409 for a run not awaiting review is missing.
ReadForReviewUnchecked(q) ==
  /\ req[q].pc = "new"
  /\ \E r \in Runs, d \in {"approve", "reject"} :
       /\ row[r].status # "none"
       /\ SerialReviews =>
            \A p \in Requests : req[p].run = r => req[p].pc \in {"new", "done"}
       /\ req' = [req EXCEPT ![q] =
                   [pc |-> "checked", run |-> r, decision |-> d,
                    pending |-> IF row[r].pending = NULL THEN NoDraft
                                                         ELSE row[r].pending]]
  /\ UNCHANGED <<queue, task, creating, graphVars, rowVars>>

\* The check of submit_review: it reads the row once and answers 409 unless
\* the run is awaiting review.  The edits, if any, replace the lists read.
ReadForReview(q) ==
  /\ req[q].pc = "new"
  /\ \E r \in Runs, d \in {"approve", "reject"} :
       /\ row[r].status # "none"
       /\ SerialReviews =>
            \A p \in Requests : req[p].run = r => req[p].pc \in {"new", "done"}
       /\ \/ /\ row[r].status # "awaiting_review"
             /\ req' = [req EXCEPT ![q] = [@ EXCEPT !.pc = "done"]]
          \/ /\ row[r].status = "awaiting_review"
             /\ LET read == IF row[r].pending = NULL THEN NoDraft
                                                     ELSE row[r].pending
                IN \E es \in EntEdits \cup {read.entities},
                      rs \in RelEdits \cup {read.relationships} :
                     req' = [req EXCEPT ![q] =
                              [pc |-> "checked", run |-> r, decision |-> d,
                               pending |-> [entities |-> es,
                                            relationships |-> rs]]]
  /\ UNCHANGED <<queue, task, creating, graphVars, rowVars>>

\* mark_cancelled.sql: WHERE id = $1 only, whatever the status is by now.
MarkCancelled(q) ==
  /\ req[q].pc = "checked"
  /\ req[q].decision = "reject"
  /\ row' = [row EXCEPT ![req[q].run] =
              [@ EXCEPT !.status = "cancelled",
                        !.pending = NULL]]
  /\ req' = [req EXCEPT ![q].pc = "done"]
  /\ rejected' = rejected \cup {req[q].run}
  /\ UNCHANGED <<queue, task, creating, graphVars, approved, report>>

\* approve_review.sql: likewise unconditional.
ApproveReview(q) ==
  /\ req[q].pc = "checked"
  /\ req[q].decision = "approve"
  /\ row' = [row EXCEPT ![req[q].run] =
              [@ EXCEPT !.status = "running",
                        !.pending = req[q].pending,
                        !.error = NULL]]
  /\ req' = [req EXCEPT ![q].pc = "approved"]
  /\ approved' = [approved EXCEPT ![req[q].run] = @ \cup {req[q].pending}]
  /\ UNCHANGED <<queue, task, creating, graphVars, rejected, report>>

\* Mutant of EnqueueCommit: the approval is answered and no job is pushed.
EnqueueCommitForgotten(q) ==
  /\ req[q].pc = "approved"
  /\ req' = [req EXCEPT ![q].pc = "done"]
  /\ UNCHANGED <<queue, task, creating, graphVars, rowVars>>

\* review_run: enqueue_commit after a successful approval.
EnqueueCommit(q) ==
  /\ req[q].pc = "approved"
  /\ req' = [req EXCEPT ![q].pc = "done"]
  /\ queue' = Append(queue, [job |-> "commit", run |-> req[q].run])
  /\ UNCHANGED <<task, creating, graphVars, rowVars>>

\* A call of the review handler fails, or the gateway dies in it.
ReviewFails(q) ==
  /\ Faults
  /\ req[q].pc \in {"checked", "approved"}
  /\ req' = [req EXCEPT ![q].pc = "done"]
  /\ UNCHANGED <<queue, task, creating, graphVars, rowVars>>

-----------------------------------------------------------------------------
(* The worker: taking a job, and the research phase.                       *)

\* BRPOP hands the job over; the list keeps nothing to redeliver.
Receive(w) ==
  /\ task[w].pc = "idle"
  /\ queue # <<>>
  /\ task' = [task EXCEPT ![w] = [IdleTask EXCEPT !.pc = "start",
                                                  !.job = Head(queue).job,
                                                  !.run = Head(queue).run]]
  /\ queue' = Tail(queue)
  /\ UNCHANGED <<creating, req, graphVars, rowVars>>

\* _run_agent: mark_running.sql, then the graph starts.
MarkRunning(w) ==
  /\ task[w].pc = "start"
  /\ task[w].job = "run"
  /\ row' = [row EXCEPT ![task[w].run] =
              [@ EXCEPT !.status = "running",
                        !.current_node = NULL,
                        !.error = NULL]]
  /\ task' = [task EXCEPT ![w].pc = "research"]
  /\ UNCHANGED <<queue, creating, req, graphVars, approved, rejected, report>>

\* record_node.sql after a node of the research phase.
RecordNode(w) ==
  /\ task[w].pc = "research"
  /\ row[task[w].run].current_node = NULL
  /\ row' = [row EXCEPT ![task[w].run].current_node = "research"]
  /\ UNCHANGED <<queue, task, creating, req, graphVars, approved, rejected,
                 report>>

\* build_graph(review=...): where a run goes from its last research node.
AfterResearch ==
  {IF review THEN "park" ELSE "ents" : review \in ReviewSettings}

\* Mutant of ResearchDone: the graph is built with commit whatever the setting.
ResearchDoneUngated(w) ==
  /\ task[w].pc = "research"
  /\ row[task[w].run].current_node = "research"
  /\ \E d \in Drafts, rep \in Reports, s \in BOOLEAN :
       /\ task' = [task EXCEPT ![w] =
                    [@ EXCEPT !.pc = "ents", !.structured = d,
                              !.todo = d.entities, !.analysis = rep.analysis,
                              !.skipped = rep.skipped, !.sources = s]]
       /\ report' = [report EXCEPT ![task[w].run] = [analysis |-> rep.analysis,
                                                     skipped |-> rep.skipped,
                                                     sources |-> s,
                                                     drafts |-> d]]
  /\ UNCHANGED <<row, queue, creating, req, graphVars, approved, rejected>>

\* The research phase ends with a draft: with review it is parked next,
\* without review the same task goes on into commit_node.
ResearchDone(w) ==
  /\ task[w].pc = "research"
  /\ row[task[w].run].current_node = "research"
  /\ \E d \in Drafts, rep \in Reports, s \in BOOLEAN, pc \in AfterResearch :
       /\ task' = [task EXCEPT ![w] =
                    [@ EXCEPT !.pc = pc,
                              !.structured = d,
                              !.todo = d.entities,
                              !.analysis = rep.analysis,
                              !.skipped = rep.skipped,
                              !.sources = s]]
       /\ report' = [report EXCEPT ![task[w].run] = [analysis |-> rep.analysis,
                                                     skipped |-> rep.skipped,
                                                     sources |-> s,
                                                     drafts |-> d]]
  /\ UNCHANGED <<row, queue, creating, req, graphVars, approved, rejected>>

\* _result(state).
ResultOf(t) == [analysis |-> t.analysis, skipped |-> t.skipped,
                entities_created |-> Cardinality(t.ents),
                relationships_created |-> Cardinality(t.rels)]

\* Mutant of MarkAwaitingReview: the return after parking is missing.
MarkAwaitingReviewNoReturn(w) ==
  /\ task[w].pc = "park"
  /\ row' = [row EXCEPT ![task[w].run] =
              [@ EXCEPT !.status = "awaiting_review",
                        !.current_node = NULL,
                        !.pending = task[w].structured,
                        !.result = ResultOf(task[w]),
                        !.sources = task[w].sources]]
  /\ task' = [task EXCEPT ![w].pc = "finish"]
  /\ UNCHANGED <<queue, creating, req, graphVars, approved, rejected, report>>

\* mark_awaiting_review.sql.
MarkAwaitingReview(w) ==
  /\ task[w].pc = "park"
  /\ row' = [row EXCEPT ![task[w].run] =
              [@ EXCEPT !.status = "awaiting_review",
                        !.current_node = NULL,
                        !.pending = task[w].structured,
                        !.result = ResultOf(task[w]),
                        !.sources = task[w].sources]]
  /\ task' = [task EXCEPT ![w] = IdleTask]
  /\ UNCHANGED <<queue, creating, req, graphVars, approved, rejected, report>>

\* _commit_agent_run: load_parked restores the drafts, the research report
\* and the source urls into a fresh state.  The status is not looked at.
LoadParked(w) ==
  LET r == task[w].run
      drafts == IF row[r].pending = NULL THEN NoDraft ELSE row[r].pending
  IN
  /\ task[w].pc = "start"
  /\ task[w].job = "commit"
  /\ task' = [task EXCEPT ![w] =
               [@ EXCEPT !.pc = "ents",
                         !.structured = drafts,
                         !.todo = drafts.entities,
                         !.analysis = IF row[r].result = NULL THEN NULL
                                      ELSE row[r].result.analysis,
                         !.skipped = IF row[r].result = NULL THEN {}
                                     ELSE row[r].result.skipped,
                         !.sources = row[r].sources]]
  /\ UNCHANGED <<queue, creating, req, graphVars, rowVars>>

-----------------------------------------------------------------------------
(* commit_node: entities, then relationships, one await at a time.         *)

\* A draft with an existing_id is mapped to it and nothing is written.
UseExisting(w) ==
  /\ task[w].pc = "ents"
  /\ \E e \in task[w].todo \cap Existing :
       task' = [task EXCEPT ![w].todo = @ \ {e}]
  /\ UNCHANGED <<queue, creating, req, graphVars, rowVars>>

\* graph_service.create_entity.
CreateEntity(w) ==
  /\ task[w].pc = "ents"
  /\ \E e \in task[w].todo \ Existing :
       /\ entities' = entities \cup
                        {[id |-> nextId, run |-> task[w].run, item |-> e]}
       /\ task' = [task EXCEPT ![w] =
                    [@ EXCEPT !.pc = "append_ent", !.todo = task[w].todo \ {e},
                              !.lents = task[w].lents \cup {nextId},
                              !.cur = nextId]]
  /\ nextId' = nextId + 1
  /\ UNCHANGED <<queue, creating, req, edges, sourced, embedded, rowVars>>

\* Mutant of AppendCommittedEntity: the write is left to mark_succeeded.
AppendCommittedEntityLater(w) ==
  /\ task[w].pc = "append_ent"
  /\ task' = [task EXCEPT ![w].pc = IF task[w].sources THEN "attach"
                                                       ELSE "embed"]
  /\ UNCHANGED <<queue, creating, req, graphVars, rowVars>>

\* append_committed_entity.sql; sources are attached only if there are urls.
AppendCommittedEntity(w) ==
  /\ task[w].pc = "append_ent"
  /\ row' = [row EXCEPT ![task[w].run].entity_ids = @ \cup {task[w].cur}]
  /\ task' = [task EXCEPT ![w].pc = IF task[w].sources THEN "attach"
                                                       ELSE "embed"]
  /\ UNCHANGED <<queue, creating, req, graphVars, approved, rejected, report>>

\* Mutant of AttachSources: the failure is swallowed without a note.
AttachSourcesSilently(w) ==
  /\ task[w].pc = "attach"
  /\ sourced' \in {sourced, sourced \cup {task[w].cur}}
  /\ task' = [task EXCEPT ![w].pc = "embed"]
  /\ UNCHANGED <<queue, creating, req, entities, edges, embedded, nextId,
                 rowVars>>

\* _attach_sources: best effort, a failure becomes a note.
AttachSources(w) ==
  /\ task[w].pc = "attach"
  /\ \/ /\ sourced' = sourced \cup {task[w].cur}
        /\ task' = [task EXCEPT ![w].pc = "embed"]
     \/ /\ task' = [task EXCEPT ![w] =
                     [@ EXCEPT !.pc = "embed",
                               !.skipped = task[w].skipped \cup
                                           {Note("attach", task[w].cur)}]]
        /\ UNCHANGED sourced
  /\ UNCHANGED <<queue, creating, req, entities, edges, embedded, nextId,
                 rowVars>>

\* _embed_entity: best effort as well.
EmbedEntity(w) ==
  /\ task[w].pc = "embed"
  /\ \/ /\ embedded' = embedded \cup {task[w].cur}
        /\ task' = [task EXCEPT ![w].pc = "ents"]
     \/ /\ task' = [task EXCEPT ![w] =
                     [@ EXCEPT !.pc = "ents",
                               !.skipped = task[w].skipped \cup
                                           {Note("embed", task[w].cur)}]]
        /\ UNCHANGED embedded
  /\ UNCHANGED <<queue, creating, req, entities, edges, sourced, nextId,
                 rowVars>>

EntitiesDone(w) ==
  /\ task[w].pc = "ents"
  /\ task[w].todo = {}
  /\ task' = [task EXCEPT ![w] =
               [@ EXCEPT !.pc = "rels",
                         !.todo = task[w].structured.relationships]]
  /\ UNCHANGED <<queue, creating, req, graphVars, rowVars>>

\* Mutant of SkipRelationship: no `continue`, a skipped edge is listed too.
SkipRelationshipListed(w) ==
  /\ task[w].pc = "rels"
  /\ \E x \in task[w].todo :
       task' = [task EXCEPT ![w] =
                 [@ EXCEPT !.todo = task[w].todo \ {x},
                           !.lrels = task[w].lrels \cup {nextId},
                           !.skipped = task[w].skipped \cup {Note("rel", x)}]]
  /\ nextId' = nextId + 1
  /\ UNCHANGED <<queue, creating, req, entities, edges, sourced, embedded,
                 rowVars>>

\* An unresolved endpoint, or an HTTPException of create_relationship.
SkipRelationship(w) ==
  /\ task[w].pc = "rels"
  /\ \E x \in task[w].todo :
       task' = [task EXCEPT ![w] =
                 [@ EXCEPT !.todo = task[w].todo \ {x},
                           !.skipped = task[w].skipped \cup {Note("rel", x)}]]
  /\ UNCHANGED <<queue, creating, req, graphVars, rowVars>>

CreateRelationship(w) ==
  /\ task[w].pc = "rels"
  /\ \E x \in task[w].todo :
       /\ edges' = edges \cup
                     {[id |-> nextId, run |-> task[w].run, item |-> x]}
       /\ task' = [task EXCEPT ![w] =
                    [@ EXCEPT !.pc = "append_rel", !.todo = task[w].todo \ {x},
                              !.lrels = task[w].lrels \cup {nextId},
                              !.cur = nextId]]
  /\ nextId' = nextId + 1
  /\ UNCHANGED <<queue, creating, req, entities, sourced, embedded, rowVars>>

\* append_committed_relationship.sql.
AppendCommittedRelationship(w) ==
  /\ task[w].pc = "append_rel"
  /\ row' = [row EXCEPT ![task[w].run].relationship_ids = @ \cup {task[w].cur}]
  /\ task' = [task EXCEPT ![w].pc = "rels"]
  /\ UNCHANGED <<queue, creating, req, graphVars, approved, rejected, report>>

\* commit_node returns: only now do its lists reach the graph state.
CommitNodeReturns(w) ==
  /\ task[w].pc = "rels"
  /\ task[w].todo = {}
  /\ task' = [task EXCEPT ![w] =
               [@ EXCEPT !.pc = IF task[w].job = "run" THEN "record_commit"
                                                 ELSE "enrich",
                         !.ents = task[w].lents, !.rels = task[w].lrels,
                         !.todo = task[w].lents, !.links = 0]]
  /\ UNCHANGED <<queue, creating, req, graphVars, rowVars>>

\* record_node.sql after commit or enrich.  It runs only when run_graph drives
\* the nodes (no review); the commit job calls the two nodes directly.
RecordWritingNode(w) ==
  /\ task[w].pc \in {"record_commit", "record_enrich"}
  /\ LET node == IF task[w].pc = "record_commit" THEN "commit" ELSE "enrich"
         next == IF task[w].pc = "record_commit" THEN "enrich" ELSE "finish"
     IN /\ row' = [row EXCEPT ![task[w].run].current_node = node]
        /\ task' = [task EXCEPT ![w].pc = next]
  /\ UNCHANGED <<queue, creating, req, graphVars, approved, rejected, report>>

-----------------------------------------------------------------------------
(* enrich_node: for each new entity, the links the model proposes.         *)

\* _links_for: between none and MaxLinks links to other entities.
LinksFor(w) ==
  /\ task[w].pc = "enrich"
  /\ task[w].links = 0
  /\ \E e \in task[w].todo, k \in 0..MaxLinks :
       task' = [task EXCEPT ![w] =
                 [@ EXCEPT !.todo = task[w].todo \ {e},
                           !.cur = e,
                           !.links = k]]
  /\ UNCHANGED <<queue, creating, req, graphVars, rowVars>>

\* Mutant of SkipLink: the loop does not stop at the last link.
SkipLinkPastEnd(w) ==
  /\ task[w].pc = "enrich"
  /\ task[w].links >= 0
  /\ task' = [task EXCEPT ![w] =
               [@ EXCEPT !.links = task[w].links - 1,
                         !.skipped = task[w].skipped
                                       \cup {Note("link", task[w].cur)}]]
  /\ UNCHANGED <<queue, creating, req, graphVars, rowVars>>

\* An HTTPException of create_relationship becomes a note.
SkipLink(w) ==
  /\ task[w].pc = "enrich"
  /\ task[w].links > 0
  /\ task' = [task EXCEPT ![w] =
               [@ EXCEPT !.links = task[w].links - 1,
                         !.skipped = task[w].skipped
                                       \cup {Note("link", task[w].cur)}]]
  /\ UNCHANGED <<queue, creating, req, graphVars, rowVars>>

\* The item of an enrich edge is NULL: no draft asked for it.
CreateLink(w) ==
  /\ task[w].pc = "enrich"
  /\ task[w].links > 0
  /\ edges' = edges \cup
                {[id |-> nextId, run |-> task[w].run, item |-> NULL]}
  /\ task' = [task EXCEPT ![w] =
               [@ EXCEPT !.pc = "append_link", !.links = task[w].links - 1,
                         !.lrels = task[w].lrels \cup {nextId},
                         !.cur = nextId]]
  /\ nextId' = nextId + 1
  /\ UNCHANGED <<queue, creating, req, entities, sourced, embedded, rowVars>>

AppendLink(w) ==
  /\ task[w].pc = "append_link"
  /\ row' = [row EXCEPT ![task[w].run].relationship_ids = @ \cup {task[w].cur}]
  /\ task' = [task EXCEPT ![w].pc = "enrich"]
  /\ UNCHANGED <<queue, creating, req, graphVars, approved, rejected, report>>

EnrichNodeReturns(w) ==
  /\ task[w].pc = "enrich"
  /\ task[w].todo = {}
  /\ task[w].links = 0
  /\ task' = [task EXCEPT ![w] =
               [@ EXCEPT !.pc = IF task[w].job = "run" THEN "record_enrich"
                                                       ELSE "finish",
                         !.rels = task[w].lrels]]
  /\ UNCHANGED <<queue, creating, req, graphVars, rowVars>>

-----------------------------------------------------------------------------
(* Ending a task.                                                          *)

\* mark_succeeded.sql: the lists of the state replace the stored ones.
MarkSucceeded(w) ==
  /\ task[w].pc = "finish"
  /\ row' = [row EXCEPT ![task[w].run] =
              [@ EXCEPT !.status = "succeeded",
                        !.current_node = NULL,
                        !.result = ResultOf(task[w]),
                        !.entity_ids = task[w].ents,
                        !.relationship_ids = task[w].rels]]
  /\ task' = [task EXCEPT ![w] = IdleTask]
  /\ UNCHANGED <<queue, creating, req, graphVars, approved, rejected, report>>

\* The points inside _guarded whose pending call lets an exception out:
\* _attach_sources, _embed_entity and _links_for catch theirs, a skipped
\* draft makes no call.
CanRaise(t) ==
  \/ t.pc \in {"research", "append_ent", "append_rel", "append_link",
               "record_commit", "record_enrich"}
  \/ t.pc = "ents" /\ t.todo \ Existing # {}
  \/ t.pc = "rels" /\ t.todo # {}
  \/ t.pc = "enrich" /\ t.links > 0

\* The deadline cancels the body wherever it is.
DeadlinePasses(w) ==
  /\ task[w].pc \in GuardedPc
  /\ task' = [task EXCEPT ![w] = [@ EXCEPT !.pc = "failing",
                                           !.cause = "deadline"]]
  /\ UNCHANGED <<queue, creating, req, graphVars, rowVars>>

\* A call in the body raises something its node does not catch.
NodeRaises(w) ==
  /\ CanRaise(task[w])
  /\ task' = [task EXCEPT ![w] = [@ EXCEPT !.pc = "failing",
                                           !.cause = "exception"]]
  /\ UNCHANGED <<queue, creating, req, graphVars, rowVars>>

\* Mutant of MarkFailed: the task ends without storing the failure.
MarkFailedForgotten(w) ==
  /\ task[w].pc = "failing"
  /\ task' = [task EXCEPT ![w] = IdleTask]
  /\ UNCHANGED <<queue, creating, req, graphVars, rowVars>>

\* mark_failed.sql: also replaces the stored lists by those of the state.
MarkFailed(w) ==
  /\ task[w].pc = "failing"
  /\ row' = [row EXCEPT ![task[w].run] =
              [@ EXCEPT !.status = "failed",
                        !.error = task[w].cause,
                        !.entity_ids = task[w].ents,
                        !.relationship_ids = task[w].rels]]
  /\ task' = [task EXCEPT ![w] = IdleTask]
  /\ UNCHANGED <<queue, creating, req, graphVars, approved, rejected, report>>

\* A call outside _guarded raises: the task ends and the row stays.
TaskDies(w) ==
  /\ Faults
  /\ task[w].pc \in UnguardedPc
  /\ task' = [task EXCEPT ![w] = IdleTask]
  /\ UNCHANGED <<queue, creating, req, graphVars, rowVars>>

\* The worker process is killed while this slot is busy.
Crash(w) ==
  /\ Faults
  /\ task[w].pc # "idle"
  /\ task' = [task EXCEPT ![w] = IdleTask]
  /\ UNCHANGED <<queue, creating, req, graphVars, rowVars>>

-----------------------------------------------------------------------------

GatewayStep(r) == CreateRun(r) \/ EnqueueRun(r) \/ EnqueueRunFails(r)

ReviewStep(q) == \/ ReadForReview(q) \/ MarkCancelled(q) \/ ApproveReview(q)
                 \/ EnqueueCommit(q) \/ ReviewFails(q)

ResearchStep(w) == \/ Receive(w) \/ MarkRunning(w) \/ RecordNode(w)
                   \/ ResearchDone(w) \/ MarkAwaitingReview(w)

CommitStep(w) == \/ LoadParked(w) \/ UseExisting(w) \/ CreateEntity(w)
                 \/ AppendCommittedEntity(w) \/ AttachSources(w)
                 \/ EmbedEntity(w) \/ EntitiesDone(w) \/ SkipRelationship(w)
                 \/ CreateRelationship(w) \/ AppendCommittedRelationship(w)
                 \/ CommitNodeReturns(w) \/ RecordWritingNode(w)

EnrichStep(w) == \/ LinksFor(w) \/ SkipLink(w) \/ CreateLink(w)
                 \/ AppendLink(w) \/ EnrichNodeReturns(w)

EndStep(w) == \/ MarkSucceeded(w) \/ DeadlinePasses(w) \/ NodeRaises(w)
              \/ MarkFailed(w) \/ TaskDies(w) \/ Crash(w)

WorkerStep(w) == \/ ResearchStep(w) \/ CommitStep(w) \/ EnrichStep(w)
                 \/ EndStep(w)

Next == \/ \E r \in Runs : GatewayStep(r)
        \/ \E q \in Requests : ReviewStep(q)
        \/ \E w \in Slots : WorkerStep(w)

Spec == Init /\ [][Next]_vars

-----------------------------------------------------------------------------
(* Fairness: the event loops run every ready coroutine, BRPOP blocks until *)
(* there is a job, every model and MCP call has a timeout and the deadline *)
(* of _guarded ends the body, so a started step is eventually taken.       *)

WorkerProgress(w) ==
  \/ Receive(w) \/ MarkRunning(w) \/ RecordNode(w) \/ ResearchDone(w)
  \/ MarkAwaitingReview(w) \/ CommitStep(w) \/ EnrichStep(w)
  \/ MarkSucceeded(w) \/ MarkFailed(w)

FairSpec ==
  /\ Spec
  /\ \A r \in Runs : WF_vars(EnqueueRun(r))
  /\ \A q \in Requests :
       WF_vars(MarkCancelled(q) \/ ApproveReview(q) \/ EnqueueCommit(q))
  /\ \A w \in Slots : WF_vars(WorkerProgress(w))

-----------------------------------------------------------------------------
(* Properties.                                                             *)

EntityIds(r) == {e.id : e \in {x \in entities : x.run = r}}
EdgeIds(r)   == {e.id : e \in {x \in edges : x.run = r}}
JobsOf(r)    == {i \in DOMAIN queue : queue[i].run = r}
TasksOf(r)   == {w \in Slots : task[w].run = r}
ReviewsOf(r) == {q \in Requests : req[q].run = r
                                   /\ req[q].pc \in {"checked", "approved"}}

\* The drafts a finished run stands for: the approved ones where it was
\* parked for review, the research phase's own otherwise.
Agreed(r) == IF row[r].pending = NULL THEN report[r].drafts ELSE row[r].pending

Rows == [status : Status, pending : Drafts \cup {NULL},
         current_node : Nodes \cup {NULL}, result : Results \cup {NULL},
         sources : BOOLEAN, error : {"deadline", "exception", NULL},
         entity_ids : SUBSET Nat, relationship_ids : SUBSET Nat]

Tasks == [pc : TaskPc,
          job : {"none", "run", "commit"}, run : Runs \cup {NULL},
          structured : Drafts, sources : BOOLEAN,
          analysis : Analyses, skipped : SUBSET Notes,
          ents : SUBSET Nat, rels : SUBSET Nat,
          lents : SUBSET Nat, lrels : SUBSET Nat,
          todo : SUBSET (EntItems \cup RelItems \cup Nat),
          cur : Nat, links : Nat,
          cause : {"deadline", "exception", NULL}]

\* What todo holds depends on the loop the task is in.
TaskOK(t) ==
  /\ t.pc # "idle" => t.run \in Runs /\ t.job # "none"
  /\ t.pc \in EntityPc => t.todo \subseteq EntItems
  /\ t.pc \in RelationshipPc => t.todo \subseteq RelItems
  /\ t.pc \in LinkPc => t.todo \subseteq Nat

ReqRecords == [pc : {"new", "checked", "approved", "done"},
               run : Runs \cup {NULL}, decision : {"approve", "reject", NULL},
               pending : Drafts]

\* Every variable keeps its type.
TypeOK ==
  /\ row \in [Runs -> Rows]
  /\ queue \in Seq([job : {"run", "commit"}, run : Runs])
  /\ task \in [Slots -> Tasks] /\ \A w \in Slots : TaskOK(task[w])
  /\ creating \subseteq Runs
  /\ req \in [Requests -> ReqRecords]
  /\ \A q \in Requests : req[q].pc \in {"checked", "approved"} =>
                            req[q].run \in Runs
  /\ entities \subseteq [id : Nat, run : Runs, item : EntItems]
  /\ edges \subseteq [id : Nat, run : Runs, item : RelItems \cup {NULL}]
  /\ sourced \subseteq Nat /\ embedded \subseteq Nat
  /\ nextId \in Nat
  /\ approved \in [Runs -> SUBSET Drafts]
  /\ rejected \subseteq Runs

\* service.append_committed_* and mark_succeeded/mark_failed: an id a run
\* reports as committed is a node or edge that this run really wrote, however
\* tasks of the same or other runs interleave, fail or crash.
RecordedAreReal ==
  \A r \in Runs : /\ row[r].entity_ids \subseteq EntityIds(r)
                  /\ row[r].relationship_ids \subseteq EdgeIds(r)

\* agent_review_required: with review on, everything commit_node wrote for a
\* run is in a draft that an approval of that run stored, edited lists
\* included; only the links of enrich_node are not from a draft.
WrittenWasApproved ==
  ReviewSettings = {TRUE} =>
    /\ \A e \in entities : \E d \in approved[e.run] :
                             e.item \in d.entities \ Existing
    /\ \A x \in edges : /\ approved[x.run] # {}
                        /\ x.item # NULL => \E d \in approved[x.run] :
                                              x.item \in d.relationships

\* mark_awaiting_review: a parked run has its drafts stored, nothing in the
\* graph, no approval on record and nobody working on it; in particular no
\* late write brings a decided run back to awaiting_review.
ParkedIsUntouched ==
  \A r \in Runs : row[r].status = "awaiting_review" =>
    /\ row[r].pending # NULL
    /\ EntityIds(r) = {} /\ EdgeIds(r) = {}
    /\ approved[r] = {} /\ r \notin rejected
    /\ TasksOf(r) = {} /\ JobsOf(r) = {} /\ r \notin creating

\* commit_node, _finish_succeeded and _commit_agent_run: a run that succeeded
\* lists exactly what it wrote and keeps the analysis and notes its research
\* phase parked; each agreed new entity was written once, each agreed edge was
\* written or noted as skipped, and an entity without sources or embedding is
\* noted too.
SucceededIsComplete ==
  \A r \in Runs : row[r].status = "succeeded" =>
    LET mine == {e \in entities : e.run = r}
        notes == row[r].result.skipped
    IN
    /\ report[r] # NULL
    /\ row[r].result.analysis = report[r].analysis
    /\ report[r].skipped \subseteq notes
    /\ row[r].entity_ids = EntityIds(r)
    /\ row[r].relationship_ids = EdgeIds(r)
    /\ row[r].result.entities_created = Cardinality(EntityIds(r))
    /\ row[r].result.relationships_created = Cardinality(EdgeIds(r))
    /\ \A i \in Agreed(r).entities \ Existing :
         Cardinality({e \in mine : e.item = i}) = 1
    /\ \A x \in Agreed(r).relationships :
         \/ \E e \in edges : e.run = r /\ e.item = x
         \/ Note("rel", x) \in notes
    /\ \A e \in mine :
         /\ e.id \in embedded \/ Note("embed", e.id) \in notes
         /\ report[r].sources =>
              e.id \in sourced \/ Note("attach", e.id) \in notes

\* mark_cancelled.sql, "nothing is written to the graph": once a reviewer's
\* rejection went through, the run has written nothing.
RejectedWroteNothing ==
  \A r \in rejected : EntityIds(r) = {} /\ EdgeIds(r) = {}

\* A run is worked on by one job, task, creation or decision at a time: the
\* check in submit_review is what keeps two commits of a run apart.
OneOwnerPerRun ==
  \A r \in Runs : Cardinality(JobsOf(r)) + Cardinality(TasksOf(r))
                    + (IF r \in creating THEN 1 ELSE 0)
                    + Cardinality({q \in ReviewsOf(r) :
                                     req[q].pc = "approved"})
                  <= 1

\* Without crashes and failing calls a run in queued or running is always
\* some job's, task's or request's to move on.
NoOrphanRun ==
  ~Faults => \A r \in Runs : row[r].status \in {"queued", "running"} =>
    \/ JobsOf(r) # {} \/ TasksOf(r) # {} \/ r \in creating
    \/ \E q \in ReviewsOf(r) : req[q].pc = "approved"

\* The deadline and the timeouts are there so that a run cannot stall: a
\* created run comes to rest, waiting for review or terminal.
RunSettles ==
  \A r \in Runs : row[r].status \in {"queued", "running"}
                    ~> row[r].status \in Terminal \cup {"awaiting_review"}

\* mark_failed.sql, "Keep whatever was committed before the failure": an
\* entity that got past its append (its embedding or sources were stored) is
\* still listed when the run has failed.
FailedKeepsRecord ==
  \A r \in Runs : row[r].status = "failed" =>
    EntityIds(r) \cap (sourced \cup embedded) \subseteq row[r].entity_ids

-----------------------------------------------------------------------------
(* The contract of RunLifecycle, seen in the rows and in the graph.        *)

\* queued and running are one to the user: the run is being worked on.
Stage(status) ==
  CASE status \in {"queued", "running"} -> "active"
    [] status = "awaiting_review"       -> "parked"
    [] OTHER                            -> status

Lifecycle == INSTANCE RunLifecycle WITH
  Ids          <- Nat,
  ReviewAlways <- ReviewSettings = {TRUE},
  status       <- [r \in Runs |-> Stage(row[r].status)],
  approved     <- {r \in Runs : approved[r] # {}},
  written      <- [r \in Runs |-> EntityIds(r) \cup EdgeIds(r)],
  reported     <- [r \in Runs |->
                     row[r].entity_ids \cup row[r].relationship_ids]

\* The statuses of the agent_runs rows, the reviews and the ids a row reports:
\* as long as one user does not race reviews of a run, every step of a handler
\* or task, crashes and failures included, is a step of the contract or does
\* not show.  A decided run is never reopened or written to again, a rejected
\* one has written nothing, and a crash in the middle of a commit costs the
\* row at most the one write whose append_committed_* had not happened.
ImplementsLifecycle == Lifecycle!Spec

=============================================================================
