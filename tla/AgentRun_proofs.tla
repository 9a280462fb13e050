---------------------------- MODULE AgentRun_proofs ----------------------------
(***************************************************************************)
(* Proofs about AgentRun for any number of runs, slots, requests and draft *)
(* items, which assume nothing of reviewers, workers or failures: its      *)
(* types; that the ids a run reports are things it wrote; and who works on *)
(* a run: it has one job of the research kind in its life, it is parked    *)
(* before any decision, and everything written under review comes from a   *)
(* draft an approval stored.                                               *)
(***************************************************************************)
EXTENDS AgentRun, FiniteSetTheorems, SequenceTheorems, TLAPS

(* The inductive invariant.  RecordedAreReal alone is not inductive: the   *)
(* ids reach the row from a task's lists, which were filled earlier, so    *)
(* they have to be real from the moment commit_node or enrich_node adds    *)
(* them, and real for the run the task works on.                           *)
TaskReal(t) ==
  /\ t.ents \subseteq EntityIds(t.run) /\ t.lents \subseteq EntityIds(t.run)
  /\ t.rels \subseteq EdgeIds(t.run) /\ t.lrels \subseteq EdgeIds(t.run)
  /\ t.pc = "append_ent" => t.cur \in EntityIds(t.run)
  /\ t.pc \in {"append_rel", "append_link"} => t.cur \in EdgeIds(t.run)

ListsFinite(t) == /\ IsFiniteSet(t.ents) /\ IsFiniteSet(t.lents)
                  /\ IsFiniteSet(t.rels) /\ IsFiniteSet(t.lrels)

TaskGood(t) == TaskOK(t) /\ ListsFinite(t) /\ TaskReal(t)

TasksGood == /\ task \in [Slots -> Tasks]
             /\ \A w \in Slots : TaskGood(task[w])

RowsGood == row \in [Runs -> Rows] /\ RecordedAreReal

GatewayOK ==
  /\ queue \in Seq([job : {"run", "commit"}, run : Runs])
  /\ creating \subseteq Runs
  /\ req \in [Requests -> ReqRecords]
  /\ \A q \in Requests : req[q].pc \in {"checked", "approved"} =>
                            req[q].run \in Runs
  /\ approved \in [Runs -> SUBSET Drafts]
  /\ rejected \subseteq Runs

GraphOK ==
  /\ entities \subseteq [id : Nat, run : Runs, item : EntItems]
  /\ edges \subseteq [id : Nat, run : Runs, item : RelItems \cup {NULL}]
  /\ sourced \subseteq Nat /\ embedded \subseteq Nat
  /\ nextId \in Nat

RunInv == TasksGood /\ RowsGood /\ GatewayOK /\ GraphOK

-----------------------------------------------------------------------------
(* Nodes and edges of the runs are only ever added.                        *)
LEMMA IdsGrow ==
  ASSUME entities \subseteq entities', edges \subseteq edges'
  PROVE  \A r : /\ EntityIds(r) \subseteq EntityIds(r)'
                /\ EdgeIds(r) \subseteq EdgeIds(r)'
BY DEF EntityIds, EdgeIds

\* A task record stays good while nodes and edges are only added.
LEMMA TaskStays ==
  ASSUME NEW t, TaskGood(t),
         entities \subseteq entities', edges \subseteq edges'
  PROVE  TaskGood(t)'
<1>1. /\ EntityIds(t.run) \subseteq EntityIds(t.run)'
      /\ EdgeIds(t.run) \subseteq EdgeIds(t.run)'
  BY IdsGrow
<1> QED
  BY <1>1 DEF TaskGood, TaskReal, TaskOK, ListsFinite

(* A worker step replaces the record of its own slot.                      *)
LEMMA TaskSet ==
  ASSUME TasksGood, NEW w \in Slots, NEW n \in Tasks, TaskGood(n)',
         task' = [task EXCEPT ![w] = n],
         entities \subseteq entities', edges \subseteq edges'
  PROVE  TasksGood'
<1>1. task' \in [Slots -> Tasks]
  BY DEF TasksGood
<1>2. ASSUME NEW v \in Slots PROVE TaskGood(task[v])'
  <2>1. CASE v = w
    <3>1. task'[v] = n
      BY <2>1 DEF TasksGood
    <3> QED
      BY <3>1 DEF TaskGood, TaskOK, ListsFinite, TaskReal
  <2>2. CASE v # w
    <3>1. PICK t : t = task[v]
      OBVIOUS
    <3>2. task'[v] = t /\ TaskGood(t)
      BY <2>2, <3>1 DEF TasksGood
    <3>3. TaskGood(t)'
      BY <3>2, TaskStays
    <3> QED
      BY <3>2, <3>3 DEF TaskGood, TaskOK, ListsFinite, TaskReal
  <2> QED
    BY <2>1, <2>2
<1> QED
  BY <1>1, <1>2 DEF TasksGood

\* Good tasks stay good while they and the graph stay.
LEMMA TasksStay ==
  ASSUME TasksGood, UNCHANGED <<task, entities, edges>>
  PROVE  TasksGood'
BY DEF TasksGood, TaskGood, TaskOK, ListsFinite, TaskReal, EntityIds, EdgeIds

\* Good rows stay good while nodes and edges are only added.
LEMMA RowsStay ==
  ASSUME RowsGood, UNCHANGED row,
         entities \subseteq entities', edges \subseteq edges'
  PROVE  RowsGood'
BY IdsGrow DEF RowsGood, RecordedAreReal

(* A row step replaces the row of one run.                                 *)
LEMMA RowSet ==
  ASSUME RowsGood, NEW r \in Runs, NEW x \in Rows,
         row' = [row EXCEPT ![r] = x],
         x.entity_ids \subseteq EntityIds(r),
         x.relationship_ids \subseteq EdgeIds(r),
         UNCHANGED <<entities, edges>>
  PROVE  RowsGood'
BY DEF RowsGood, RecordedAreReal, EntityIds, EdgeIds

(* What the steps that write neither the row, the queue nor the review     *)
(* requests have in common.                                                *)
LEMMA TaskOnly ==
  ASSUME RunInv, NEW w \in Slots, NEW n \in Tasks, TaskGood(n),
         task' = [task EXCEPT ![w] = n],
         UNCHANGED <<row, creating, req, approved, rejected, entities, edges,
                     nextId>>,
         queue' \in Seq([job : {"run", "commit"}, run : Runs]),
         sourced' \subseteq Nat, embedded' \subseteq Nat
  PROVE  RunInv'
<1>1. TaskGood(n)'
  BY TaskStays
<1>2. TasksGood'
  BY <1>1, TaskSet DEF RunInv
<1>3. RowsGood'
  BY RowsStay DEF RunInv
<1> QED
  BY <1>2, <1>3 DEF RunInv, GatewayOK, GraphOK

(* Steps that write the row of a task's run and move the task on.          *)
LEMMA TaskAndRow ==
  ASSUME RunInv, NEW w \in Slots, NEW n \in Tasks, TaskGood(n),
         task' = [task EXCEPT ![w] = n],
         NEW r \in Runs, NEW x \in Rows,
         row' = [row EXCEPT ![r] = x],
         x.entity_ids \subseteq EntityIds(r),
         x.relationship_ids \subseteq EdgeIds(r),
         UNCHANGED <<queue, creating, req, approved, rejected, graphVars>>
  PROVE  RunInv'
<1>1. TaskGood(n)'
  BY TaskStays DEF graphVars
<1>2. TasksGood'
  BY <1>1, TaskSet DEF RunInv, graphVars
<1>3. RowsGood'
  BY RowSet DEF RunInv, graphVars
<1> QED
  BY <1>2, <1>3 DEF RunInv, GatewayOK, GraphOK, graphVars
-----------------------------------------------------------------------------
\* Every program counter an action assigns is one.
LEMMA PcTyped ==
  /\ {"start", "research", "park", "finish", "failing"} \subseteq TaskPc
  /\ {"ents", "append_ent", "attach", "embed"} \subseteq TaskPc
  /\ {"rels", "append_rel", "record_commit"} \subseteq TaskPc
  /\ {"enrich", "append_link", "record_enrich"} \subseteq TaskPc
BY DEF TaskPc, GuardedPc, UnguardedPc, EntityPc, RelationshipPc, LinkPc

(* The update of the task when commit_node returns.                        *)
LEMMA ReturnedTyped ==
  ASSUME NEW t \in Tasks, NEW p \in TaskPc,
         NEW es \in SUBSET Nat, NEW rs \in SUBSET Nat,
         NEW todo \in SUBSET (EntItems \cup RelItems \cup Nat)
  PROVE  [t EXCEPT !.pc = p, !.ents = es, !.rels = rs, !.todo = todo,
                   !.links = 0] \in Tasks
BY DEF Tasks

(* What a task carries after a link that could not be created.             *)
LEMMA NotedTyped ==
  ASSUME NEW t \in Tasks, NEW links \in Nat, NEW notes \in SUBSET Notes
  PROVE  [t EXCEPT !.links = links, !.skipped = notes] \in Tasks
BY DEF Tasks

\* An idle slot is a good task.
LEMMA IdleGood == IdleTask \in Tasks /\ TaskGood(IdleTask)
BY FS_EmptySet DEF IdleTask, Tasks, TaskGood, TaskOK, TaskReal, ListsFinite,
     TaskPc, EntityPc, RelationshipPc, LinkPc, Drafts, NoDraft, Analyses

(* _result counts the lists, which are finite.                             *)
LEMMA ResultTyped ==
  ASSUME NEW t \in Tasks, TaskGood(t)
  PROVE  ResultOf(t) \in Results
<1>1. Cardinality(t.ents) \in Nat /\ Cardinality(t.rels) \in Nat
  BY FS_CardinalityType DEF TaskGood, ListsFinite
<1> QED
  BY <1>1 DEF ResultOf, Results, Tasks

(* A task ends, well or not.                                               *)
LEMMA EndStepPreserves ==
  ASSUME RunInv, NEW w \in Slots, EndStep(w)
  PROVE  RunInv'
<1> PICK t : t = task[w]
  OBVIOUS
<1>a. t \in Tasks /\ TaskGood(t)
  BY DEF RunInv, TasksGood
<1>b. /\ queue \in Seq([job : {"run", "commit"}, run : Runs])
      /\ sourced \subseteq Nat /\ embedded \subseteq Nat /\ nextId \in Nat
  BY DEF RunInv, GatewayOK, GraphOK
<1>c. t.run \in Runs => /\ row[t.run] \in Rows
                        /\ row[t.run].entity_ids \subseteq EntityIds(t.run)
                        /\ row[t.run].relationship_ids \subseteq EdgeIds(t.run)
  BY DEF RunInv, RowsGood, RecordedAreReal
<1>1. CASE MarkSucceeded(w)
  <2>1. task' = [task EXCEPT ![w] = IdleTask]
    BY <1>1 DEF MarkSucceeded
  <2> PICK x : x = [row[t.run] EXCEPT !.status = "succeeded",
          !.current_node = NULL,
          !.result = ResultOf(t),
          !.entity_ids = t.ents,
          !.relationship_ids = t.rels]
    OBVIOUS
  <2>4. row' = [row EXCEPT ![t.run] = x]
    BY <1>1 DEF MarkSucceeded
  <2>2. t.run \in Runs
    BY <1>1, <1>a DEF MarkSucceeded, TaskGood, TaskOK
  <2>3. /\ t.ents \subseteq EntityIds(t.run) /\ t.ents \in SUBSET Nat
        /\ t.rels \subseteq EdgeIds(t.run) /\ t.rels \in SUBSET Nat
    BY <1>a DEF TaskGood, TaskReal, Tasks
  <2>6. ResultOf(t) \in Results
    BY <1>a, ResultTyped
  <2>7. x \in Rows
    BY <1>c, <2>2, <2>3, <2>6, ZenonT(60) DEF Rows, Status
  <2>8. x.entity_ids = t.ents /\ x.relationship_ids = t.rels
    BY <1>c, <2>2 DEF Rows
  <2>5. /\ x \in Rows /\ t.run \in Runs
        /\ x.entity_ids \subseteq EntityIds(t.run)
        /\ x.relationship_ids \subseteq EdgeIds(t.run)
    BY <2>2, <2>3, <2>7, <2>8
  <2> QED
    BY <1>1, <2>1, IdleGood, <2>4, <2>5, TaskAndRow DEF MarkSucceeded
<1>2. CASE DeadlinePasses(w)
  <2> PICK n : n = [t EXCEPT !.pc = "failing",
          !.cause = "deadline"]
    OBVIOUS
  <2>1. task' = [task EXCEPT ![w] = n]
    BY <1>2 DEF DeadlinePasses
  <2>2. n \in Tasks
    BY <1>2, <1>a, PcTyped DEF DeadlinePasses, Tasks
  <2>3. TaskGood(n)
    BY <1>2, <1>a DEF DeadlinePasses, Tasks, TaskGood, TaskOK, TaskReal,
         ListsFinite, EntityPc, RelationshipPc, LinkPc, GuardedPc
  <2> QED
    BY <1>2, <1>b, <2>1, <2>2, <2>3, TaskOnly DEF DeadlinePasses, rowVars,
         graphVars
<1>3. CASE NodeRaises(w)
  <2> PICK n : n = [t EXCEPT !.pc = "failing",
          !.cause = "exception"]
    OBVIOUS
  <2>1. task' = [task EXCEPT ![w] = n]
    BY <1>3 DEF NodeRaises
  <2>2. n \in Tasks
    BY <1>3, <1>a, PcTyped DEF NodeRaises, Tasks
  <2>3. TaskGood(n)
    BY <1>3, <1>a DEF NodeRaises, Tasks, TaskGood, TaskOK, TaskReal,
         ListsFinite, EntityPc, RelationshipPc, LinkPc, CanRaise
  <2> QED
    BY <1>3, <1>b, <2>1, <2>2, <2>3, TaskOnly DEF NodeRaises, rowVars,
         graphVars
<1>4. CASE MarkFailed(w)
  <2>1. task' = [task EXCEPT ![w] = IdleTask]
    BY <1>4 DEF MarkFailed
  <2> PICK x : x = [row[t.run] EXCEPT !.status = "failed",
          !.error = t.cause,
          !.entity_ids = t.ents,
          !.relationship_ids = t.rels]
    OBVIOUS
  <2>4. row' = [row EXCEPT ![t.run] = x]
    BY <1>4 DEF MarkFailed
  <2>5. /\ x \in Rows /\ t.run \in Runs
        /\ x.entity_ids \subseteq EntityIds(t.run)
        /\ x.relationship_ids \subseteq EdgeIds(t.run)
    BY <1>4, <1>a, <1>c, ZenonT(60) DEF MarkFailed, Rows, Tasks, TaskGood, TaskOK,
         TaskReal, Status
  <2> QED
    BY <1>4, <2>1, IdleGood, <2>4, <2>5, TaskAndRow DEF MarkFailed
<1>5. CASE TaskDies(w)
  <2>1. task' = [task EXCEPT ![w] = IdleTask]
    BY <1>5 DEF TaskDies
  <2> QED
    BY <1>5, <1>b, <2>1, IdleGood, TaskOnly DEF TaskDies, rowVars, graphVars
<1>6. CASE Crash(w)
  <2>1. task' = [task EXCEPT ![w] = IdleTask]
    BY <1>6 DEF Crash
  <2> QED
    BY <1>6, <1>b, <2>1, IdleGood, TaskOnly DEF Crash, rowVars, graphVars
<1> QED
  BY <1>1, <1>2, <1>3, <1>4, <1>5, <1>6 DEF EndStep
(* A task starts; the research phase, up to the parking of its draft.      *)
LEMMA ResearchStepPreserves ==
  ASSUME RunInv, NEW w \in Slots, ResearchStep(w)
  PROVE  RunInv'
<1> PICK t : t = task[w]
  OBVIOUS
<1>a. t \in Tasks /\ TaskGood(t)
  BY DEF RunInv, TasksGood
<1>b. /\ queue \in Seq([job : {"run", "commit"}, run : Runs])
      /\ sourced \subseteq Nat /\ embedded \subseteq Nat /\ nextId \in Nat
  BY DEF RunInv, GatewayOK, GraphOK
<1>c. t.run \in Runs => /\ row[t.run] \in Rows
                        /\ row[t.run].entity_ids \subseteq EntityIds(t.run)
                        /\ row[t.run].relationship_ids \subseteq EdgeIds(t.run)
  BY DEF RunInv, RowsGood, RecordedAreReal
<1>1. CASE Receive(w)
  <2> PICK j : j = Head(queue)
    OBVIOUS
  <2>0. /\ j \in [job : {"run", "commit"}, run : Runs]
        /\ queue' \in Seq([job : {"run", "commit"}, run : Runs])
    BY <1>1, <1>b, HeadTailProperties DEF Receive
  <2> PICK n : n = [IdleTask EXCEPT !.pc = "start", !.job = j.job,
                                    !.run = j.run]
    OBVIOUS
  <2>1. task' = [task EXCEPT ![w] = n]
    BY <1>1 DEF Receive
  <2>2. n \in Tasks
    BY <2>0, IdleGood, PcTyped DEF Tasks
  <2>3. TaskGood(n)
    BY <2>0, IdleGood DEF IdleTask, TaskGood, TaskOK, TaskReal, ListsFinite,
         EntityPc, RelationshipPc, LinkPc
  <2> QED
    BY <1>1, <1>b, <2>0, <2>1, <2>2, <2>3, TaskOnly DEF Receive, rowVars,
         graphVars
<1>2. CASE MarkRunning(w)
  <2> PICK n : n = [t EXCEPT !.pc = "research"]
    OBVIOUS
  <2>1. task' = [task EXCEPT ![w] = n]
    BY <1>2 DEF MarkRunning
  <2>2. n \in Tasks
    BY <1>2, <1>a, PcTyped DEF MarkRunning, Tasks
  <2>3. TaskGood(n)
    BY <1>2, <1>a DEF MarkRunning, Tasks, TaskGood, TaskOK, TaskReal,
         ListsFinite, EntityPc, RelationshipPc, LinkPc
  <2> PICK x : x = [row[t.run] EXCEPT !.status = "running",
          !.current_node = NULL,
          !.error = NULL]
    OBVIOUS
  <2>4. row' = [row EXCEPT ![t.run] = x]
    BY <1>2 DEF MarkRunning
  <2>5. /\ x \in Rows /\ t.run \in Runs
        /\ x.entity_ids \subseteq EntityIds(t.run)
        /\ x.relationship_ids \subseteq EdgeIds(t.run)
    BY <1>2, <1>a, <1>c DEF MarkRunning, Rows, Tasks, TaskGood, TaskOK,
         TaskReal, Status
  <2> QED
    BY <1>2, <2>1, <2>2, <2>3, <2>4, <2>5, TaskAndRow DEF MarkRunning
<1>3. CASE RecordNode(w)
  <2> PICK x : x = [row[t.run] EXCEPT !.current_node = "research"]
    OBVIOUS
  <2>1. row' = [row EXCEPT ![t.run] = x]
    BY <1>3 DEF RecordNode
  <2>2. /\ x \in Rows /\ t.run \in Runs
        /\ x.entity_ids \subseteq EntityIds(t.run)
        /\ x.relationship_ids \subseteq EdgeIds(t.run)
    BY <1>3, <1>a, <1>c DEF RecordNode, Rows, Tasks, TaskGood, TaskOK, Nodes
  <2>3. TasksGood' /\ RowsGood'
    BY <1>3, <2>1, <2>2, TasksStay, RowSet DEF RecordNode, RunInv, graphVars
  <2> QED
    BY <1>3, <2>3 DEF RecordNode, RunInv, GatewayOK, GraphOK, graphVars
<1>4. CASE ResearchDone(w)
  <2> PICK d \in Drafts, rep \in Reports, s \in BOOLEAN, pc \in AfterResearch :
       /\ task' = [task EXCEPT ![w] =
                    [@ EXCEPT !.pc = pc,
                              !.structured = d,
                              !.todo = d.entities,
                              !.analysis = rep.analysis,
                              !.skipped = rep.skipped,
                              !.sources = s]]
       /\ report' = [report EXCEPT ![task[w].run] = [analysis |-> rep.analysis,
                                                     skipped |-> rep.skipped,
                                                     sources |-> s,
                                                     drafts |-> d]]
    BY <1>4 DEF ResearchDone
  <2> PICK n : n = [t EXCEPT !.pc = pc,
                              !.structured = d,
                              !.todo = d.entities,
                              !.analysis = rep.analysis,
                              !.skipped = rep.skipped,
                              !.sources = s]
    OBVIOUS
  <2>1. task' = [task EXCEPT ![w] = n]
    OBVIOUS
  <2>p. pc \in {"park", "ents"}
    BY DEF AfterResearch
  <2>2. n \in Tasks
    <3>1. /\ d.entities \in SUBSET (EntItems \cup RelItems \cup Nat)
          /\ rep.analysis \in Analyses /\ rep.skipped \in SUBSET Notes
      BY ReportAssumption DEF Drafts, Analyses
    <3> QED
      BY <1>a, <2>p, <3>1, PcTyped DEF Tasks
  <2>3. TaskGood(n)
    BY <1>4, <1>a, <2>p DEF ResearchDone, Tasks, TaskGood, TaskOK, TaskReal,
         ListsFinite, EntityPc, RelationshipPc, LinkPc, Drafts
  <2> QED
    BY <1>4, <1>b, <2>1, <2>2, <2>3, TaskOnly DEF ResearchDone, graphVars
<1>5. CASE MarkAwaitingReview(w)
  <2>1. task' = [task EXCEPT ![w] = IdleTask]
    BY <1>5 DEF MarkAwaitingReview
  <2> PICK x : x = [row[t.run] EXCEPT !.status = "awaiting_review",
          !.current_node = NULL,
          !.pending = t.structured,
          !.result = ResultOf(t),
          !.sources = t.sources]
    OBVIOUS
  <2>4. row' = [row EXCEPT ![t.run] = x]
    BY <1>5 DEF MarkAwaitingReview
  <2>2. t.run \in Runs /\ t.structured \in Drafts /\ t.sources \in BOOLEAN
    BY <1>5, <1>a DEF MarkAwaitingReview, TaskGood, TaskOK, Tasks
  <2>3. ResultOf(t) \in Results
    BY <1>a, ResultTyped
  <2>6. x \in Rows
    BY <1>c, <2>2, <2>3, ZenonT(60) DEF Rows, Status
  <2>7. /\ x.entity_ids = row[t.run].entity_ids
        /\ x.relationship_ids = row[t.run].relationship_ids
    BY <1>c, <2>2 DEF Rows
  <2>5. /\ x \in Rows /\ t.run \in Runs
        /\ x.entity_ids \subseteq EntityIds(t.run)
        /\ x.relationship_ids \subseteq EdgeIds(t.run)
    BY <1>c, <2>2, <2>6, <2>7
  <2> QED
    BY <1>5, <2>1, IdleGood, <2>4, <2>5, TaskAndRow DEF MarkAwaitingReview
<1> QED
  BY <1>1, <1>2, <1>3, <1>4, <1>5 DEF ResearchStep

(* commit_node.                                                            *)
LEMMA CommitStepPreserves ==
  ASSUME RunInv, NEW w \in Slots, CommitStep(w)
  PROVE  RunInv'
<1> PICK t : t = task[w]
  OBVIOUS
<1>a. t \in Tasks /\ TaskGood(t)
  BY DEF RunInv, TasksGood
<1>b. /\ queue \in Seq([job : {"run", "commit"}, run : Runs])
      /\ sourced \subseteq Nat /\ embedded \subseteq Nat /\ nextId \in Nat
  BY DEF RunInv, GatewayOK, GraphOK
<1>c. t.run \in Runs => /\ row[t.run] \in Rows
                        /\ row[t.run].entity_ids \subseteq EntityIds(t.run)
                        /\ row[t.run].relationship_ids \subseteq EdgeIds(t.run)
  BY DEF RunInv, RowsGood, RecordedAreReal
<1>1. CASE LoadParked(w)
  <2>0. t.pc = "start" /\ row[t.run] \in Rows
    BY <1>1, <1>a, <1>c DEF LoadParked, TaskGood, TaskOK
  <2> PICK d \in Drafts, a \in Analyses, k \in SUBSET Notes, s \in BOOLEAN :
        task' = [task EXCEPT ![w] =
                    [@ EXCEPT !.pc = "ents",
                              !.structured = d,
                              !.todo = d.entities,
                              !.analysis = a,
                              !.skipped = k,
                              !.sources = s]]
    <3> PICK x : x = row[t.run]
      OBVIOUS
    <3> PICK d : d = IF x.pending = NULL THEN NoDraft ELSE x.pending
      OBVIOUS
    <3> PICK a : a = IF x.result = NULL THEN NULL ELSE x.result.analysis
      OBVIOUS
    <3> PICK k : k = IF x.result = NULL THEN {} ELSE x.result.skipped
      OBVIOUS
    <3> PICK s : s = x.sources
      OBVIOUS
    <3>1. d \in Drafts
      BY <2>0 DEF Rows, Drafts, NoDraft
    <3>2. a \in Analyses
      BY <2>0 DEF Rows, Results, Analyses
    <3>3. k \in SUBSET Notes
      BY <2>0 DEF Rows, Results
    <3>4. s \in BOOLEAN
      BY <2>0 DEF Rows
    <3>5. task' = [task EXCEPT ![w] =
                    [@ EXCEPT !.pc = "ents",
                              !.structured = d,
                              !.todo = d.entities,
                              !.analysis = a,
                              !.skipped = k,
                              !.sources = s]]
      BY <1>1 DEF LoadParked
    <3> USE <3>1, <3>2, <3>3, <3>4
    <3> WITNESS d \in Drafts, a \in Analyses, k \in SUBSET Notes, s \in BOOLEAN
    <3> QED
      BY <3>5
  <2> PICK n : n = [t EXCEPT !.pc = "ents",
                              !.structured = d,
                              !.todo = d.entities,
                              !.analysis = a,
                              !.skipped = k,
                              !.sources = s]
    OBVIOUS
  <2>1. task' = [task EXCEPT ![w] = n]
    OBVIOUS
  <2>2. n \in Tasks
    <3>1. d.entities \in SUBSET (EntItems \cup RelItems \cup Nat)
      BY DEF Drafts
    <3> QED
      BY <1>a, <3>1, PcTyped, ZenonT(60) DEF Tasks
  <2>3. TaskGood(n)
    BY <1>a, <2>0 DEF Tasks, TaskGood, TaskOK, TaskReal, ListsFinite,
         EntityPc, RelationshipPc, LinkPc, Drafts
  <2> QED
    BY <1>1, <1>b, <2>1, <2>2, <2>3, TaskOnly DEF LoadParked, rowVars,
         graphVars
<1>2. CASE UseExisting(w)
  <2> PICK e \in t.todo :
        task' = [task EXCEPT ![w].todo = @ \ {e}]
    BY <1>2 DEF UseExisting
  <2> PICK n : n = [t EXCEPT !.todo = t.todo \ {e}]
    OBVIOUS
  <2>1. task' = [task EXCEPT ![w] = n]
    BY <1>2 DEF UseExisting
  <2>2. n \in Tasks
    BY <1>2, <1>a, PcTyped DEF UseExisting, Tasks
  <2>3. TaskGood(n)
    BY <1>2, <1>a DEF UseExisting, Tasks, TaskGood, TaskOK, TaskReal,
         ListsFinite, EntityPc, RelationshipPc, LinkPc
  <2> QED
    BY <1>2, <1>b, <2>1, <2>2, <2>3, TaskOnly DEF UseExisting, rowVars,
         graphVars
<1>3. CASE CreateEntity(w)
  <2> PICK e \in t.todo :
        /\ entities' = entities \cup
                        {[id |-> nextId, run |-> t.run, item |-> e]}
        /\ task' = [task EXCEPT ![w] =
                    [@ EXCEPT !.pc = "append_ent", !.todo = task[w].todo \ {e},
                              !.lents = task[w].lents \cup {nextId},
                              !.cur = nextId]]
    BY <1>3 DEF CreateEntity
  <2> PICK n : n = [t EXCEPT !.pc = "append_ent",
          !.todo = t.todo \ {e},
          !.lents = t.lents \cup {nextId},
          !.cur = nextId]
    OBVIOUS
  <2>1. task' = [task EXCEPT ![w] = n]
    BY <1>3 DEF CreateEntity
  <2>2. n \in Tasks
    BY <1>3, <1>a, <1>b, PcTyped, ZenonT(60) DEF CreateEntity, Tasks
  <2>3. /\ entities \subseteq entities' /\ edges \subseteq edges'
        /\ nextId \in EntityIds(t.run)'
    <3> PICK o : o = [id |-> nextId, run |-> t.run, item |-> e]
      OBVIOUS
    <3>1. /\ entities \subseteq entities' /\ edges \subseteq edges'
          /\ o \in entities'
      BY <1>3 DEF CreateEntity
    <3>2. o.id = nextId /\ o.run = t.run
      OBVIOUS
    <3> QED
      BY <3>1, <3>2 DEF EntityIds
  <2>4. TaskGood(n)'
    <3>1. TaskOK(n) /\ ListsFinite(n)
      BY <1>3, <1>a, <1>b, FS_AddElement DEF CreateEntity, Tasks, TaskGood,
           TaskOK, ListsFinite, EntityPc, RelationshipPc, LinkPc
    <3>2. TaskGood(t)'
      BY <1>a, <2>3, TaskStays
    <3>3. TaskReal(n)'
      BY <1>3, <1>a, <2>3, <3>2 DEF CreateEntity, Tasks, TaskGood, TaskReal
    <3> QED
      BY <3>1, <3>3 DEF TaskGood, TaskOK, ListsFinite
  <2>5. TasksGood' /\ RowsGood'
    BY <1>3, <2>1, <2>2, <2>3, <2>4, TaskSet, RowsStay DEF CreateEntity,
         RunInv, rowVars
  <2>6. GatewayOK' /\ GraphOK'
    BY <1>3, <1>a DEF CreateEntity, RunInv, GatewayOK, GraphOK, rowVars,
         Tasks, TaskGood, TaskOK, EntityPc, RelationshipPc
  <2> QED
    BY <2>5, <2>6 DEF RunInv
<1>4. CASE AppendCommittedEntity(w)
  <2> PICK n : n = [t EXCEPT !.pc = IF t.sources THEN "attach" ELSE "embed"]
    OBVIOUS
  <2>1. task' = [task EXCEPT ![w] = n]
    BY <1>4 DEF AppendCommittedEntity
  <2>2. n \in Tasks
    BY <1>4, <1>a, PcTyped DEF AppendCommittedEntity, Tasks
  <2>3. TaskGood(n)
    BY <1>4, <1>a DEF AppendCommittedEntity, Tasks, TaskGood, TaskOK,
         TaskReal, ListsFinite, EntityPc, RelationshipPc, LinkPc
  <2> PICK x : x = [row[t.run] EXCEPT !.entity_ids =
                                        row[t.run].entity_ids \cup {t.cur}]
    OBVIOUS
  <2>4. row' = [row EXCEPT ![t.run] = x]
    BY <1>4 DEF AppendCommittedEntity
  <2>5. /\ x \in Rows /\ t.run \in Runs
        /\ x.entity_ids \subseteq EntityIds(t.run)
        /\ x.relationship_ids \subseteq EdgeIds(t.run)
    BY <1>4, <1>a, <1>c DEF AppendCommittedEntity, Rows, Tasks, TaskGood,
         TaskOK, TaskReal
  <2> QED
    BY <1>4, <2>1, <2>2, <2>3, <2>4, <2>5, TaskAndRow DEF AppendCommittedEntity
<1>5. CASE AttachSources(w)
  <2> PICK n : n \in {[t EXCEPT !.pc = "embed"],
                    [t EXCEPT !.pc = "embed",
                              !.skipped = t.skipped
                                            \cup {Note("attach", t.cur)}]}
               /\ task' = [task EXCEPT ![w] = n]
    BY <1>5 DEF AttachSources
  <2>1. Note("attach", t.cur) \in Notes
    BY <1>a DEF Note, Notes, Tasks
  <2>2. n \in Tasks
    <3>1. [t EXCEPT !.pc = "embed"] \in Tasks
      BY <1>a, PcTyped DEF Tasks
    <3>2. [t EXCEPT !.pc = "embed",
                    !.skipped = t.skipped \cup {Note("attach", t.cur)}]
            \in Tasks
      <4>1. t.skipped \cup {Note("attach", t.cur)} \in SUBSET Notes
        BY <1>a, <2>1 DEF Tasks
      <4> QED
        BY <1>a, <4>1, PcTyped, ZenonT(60) DEF Tasks
    <3> QED
      BY <3>1, <3>2
  <2>3. TaskGood(n)
    BY <1>5, <1>a, ZenonT(60) DEF AttachSources, Tasks, TaskGood, TaskOK, TaskReal,
         ListsFinite, EntityPc, RelationshipPc, LinkPc
  <2>4. sourced' \subseteq Nat
    BY <1>5, <1>a, <1>b DEF AttachSources, Tasks
  <2> QED
    BY <1>5, <1>b, <2>2, <2>3, <2>4, TaskOnly DEF AttachSources, rowVars
<1>6. CASE EmbedEntity(w)
  <2> PICK n : n \in {[t EXCEPT !.pc = "ents"],
                    [t EXCEPT !.pc = "ents",
                              !.skipped = t.skipped
                                            \cup {Note("embed", t.cur)}]}
               /\ task' = [task EXCEPT ![w] = n]
    BY <1>6 DEF EmbedEntity
  <2>1. Note("embed", t.cur) \in Notes
    BY <1>a DEF Note, Notes, Tasks
  <2>2. n \in Tasks
    <3>1. [t EXCEPT !.pc = "ents"] \in Tasks
      BY <1>a, PcTyped DEF Tasks
    <3>2. [t EXCEPT !.pc = "ents",
                    !.skipped = t.skipped \cup {Note("embed", t.cur)}]
            \in Tasks
      <4>1. t.skipped \cup {Note("embed", t.cur)} \in SUBSET Notes
        BY <1>a, <2>1 DEF Tasks
      <4> QED
        BY <1>a, <4>1, PcTyped, ZenonT(60) DEF Tasks
    <3> QED
      BY <3>1, <3>2
  <2>3. TaskGood(n)
    BY <1>6, <1>a, ZenonT(60) DEF EmbedEntity, Tasks, TaskGood, TaskOK, TaskReal,
         ListsFinite, EntityPc, RelationshipPc, LinkPc
  <2>4. embedded' \subseteq Nat
    BY <1>6, <1>a, <1>b DEF EmbedEntity, Tasks
  <2> QED
    BY <1>6, <1>b, <2>2, <2>3, <2>4, TaskOnly DEF EmbedEntity, rowVars
<1>7. CASE EntitiesDone(w)
  <2> PICK n : n = [t EXCEPT !.pc = "rels",
          !.todo = t.structured.relationships]
    OBVIOUS
  <2>1. task' = [task EXCEPT ![w] = n]
    BY <1>7 DEF EntitiesDone
  <2>2. n \in Tasks
    BY <1>7, <1>a, PcTyped, ZenonT(60) DEF EntitiesDone, Tasks, Drafts
  <2>3. TaskGood(n)
    BY <1>7, <1>a DEF EntitiesDone, Tasks, TaskGood, TaskOK, TaskReal,
         ListsFinite, EntityPc, RelationshipPc, LinkPc, Drafts
  <2> QED
    BY <1>7, <1>b, <2>1, <2>2, <2>3, TaskOnly DEF EntitiesDone, rowVars,
         graphVars
<1>8. CASE SkipRelationship(w)
  <2> PICK e \in t.todo :
        task' = [task EXCEPT ![w] =
                 [@ EXCEPT !.todo = task[w].todo \ {e},
                           !.skipped = task[w].skipped \cup {Note("rel", e)}]]
    BY <1>8 DEF SkipRelationship
  <2>0. Note("rel", e) \in Notes
    BY <1>8, <1>a DEF SkipRelationship, TaskGood, TaskOK, RelationshipPc,
         Note, Notes
  <2> PICK n : n = [t EXCEPT !.todo = t.todo \ {e},
          !.skipped = t.skipped \cup {Note("rel", e)}]
    OBVIOUS
  <2>1. task' = [task EXCEPT ![w] = n]
    BY <1>8 DEF SkipRelationship
  <2>2. n \in Tasks
    BY <1>8, <1>a, PcTyped, <2>0 DEF SkipRelationship, Tasks
  <2>3. TaskGood(n)
    BY <1>8, <1>a DEF SkipRelationship, Tasks, TaskGood, TaskOK, TaskReal,
         ListsFinite, EntityPc, RelationshipPc, LinkPc
  <2> QED
    BY <1>8, <1>b, <2>1, <2>2, <2>3, TaskOnly DEF SkipRelationship, rowVars,
         graphVars
<1>9. CASE CreateRelationship(w)
  <2> PICK e \in t.todo :
        /\ edges' = edges \cup
                     {[id |-> nextId, run |-> t.run, item |-> e]}
        /\ task' = [task EXCEPT ![w] =
                    [@ EXCEPT !.pc = "append_rel", !.todo = task[w].todo \ {e},
                              !.lrels = task[w].lrels \cup {nextId},
                              !.cur = nextId]]
    BY <1>9 DEF CreateRelationship
  <2> PICK n : n = [t EXCEPT !.pc = "append_rel",
          !.todo = t.todo \ {e},
          !.lrels = t.lrels \cup {nextId},
          !.cur = nextId]
    OBVIOUS
  <2>1. task' = [task EXCEPT ![w] = n]
    BY <1>9 DEF CreateRelationship
  <2>2. n \in Tasks
    BY <1>9, <1>a, <1>b, PcTyped, ZenonT(60) DEF CreateRelationship, Tasks
  <2>3. /\ entities \subseteq entities' /\ edges \subseteq edges'
        /\ nextId \in EdgeIds(t.run)'
    <3> PICK o : o = [id |-> nextId, run |-> t.run, item |-> e]
      OBVIOUS
    <3>1. /\ entities \subseteq entities' /\ edges \subseteq edges'
          /\ o \in edges'
      BY <1>9 DEF CreateRelationship
    <3>2. o.id = nextId /\ o.run = t.run
      OBVIOUS
    <3> QED
      BY <3>1, <3>2 DEF EdgeIds
  <2>4. TaskGood(n)'
    <3>1. TaskOK(n) /\ ListsFinite(n)
      BY <1>9, <1>a, <1>b, FS_AddElement DEF CreateRelationship, Tasks,
           TaskGood, TaskOK, ListsFinite, EntityPc, RelationshipPc, LinkPc
    <3>2. TaskGood(t)'
      BY <1>a, <2>3, TaskStays
    <3>3. TaskReal(n)'
      BY <1>9, <1>a, <2>3, <3>2 DEF CreateRelationship, Tasks, TaskGood,
           TaskReal
    <3> QED
      BY <3>1, <3>3 DEF TaskGood, TaskOK, ListsFinite
  <2>5. TasksGood' /\ RowsGood'
    BY <1>9, <2>1, <2>2, <2>3, <2>4, TaskSet, RowsStay DEF CreateRelationship,
         RunInv, rowVars
  <2>6. GatewayOK' /\ GraphOK'
    BY <1>9, <1>a DEF CreateRelationship, RunInv, GatewayOK, GraphOK, rowVars,
         Tasks, TaskGood, TaskOK, EntityPc, RelationshipPc
  <2> QED
    BY <2>5, <2>6 DEF RunInv
<1>10. CASE AppendCommittedRelationship(w)
  <2> PICK n : n = [t EXCEPT !.pc = "rels"]
    OBVIOUS
  <2>1. task' = [task EXCEPT ![w] = n]
    BY <1>10 DEF AppendCommittedRelationship
  <2>2. n \in Tasks
    BY <1>10, <1>a, PcTyped DEF AppendCommittedRelationship, Tasks
  <2>3. TaskGood(n)
    BY <1>10, <1>a DEF AppendCommittedRelationship, Tasks, TaskGood, TaskOK,
         TaskReal, ListsFinite, EntityPc, RelationshipPc, LinkPc
  <2> PICK x : x = [row[t.run] EXCEPT !.relationship_ids =
                                  row[t.run].relationship_ids \cup {t.cur}]
    OBVIOUS
  <2>4. row' = [row EXCEPT ![t.run] = x]
    BY <1>10 DEF AppendCommittedRelationship
  <2>5. /\ x \in Rows /\ t.run \in Runs
        /\ x.entity_ids \subseteq EntityIds(t.run)
        /\ x.relationship_ids \subseteq EdgeIds(t.run)
    BY <1>10, <1>a, <1>c DEF AppendCommittedRelationship, Rows, Tasks,
         TaskGood, TaskOK, TaskReal
  <2> QED
    BY <1>10, <2>1, <2>2, <2>3, <2>4, <2>5, TaskAndRow
         DEF AppendCommittedRelationship
<1>11. CASE CommitNodeReturns(w)
  <2> PICK p : p = IF t.job = "run" THEN "record_commit" ELSE "enrich"
    OBVIOUS
  <2>0. /\ t.lents \in SUBSET (EntItems \cup RelItems \cup Nat)
        /\ t.lents \in SUBSET Nat /\ t.lrels \in SUBSET Nat
        /\ p \in {"record_commit", "enrich"}
    BY <1>a DEF Tasks
  <2> PICK n : n = [t EXCEPT !.pc = p,
          !.ents = t.lents,
          !.rels = t.lrels,
          !.todo = t.lents,
          !.links = 0]
    OBVIOUS
  <2>1. task' = [task EXCEPT ![w] = n]
    BY <1>11 DEF CommitNodeReturns
  <2>2. n \in Tasks
    <3>1. t \in Tasks /\ p \in TaskPc
      BY <1>a, <2>0, PcTyped
    <3> QED
      BY <2>0, <3>1, ReturnedTyped, Zenon, SMTT(30)
  <2>3. TaskGood(n)
    BY <1>11, <1>a, <2>0 DEF CommitNodeReturns, Tasks, TaskGood, TaskOK,
         TaskReal, ListsFinite, EntityPc, RelationshipPc, LinkPc
  <2> QED
    BY <1>11, <1>b, <2>1, <2>2, <2>3, TaskOnly DEF CommitNodeReturns, rowVars,
         graphVars
<1>12. CASE RecordWritingNode(w)
  <2> PICK n : n = [t EXCEPT !.pc = IF t.pc = "record_commit"
                                    THEN "enrich" ELSE "finish"]
    OBVIOUS
  <2>1. task' = [task EXCEPT ![w] = n]
    BY <1>12 DEF RecordWritingNode
  <2>2. n \in Tasks
    BY <1>12, <1>a, PcTyped DEF RecordWritingNode, Tasks
  <2>3. TaskGood(n)
    BY <1>12, <1>a DEF RecordWritingNode, Tasks, TaskGood, TaskOK, TaskReal,
         ListsFinite, EntityPc, RelationshipPc, LinkPc
  <2> PICK x : x = [row[t.run] EXCEPT !.current_node =
                       IF t.pc = "record_commit" THEN "commit" ELSE "enrich"]
    OBVIOUS
  <2>4. row' = [row EXCEPT ![t.run] = x]
    BY <1>12 DEF RecordWritingNode
  <2>5. /\ x \in Rows /\ t.run \in Runs
        /\ x.entity_ids \subseteq EntityIds(t.run)
        /\ x.relationship_ids \subseteq EdgeIds(t.run)
    BY <1>12, <1>a, <1>c DEF RecordWritingNode, Rows, Tasks, TaskGood, TaskOK,
         TaskReal, Nodes
  <2> QED
    BY <1>12, <2>1, <2>2, <2>3, <2>4, <2>5, TaskAndRow DEF RecordWritingNode
<1> QED
  BY <1>1, <1>2, <1>3, <1>4, <1>5, <1>6, <1>7, <1>8, <1>9, <1>10, <1>11, <1>12
       DEF CommitStep

(* enrich_node.                                                            *)
LEMMA EnrichStepPreserves ==
  ASSUME RunInv, NEW w \in Slots, EnrichStep(w)
  PROVE  RunInv'
<1> PICK t : t = task[w]
  OBVIOUS
<1>a. t \in Tasks /\ TaskGood(t)
  BY DEF RunInv, TasksGood
<1>b. /\ queue \in Seq([job : {"run", "commit"}, run : Runs])
      /\ sourced \subseteq Nat /\ embedded \subseteq Nat /\ nextId \in Nat
  BY DEF RunInv, GatewayOK, GraphOK
<1>c. t.run \in Runs => /\ row[t.run] \in Rows
                        /\ row[t.run].entity_ids \subseteq EntityIds(t.run)
                        /\ row[t.run].relationship_ids \subseteq EdgeIds(t.run)
  BY DEF RunInv, RowsGood, RecordedAreReal
<1>1. CASE LinksFor(w)
  <2> PICK e \in t.todo, k \in 0..MaxLinks :
        task' = [task EXCEPT ![w] =
                 [@ EXCEPT !.todo = task[w].todo \ {e},
                           !.cur = e,
                           !.links = k]]
    BY <1>1 DEF LinksFor
  <2>0. e \in Nat /\ k \in Nat
    BY <1>1, <1>a, FlagAssumption DEF LinksFor, TaskGood, TaskOK, LinkPc
  <2> PICK n : n = [t EXCEPT !.todo = t.todo \ {e},
          !.cur = e,
          !.links = k]
    OBVIOUS
  <2>1. task' = [task EXCEPT ![w] = n]
    BY <1>1 DEF LinksFor
  <2>2. n \in Tasks
    BY <1>1, <1>a, PcTyped, <2>0, ZenonT(60) DEF LinksFor, Tasks
  <2>3. TaskGood(n)
    BY <1>1, <1>a DEF LinksFor, Tasks, TaskGood, TaskOK, TaskReal,
         ListsFinite, EntityPc, RelationshipPc, LinkPc
  <2> QED
    BY <1>1, <1>b, <2>1, <2>2, <2>3, TaskOnly DEF LinksFor, rowVars, graphVars
<1>2. CASE SkipLink(w)
  <2>0. /\ t.skipped \cup {Note("link", t.cur)} \in SUBSET Notes
        /\ t.links - 1 \in Nat
    BY <1>2, <1>a DEF SkipLink, Tasks, Note, Notes
  <2> PICK n : n = [t EXCEPT !.links = t.links - 1,
          !.skipped = t.skipped \cup {Note("link", t.cur)}]
    OBVIOUS
  <2>1. task' = [task EXCEPT ![w] = n]
    BY <1>2 DEF SkipLink
  <2>2. n \in Tasks
    BY <1>a, <2>0, NotedTyped
  <2>3. TaskGood(n)
    BY <1>2, <1>a DEF SkipLink, Tasks, TaskGood, TaskOK, TaskReal,
         ListsFinite, EntityPc, RelationshipPc, LinkPc
  <2> QED
    BY <1>2, <1>b, <2>1, <2>2, <2>3, TaskOnly DEF SkipLink, rowVars, graphVars
<1>3. CASE CreateLink(w)
  <2>0. t.links - 1 \in Nat
    BY <1>3, <1>a DEF CreateLink, Tasks
  <2> PICK n : n = [t EXCEPT !.pc = "append_link",
          !.links = t.links - 1,
          !.lrels = t.lrels \cup {nextId},
          !.cur = nextId]
    OBVIOUS
  <2>1. task' = [task EXCEPT ![w] = n]
    BY <1>3 DEF CreateLink
  <2>2. n \in Tasks
    BY <1>3, <1>a, <1>b, <2>0, PcTyped, ZenonT(60) DEF CreateLink, Tasks
  <2>3. /\ entities \subseteq entities' /\ edges \subseteq edges'
        /\ nextId \in EdgeIds(t.run)'
    <3> PICK o : o = [id |-> nextId, run |-> t.run, item |-> NULL]
      OBVIOUS
    <3>1. /\ entities \subseteq entities' /\ edges \subseteq edges'
          /\ o \in edges'
      BY <1>3 DEF CreateLink
    <3>2. o.id = nextId /\ o.run = t.run
      OBVIOUS
    <3> QED
      BY <3>1, <3>2 DEF EdgeIds
  <2>4. TaskGood(n)'
    <3>1. TaskOK(n) /\ ListsFinite(n)
      BY <1>3, <1>a, <1>b, FS_AddElement DEF CreateLink, Tasks, TaskGood,
           TaskOK, ListsFinite, EntityPc, RelationshipPc, LinkPc
    <3>2. TaskGood(t)'
      BY <1>a, <2>3, TaskStays
    <3>3. TaskReal(n)'
      BY <1>3, <1>a, <2>3, <3>2 DEF CreateLink, Tasks, TaskGood, TaskReal
    <3> QED
      BY <3>1, <3>3 DEF TaskGood, TaskOK, ListsFinite
  <2>5. TasksGood' /\ RowsGood'
    BY <1>3, <2>1, <2>2, <2>3, <2>4, TaskSet, RowsStay DEF CreateLink, RunInv,
         rowVars
  <2>6. GatewayOK' /\ GraphOK'
    BY <1>3, <1>a DEF CreateLink, RunInv, GatewayOK, GraphOK, rowVars, Tasks,
         TaskGood, TaskOK, EntityPc, RelationshipPc
  <2> QED
    BY <2>5, <2>6 DEF RunInv
<1>4. CASE AppendLink(w)
  <2> PICK n : n = [t EXCEPT !.pc = "enrich"]
    OBVIOUS
  <2>1. task' = [task EXCEPT ![w] = n]
    BY <1>4 DEF AppendLink
  <2>2. n \in Tasks
    BY <1>4, <1>a, PcTyped DEF AppendLink, Tasks
  <2>3. TaskGood(n)
    BY <1>4, <1>a DEF AppendLink, Tasks, TaskGood, TaskOK, TaskReal,
         ListsFinite, EntityPc, RelationshipPc, LinkPc
  <2> PICK x : x = [row[t.run] EXCEPT !.relationship_ids =
                                  row[t.run].relationship_ids \cup {t.cur}]
    OBVIOUS
  <2>4. row' = [row EXCEPT ![t.run] = x]
    BY <1>4 DEF AppendLink
  <2>5. /\ x \in Rows /\ t.run \in Runs
        /\ x.entity_ids \subseteq EntityIds(t.run)
        /\ x.relationship_ids \subseteq EdgeIds(t.run)
    BY <1>4, <1>a, <1>c DEF AppendLink, Rows, Tasks, TaskGood, TaskOK, TaskReal
  <2> QED
    BY <1>4, <2>1, <2>2, <2>3, <2>4, <2>5, TaskAndRow DEF AppendLink
<1>5. CASE EnrichNodeReturns(w)
  <2> PICK n : n = [t EXCEPT !.pc = IF t.job = "run" THEN "record_enrich"
                                                    ELSE "finish",
          !.rels = t.lrels]
    OBVIOUS
  <2>1. task' = [task EXCEPT ![w] = n]
    BY <1>5 DEF EnrichNodeReturns
  <2>2. n \in Tasks
    BY <1>5, <1>a, PcTyped, ZenonT(60) DEF EnrichNodeReturns, Tasks
  <2>3. TaskGood(n)
    BY <1>5, <1>a DEF EnrichNodeReturns, Tasks, TaskGood, TaskOK, TaskReal,
         ListsFinite, EntityPc, RelationshipPc, LinkPc
  <2> QED
    BY <1>5, <1>b, <2>1, <2>2, <2>3, TaskOnly DEF EnrichNodeReturns, rowVars,
         graphVars
<1> QED
  BY <1>1, <1>2, <1>3, <1>4, <1>5 DEF EnrichStep

(* The gateway's steps touch no task and nothing in the graph.             *)
LEMMA GatewayStepPreserves ==
  ASSUME RunInv, NEW r \in Runs, GatewayStep(r)
  PROVE  RunInv'
<1>1. TasksGood' /\ GraphOK'
  <2>1. UNCHANGED <<task, graphVars>>
    BY DEF GatewayStep, CreateRun, EnqueueRun, EnqueueRunFails
  <2> QED
    BY <2>1, TasksStay DEF RunInv, GraphOK, graphVars
<1>2. CASE CreateRun(r)
  <2> PICK x : x = [row[r] EXCEPT !.status = "queued"]
    OBVIOUS
  <2>1. row[r] \in Rows
    BY DEF RunInv, RowsGood
  <2>2. x \in Rows /\ row' = [row EXCEPT ![r] = x]
    BY <1>2, <2>1 DEF CreateRun, Rows, Status
  <2>3. /\ x.entity_ids = row[r].entity_ids
        /\ x.relationship_ids = row[r].relationship_ids
    BY <2>1 DEF Rows
  <2>4. RowsGood'
    BY <1>2, <2>2, <2>3, RowSet DEF CreateRun, RunInv, RowsGood,
         RecordedAreReal, graphVars
  <2> QED
    BY <1>1, <1>2, <2>4 DEF CreateRun, RunInv, GatewayOK
<1>3. CASE EnqueueRun(r)
  <2> PICK j : j = [job |-> "run", run |-> r]
    OBVIOUS
  <2>1. /\ j \in [job : {"run", "commit"}, run : Runs]
        /\ queue' = Append(queue, j)
    BY <1>3 DEF EnqueueRun
  <2>2. queue' \in Seq([job : {"run", "commit"}, run : Runs])
    BY <2>1 DEF RunInv, GatewayOK
  <2>3. RowsGood'
    BY <1>3, RowsStay DEF EnqueueRun, RunInv, rowVars, graphVars
  <2> QED
    BY <1>1, <1>3, <2>2, <2>3 DEF EnqueueRun, RunInv, GatewayOK, rowVars
<1>4. CASE EnqueueRunFails(r)
  <2>1. RowsGood'
    BY <1>4, RowsStay DEF EnqueueRunFails, RunInv, rowVars, graphVars
  <2> QED
    BY <1>1, <1>4, <2>1 DEF EnqueueRunFails, RunInv, GatewayOK, rowVars
<1> QED
  BY <1>2, <1>3, <1>4 DEF GatewayStep

(* submit_review and review_run.                                           *)
LEMMA ReviewStepPreserves ==
  ASSUME RunInv, NEW q \in Requests, ReviewStep(q)
  PROVE  RunInv'
<1>1. TasksGood' /\ GraphOK'
  <2>1. UNCHANGED <<task, graphVars>>
    BY DEF ReviewStep, ReadForReview, MarkCancelled, ApproveReview,
         EnqueueCommit, ReviewFails
  <2> QED
    BY <2>1, TasksStay DEF RunInv, GraphOK, graphVars
<1> PICK r : r = req[q].run
  OBVIOUS
<1>2. /\ req \in [Requests -> ReqRecords] /\ req[q] \in ReqRecords
      /\ req[q].pc \in {"checked", "approved"} =>
           /\ r \in Runs /\ row[r] \in Rows
           /\ row[r].entity_ids \subseteq EntityIds(r)
           /\ row[r].relationship_ids \subseteq EdgeIds(r)
  BY DEF RunInv, GatewayOK, RowsGood, RecordedAreReal
<1>3. ASSUME req' = [req EXCEPT ![q].pc = "done"]
      PROVE  /\ req' \in [Requests -> ReqRecords]
             /\ \A p \in Requests : req'[p].pc \in {"checked", "approved"} =>
                                     req'[p].run \in Runs
  BY <1>2, <1>3 DEF ReqRecords, RunInv, GatewayOK
<1>4. CASE ReadForReview(q)
  <2>1. RowsGood'
    BY <1>4, RowsStay DEF ReadForReview, RunInv, rowVars, graphVars
  <2>2. PICK o \in Runs, d \in {"approve", "reject"} :
          \/ req' = [req EXCEPT ![q] = [req[q] EXCEPT !.pc = "done"]]
          \/ LET read == IF row[o].pending = NULL THEN NoDraft
                                                  ELSE row[o].pending
             IN \E es \in EntEdits \cup {read.entities},
                   rs \in RelEdits \cup {read.relationships} :
                  req' = [req EXCEPT ![q] =
                           [pc |-> "checked", run |-> o, decision |-> d,
                            pending |-> [entities |-> es,
                                         relationships |-> rs]]]
    BY <1>4 DEF ReadForReview
  <2>3. CASE req' = [req EXCEPT ![q] = [req[q] EXCEPT !.pc = "done"]]
    <3>1. req' = [req EXCEPT ![q].pc = "done"]
      BY <2>3
    <3> QED
      BY <1>1, <1>3, <1>4, <2>1, <3>1 DEF ReadForReview, RunInv, GatewayOK,
           rowVars
  <2>4. CASE req' # [req EXCEPT ![q] = [req[q] EXCEPT !.pc = "done"]]
    <3> PICK read : read = IF row[o].pending = NULL THEN NoDraft
                                                    ELSE row[o].pending
      OBVIOUS
    <3>1. PICK es \in EntEdits \cup {read.entities},
               rs \in RelEdits \cup {read.relationships} :
                  req' = [req EXCEPT ![q] =
                           [pc |-> "checked", run |-> o, decision |-> d,
                            pending |-> [entities |-> es,
                                         relationships |-> rs]]]
      BY <2>2, <2>4
    <3>2. row[o] \in Rows
      BY DEF RunInv, RowsGood
    <3>3. read \in Drafts
      BY <3>2 DEF Rows, Drafts, NoDraft
    <3>4. es \in SUBSET EntItems /\ rs \in SUBSET RelItems
      BY <3>3, ItemAssumption DEF Drafts
    <3> PICK n : n = [pc |-> "checked", run |-> o, decision |-> d,
                      pending |-> [entities |-> es, relationships |-> rs]]
      OBVIOUS
    <3>5. n \in ReqRecords /\ n.run \in Runs
      BY <3>4 DEF ReqRecords, Drafts
    <3>6. req' = [req EXCEPT ![q] = n]
      BY <3>1
    <3>7. /\ req' \in [Requests -> ReqRecords]
          /\ \A p \in Requests : req'[p].pc \in {"checked", "approved"} =>
                                  req'[p].run \in Runs
      BY <1>2, <3>5, <3>6 DEF RunInv, GatewayOK
    <3> QED
      BY <1>1, <1>4, <2>1, <3>7 DEF ReadForReview, RunInv, GatewayOK, rowVars
  <2> QED
    BY <2>3, <2>4
<1>5. CASE MarkCancelled(q)
  <2> PICK x : x = [row[r] EXCEPT !.status = "cancelled", !.pending = NULL]
    OBVIOUS
  <2>1. /\ x \in Rows /\ r \in Runs
        /\ x.entity_ids \subseteq EntityIds(r)
        /\ x.relationship_ids \subseteq EdgeIds(r)
    BY <1>2, <1>5 DEF MarkCancelled, Rows, Status
  <2>2. row' = [row EXCEPT ![r] = x]
    BY <1>5 DEF MarkCancelled
  <2>3. RowsGood'
    BY <1>5, <2>1, <2>2, RowSet DEF MarkCancelled, RunInv, graphVars
  <2> QED
    BY <1>1, <1>3, <1>5, <2>1, <2>3 DEF MarkCancelled, RunInv, GatewayOK
<1>6. CASE ApproveReview(q)
  <2> PICK d \in Drafts : d = req[q].pending
    BY <1>2 DEF ReqRecords
  <2> PICK x : x = [row[r] EXCEPT !.status = "running", !.pending = d,
                                  !.error = NULL]
    OBVIOUS
  <2>1. /\ x \in Rows /\ r \in Runs
        /\ x.entity_ids \subseteq EntityIds(r)
        /\ x.relationship_ids \subseteq EdgeIds(r)
    BY <1>2, <1>6 DEF ApproveReview, Rows, Status
  <2>2. row' = [row EXCEPT ![r] = x]
    BY <1>6 DEF ApproveReview
  <2>3. RowsGood'
    BY <1>6, <2>1, <2>2, RowSet DEF ApproveReview, RunInv, graphVars
  <2>4. approved' \in [Runs -> SUBSET Drafts]
    BY <1>6 DEF ApproveReview, RunInv, GatewayOK
  <2>5. /\ req' \in [Requests -> ReqRecords]
        /\ \A p \in Requests : req'[p].pc \in {"checked", "approved"} =>
                                req'[p].run \in Runs
    BY <1>2, <1>6, <2>1 DEF ApproveReview, ReqRecords, RunInv, GatewayOK
  <2> QED
    BY <1>1, <1>6, <2>3, <2>4, <2>5 DEF ApproveReview, RunInv, GatewayOK
<1>7. CASE EnqueueCommit(q)
  <2> PICK j : j = [job |-> "commit", run |-> r]
    OBVIOUS
  <2>1. /\ j \in [job : {"run", "commit"}, run : Runs]
        /\ queue' = Append(queue, j)
    BY <1>2, <1>7 DEF EnqueueCommit
  <2>2. queue' \in Seq([job : {"run", "commit"}, run : Runs])
    BY <2>1 DEF RunInv, GatewayOK
  <2>3. RowsGood'
    BY <1>7, RowsStay DEF EnqueueCommit, RunInv, rowVars, graphVars
  <2> QED
    BY <1>1, <1>3, <1>7, <2>2, <2>3 DEF EnqueueCommit, RunInv, GatewayOK,
         rowVars
<1>8. CASE ReviewFails(q)
  <2>1. RowsGood'
    BY <1>8, RowsStay DEF ReviewFails, RunInv, rowVars, graphVars
  <2> QED
    BY <1>1, <1>3, <1>8, <2>1 DEF ReviewFails, RunInv, GatewayOK, rowVars
<1> QED
  BY <1>4, <1>5, <1>6, <1>7, <1>8 DEF ReviewStep

-----------------------------------------------------------------------------
(* Every step keeps the invariant.                                         *)
LEMMA StepPreserves ==
  ASSUME RunInv, [Next]_vars
  PROVE  RunInv'
<1>1. CASE UNCHANGED vars
  BY <1>1, TasksStay, RowsStay DEF vars, RunInv, GatewayOK, GraphOK
<1>2. ASSUME NEW r \in Runs, GatewayStep(r) PROVE RunInv'
  BY <1>2, GatewayStepPreserves
<1>3. ASSUME NEW q \in Requests, ReviewStep(q) PROVE RunInv'
  BY <1>3, ReviewStepPreserves
<1>4. ASSUME NEW w \in Slots, WorkerStep(w) PROVE RunInv'
  BY <1>4, ResearchStepPreserves, CommitStepPreserves, EnrichStepPreserves,
     EndStepPreserves DEF WorkerStep
<1> QED
  BY <1>1, <1>2, <1>3, <1>4 DEF Next

(* The invariant holds in every reachable state of every instance, with or *)
(* without review, faults and serial reviewers.                            *)
THEOREM RunInvariant == Spec => []RunInv
<1>1. Init => RunInv
  <2> SUFFICES ASSUME Init PROVE RunInv
    OBVIOUS
  <2>1. TasksGood
    BY IdleGood DEF Init, TasksGood
  <2>2. RowsGood
    BY DEF Init, RowsGood, RecordedAreReal, BlankRow, Rows, Status
  <2>3. GatewayOK
    <3>1. IdleReq \in ReqRecords /\ IdleReq.pc = "new"
      BY DEF IdleReq, ReqRecords, Drafts, NoDraft
    <3> QED
      BY <3>1 DEF Init, GatewayOK
  <2>4. GraphOK
    BY DEF Init, GraphOK
  <2> QED
    BY <2>1, <2>2, <2>3, <2>4 DEF RunInv
<1>2. RunInv /\ [Next]_vars => RunInv'
  BY StepPreserves
<1> QED
  BY <1>1, <1>2, PTL DEF Spec

(* Every variable keeps its type, for any constants.                       *)
THEOREM TypeCorrect == Spec => []TypeOK
<1>1. RunInv => TypeOK
  BY DEF RunInv, TasksGood, RowsGood, GatewayOK, GraphOK, TypeOK, TaskGood
<1> QED
  BY <1>1, RunInvariant, PTL

(* append_committed_*, mark_succeeded.sql and mark_failed.sql: every id a  *)
(* run reports as committed is an entity or edge this very run wrote, with *)
(* any number of tasks, concurrent reviews, crashes and failed calls.      *)
THEOREM RecordsAreReal == Spec => []RecordedAreReal
<1>1. RunInv => RecordedAreReal
  BY DEF RunInv, RowsGood
<1> QED
  BY <1>1, RunInvariant, PTL

-----------------------------------------------------------------------------
(* Who works on a run: the owners a run has, and what they find.          *)
Jobs == [job : {"run", "commit"}, run : Runs]
Early == {"start", "research", "park"}
Active(q) == req[q].pc \in {"checked", "approved"}

\* A slot without a task carries nothing over.
IdleSlots == \A w \in Slots : task[w].pc = "idle" => task[w] = IdleTask

(* The two kinds of owners: the job run_agent, from the insert of the row  *)
(* to the end of its task, and commit_agent_run, from the approval on.     *)
IsRunJob(i, r) == queue[i].run = r /\ queue[i].job = "run"
IsRunTask(w, r) == task[w].run = r /\ task[w].job = "run"

RunOwned(r) == \/ r \in creating
               \/ \E i \in DOMAIN queue : IsRunJob(i, r)
               \/ \E w \in Slots : IsRunTask(w, r)

CommitOwned(r) ==
  \/ \E q \in Requests : req[q].run = r /\ req[q].pc = "approved"
  \/ \E i \in DOMAIN queue : queue[i].run = r /\ queue[i].job = "commit"
  \/ \E w \in Slots : task[w].run = r /\ task[w].job = "commit"

OneRunOwner(r) ==
  /\ \A i, j \in DOMAIN queue : IsRunJob(i, r) /\ IsRunJob(j, r) => i = j
  /\ \A v, w \in Slots : IsRunTask(v, r) /\ IsRunTask(w, r) => v = w
  /\ \A i \in DOMAIN queue : IsRunJob(i, r) => r \notin creating
  /\ \A w \in Slots : IsRunTask(w, r) => r \notin creating
  /\ \A i \in DOMAIN queue : \A w \in Slots :
       ~(IsRunJob(i, r) /\ IsRunTask(w, r))

(* What the row says while a run is researched, parked and approved.       *)
Undecided(r) == approved[r] = {} /\ r \notin rejected
NotReviewed(r) == \A q \in Requests : req[q].run = r => ~Active(q)

PhaseOK(r) ==
  /\ RunOwned(r) => /\ row[r].status \in {"queued", "running"}
                    /\ row[r].pending = NULL /\ Undecided(r)
                    /\ NotReviewed(r)
  /\ row[r].status = "none" => /\ ~RunOwned(r) /\ Undecided(r)
                               /\ row[r].pending = NULL /\ NotReviewed(r)
  /\ row[r].status = "awaiting_review" => /\ ~RunOwned(r) /\ Undecided(r)
                                          /\ row[r].pending # NULL
  /\ CommitOwned(r) => approved[r] # {}
  /\ approved[r] # {} => row[r].pending \in approved[r] \cup {NULL}

\* Research is what run_agent does.
ResearchIsRun ==
  \A w \in Slots : task[w].pc \in {"research", "park"} => task[w].job = "run"

OwnersOK == /\ IdleSlots /\ ResearchIsRun
            /\ \A r \in Runs : OneRunOwner(r) /\ PhaseOK(r)

-----------------------------------------------------------------------------
(* The queue, as far as the proofs look into it.                           *)
LEMMA Pushed ==
  ASSUME queue \in Seq(Jobs), NEW j \in Jobs, queue' = Append(queue, j)
  PROVE  /\ \A i \in DOMAIN queue : i \in DOMAIN queue' /\ queue'[i] = queue[i]
         /\ \E n \in DOMAIN queue' :
              /\ queue'[n] = j
              /\ \A i \in DOMAIN queue' : i # n => i \in DOMAIN queue
<1>1. /\ Len(queue) \in Nat /\ Len(queue') = Len(queue) + 1
      /\ DOMAIN queue = 1..Len(queue) /\ DOMAIN queue' = 1..(Len(queue) + 1)
      /\ \A i \in 1..Len(queue) : queue'[i] = queue[i]
      /\ queue'[Len(queue) + 1] = j
  BY AppendProperties, LenProperties
<1>2. /\ Len(queue) + 1 \in DOMAIN queue'
      /\ \A i \in DOMAIN queue' : i # Len(queue) + 1 => i \in DOMAIN queue
      /\ \A i \in DOMAIN queue : i \in DOMAIN queue'
  BY <1>1
<1> QED
  BY <1>1, <1>2

LEMMA Popped ==
  ASSUME queue \in Seq(Jobs), queue # <<>>, queue' = Tail(queue)
  PROVE  /\ 1 \in DOMAIN queue /\ queue[1] = Head(queue)
         /\ \A i \in DOMAIN queue' : /\ i + 1 \in DOMAIN queue /\ i + 1 # 1
                                     /\ queue'[i] = queue[i + 1]
         /\ \A i \in DOMAIN queue' : \A j \in DOMAIN queue' :
              i + 1 = j + 1 => i = j
         /\ \A i \in DOMAIN queue :
              i # 1 => \E j \in DOMAIN queue' : queue'[j] = queue[i]
<1>1. /\ Len(queue) \in Nat \ {0} /\ queue' \in Seq(Jobs)
      /\ DOMAIN queue = 1..Len(queue) /\ DOMAIN queue' = 1..(Len(queue) - 1)
      /\ \A i \in 1..(Len(queue) - 1) : queue'[i] = queue[i + 1]
  BY HeadTailProperties, LenProperties, EmptySeq
<1>2. 1 \in DOMAIN queue /\ queue[1] = Head(queue)
  BY <1>1
<1>3. \A i \in DOMAIN queue' : /\ i + 1 \in DOMAIN queue /\ i + 1 # 1
                               /\ queue'[i] = queue[i + 1]
  BY <1>1
<1>4. ASSUME NEW i \in DOMAIN queue, i # 1
      PROVE  \E j \in DOMAIN queue' : queue'[j] = queue[i]
  <2>1. i - 1 \in DOMAIN queue' /\ (i - 1) + 1 = i
    BY <1>1, <1>4
  <2> QED
    BY <1>3, <2>1
<1>5. \A i \in DOMAIN queue' : \A j \in DOMAIN queue' : i + 1 = j + 1 => i = j
  BY <1>1
<1> QED
  BY <1>2, <1>3, <1>4, <1>5

-----------------------------------------------------------------------------
(* What a worker's step can do to the ownership of a run: most steps only  *)
(* move a task on, a few end it.                                           *)
Stays == UNCHANGED <<queue, creating, req, approved, rejected>>
SameDecision(r) == /\ row'[r].status = row[r].status
                   /\ row'[r].pending = row[r].pending

Moves(w) ==
  /\ task[w].pc # "idle" /\ task'[w].pc # "idle"
  /\ task'[w].run = task[w].run /\ task'[w].job = task[w].job
  /\ \A v \in Slots : v # w => task'[v] = task[v]
  /\ Stays

Leaves(w) ==
  /\ task[w].pc # "idle" /\ task'[w] = IdleTask
  /\ \A v \in Slots : v # w => task'[v] = task[v]
  /\ Stays

\* The steps that neither take, start nor end a job.
WorkStep(w) == \/ RecordNode(w) \/ ResearchDone(w) \/ CommitStep(w)
               \/ EnrichStep(w) \/ DeadlinePasses(w) \/ NodeRaises(w)

LEMMA WorkSteps ==
  ASSUME RunInv, NEW w \in Slots, WorkStep(w)
  PROVE  Moves(w) /\ \A r \in Runs : SameDecision(r)
<1>0. task \in [Slots -> Tasks] /\ row \in [Runs -> Rows]
  BY DEF RunInv, TasksGood, RowsGood
<1> USE DEF Moves, Stays, SameDecision, rowVars, graphVars
<1>1. CASE RecordNode(w)
  BY <1>0, <1>1 DEF RecordNode, Tasks, Rows
<1>2. CASE ResearchDone(w)
  BY <1>0, <1>2 DEF ResearchDone, AfterResearch, Tasks
<1>3. CASE LoadParked(w)
  BY <1>0, <1>3 DEF LoadParked, Tasks
<1>4. CASE UseExisting(w)
  BY <1>0, <1>4 DEF UseExisting, Tasks
<1>5. CASE CreateEntity(w)
  BY <1>0, <1>5 DEF CreateEntity, Tasks
<1>6. CASE AppendCommittedEntity(w)
  BY <1>0, <1>6 DEF AppendCommittedEntity, Tasks, Rows
<1>7. CASE AttachSources(w)
  BY <1>0, <1>7, ZenonT(60) DEF AttachSources, Tasks
<1>8. CASE EmbedEntity(w)
  BY <1>0, <1>8, ZenonT(60) DEF EmbedEntity, Tasks
<1>9. CASE EntitiesDone(w)
  BY <1>0, <1>9 DEF EntitiesDone, Tasks
<1>10. CASE SkipRelationship(w)
  BY <1>0, <1>10 DEF SkipRelationship, Tasks
<1>11. CASE CreateRelationship(w)
  BY <1>0, <1>11 DEF CreateRelationship, Tasks
<1>12. CASE AppendCommittedRelationship(w)
  BY <1>0, <1>12 DEF AppendCommittedRelationship, Tasks, Rows
<1>13. CASE CommitNodeReturns(w)
  BY <1>0, <1>13 DEF CommitNodeReturns, Tasks
<1>14. CASE RecordWritingNode(w)
  BY <1>0, <1>14 DEF RecordWritingNode, Tasks, Rows
<1>15. CASE LinksFor(w)
  BY <1>0, <1>15 DEF LinksFor, Tasks
<1>16. CASE SkipLink(w)
  BY <1>0, <1>16 DEF SkipLink, Tasks
<1>17. CASE CreateLink(w)
  BY <1>0, <1>17 DEF CreateLink, Tasks
<1>18. CASE AppendLink(w)
  BY <1>0, <1>18 DEF AppendLink, Tasks, Rows
<1>19. CASE EnrichNodeReturns(w)
  BY <1>0, <1>19 DEF EnrichNodeReturns, Tasks
<1>20. CASE DeadlinePasses(w)
  BY <1>0, <1>20 DEF DeadlinePasses, GuardedPc, EntityPc, RelationshipPc,
       LinkPc, Tasks
<1>21. CASE NodeRaises(w)
  BY <1>0, <1>21 DEF NodeRaises, CanRaise, Tasks
<1> QED
  BY <1>1, <1>2, <1>3, <1>4, <1>5, <1>6, <1>7, <1>8, <1>9, <1>10, <1>11,
     <1>12, <1>13, <1>14, <1>15, <1>16, <1>17, <1>18, <1>19, <1>20, <1>21
     DEF WorkStep, CommitStep, EnrichStep

\* The graph of a run is written by its own tasks, and not before commit_node.
SameGraph(r) == EntityIds(r)' = EntityIds(r) /\ EdgeIds(r)' = EdgeIds(r)

LEMMA WorkPhase ==
  ASSUME RunInv, NEW w \in Slots, WorkStep(w)
  PROVE  /\ task'[w].pc \in Early => task[w].pc = "research"
         /\ task[w].pc \in Early => \A r \in Runs : SameGraph(r)
         /\ \A r \in Runs : r # task[w].run => SameGraph(r)
<1>0. task \in [Slots -> Tasks]
  BY DEF RunInv, TasksGood
<1>a. UNCHANGED <<entities, edges>> => \A r \in Runs : SameGraph(r)
  BY DEF SameGraph, EntityIds, EdgeIds
<1> USE DEF Early, graphVars
<1>1. CASE RecordNode(w)
  BY <1>0, <1>a, <1>1 DEF RecordNode, Tasks
<1>2. CASE ResearchDone(w)
  BY <1>0, <1>a, <1>2 DEF ResearchDone, AfterResearch, Tasks
<1>3. CASE LoadParked(w)
  BY <1>0, <1>a, <1>3 DEF LoadParked, Tasks
<1>4. CASE UseExisting(w)
  BY <1>0, <1>a, <1>4 DEF UseExisting, Tasks
<1>5. CASE CreateEntity(w)
  BY <1>0, <1>a, <1>5 DEF CreateEntity, SameGraph, EntityIds, EdgeIds, Tasks
<1>6. CASE AppendCommittedEntity(w)
  BY <1>0, <1>a, <1>6 DEF AppendCommittedEntity, Tasks
<1>7. CASE AttachSources(w)
  BY <1>0, <1>a, <1>7, ZenonT(60) DEF AttachSources, Tasks
<1>8. CASE EmbedEntity(w)
  BY <1>0, <1>a, <1>8, ZenonT(60) DEF EmbedEntity, Tasks
<1>9. CASE EntitiesDone(w)
  BY <1>0, <1>a, <1>9 DEF EntitiesDone, Tasks
<1>10. CASE SkipRelationship(w)
  BY <1>0, <1>a, <1>10 DEF SkipRelationship, Tasks
<1>11. CASE CreateRelationship(w)
  BY <1>0, <1>a, <1>11 DEF CreateRelationship, SameGraph, EntityIds,
       EdgeIds, Tasks
<1>12. CASE AppendCommittedRelationship(w)
  BY <1>0, <1>a, <1>12 DEF AppendCommittedRelationship, Tasks
<1>13. CASE CommitNodeReturns(w)
  BY <1>0, <1>a, <1>13 DEF CommitNodeReturns, Tasks
<1>14. CASE RecordWritingNode(w)
  BY <1>0, <1>a, <1>14 DEF RecordWritingNode, Tasks
<1>15. CASE LinksFor(w)
  BY <1>0, <1>a, <1>15 DEF LinksFor, Tasks
<1>16. CASE SkipLink(w)
  BY <1>0, <1>a, <1>16 DEF SkipLink, Tasks
<1>17. CASE CreateLink(w)
  BY <1>0, <1>a, <1>17 DEF CreateLink, SameGraph, EntityIds,
       EdgeIds, Tasks
<1>18. CASE AppendLink(w)
  BY <1>0, <1>a, <1>18 DEF AppendLink, Tasks
<1>19. CASE EnrichNodeReturns(w)
  BY <1>0, <1>a, <1>19 DEF EnrichNodeReturns, Tasks
<1>20. CASE DeadlinePasses(w)
  BY <1>0, <1>a, <1>20 DEF DeadlinePasses, GuardedPc, EntityPc, RelationshipPc,
       LinkPc, Tasks
<1>21. CASE NodeRaises(w)
  BY <1>0, <1>a, <1>21 DEF NodeRaises, CanRaise, Tasks
<1> QED
  BY <1>1, <1>2, <1>3, <1>4, <1>5, <1>6, <1>7, <1>8, <1>9, <1>10, <1>11,
     <1>12, <1>13, <1>14, <1>15, <1>16, <1>17, <1>18, <1>19, <1>20, <1>21
     DEF WorkStep, CommitStep, EnrichStep

\* The steps that start or end a task's job.
LEMMA OtherSteps ==
  ASSUME RunInv, NEW w \in Slots
  PROVE  /\ MarkRunning(w) => Moves(w)
         /\ MarkAwaitingReview(w) \/ MarkSucceeded(w) \/ MarkFailed(w)
              \/ TaskDies(w) \/ Crash(w) => Leaves(w)
         /\ WorkerStep(w) => \/ Receive(w) \/ MarkRunning(w) \/ WorkStep(w)
                             \/ MarkAwaitingReview(w) \/ MarkSucceeded(w)
                             \/ MarkFailed(w) \/ TaskDies(w) \/ Crash(w)
<1>0. task \in [Slots -> Tasks]
  BY DEF RunInv, TasksGood
<1> USE DEF Moves, Leaves, Stays, rowVars, graphVars
<1>1. MarkRunning(w) => Moves(w)
  BY <1>0 DEF MarkRunning, Tasks
<1>2. MarkAwaitingReview(w) => Leaves(w)
  BY <1>0 DEF MarkAwaitingReview
<1>3. MarkSucceeded(w) \/ MarkFailed(w) => Leaves(w)
  BY <1>0 DEF MarkSucceeded, MarkFailed
<1>4. TaskDies(w) \/ Crash(w) => Leaves(w)
  BY <1>0 DEF TaskDies, Crash, UnguardedPc
<1>5. WorkerStep(w) => \/ Receive(w) \/ MarkRunning(w) \/ WorkStep(w)
                       \/ MarkAwaitingReview(w) \/ MarkSucceeded(w)
                       \/ MarkFailed(w) \/ TaskDies(w) \/ Crash(w)
  BY DEF WorkerStep, ResearchStep, EndStep, WorkStep
<1> QED
  BY <1>1, <1>2, <1>3, <1>4, <1>5

\* What Receive hands to the slot.
LEMMA Taken ==
  ASSUME RunInv, NEW w \in Slots, Receive(w)
  PROVE  /\ queue # <<>> /\ queue' = Tail(queue) /\ task[w].pc = "idle"
         /\ queue[1] \in Jobs /\ 1 \in DOMAIN queue
         /\ task'[w].run = queue[1].run /\ task'[w].job = queue[1].job
         /\ task'[w].pc = "start"
         /\ \A v \in Slots : v # w => task'[v] = task[v]
         /\ UNCHANGED <<creating, req, approved, rejected, row>>
<1>1. queue \in Seq(Jobs) /\ queue # <<>> /\ queue' = Tail(queue)
  BY DEF Receive, RunInv, GatewayOK, Jobs
<1>2. 1 \in DOMAIN queue /\ queue[1] = Head(queue) /\ Head(queue) \in Jobs
  BY <1>1, Popped, HeadTailProperties
<1>3. task \in [Slots -> Tasks] /\ IdleTask \in Tasks
  BY IdleGood DEF RunInv, TasksGood
<1>4. task'[w] = [IdleTask EXCEPT !.pc = "start", !.job = Head(queue).job,
                                  !.run = Head(queue).run]
  BY <1>3 DEF Receive
<1>5. /\ task'[w].run = queue[1].run /\ task'[w].job = queue[1].job
      /\ task'[w].pc = "start"
  BY <1>2, <1>3, <1>4 DEF Tasks
<1> QED
  BY <1>1, <1>2, <1>3, <1>5 DEF Receive, rowVars

(* An idle slot stays one or gets a task; a task that leaves clears it.    *)
LEMMA IdleStays ==
  ASSUME RunInv, IdleSlots, [Next]_vars
  PROVE  IdleSlots'
<1>1. CASE UNCHANGED task
  BY <1>1 DEF IdleSlots
<1>2. ASSUME NEW w \in Slots, Moves(w) \/ Leaves(w) PROVE IdleSlots'
  BY <1>2 DEF IdleSlots, Moves, Leaves
<1>3. ASSUME NEW w \in Slots, Receive(w) PROVE IdleSlots'
  BY <1>3, Taken DEF IdleSlots
<1>4. ASSUME NEW r \in Runs, GatewayStep(r) PROVE UNCHANGED task
  BY <1>4 DEF GatewayStep, CreateRun, EnqueueRun, EnqueueRunFails
<1>5. ASSUME NEW q \in Requests, ReviewStep(q) PROVE UNCHANGED task
  BY <1>5 DEF ReviewStep, ReadForReview, MarkCancelled, ApproveReview,
       EnqueueCommit, ReviewFails
<1>6. ASSUME NEW w \in Slots, WorkerStep(w) PROVE IdleSlots'
  BY <1>2, <1>3, <1>6, WorkSteps, OtherSteps
<1> QED
  BY <1>1, <1>4, <1>5, <1>6 DEF Next, vars

\* An idle slot owns no run.
LEMMA IdleOwnsNothing ==
  ASSUME IdleSlots, NEW w \in Slots, task[w].pc = "idle", NEW r \in Runs
  PROVE  task[w].run # r
BY NullAssumption DEF IdleSlots, IdleTask

-----------------------------------------------------------------------------
(* How the owners of a run change.                                         *)
SameOwners(r) == /\ RunOwned(r)' <=> RunOwned(r)
                 /\ CommitOwned(r)' <=> CommitOwned(r)

\* A task that moves on stays the run's.
LEMMA OwnersMove ==
  ASSUME NEW w \in Slots, Moves(w), NEW r \in Runs
  PROVE  /\ SameOwners(r) /\ (OneRunOwner(r) => OneRunOwner(r)')
         /\ \A v \in Slots : IsRunTask(v, r)' <=> IsRunTask(v, r)
<1>1. \A v \in Slots : task'[v].run = task[v].run /\ task'[v].job = task[v].job
  BY DEF Moves
<1>2. UNCHANGED <<queue, creating, req>>
  BY DEF Moves, Stays
<1> QED
  BY <1>1, <1>2 DEF SameOwners, RunOwned, CommitOwned, OneRunOwner, IsRunJob,
     IsRunTask

\* A job taken from the queue goes to the task.
LEMMA OwnersReceive ==
  ASSUME RunInv, IdleSlots, NEW w \in Slots, Receive(w), NEW r \in Runs
  PROVE  SameOwners(r) /\ (OneRunOwner(r) => OneRunOwner(r)')
<1>0. queue \in Seq(Jobs) /\ queue # <<>> /\ queue' = Tail(queue)
  BY Taken DEF RunInv, GatewayOK, Jobs
<1>1. /\ 1 \in DOMAIN queue
      /\ task'[w].run = queue[1].run /\ task'[w].job = queue[1].job
      /\ \A v \in Slots : v # w => task'[v] = task[v]
      /\ UNCHANGED <<creating, req>>
  BY Taken
<1>2. task[w].run # r
  BY Taken, IdleOwnsNothing
<1>3. /\ \A i \in DOMAIN queue' : /\ i + 1 \in DOMAIN queue /\ i + 1 # 1
                                  /\ queue'[i] = queue[i + 1]
      /\ \A i \in DOMAIN queue' : \A j \in DOMAIN queue' :
           i + 1 = j + 1 => i = j
      /\ \A i \in DOMAIN queue :
           i # 1 => \E j \in DOMAIN queue' : queue'[j] = queue[i]
  BY <1>0, Popped
<1>4. SameOwners(r)
  <2>1. ASSUME NEW job
        PROVE  \/ \E i \in DOMAIN queue' : /\ queue'[i].run = r
                                           /\ queue'[i].job = job
               \/ \E v \in Slots : task'[v].run = r /\ task'[v].job = job
               <=>
               \/ \E i \in DOMAIN queue : queue[i].run = r /\ queue[i].job = job
               \/ \E v \in Slots : task[v].run = r /\ task[v].job = job
    <3>1. ASSUME NEW i \in DOMAIN queue',
                 queue'[i].run = r /\ queue'[i].job = job
          PROVE  \E k \in DOMAIN queue : queue[k].run = r /\ queue[k].job = job
      BY <1>3, <3>1
    <3>2. ASSUME NEW v \in Slots, task'[v].run = r /\ task'[v].job = job
          PROVE  \/ \E k \in DOMAIN queue :
                      queue[k].run = r /\ queue[k].job = job
                 \/ \E u \in Slots : task[u].run = r /\ task[u].job = job
      BY <1>1, <3>2
    <3>3. ASSUME NEW i \in DOMAIN queue, queue[i].run = r /\ queue[i].job = job
          PROVE  \/ \E k \in DOMAIN queue' :
                      queue'[k].run = r /\ queue'[k].job = job
                 \/ \E u \in Slots : task'[u].run = r /\ task'[u].job = job
      <4>1. CASE i = 1
        BY <1>1, <3>3, <4>1
      <4>2. CASE i # 1
        BY <1>3, <3>3, <4>2
      <4> QED
        BY <4>1, <4>2
    <3>4. ASSUME NEW v \in Slots, task[v].run = r /\ task[v].job = job
          PROVE  \E u \in Slots : task'[u].run = r /\ task'[u].job = job
      BY <1>1, <1>2, <3>4
    <3> QED
      BY <3>1, <3>2, <3>3, <3>4
  <2>2. RunOwned(r)' <=> RunOwned(r)
    BY <1>1, <2>1 DEF RunOwned, IsRunJob, IsRunTask
  <2>3. CommitOwned(r)' <=> CommitOwned(r)
    BY <1>1, <2>1 DEF CommitOwned
  <2> QED
    BY <2>2, <2>3 DEF SameOwners
<1>5. ASSUME OneRunOwner(r) PROVE OneRunOwner(r)'
  <2>1. \A i \in DOMAIN queue' : IsRunJob(i, r)' =>
          /\ i + 1 \in DOMAIN queue /\ IsRunJob(i + 1, r) /\ i + 1 # 1
    BY <1>3 DEF IsRunJob
  <2>2. \A v \in Slots : IsRunTask(v, r)' =>
          IF v = w THEN IsRunJob(1, r) ELSE IsRunTask(v, r)
    BY <1>1 DEF IsRunJob, IsRunTask
  <2>3. \A i, j \in DOMAIN queue' : IsRunJob(i, r)' /\ IsRunJob(j, r)' => i = j
    BY <1>3, <1>5, <2>1 DEF OneRunOwner
  <2>4. \A u, v \in Slots : IsRunTask(u, r)' /\ IsRunTask(v, r)' => u = v
    BY <1>1, <1>5, <2>2 DEF OneRunOwner
  <2>5. /\ \A i \in DOMAIN queue' : IsRunJob(i, r)' => r \notin creating'
        /\ \A v \in Slots : IsRunTask(v, r)' => r \notin creating'
    BY <1>1, <1>5, <2>1, <2>2 DEF OneRunOwner
  <2>6. \A i \in DOMAIN queue' : \A v \in Slots :
          ~(IsRunJob(i, r)' /\ IsRunTask(v, r)')
    BY <1>1, <1>5, <2>1, <2>2 DEF OneRunOwner
  <2> QED
    BY <2>3, <2>4, <2>5, <2>6 DEF OneRunOwner
<1> QED
  BY <1>4, <1>5

\* A task that leaves takes only its own claim with it.
LEMMA OwnersLeave ==
  ASSUME IdleSlots, NEW w \in Slots, Leaves(w), NEW r \in Runs
  PROVE  /\ RunOwned(r)' => RunOwned(r)
         /\ CommitOwned(r)' => CommitOwned(r)
         /\ OneRunOwner(r) => OneRunOwner(r)'
         /\ task[w].run # r => SameOwners(r)
         /\ OneRunOwner(r) /\ IsRunTask(w, r) => ~RunOwned(r)'
<1>1. /\ \A v \in Slots : v # w => task'[v] = task[v]
      /\ task'[w].run # r
      /\ UNCHANGED <<queue, creating, req>>
  BY NullAssumption DEF Leaves, Stays, IdleTask
<1> QED
  BY <1>1 DEF SameOwners, RunOwned, CommitOwned, OneRunOwner, IsRunJob,
     IsRunTask

-----------------------------------------------------------------------------
\* A job pushed to the queue is one more, and the others stay.
LEMMA OwnersPush ==
  ASSUME queue \in Seq(Jobs), NEW j \in Jobs, queue' = Append(queue, j),
         UNCHANGED task, NEW r \in Runs
  PROVE  /\ \A job : (\E i \in DOMAIN queue' : queue'[i].run = r
                                                /\ queue'[i].job = job)
               <=> \/ \E i \in DOMAIN queue : queue[i].run = r
                                               /\ queue[i].job = job
                   \/ j.run = r /\ j.job = job
         /\ (/\ ~(j.run = r /\ j.job = "run")
             /\ creating' \subseteq creating
             /\ OneRunOwner(r)) => OneRunOwner(r)'
         /\ (/\ j.run = r /\ j.job = "run" /\ r \notin creating'
             /\ \A i \in DOMAIN queue : ~IsRunJob(i, r)
             /\ \A w \in Slots : ~IsRunTask(w, r)) => OneRunOwner(r)'
<1>1. /\ \A i \in DOMAIN queue : i \in DOMAIN queue' /\ queue'[i] = queue[i]
      /\ \E n \in DOMAIN queue' :
           /\ queue'[n] = j
           /\ \A i \in DOMAIN queue' : i # n => i \in DOMAIN queue
  BY Pushed
<1>2. PICK n \in DOMAIN queue' :
           /\ queue'[n] = j
           /\ \A i \in DOMAIN queue' : i # n => i \in DOMAIN queue
  BY <1>1
<1> PICK new, old, D : new = queue' /\ old = queue /\ D = DOMAIN queue'
  OBVIOUS
<1>3. /\ \A i \in DOMAIN old : i \in D /\ new[i] = old[i]
      /\ n \in D /\ new[n] = j
      /\ \A i \in D : i # n => i \in DOMAIN old
  BY <1>1, <1>2
<1>4. ASSUME NEW job
      PROVE  (\E i \in D : new[i].run = r /\ new[i].job = job)
               <=> \/ \E i \in DOMAIN old : old[i].run = r /\ old[i].job = job
                   \/ j.run = r /\ j.job = job
  BY <1>3
<1>5. /\ \A i \in DOMAIN queue' : IsRunJob(i, r)' =>
           \/ i \in DOMAIN queue /\ IsRunJob(i, r)
           \/ i = n /\ j.run = r /\ j.job = "run"
      /\ \A w \in Slots : IsRunTask(w, r)' <=> IsRunTask(w, r)
  BY <1>1, <1>2 DEF IsRunJob, IsRunTask
<1>6. ASSUME ~(j.run = r /\ j.job = "run"), creating' \subseteq creating,
             OneRunOwner(r)
      PROVE  OneRunOwner(r)'
  BY <1>5, <1>6 DEF OneRunOwner
<1>7. ASSUME j.run = r, j.job = "run", r \notin creating',
             \A i \in DOMAIN queue : ~IsRunJob(i, r),
             \A w \in Slots : ~IsRunTask(w, r)
      PROVE  OneRunOwner(r)'
  BY <1>5, <1>7 DEF OneRunOwner
<1> QED
  BY <1>4, <1>6, <1>7

(* A step that leaves the row's decision and the histories of a run alone, *)
(* and adds neither an owner nor a review, keeps the run in its phase.     *)
LEMMA PhaseStays ==
  ASSUME NEW r \in Runs, PhaseOK(r),
         RunOwned(r)' => RunOwned(r), CommitOwned(r)' => CommitOwned(r),
         NotReviewed(r) => NotReviewed(r)',
         SameDecision(r), approved'[r] = approved[r],
         r \in rejected' => r \in rejected
  PROVE  PhaseOK(r)'
BY DEF PhaseOK, SameDecision, Undecided

LEMMA GatewayStepOwners ==
  ASSUME RunInv, OwnersOK, NEW s \in Runs, GatewayStep(s)
  PROVE  \A r \in Runs : OneRunOwner(r)' /\ PhaseOK(r)'
<1>0. /\ queue \in Seq(Jobs) /\ row \in [Runs -> Rows] /\ row[s] \in Rows
      /\ OneRunOwner(s) /\ PhaseOK(s)
  BY DEF RunInv, GatewayOK, RowsGood, Jobs, OwnersOK
<1>1. ASSUME NEW r \in Runs, CreateRun(s) PROVE OneRunOwner(r)' /\ PhaseOK(r)'
  <2>1. /\ UNCHANGED <<queue, task, req, approved, rejected>>
        /\ creating' = creating \cup {s}
        /\ row' = [row EXCEPT ![s].status = "queued"]
        /\ row[s].status = "none"
    BY <1>1 DEF CreateRun
  <2>2. OneRunOwner(r) /\ PhaseOK(r)
    BY DEF OwnersOK
  <2>3. /\ NotReviewed(r)' <=> NotReviewed(r)
        /\ CommitOwned(r)' <=> CommitOwned(r)
        /\ \A w \in Slots : IsRunTask(w, r)' <=> IsRunTask(w, r)
        /\ \A i \in DOMAIN queue : IsRunJob(i, r)' <=> IsRunJob(i, r)
    BY <2>1 DEF NotReviewed, Active, CommitOwned, IsRunTask, IsRunJob
  <2>4. CASE r = s
    <3>1. ~RunOwned(r) /\ Undecided(r) /\ row[r].pending = NULL /\ NotReviewed(r)
      BY <2>1, <2>2, <2>4 DEF PhaseOK
    <3>2. row'[r].status = "queued" /\ row'[r].pending = NULL
      BY <1>0, <2>1, <2>4, <3>1 DEF Rows
    <3>3. OneRunOwner(r)'
      BY <2>1, <2>3, <3>1 DEF OneRunOwner, RunOwned
    <3>4. Undecided(r)'
      BY <2>1, <3>1 DEF Undecided
    <3>5. approved'[r] = {} /\ ~CommitOwned(r)
      BY <2>1, <2>2, <3>1 DEF Undecided, PhaseOK
    <3> QED
      BY <2>3, <3>1, <3>2, <3>3, <3>4, <3>5 DEF PhaseOK
  <2>5. CASE r # s
    <3>1. OneRunOwner(r)' /\ (RunOwned(r)' <=> RunOwned(r))
      BY <2>1, <2>2, <2>3, <2>5 DEF OneRunOwner, RunOwned
    <3>2. SameDecision(r)
      BY <1>0, <2>1, <2>5 DEF SameDecision
    <3> QED
      BY <2>1, <2>2, <2>3, <3>1, <3>2, PhaseStays
  <2> QED
    BY <2>4, <2>5
<1>2. ASSUME NEW r \in Runs, EnqueueRun(s) PROVE OneRunOwner(r)' /\ PhaseOK(r)'
  <2> PICK j : j = [job |-> "run", run |-> s]
    OBVIOUS
  <2>1. /\ UNCHANGED <<row, task, req, approved, rejected>> /\ s \in creating
        /\ creating' = creating \ {s} /\ queue' = Append(queue, j)
        /\ j \in Jobs /\ j.run = s /\ j.job = "run"
    BY <1>2 DEF EnqueueRun, rowVars, Jobs
  <2>2. OneRunOwner(r) /\ PhaseOK(r)
    BY DEF OwnersOK
  <2>3. r = s => /\ r \notin creating'
                 /\ \A i \in DOMAIN queue : ~IsRunJob(i, r)
                 /\ \A w \in Slots : ~IsRunTask(w, r)
    BY <2>1, <2>2 DEF OneRunOwner
  <2>4. OneRunOwner(r)'
    BY <1>0, <2>1, <2>2, <2>3, OwnersPush
  <2>5. \A job : (\E i \in DOMAIN queue' : queue'[i].run = r
                                            /\ queue'[i].job = job)
            <=> \/ \E i \in DOMAIN queue : queue[i].run = r
                                            /\ queue[i].job = job
                \/ s = r /\ "run" = job
    BY <1>0, <2>1, OwnersPush
  <2>6. RunOwned(r)' => RunOwned(r)
    BY <2>1, <2>5 DEF RunOwned, IsRunJob, IsRunTask
  <2>7. CommitOwned(r)' => CommitOwned(r)
    BY <2>1, <2>5 DEF CommitOwned
  <2> QED
    BY <2>1, <2>2, <2>4, <2>6, <2>7, PhaseStays
       DEF SameDecision, NotReviewed, Active
<1>3. ASSUME NEW r \in Runs, EnqueueRunFails(s)
      PROVE  OneRunOwner(r)' /\ PhaseOK(r)'
  <2>1. /\ UNCHANGED <<row, queue, task, req, approved, rejected>>
        /\ creating' \subseteq creating
    BY <1>3 DEF EnqueueRunFails, rowVars
  <2>2. OneRunOwner(r) /\ PhaseOK(r)
    BY DEF OwnersOK
  <2>3. /\ OneRunOwner(r)' /\ (RunOwned(r)' => RunOwned(r))
        /\ CommitOwned(r)' => CommitOwned(r)
    BY <2>1, <2>2 DEF OneRunOwner, RunOwned, CommitOwned, IsRunJob, IsRunTask
  <2> QED
    BY <2>1, <2>2, <2>3, PhaseStays DEF SameDecision, NotReviewed, Active
<1> QED
  BY <1>1, <1>2, <1>3 DEF GatewayStep

\* A review step changes the requests of its own and nothing of the queue.
LEMMA RequestSet ==
  ASSUME RunInv, NEW q \in Requests, ReviewStep(q)
  PROVE  /\ \A p \in Requests : p # q => req'[p] = req[p]
         /\ UNCHANGED <<task, creating>>
         /\ ~EnqueueCommit(q) => UNCHANGED queue
         /\ ~ReadForReview(q) => /\ req'[q].run = req[q].run
                                 /\ req[q].run \in Runs /\ Active(q)
         /\ ApproveReview(q) => req'[q].run = req[q].run
         /\ ~ApproveReview(q) => UNCHANGED approved /\ req'[q].pc # "approved"
         /\ ~MarkCancelled(q) => UNCHANGED rejected
         /\ ~MarkCancelled(q) /\ ~ApproveReview(q) => UNCHANGED row
<1>0. req \in [Requests -> ReqRecords]
  BY DEF RunInv, GatewayOK
<1>1. CASE ReadForReview(q)
  BY <1>0, <1>1 DEF ReadForReview, MarkCancelled, ApproveReview, EnqueueCommit,
       ReqRecords, rowVars
<1>2. CASE MarkCancelled(q)
  BY <1>0, <1>2 DEF MarkCancelled, ReqRecords, RunInv, GatewayOK, Active,
       ReadForReview, ApproveReview, EnqueueCommit
<1>3. CASE ApproveReview(q)
  BY <1>0, <1>3 DEF ApproveReview, ReqRecords, RunInv, GatewayOK, Active,
       ReadForReview, MarkCancelled, EnqueueCommit
<1>4. CASE EnqueueCommit(q)
  BY <1>0, <1>4 DEF EnqueueCommit, ReqRecords, RunInv, GatewayOK, Active,
       ReadForReview, MarkCancelled, ApproveReview, rowVars
<1>5. CASE ReviewFails(q)
  BY <1>0, <1>5 DEF ReviewFails, ReqRecords, RunInv, GatewayOK, Active,
       ReadForReview, MarkCancelled, ApproveReview, EnqueueCommit, rowVars
<1> QED
  BY <1>1, <1>2, <1>3, <1>4, <1>5 DEF ReviewStep

LEMMA ReviewStepOwners ==
  ASSUME RunInv, OwnersOK, NEW q \in Requests, ReviewStep(q)
  PROVE  \A r \in Runs : OneRunOwner(r)' /\ PhaseOK(r)'
<1> TAKE r \in Runs
<1>0. /\ queue \in Seq(Jobs) /\ row \in [Runs -> Rows]
      /\ approved \in [Runs -> SUBSET Drafts]
      /\ req \in [Requests -> ReqRecords]
      /\ OneRunOwner(r) /\ PhaseOK(r)
  BY DEF RunInv, GatewayOK, RowsGood, Jobs, OwnersOK
<1>1. \A p \in Requests : p # q => req'[p] = req[p]
  BY RequestSet
<1>2. CASE ~EnqueueCommit(q)
  <2>1. UNCHANGED <<task, creating, queue>>
    BY <1>2, RequestSet
  <2>2. OneRunOwner(r)' /\ (RunOwned(r)' <=> RunOwned(r))
    BY <1>0, <2>1 DEF OneRunOwner, RunOwned, IsRunJob, IsRunTask
  <2>a. \/ ~ApproveReview(q) /\ req'[q].pc # "approved"
        \/ ApproveReview(q) /\ req'[q].run = req[q].run
    BY RequestSet
  <2>3. ~(ApproveReview(q) /\ req[q].run = r) =>
          (CommitOwned(r)' => CommitOwned(r))
    BY <1>1, <2>1, <2>a DEF CommitOwned
  <2>4. CASE ReadForReview(q)
    <3>1. /\ req[q].pc = "new"
          /\ UNCHANGED <<row, approved, rejected>>
      BY <2>4 DEF ReadForReview, rowVars
    <3>2. \/ req'[q].pc = "done"
          \/ /\ row[req'[q].run].status = "awaiting_review"
             /\ req'[q].pc = "checked"
      BY <1>0, <2>4 DEF ReadForReview, ReqRecords
    <3>3. CommitOwned(r)' => CommitOwned(r)
      BY <1>1, <2>1, <3>2 DEF CommitOwned
    <3>4. CASE row[r].status # "awaiting_review"
      <4>1. NotReviewed(r) => NotReviewed(r)'
        BY <1>1, <3>2, <3>4 DEF NotReviewed, Active
      <4> QED
        BY <1>0, <2>2, <3>1, <3>3, <4>1, PhaseStays DEF SameDecision
    <3>5. CASE row[r].status = "awaiting_review"
      BY <1>0, <2>2, <3>1, <3>3, <3>5 DEF PhaseOK, Undecided
    <3> QED
      BY <3>4, <3>5
  <2>5. CASE ~ReadForReview(q) /\ req[q].run # r
    <3>1. /\ req'[q].run = req[q].run /\ req[q].run \in Runs
      BY <2>5, RequestSet
    <3>2. NotReviewed(r)' <=> NotReviewed(r)
      BY <1>1, <2>5, <3>1 DEF NotReviewed, Active
    <3>3. SameDecision(r) /\ approved'[r] = approved[r]
      BY <1>0, <2>5, <3>1, RequestSet
         DEF SameDecision, MarkCancelled, ApproveReview
    <3>4. r \in rejected' => r \in rejected
      <4>1. CASE MarkCancelled(q)
        BY <2>5, <4>1 DEF MarkCancelled
      <4>2. CASE ~MarkCancelled(q)
        BY <4>2, RequestSet
      <4> QED
        BY <4>1, <4>2
    <3> QED
      BY <1>0, <2>2, <2>3, <2>5, <3>2, <3>3, <3>4, PhaseStays
  <2>6. CASE ~ReadForReview(q) /\ req[q].run = r
    <3>1. Active(q) /\ ~RunOwned(r) /\ row[r].status # "none"
      BY <1>0, <2>6, RequestSet DEF PhaseOK, NotReviewed
    <3>2. CASE MarkCancelled(q)
      <4>1. /\ row'[r].status = "cancelled" /\ row'[r].pending = NULL
            /\ approved' = approved
        BY <1>0, <2>6, <3>2 DEF MarkCancelled, Rows
      <4>3. ~ApproveReview(q)
        BY <3>2 DEF MarkCancelled, ApproveReview
      <4>2. CommitOwned(r)' => CommitOwned(r)
        BY <2>3, <4>3
      <4> QED
        BY <1>0, <2>2, <3>1, <4>1, <4>2 DEF PhaseOK
    <3>3. CASE ApproveReview(q)
      <4>1. /\ row'[r].status = "running" /\ row'[r].pending = req[q].pending
            /\ approved'[r] = approved[r] \cup {req[q].pending}
        BY <1>0, <2>6, <3>3 DEF ApproveReview, Rows
      <4> QED
        BY <1>0, <2>2, <3>1, <4>1 DEF PhaseOK
    <3>4. CASE ReviewFails(q)
      <4>1. UNCHANGED <<row, approved, rejected>>
        BY <3>4 DEF ReviewFails, rowVars
      <4>4. req'[q].pc = "done"
        BY <1>0, <3>4 DEF ReviewFails, ReqRecords
      <4>2. CommitOwned(r)' => CommitOwned(r)
        BY <1>1, <2>1, <4>4 DEF CommitOwned
      <4>3. NotReviewed(r) => NotReviewed(r)'
        BY <2>6, <3>1 DEF NotReviewed
      <4> QED
        BY <1>0, <2>2, <4>1, <4>2, <4>3, PhaseStays DEF SameDecision
    <3> QED
      BY <1>2, <2>6, <3>2, <3>3, <3>4 DEF ReviewStep
  <2> QED
    BY <2>4, <2>5, <2>6
<1>3. CASE EnqueueCommit(q)
  <2> PICK j : j = [job |-> "commit", run |-> req[q].run]
    OBVIOUS
  <2>1. /\ req[q].pc = "approved" /\ req'[q].pc = "done"
        /\ queue' = Append(queue, j)
        /\ UNCHANGED <<task, creating, row, approved, rejected>>
    BY <1>0, <1>3 DEF EnqueueCommit, rowVars, ReqRecords
  <2>2. j \in Jobs /\ j.run = req[q].run /\ j.job = "commit"
    BY <1>0, <2>1 DEF RunInv, GatewayOK, Jobs
  <2>3. OneRunOwner(r)'
    BY <1>0, <2>1, <2>2, OwnersPush
  <2>4. \A job : (\E i \in DOMAIN queue' : queue'[i].run = r
                                            /\ queue'[i].job = job)
            <=> \/ \E i \in DOMAIN queue : queue[i].run = r
                                            /\ queue[i].job = job
                \/ j.run = r /\ j.job = job
    BY <1>0, <2>1, <2>2, OwnersPush
  <2>5. RunOwned(r)' => RunOwned(r)
    BY <2>1, <2>2, <2>4 DEF RunOwned, IsRunJob, IsRunTask
  <2>6. CommitOwned(r)' => CommitOwned(r)
    BY <1>1, <2>1, <2>2, <2>4 DEF CommitOwned
  <2>7. NotReviewed(r) => NotReviewed(r)'
    BY <1>1, <2>1 DEF NotReviewed, Active
  <2> QED
    BY <1>0, <2>1, <2>3, <2>5, <2>6, <2>7, PhaseStays DEF SameDecision
<1> QED
  BY <1>2, <1>3

\* The statements of the worker touch the row of their own task's run only.
LEMMA RowOfTask ==
  ASSUME RunInv, NEW w \in Slots,
         MarkRunning(w) \/ MarkAwaitingReview(w) \/ MarkSucceeded(w)
           \/ MarkFailed(w)
  PROVE  /\ task[w].run \in Runs /\ task[w].job \in {"run", "commit"}
         /\ \A r \in Runs : r # task[w].run => row'[r] = row[r]
         /\ MarkRunning(w) => /\ row'[task[w].run].status = "running"
                              /\ row'[task[w].run].pending
                                   = row[task[w].run].pending
         /\ MarkAwaitingReview(w) =>
              /\ row'[task[w].run].status = "awaiting_review"
              /\ row'[task[w].run].pending \in Drafts
         /\ MarkSucceeded(w) \/ MarkFailed(w) =>
              /\ row'[task[w].run].status \in {"succeeded", "failed"}
              /\ row'[task[w].run].pending = row[task[w].run].pending
<1>0. /\ row \in [Runs -> Rows] /\ task[w] \in Tasks /\ TaskOK(task[w])
      /\ task[w].pc # "idle"
  BY DEF RunInv, RowsGood, TasksGood, TaskGood, MarkRunning,
     MarkAwaitingReview, MarkSucceeded, MarkFailed
<1>1. task[w].run \in Runs /\ task[w].job \in {"run", "commit"}
  BY <1>0 DEF TaskOK, Tasks
<1>2. task[w].structured \in Drafts
  BY <1>0 DEF Tasks
<1>3. CASE MarkRunning(w)
  BY <1>0, <1>1, <1>3 DEF MarkRunning, MarkAwaitingReview, MarkSucceeded,
     MarkFailed, Rows
<1>4. CASE MarkAwaitingReview(w)
  BY <1>0, <1>1, <1>2, <1>4 DEF MarkRunning, MarkAwaitingReview,
     MarkSucceeded, MarkFailed, Rows
<1>5. CASE MarkSucceeded(w)
  BY <1>0, <1>1, <1>5 DEF MarkRunning, MarkAwaitingReview, MarkSucceeded,
     MarkFailed, Rows
<1>6. CASE MarkFailed(w)
  BY <1>0, <1>1, <1>6 DEF MarkRunning, MarkAwaitingReview, MarkSucceeded,
     MarkFailed, Rows
<1> QED
  BY <1>3, <1>4, <1>5, <1>6

LEMMA WorkerStepOwners ==
  ASSUME RunInv, OwnersOK, NEW w \in Slots, WorkerStep(w)
  PROVE  \A r \in Runs : OneRunOwner(r)' /\ PhaseOK(r)'
<1> TAKE r \in Runs
<1>0. OneRunOwner(r) /\ PhaseOK(r) /\ IdleSlots /\ ResearchIsRun
  BY DEF OwnersOK
<1>a. UNCHANGED req => (NotReviewed(r) => NotReviewed(r)')
  BY DEF NotReviewed, Active
<1>1. CASE Receive(w)
  BY <1>0, <1>1, <1>a, Taken, OwnersReceive, PhaseStays
     DEF SameDecision, SameOwners
<1>2. CASE Moves(w) /\ SameDecision(r)
  BY <1>0, <1>2, <1>a, OwnersMove, PhaseStays DEF SameOwners, Moves, Stays
<1>3. CASE Leaves(w) /\ SameDecision(r)
  BY <1>0, <1>3, <1>a, OwnersLeave, PhaseStays DEF Leaves, Stays
<1>4. CASE MarkRunning(w) /\ task[w].run = r
  <2>1. Moves(w) /\ row'[r].status = "running" /\ row'[r].pending = row[r].pending
    BY <1>4, OtherSteps, RowOfTask
  <2>2. SameOwners(r) /\ OneRunOwner(r)'
    BY <1>0, <2>1, OwnersMove
  <2>3. RunOwned(r)
    BY <1>4 DEF MarkRunning, RunOwned, IsRunTask
  <2>4. NotReviewed(r)' /\ Undecided(r)' /\ approved' = approved
    BY <1>0, <1>a, <2>1, <2>3 DEF PhaseOK, Undecided, Moves, Stays
  <2> QED
    BY <1>0, <2>1, <2>2, <2>3, <2>4 DEF PhaseOK, SameOwners
<1>5. CASE MarkAwaitingReview(w) /\ task[w].run = r
  <2>1. Leaves(w) /\ row'[r].status = "awaiting_review"
        /\ row'[r].pending # NULL
    BY <1>5, OtherSteps, RowOfTask, NullAssumption
  <2>2. IsRunTask(w, r)
    BY <1>0, <1>5 DEF MarkAwaitingReview, ResearchIsRun, IsRunTask
  <2>3. /\ OneRunOwner(r)' /\ ~RunOwned(r)'
        /\ CommitOwned(r)' => CommitOwned(r)
    BY <1>0, <2>1, <2>2, OwnersLeave
  <2>4. RunOwned(r) /\ Undecided(r)
    BY <1>0, <2>2 DEF RunOwned, PhaseOK
  <2>5. Undecided(r)' /\ approved'[r] = {} /\ ~CommitOwned(r)
    BY <1>0, <2>1, <2>4 DEF Undecided, Leaves, Stays, PhaseOK
  <2> QED
    BY <2>1, <2>3, <2>5 DEF PhaseOK
<1>6. CASE (MarkSucceeded(w) \/ MarkFailed(w)) /\ task[w].run = r
  <2>1. /\ Leaves(w) /\ row'[r].status \in {"succeeded", "failed"}
        /\ row'[r].pending = row[r].pending /\ task[w].job \in {"run", "commit"}
    BY <1>6, OtherSteps, RowOfTask
  <2>2. /\ OneRunOwner(r)' /\ (CommitOwned(r)' => CommitOwned(r))
        /\ RunOwned(r)' => RunOwned(r)
    BY <1>0, <2>1, OwnersLeave
  <2>3. ~RunOwned(r)'
    <3>1. CASE task[w].job = "run"
      BY <1>0, <1>6, <2>1, <3>1, OwnersLeave DEF IsRunTask
    <3>2. CASE task[w].job = "commit"
      BY <1>0, <1>6, <2>2, <3>2 DEF CommitOwned, PhaseOK, Undecided
    <3> QED
      BY <2>1, <3>1, <3>2
  <2>4. approved' = approved
    BY <2>1 DEF Leaves, Stays
  <2> QED
    BY <1>0, <2>1, <2>2, <2>3, <2>4 DEF PhaseOK
<1>7. CASE (TaskDies(w) \/ Crash(w))
  <2>1. Leaves(w) /\ UNCHANGED row
    BY <1>7, OtherSteps DEF TaskDies, Crash, rowVars
  <2> QED
    BY <1>3, <2>1 DEF SameDecision
<1>8. CASE WorkStep(w)
  BY <1>2, <1>8, WorkSteps
<1>9. ASSUME MarkRunning(w) \/ MarkAwaitingReview(w) \/ MarkSucceeded(w)
               \/ MarkFailed(w), task[w].run # r
      PROVE  SameDecision(r) /\ (Moves(w) \/ Leaves(w))
  BY <1>9, RowOfTask, OtherSteps DEF SameDecision
<1> QED
  BY <1>1, <1>2, <1>3, <1>4, <1>5, <1>6, <1>7, <1>8, <1>9, OtherSteps

\* Only run_agent gets to the research phase.
LEMMA ResearchStays ==
  ASSUME RunInv, ResearchIsRun, [Next]_vars
  PROVE  ResearchIsRun'
<1>1. CASE UNCHANGED task
  BY <1>1 DEF ResearchIsRun
<1>2. ASSUME NEW w \in Slots, Leaves(w) PROVE ResearchIsRun'
  BY <1>2 DEF ResearchIsRun, Leaves, IdleTask
<1>3. ASSUME NEW w \in Slots, Receive(w) PROVE ResearchIsRun'
  BY <1>3, Taken DEF ResearchIsRun
<1>4. ASSUME NEW w \in Slots, WorkStep(w) PROVE ResearchIsRun'
  BY <1>4, WorkSteps, WorkPhase DEF ResearchIsRun, Moves, Early
<1>5. ASSUME NEW w \in Slots, MarkRunning(w) PROVE ResearchIsRun'
  BY <1>5, OtherSteps DEF ResearchIsRun, Moves, MarkRunning
<1>6. ASSUME NEW r \in Runs, GatewayStep(r) PROVE UNCHANGED task
  BY <1>6 DEF GatewayStep, CreateRun, EnqueueRun, EnqueueRunFails
<1>7. ASSUME NEW q \in Requests, ReviewStep(q) PROVE UNCHANGED task
  BY <1>7, RequestSet
<1>8. ASSUME NEW w \in Slots, WorkerStep(w) PROVE ResearchIsRun'
  BY <1>2, <1>3, <1>4, <1>5, <1>8, OtherSteps
<1> QED
  BY <1>1, <1>6, <1>7, <1>8 DEF Next, vars

\* No step breaks the ownership of a run.
LEMMA OwnersPreserved ==
  ASSUME RunInv, OwnersOK, [Next]_vars
  PROVE  OwnersOK'
<1>1. IdleSlots' /\ ResearchIsRun'
  BY IdleStays, ResearchStays DEF OwnersOK
<1>2. ASSUME NEW r \in Runs, UNCHANGED vars
      PROVE  OneRunOwner(r)' /\ PhaseOK(r)'
  BY <1>2 DEF vars, OwnersOK, OneRunOwner, PhaseOK, RunOwned, CommitOwned,
     IsRunJob, IsRunTask, Undecided, NotReviewed, Active
<1> QED
  BY <1>1, <1>2, GatewayStepOwners, ReviewStepOwners, WorkerStepOwners
     DEF Next, OwnersOK

\* At the start nobody works on anything.
LEMMA OwnersInit == Init => OwnersOK
<1> SUFFICES ASSUME Init PROVE OwnersOK
  OBVIOUS
<1>1. /\ queue = <<>> /\ DOMAIN queue = {} /\ creating = {}
      /\ \A w \in Slots : task[w] = IdleTask
      /\ \A q \in Requests : req[q] = IdleReq
      /\ \A r \in Runs : row[r] = BlankRow /\ approved[r] = {}
      /\ rejected = {}
  BY DEF Init
<1>2. IdleSlots /\ ResearchIsRun
  <2>1. IdleTask.pc = "idle"
    BY DEF IdleTask
  <2> QED
    BY <1>1, <2>1 DEF IdleSlots, ResearchIsRun
<1>3. ASSUME NEW r \in Runs PROVE OneRunOwner(r) /\ PhaseOK(r)
  <2>1. /\ \A w \in Slots : task[w].run # r
        /\ \A q \in Requests : ~Active(q) /\ req[q].pc # "approved"
        /\ row[r].status = "none" /\ row[r].pending = NULL
    BY <1>1, NullAssumption DEF IdleTask, IdleReq, Active, BlankRow
  <2>2. ~RunOwned(r) /\ ~CommitOwned(r)
    BY <1>1, <2>1 DEF RunOwned, CommitOwned, IsRunTask
  <2>3. OneRunOwner(r)
    BY <1>1, <2>1 DEF OneRunOwner, IsRunTask
  <2> QED
    BY <1>1, <2>1, <2>2, <2>3 DEF PhaseOK, Undecided, NotReviewed
<1> QED
  BY <1>2, <1>3 DEF OwnersOK

(* Who works on a run, for any number of reviewers, workers and faults.    *)
THEOREM OwnersInvariant == Spec => []OwnersOK
<1>1. Init => OwnersOK
  BY OwnersInit
<1>2. RunInv /\ OwnersOK /\ [Next]_vars => OwnersOK'
  BY OwnersPreserved
<1> QED
  BY <1>1, <1>2, RunInvariant, PTL DEF Spec

-----------------------------------------------------------------------------
(* Without crashes and failing calls an active run keeps an owner.         *)
HasOwner(r) == RunOwned(r) \/ CommitOwned(r)
ActiveOwned(r) == row[r].status \in {"queued", "running"} => HasOwner(r)
AllOwned == ~Faults => \A r \in Runs : ActiveOwned(r)

LEMMA GatewayKeepsOwned ==
  ASSUME RunInv, ~Faults, NEW s \in Runs, GatewayStep(s),
         NEW r \in Runs, ActiveOwned(r)
  PROVE  ActiveOwned(r)'
<1>0. row \in [Runs -> Rows] /\ queue \in Seq(Jobs)
  BY DEF RunInv, RowsGood, GatewayOK, Jobs
<1>1. CASE CreateRun(s)
  <2>1. /\ r # s => row'[r] = row[r]
        /\ s \in creating' /\ creating \subseteq creating'
        /\ UNCHANGED <<queue, task, req>>
    BY <1>0, <1>1 DEF CreateRun
  <2>2. HasOwner(r) \/ r = s => HasOwner(r)'
    BY <2>1 DEF HasOwner, RunOwned, CommitOwned, IsRunJob, IsRunTask
  <2> QED
    BY <2>1, <2>2 DEF ActiveOwned
<1>2. CASE EnqueueRun(s)
  <2> PICK j : j = [job |-> "run", run |-> s]
    OBVIOUS
  <2>1. /\ UNCHANGED <<row, task, req>> /\ creating' = creating \ {s}
        /\ queue' = Append(queue, j)
        /\ j \in Jobs /\ j.run = s /\ j.job = "run"
    BY <1>2 DEF EnqueueRun, rowVars, Jobs
  <2>2. \A job : (\E i \in DOMAIN queue' : queue'[i].run = r
                                            /\ queue'[i].job = job)
            <=> \/ \E i \in DOMAIN queue : queue[i].run = r
                                            /\ queue[i].job = job
                \/ s = r /\ "run" = job
    BY <1>0, <2>1, OwnersPush
  <2>3. HasOwner(r) => HasOwner(r)'
    BY <2>1, <2>2 DEF HasOwner, RunOwned, CommitOwned, IsRunJob, IsRunTask
  <2> QED
    BY <2>1, <2>3 DEF ActiveOwned
<1> QED
  BY <1>1, <1>2 DEF GatewayStep, EnqueueRunFails

LEMMA ReviewKeepsOwned ==
  ASSUME RunInv, ~Faults, NEW q \in Requests, ReviewStep(q),
         NEW r \in Runs, ActiveOwned(r)
  PROVE  ActiveOwned(r)'
<1>0. /\ row \in [Runs -> Rows] /\ queue \in Seq(Jobs)
      /\ req \in [Requests -> ReqRecords]
  BY DEF RunInv, RowsGood, GatewayOK, Jobs
<1>1. /\ \A p \in Requests : p # q => req'[p] = req[p]
      /\ UNCHANGED <<task, creating>>
  BY RequestSet
<1>2. ASSUME req[q].pc # "approved", UNCHANGED queue
      PROVE  HasOwner(r) => HasOwner(r)'
  BY <1>1, <1>2 DEF HasOwner, RunOwned, CommitOwned, IsRunJob, IsRunTask
<1>3. CASE ReadForReview(q)
  BY <1>2, <1>3 DEF ReadForReview, rowVars, ActiveOwned
<1>4. CASE MarkCancelled(q)
  <2>1. row'[r].status = row[r].status \/ row'[r].status = "cancelled"
    BY <1>0, <1>4 DEF MarkCancelled
  <2> QED
    BY <1>2, <1>4, <2>1 DEF MarkCancelled, ActiveOwned
<1>5. CASE ApproveReview(q)
  <2>1. /\ req'[q].pc = "approved" /\ req'[q].run = req[q].run
        /\ r # req[q].run => row'[r] = row[r]
    BY <1>0, <1>5 DEF ApproveReview, ReqRecords
  <2>2. r = req[q].run => HasOwner(r)'
    BY <2>1 DEF HasOwner, CommitOwned
  <2> QED
    BY <1>2, <1>5, <2>1, <2>2 DEF ApproveReview, ActiveOwned
<1>6. CASE EnqueueCommit(q)
  <2> PICK j : j = [job |-> "commit", run |-> req[q].run]
    OBVIOUS
  <2>1. /\ queue' = Append(queue, j) /\ UNCHANGED <<task, creating, row>>
        /\ req[q].pc = "approved"
    BY <1>6 DEF EnqueueCommit, rowVars
  <2>2. j \in Jobs /\ j.run = req[q].run /\ j.job = "commit"
    BY <1>0, <2>1 DEF RunInv, GatewayOK, Jobs
  <2>3. \A job : (\E i \in DOMAIN queue' : queue'[i].run = r
                                            /\ queue'[i].job = job)
            <=> \/ \E i \in DOMAIN queue : queue[i].run = r
                                            /\ queue[i].job = job
                \/ j.run = r /\ j.job = job
    BY <1>0, <2>1, <2>2, OwnersPush
  <2>4. RunOwned(r) => RunOwned(r)'
    BY <2>1, <2>3 DEF RunOwned, IsRunJob, IsRunTask
  <2>5. CommitOwned(r) => CommitOwned(r)'
    BY <1>1, <2>1, <2>2, <2>3 DEF CommitOwned
  <2> QED
    BY <2>1, <2>4, <2>5 DEF ActiveOwned, HasOwner
<1> QED
  BY <1>3, <1>4, <1>5, <1>6 DEF ReviewStep, ReviewFails

LEMMA WorkerKeepsOwned ==
  ASSUME RunInv, IdleSlots, ~Faults, NEW w \in Slots, WorkerStep(w),
         NEW r \in Runs, ActiveOwned(r)
  PROVE  ActiveOwned(r)'
<1>1. CASE Receive(w)
  BY <1>1, OwnersReceive, Taken DEF ActiveOwned, HasOwner, SameOwners
<1>2. CASE WorkStep(w)
  BY <1>2, OwnersMove, WorkSteps
     DEF ActiveOwned, HasOwner, SameOwners, SameDecision
<1>3. CASE MarkRunning(w)
  <2>1. SameOwners(r) /\ (r # task[w].run => row'[r] = row[r])
    BY <1>3, OwnersMove, OtherSteps, RowOfTask
  <2>2. CASE r = task[w].run
    BY <1>3, <2>1, <2>2
       DEF ActiveOwned, HasOwner, SameOwners, RunOwned, IsRunTask, MarkRunning
  <2> QED
    BY <2>1, <2>2 DEF ActiveOwned, HasOwner, SameOwners
<1>4. CASE MarkAwaitingReview(w) \/ MarkSucceeded(w) \/ MarkFailed(w)
  <2>1. r = task[w].run =>
          row'[r].status \in {"awaiting_review", "succeeded", "failed"}
    BY <1>4, RowOfTask
  <2>2. r # task[w].run => row'[r] = row[r] /\ SameOwners(r)
    BY <1>4, RowOfTask, OtherSteps, OwnersLeave
  <2> QED
    BY <2>1, <2>2 DEF ActiveOwned, HasOwner, SameOwners
<1> QED
  BY <1>1, <1>2, <1>3, <1>4, OtherSteps DEF TaskDies, Crash

(* POST /agent/runs and the review handler push a job for whatever they    *)
(* leave in queued or running, and a task ends its run: as long as no      *)
(* process dies and no call fails, no run is stranded.                     *)
THEOREM NoRunIsOrphaned == Spec => []NoOrphanRun
<1>1. Init => AllOwned
  BY DEF Init, AllOwned, ActiveOwned, BlankRow
<1>2. RunInv /\ OwnersOK /\ AllOwned /\ [Next]_vars => AllOwned'
  <2> SUFFICES ASSUME RunInv, OwnersOK, AllOwned, [Next]_vars, ~Faults,
                      NEW r \in Runs
               PROVE  ActiveOwned(r)'
    BY DEF AllOwned
  <2>1. ActiveOwned(r) /\ IdleSlots
    BY DEF AllOwned, OwnersOK
  <2>2. CASE UNCHANGED vars
    BY <2>1, <2>2 DEF vars, ActiveOwned, HasOwner, RunOwned, CommitOwned,
       IsRunJob, IsRunTask
  <2> QED
    BY <2>1, <2>2, GatewayKeepsOwned, ReviewKeepsOwned, WorkerKeepsOwned
       DEF Next
<1>3. AllOwned => NoOrphanRun
  BY DEF AllOwned, ActiveOwned, HasOwner, RunOwned, CommitOwned, IsRunJob,
     IsRunTask, NoOrphanRun, JobsOf, TasksOf, ReviewsOf
<1> QED
  BY <1>1, <1>2, <1>3, RunInvariant, OwnersInvariant, PTL DEF Spec

-----------------------------------------------------------------------------
(* A run has written nothing until its task is past the research phase.    *)
Nothing(r) == EntityIds(r) = {} /\ EdgeIds(r) = {}

Untouched(r) ==
  /\ row[r].status \in {"none", "awaiting_review"} => Nothing(r)
  /\ r \in creating => Nothing(r)
  /\ \A i \in DOMAIN queue : IsRunJob(i, r) => Nothing(r)
  /\ \A w \in Slots : IsRunTask(w, r) /\ task[w].pc \in Early => Nothing(r)

\* Nodes and edges are written by worker steps only.
LEMMA GraphSame ==
  ASSUME UNCHANGED <<entities, edges>>
  PROVE  \A r : SameGraph(r) /\ (Nothing(r)' <=> Nothing(r))
BY DEF SameGraph, Nothing, EntityIds, EdgeIds

LEMMA GatewayKeepsUntouched ==
  ASSUME RunInv, NEW s \in Runs, GatewayStep(s), NEW r \in Runs, Untouched(r)
  PROVE  Untouched(r)'
<1>0. /\ row \in [Runs -> Rows] /\ queue \in Seq(Jobs)
      /\ UNCHANGED <<entities, edges, task>> /\ (Nothing(r)' <=> Nothing(r))
  <2>1. UNCHANGED <<entities, edges, task>>
    BY DEF GatewayStep, CreateRun, EnqueueRun, EnqueueRunFails, graphVars
  <2> QED
    BY <2>1, GraphSame DEF RunInv, RowsGood, GatewayOK, Jobs
<1>1. CASE CreateRun(s)
  <2>1. /\ r # s => row'[r] = row[r]
        /\ r = s => row[r].status = "none" /\ row'[r].status = "queued"
        /\ creating' = creating \cup {s} /\ UNCHANGED queue
    BY <1>0, <1>1 DEF CreateRun, Rows
  <2> QED
    BY <1>0, <2>1 DEF Untouched, IsRunJob, IsRunTask
<1>2. CASE EnqueueRun(s)
  <2> PICK j : j = [job |-> "run", run |-> s]
    OBVIOUS
  <2>1. /\ UNCHANGED row /\ creating' = creating \ {s} /\ s \in creating
        /\ queue' = Append(queue, j)
        /\ j \in Jobs /\ j.run = s /\ j.job = "run"
    BY <1>2 DEF EnqueueRun, rowVars, Jobs
  <2>2. (\E i \in DOMAIN queue' : queue'[i].run = r
                                   /\ queue'[i].job = "run")
            <=> \/ \E i \in DOMAIN queue : queue[i].run = r
                                            /\ queue[i].job = "run"
                \/ s = r
    BY <1>0, <2>1, OwnersPush
  <2> QED
    BY <1>0, <2>1, <2>2 DEF Untouched, IsRunJob, IsRunTask
<1>3. CASE EnqueueRunFails(s)
  <2>1. UNCHANGED <<row, queue>> /\ creating' \subseteq creating
    BY <1>3 DEF EnqueueRunFails, rowVars
  <2> QED
    BY <1>0, <2>1 DEF Untouched, IsRunJob, IsRunTask
<1> QED
  BY <1>1, <1>2, <1>3 DEF GatewayStep

LEMMA ReviewKeepsUntouched ==
  ASSUME RunInv, NEW q \in Requests, ReviewStep(q), NEW r \in Runs,
         Untouched(r)
  PROVE  Untouched(r)'
<1>0. /\ row \in [Runs -> Rows] /\ queue \in Seq(Jobs)
      /\ req \in [Requests -> ReqRecords]
  BY DEF RunInv, RowsGood, GatewayOK, Jobs
<1>1. /\ UNCHANGED <<task, creating, entities, edges>>
      /\ Nothing(r)' <=> Nothing(r)
  <2>1. UNCHANGED <<entities, edges>>
    BY DEF ReviewStep, ReadForReview, MarkCancelled, ApproveReview,
       EnqueueCommit, ReviewFails, graphVars
  <2> QED
    BY <2>1, RequestSet, GraphSame
<1>2. row'[r].status \in {row[r].status, "cancelled", "running"}
  <2>1. CASE MarkCancelled(q)
    BY <1>0, <2>1 DEF MarkCancelled
  <2>2. CASE ApproveReview(q)
    BY <1>0, <2>2 DEF ApproveReview
  <2>3. CASE ~MarkCancelled(q) /\ ~ApproveReview(q)
    <3>1. row' = row
      BY <2>3, RequestSet
    <3> QED
      BY <3>1
  <2> QED
    BY <2>1, <2>2, <2>3
<1>3. CASE ~EnqueueCommit(q)
  BY <1>1, <1>2, <1>3, RequestSet DEF Untouched, IsRunJob, IsRunTask
<1>4. CASE EnqueueCommit(q)
  <2> PICK j : j = [job |-> "commit", run |-> req[q].run]
    OBVIOUS
  <2>1. queue' = Append(queue, j) /\ req[q].pc = "approved"
    BY <1>4 DEF EnqueueCommit
  <2>2. j \in Jobs /\ j.run = req[q].run /\ j.job = "commit"
    BY <1>0, <2>1 DEF RunInv, GatewayOK, Jobs
  <2>3. (\E i \in DOMAIN queue' : queue'[i].run = r
                                   /\ queue'[i].job = "run")
            <=> \E i \in DOMAIN queue : queue[i].run = r
                                         /\ queue[i].job = "run"
    BY <1>0, <1>1, <2>1, <2>2, OwnersPush
  <2> QED
    BY <1>1, <1>2, <2>3 DEF Untouched, IsRunJob, IsRunTask
<1> QED
  BY <1>3, <1>4

LEMMA WorkerKeepsUntouched ==
  ASSUME RunInv, OwnersOK, NEW w \in Slots, WorkerStep(w),
         NEW r \in Runs, Untouched(r)
  PROVE  Untouched(r)'
<1>0. OneRunOwner(r) /\ PhaseOK(r) /\ ResearchIsRun
  BY DEF OwnersOK
<1>a. ~WorkStep(w) => (Nothing(r)' <=> Nothing(r))
  <2>1. ~WorkStep(w) => UNCHANGED <<entities, edges>>
    BY DEF WorkerStep, ResearchStep, EndStep, WorkStep, Receive, MarkRunning,
       MarkAwaitingReview, MarkSucceeded, MarkFailed, TaskDies, Crash,
       graphVars
  <2> QED
    BY <2>1, GraphSame
<1>1. CASE Receive(w)
  <2>1. ~WorkStep(w)
    BY <1>1 DEF Receive, WorkStep, RecordNode, ResearchDone, CommitStep,
       EnrichStep, DeadlinePasses, NodeRaises, CanRaise, LoadParked,
       UseExisting, CreateEntity, AppendCommittedEntity, AttachSources,
       EmbedEntity, EntitiesDone, SkipRelationship, CreateRelationship,
       AppendCommittedRelationship, CommitNodeReturns, RecordWritingNode,
       LinksFor, SkipLink, CreateLink, AppendLink, EnrichNodeReturns,
       GuardedPc, EntityPc, RelationshipPc, LinkPc
  <2>2. \A i \in DOMAIN queue' : IsRunJob(i, r)' => Nothing(r)
    <3>1. \A i \in DOMAIN queue' : i + 1 \in DOMAIN queue
                                    /\ queue'[i] = queue[i + 1]
      BY <1>1, Taken, Popped DEF RunInv, GatewayOK, Jobs
    <3> QED
      BY <3>1 DEF Untouched, IsRunJob
  <2>3. \A v \in Slots : IsRunTask(v, r)' /\ task'[v].pc \in Early => Nothing(r)
    <3>1. ASSUME NEW v \in Slots, v = w, IsRunTask(v, r)' PROVE Nothing(r)
      <4>1. 1 \in DOMAIN queue /\ IsRunJob(1, r)
        BY <1>1, <3>1, Taken DEF IsRunJob, IsRunTask
      <4> QED
        BY <4>1 DEF Untouched
    <3>2. ASSUME NEW v \in Slots, v # w, IsRunTask(v, r)',
                 task'[v].pc \in Early
          PROVE Nothing(r)
      BY <1>1, <3>2, Taken DEF IsRunTask, Untouched
    <3> QED
      BY <3>1, <3>2
  <2>4. UNCHANGED <<creating, row>>
    BY <1>1, Taken
  <2> QED
    BY <1>a, <2>1, <2>2, <2>3, <2>4 DEF Untouched
<1>2. CASE WorkStep(w) /\ SameGraph(r)
  <2>1. Moves(w) /\ SameDecision(r)
    BY <1>2, WorkSteps
  <2>2. task'[w].pc \in Early => task[w].pc \in Early
    BY <1>2, WorkPhase DEF Early
  <2>3. Nothing(r)' <=> Nothing(r)
    BY <1>2 DEF SameGraph, Nothing
  <2>4. \A v \in Slots : IsRunTask(v, r)' /\ task'[v].pc \in Early
                           => IsRunTask(v, r) /\ task[v].pc \in Early
    BY <2>1, <2>2 DEF Moves, IsRunTask
  <2> QED
    BY <2>1, <2>3, <2>4
       DEF Untouched, Moves, Stays, SameDecision, IsRunJob
<1>3. CASE WorkStep(w) /\ ~SameGraph(r)
  <2>1. /\ task[w].run = r /\ task[w].pc \notin Early
        /\ task'[w].pc \notin Early
    BY <1>3, WorkPhase DEF Early
  <2>2. Moves(w) /\ SameDecision(r)
    BY <1>3, WorkSteps
  <2>3. task[w].job \in {"run", "commit"}
    BY <2>2 DEF RunInv, TasksGood, TaskGood, TaskOK, Tasks, Moves
  <2>4. RunOwned(r) \/ CommitOwned(r)
    BY <2>1, <2>3 DEF RunOwned, CommitOwned, IsRunTask
  <2>5. row[r].status \notin {"none", "awaiting_review"}
    BY <1>0, <2>4 DEF PhaseOK, Undecided
  <2>6. /\ r \notin creating
        /\ \A i \in DOMAIN queue : ~IsRunJob(i, r)
        /\ \A v \in Slots : v # w => ~IsRunTask(v, r)
    <3>1. CASE IsRunTask(w, r)
      BY <1>0, <3>1 DEF OneRunOwner
    <3>2. CASE ~IsRunTask(w, r)
      <4>1. CommitOwned(r)
        BY <2>1, <2>3, <3>2 DEF CommitOwned, IsRunTask
      <4>2. ~RunOwned(r)
        BY <1>0, <4>1 DEF PhaseOK, Undecided
      <4> QED
        BY <4>2 DEF RunOwned
    <3> QED
      BY <3>1, <3>2
  <2>7. /\ r \notin creating'
        /\ \A i \in DOMAIN queue' : ~IsRunJob(i, r)'
        /\ \A v \in Slots : IsRunTask(v, r)' => v = w
    BY <2>2, <2>6 DEF Moves, Stays, IsRunJob, IsRunTask
  <2> QED
    BY <2>1, <2>2, <2>5, <2>7 DEF Untouched, SameDecision
<1>4. CASE MarkRunning(w) /\ ~WorkStep(w)
  <2>1. Moves(w) /\ row'[r].status \in {row[r].status, "running"}
    BY <1>4, RowOfTask, OtherSteps
  <2>2. task[w].pc \in Early
    BY <1>4 DEF MarkRunning, Early
  <2>3. \A v \in Slots : IsRunTask(v, r)' /\ task'[v].pc \in Early
                           => IsRunTask(v, r) /\ task[v].pc \in Early
    BY <2>1, <2>2 DEF Moves, IsRunTask
  <2> QED
    BY <1>a, <1>4, <2>1, <2>3 DEF Untouched, Moves, Stays, IsRunJob
<1>5. CASE ~WorkStep(w) /\ Leaves(w)
            /\ \/ row'[r].status \notin {"none", "awaiting_review"}
               \/ row'[r].status = row[r].status
               \/ Nothing(r)
  <2>1. \A v \in Slots : IsRunTask(v, r)' => IsRunTask(v, r) /\ v # w
    BY <1>5, NullAssumption DEF Leaves, IsRunTask, IdleTask
  <2> QED
    BY <1>a, <1>5, <2>1 DEF Untouched, Leaves, Stays, IsRunJob
<1>6. CASE ~WorkStep(w) /\ MarkAwaitingReview(w)
  <2>1. task[w].run = r => Nothing(r)
    BY <1>0, <1>6
       DEF MarkAwaitingReview, ResearchIsRun, IsRunTask, Untouched, Early
  <2> QED
    BY <1>5, <1>6, <2>1, RowOfTask, OtherSteps
<1>7. CASE ~WorkStep(w) /\ (MarkSucceeded(w) \/ MarkFailed(w))
  <2>1. row'[r] = row[r] \/ row'[r].status \in {"succeeded", "failed"}
    BY <1>7, RowOfTask
  <2> QED
    BY <1>5, <1>7, <2>1, OtherSteps
<1>8. CASE ~WorkStep(w) /\ (TaskDies(w) \/ Crash(w))
  BY <1>5, <1>8, OtherSteps DEF TaskDies, Crash, rowVars
<1> QED
  BY <1>1, <1>2, <1>3, <1>4, <1>6, <1>7, <1>8, OtherSteps

\* A run's graph is empty until its task has left the research phase.
LEMMA UntouchedInvariant == Spec => [](\A r \in Runs : Untouched(r))
<1>1. Init => \A r \in Runs : Untouched(r)
  BY DEF Init, Untouched, Nothing, EntityIds, EdgeIds, IdleTask, IsRunTask,
     Early
<1>2. RunInv /\ OwnersOK /\ (\A r \in Runs : Untouched(r)) /\ [Next]_vars
        => (\A r \in Runs : Untouched(r))'
  <2> SUFFICES ASSUME RunInv, OwnersOK, \A r \in Runs : Untouched(r),
                      [Next]_vars, NEW r \in Runs
               PROVE  Untouched(r)'
    OBVIOUS
  <2>1. CASE UNCHANGED vars
    BY <2>1 DEF vars, Untouched, Nothing, EntityIds, EdgeIds, IsRunJob,
       IsRunTask
  <2> QED
    BY <2>1, GatewayKeepsUntouched, ReviewKeepsUntouched,
       WorkerKeepsUntouched DEF Next
<1> QED
  BY <1>1, <1>2, RunInvariant, OwnersInvariant, PTL DEF Spec

(* mark_awaiting_review.sql: while a run waits for its reviewer its drafts *)
(* are stored, nothing of it is in the graph, no decision was taken and no *)
(* job, task or request works on it, whatever fails or races.              *)
THEOREM ParkedRunsWait == Spec => []ParkedIsUntouched
<1>1. RunInv /\ OwnersOK /\ (\A r \in Runs : Untouched(r)) => ParkedIsUntouched
  <2> SUFFICES ASSUME RunInv, OwnersOK, NEW r \in Runs, Untouched(r),
                      row[r].status = "awaiting_review"
               PROVE  /\ row[r].pending # NULL
                      /\ EntityIds(r) = {} /\ EdgeIds(r) = {}
                      /\ approved[r] = {} /\ r \notin rejected
                      /\ TasksOf(r) = {} /\ JobsOf(r) = {} /\ r \notin creating
    BY DEF ParkedIsUntouched
  <2>1. /\ row[r].pending # NULL /\ approved[r] = {} /\ r \notin rejected
        /\ ~RunOwned(r) /\ ~CommitOwned(r)
    BY DEF OwnersOK, PhaseOK, Undecided
  <2>2. Nothing(r)
    BY DEF Untouched
  <2>3. JobsOf(r) = {}
    <3>1. \A i \in DOMAIN queue : queue[i].job \in {"run", "commit"}
      <4>1. queue \in Seq(Jobs) /\ DOMAIN queue = 1..Len(queue)
        BY LenProperties DEF RunInv, GatewayOK, Jobs
      <4>2. \A i \in 1..Len(queue) : queue[i] \in Jobs
        BY <4>1, ElementOfSeq
      <4> QED
        BY <4>1, <4>2 DEF Jobs
    <3> QED
      BY <2>1, <3>1 DEF JobsOf, RunOwned, CommitOwned, IsRunJob
  <2>4. TasksOf(r) = {}
    <3>1. ASSUME NEW w \in Slots, task[w].run = r
          PROVE  task[w].job \in {"run", "commit"}
      <4>1. task[w].pc # "idle"
        BY <3>1, IdleOwnsNothing DEF OwnersOK
      <4> QED
        BY <4>1 DEF RunInv, TasksGood, TaskGood, TaskOK, Tasks
    <3> QED
      BY <2>1, <3>1 DEF TasksOf, RunOwned, CommitOwned, IsRunTask
  <2> QED
    BY <2>1, <2>2, <2>3, <2>4 DEF Nothing, RunOwned
<1> QED
  BY <1>1, RunInvariant, OwnersInvariant, UntouchedInvariant, PTL

-----------------------------------------------------------------------------
(* What a task writes comes from a draft: commit_agent_run works on one an *)
(* approval stored, and with review run_agent never gets to the writing    *)
(* nodes.                                                                  *)
DraftOK(t) ==
  /\ t.job = "commit" /\ t.pc # "start" =>
       t.structured \in approved[t.run] \cup {NoDraft}
  /\ t.pc \in EntityPc => t.todo \subseteq t.structured.entities
  /\ t.pc \in RelationshipPc => t.todo \subseteq t.structured.relationships
  /\ ReviewSettings = {TRUE} /\ t.job = "run" => t.pc \in Early \cup {"failing"}

AllDraftsOK == \A w \in Slots : DraftOK(task[w])

\* A task with a job has a run.
LEMMA JobOfRun ==
  ASSUME RunInv, IdleSlots, NEW w \in Slots, task[w].job # "none"
  PROVE  task[w].run \in Runs
<1>1. task[w].pc # "idle"
  BY DEF IdleSlots, IdleTask
<1> QED
  BY <1>1 DEF RunInv, TasksGood, TaskGood, TaskOK

\* A commit job of a run was approved.
LEMMA CommitApproved ==
  ASSUME OwnersOK, NEW w \in Slots, task[w].run \in Runs,
         task[w].job = "commit"
  PROVE  /\ approved[task[w].run] # {}
         /\ row[task[w].run].pending \in approved[task[w].run] \cup {NULL}
<1>1. CommitOwned(task[w].run) /\ PhaseOK(task[w].run)
  BY DEF OwnersOK, CommitOwned
<1> QED
  BY <1>1 DEF PhaseOK

\* _attach_sources and _embed_entity succeed or leave a note.
LEMMA BestEffort ==
  ASSUME RunInv, NEW w \in Slots
  PROVE  /\ AttachSources(w) =>
              \E s : /\ task'[w] = [task[w] EXCEPT !.pc = "embed",
                                                  !.skipped = s]
                    /\ \/ /\ s = task[w].skipped
                          /\ sourced' = sourced \cup {task[w].cur}
                       \/ /\ s = task[w].skipped
                                   \cup {Note("attach", task[w].cur)}
                          /\ sourced' = sourced
         /\ EmbedEntity(w) =>
              \E s : /\ task'[w] = [task[w] EXCEPT !.pc = "ents",
                                                  !.skipped = s]
                    /\ \/ /\ s = task[w].skipped
                          /\ embedded' = embedded \cup {task[w].cur}
                       \/ /\ s = task[w].skipped
                                   \cup {Note("embed", task[w].cur)}
                          /\ embedded' = embedded
<1> PICK t : t = task[w]
  OBVIOUS
<1>0. task \in [Slots -> Tasks] /\ t \in Tasks
  BY DEF RunInv, TasksGood
<1>1. ASSUME AttachSources(w)
      PROVE  \E s : /\ task'[w] = [t EXCEPT !.pc = "embed", !.skipped = s]
                   /\ \/ s = t.skipped /\ sourced' = sourced \cup {t.cur}
                      \/ /\ s = t.skipped \cup {Note("attach", t.cur)}
                         /\ sourced' = sourced
  <2>1. CASE /\ task' = [task EXCEPT ![w].pc = "embed"]
             /\ sourced' = sourced \cup {t.cur}
    <3>1. task'[w] = [t EXCEPT !.pc = "embed", !.skipped = t.skipped]
      BY <1>0, <2>1 DEF Tasks
    <3> QED
      BY <2>1, <3>1
  <2>2. CASE /\ task' = [task EXCEPT ![w] =
                           [@ EXCEPT !.pc = "embed",
                                     !.skipped = t.skipped \cup
                                                 {Note("attach", t.cur)}]]
             /\ sourced' = sourced
    BY <1>0, <2>2
  <2> QED
    BY <1>1, <2>1, <2>2 DEF AttachSources
<1>2. ASSUME EmbedEntity(w)
      PROVE  \E s : /\ task'[w] = [t EXCEPT !.pc = "ents", !.skipped = s]
                   /\ \/ s = t.skipped /\ embedded' = embedded \cup {t.cur}
                      \/ /\ s = t.skipped \cup {Note("embed", t.cur)}
                         /\ embedded' = embedded
  <2>1. CASE /\ task' = [task EXCEPT ![w].pc = "ents"]
             /\ embedded' = embedded \cup {t.cur}
    <3>1. task'[w] = [t EXCEPT !.pc = "ents", !.skipped = t.skipped]
      BY <1>0, <2>1 DEF Tasks
    <3> QED
      BY <2>1, <3>1
  <2>2. CASE /\ task' = [task EXCEPT ![w] =
                           [@ EXCEPT !.pc = "ents",
                                     !.skipped = t.skipped \cup
                                                 {Note("embed", t.cur)}]]
             /\ embedded' = embedded
    BY <1>0, <2>2
  <2> QED
    BY <1>2, <2>1, <2>2 DEF EmbedEntity
<1> QED
  BY <1>1, <1>2

\* No step of a task leads away from the draft it works on.
LEMMA WorkKeepsDraft ==
  ASSUME RunInv, OwnersOK, NEW w \in Slots, WorkStep(w), DraftOK(task[w])
  PROVE  DraftOK(task[w])'
<1> PICK t : t = task[w]
  OBVIOUS
<1>0. /\ task \in [Slots -> Tasks] /\ t \in Tasks /\ TaskOK(t) /\ DraftOK(t)
      /\ UNCHANGED approved /\ t.pc # "idle"
  <2>1. Moves(w)
    BY WorkSteps
  <2> QED
    BY <2>1 DEF RunInv, TasksGood, TaskGood, DraftOK, Moves, Stays
\* A step within a loop of commit_node, or within enrich_node.
<1> DEFINE Loop == {EntityPc, RelationshipPc, LinkPc}
<1>a. ASSUME NEW L \in Loop, t.pc \in L, task'[w].pc \in L,
             task'[w].structured = t.structured, task'[w].job = t.job,
             task'[w].run = t.run, task'[w].todo \subseteq t.todo
      PROVE  DraftOK(task[w])'
  BY <1>0, <1>a DEF DraftOK, Early, EntityPc, RelationshipPc, LinkPc
<1> HIDE DEF Loop
<1>b. EntityPc \in Loop /\ RelationshipPc \in Loop /\ LinkPc \in Loop
  BY DEF Loop
<1> USE DEF DraftOK, Early, EntityPc, RelationshipPc
<1>1. CASE RecordNode(w)
  BY <1>0, <1>1 DEF RecordNode
<1>2. CASE ResearchDone(w)
  <2>1. t.job = "run" /\ t.pc = "research"
    BY <1>2 DEF ResearchDone, OwnersOK, ResearchIsRun
  <2>2. PICK d \in Drafts, pc \in AfterResearch :
          /\ task'[w].pc = pc /\ task'[w].structured = d
          /\ task'[w].todo = d.entities /\ task'[w].job = t.job
    BY <1>0, <1>2 DEF ResearchDone, Tasks
  <2>3. pc \in {"park", "ents"} /\ (ReviewSettings = {TRUE} => pc = "park")
    BY <2>2 DEF AfterResearch
  <2> QED
    BY <2>1, <2>2, <2>3
<1>3. CASE LoadParked(w)
  <2> PICK d : d = IF row[t.run].pending = NULL THEN NoDraft
                                                ELSE row[t.run].pending
    OBVIOUS
  <2>1. t.job = "commit" /\ t.run \in Runs
    BY <1>0, <1>3 DEF LoadParked, TaskOK
  <2>2. d \in approved[t.run] \cup {NoDraft}
    BY <2>1, CommitApproved
  <2>3. /\ task'[w].structured = d /\ task'[w].todo = d.entities
        /\ task'[w].pc = "ents" /\ task'[w].job = "commit"
        /\ task'[w].run = t.run
    BY <1>0, <1>3 DEF LoadParked, Tasks
  <2> QED
    BY <1>0, <2>2, <2>3
<1>4. CASE UseExisting(w)
  <2> HIDE DEF DraftOK, Early, EntityPc, RelationshipPc
  <2>1. /\ t.pc \in EntityPc /\ task'[w].pc \in EntityPc
        /\ task'[w].structured = t.structured /\ task'[w].job = t.job
        /\ task'[w].run = t.run /\ task'[w].todo \subseteq t.todo
    BY <1>0, <1>4 DEF UseExisting, Tasks, EntityPc
  <2> QED
    BY <1>a, <1>b, <2>1
<1>5. CASE CreateEntity(w)
  <2> HIDE DEF DraftOK, Early, EntityPc, RelationshipPc
  <2>1. /\ t.pc \in EntityPc /\ task'[w].pc \in EntityPc
        /\ task'[w].structured = t.structured /\ task'[w].job = t.job
        /\ task'[w].run = t.run /\ task'[w].todo \subseteq t.todo
    BY <1>0, <1>5 DEF CreateEntity, Tasks, EntityPc
  <2> QED
    BY <1>a, <1>b, <2>1
<1>6. CASE AppendCommittedEntity(w)
  BY <1>0, <1>6 DEF AppendCommittedEntity, Tasks
<1>7. CASE AttachSources(w)
  <2> HIDE DEF DraftOK, Early, EntityPc, RelationshipPc
  <2>1. /\ t.pc \in EntityPc /\ task'[w].pc \in EntityPc
        /\ task'[w].structured = t.structured /\ task'[w].job = t.job
        /\ task'[w].run = t.run /\ task'[w].todo \subseteq t.todo
    <3>1. t.pc = "attach"
      BY <1>7 DEF AttachSources
    <3>2. PICK s : task'[w] = [t EXCEPT !.pc = "embed", !.skipped = s]
      BY <1>7, BestEffort
    <3> QED
      BY <1>0, <3>1, <3>2 DEF Tasks, EntityPc
  <2> QED
    BY <1>a, <1>b, <2>1
<1>8. CASE EmbedEntity(w)
  <2> HIDE DEF DraftOK, Early, EntityPc, RelationshipPc
  <2>1. /\ t.pc \in EntityPc /\ task'[w].pc \in EntityPc
        /\ task'[w].structured = t.structured /\ task'[w].job = t.job
        /\ task'[w].run = t.run /\ task'[w].todo \subseteq t.todo
    <3>1. t.pc = "embed"
      BY <1>8 DEF EmbedEntity
    <3>2. PICK s : task'[w] = [t EXCEPT !.pc = "ents", !.skipped = s]
      BY <1>8, BestEffort
    <3> QED
      BY <1>0, <3>1, <3>2 DEF Tasks, EntityPc
  <2> QED
    BY <1>a, <1>b, <2>1
<1>9. CASE EntitiesDone(w)
  BY <1>0, <1>9 DEF EntitiesDone, Tasks
<1>10. CASE SkipRelationship(w)
  <2> HIDE DEF DraftOK, Early, EntityPc, RelationshipPc
  <2>1. /\ t.pc \in RelationshipPc /\ task'[w].pc \in RelationshipPc
        /\ task'[w].structured = t.structured /\ task'[w].job = t.job
        /\ task'[w].run = t.run /\ task'[w].todo \subseteq t.todo
    BY <1>0, <1>10 DEF SkipRelationship, Tasks, RelationshipPc
  <2> QED
    BY <1>a, <1>b, <2>1
<1>11. CASE CreateRelationship(w)
  <2> HIDE DEF DraftOK, Early, EntityPc, RelationshipPc
  <2>1. /\ t.pc \in RelationshipPc /\ task'[w].pc \in RelationshipPc
        /\ task'[w].structured = t.structured /\ task'[w].job = t.job
        /\ task'[w].run = t.run /\ task'[w].todo \subseteq t.todo
    BY <1>0, <1>11 DEF CreateRelationship, Tasks, RelationshipPc
  <2> QED
    BY <1>a, <1>b, <2>1
<1>12. CASE AppendCommittedRelationship(w)
  BY <1>0, <1>12 DEF AppendCommittedRelationship, Tasks
<1>13. CASE CommitNodeReturns(w)
  BY <1>0, <1>13 DEF CommitNodeReturns, Tasks
<1>14. CASE RecordWritingNode(w)
  BY <1>0, <1>14 DEF RecordWritingNode, Tasks
<1>15. CASE LinksFor(w)
  <2> HIDE DEF DraftOK, Early, EntityPc, RelationshipPc
  <2>1. /\ t.pc \in LinkPc /\ task'[w].pc \in LinkPc
        /\ task'[w].structured = t.structured /\ task'[w].job = t.job
        /\ task'[w].run = t.run /\ task'[w].todo \subseteq t.todo
    BY <1>0, <1>15 DEF LinksFor, Tasks, LinkPc
  <2> QED
    BY <1>a, <1>b, <2>1
<1>16. CASE SkipLink(w)
  BY <1>0, <1>16 DEF SkipLink, Tasks
<1>17. CASE CreateLink(w)
  BY <1>0, <1>17 DEF CreateLink, Tasks
<1>18. CASE AppendLink(w)
  BY <1>0, <1>18 DEF AppendLink, Tasks
<1>19. CASE EnrichNodeReturns(w)
  BY <1>0, <1>19 DEF EnrichNodeReturns, Tasks
<1>20. CASE DeadlinePasses(w)
  BY <1>0, <1>20 DEF DeadlinePasses, GuardedPc, LinkPc, Tasks
<1>21. CASE NodeRaises(w)
  BY <1>0, <1>21 DEF NodeRaises, CanRaise, Tasks
<1> QED
  BY <1>1, <1>2, <1>3, <1>4, <1>5, <1>6, <1>7, <1>8, <1>9, <1>10, <1>11,
     <1>12, <1>13, <1>14, <1>15, <1>16, <1>17, <1>18, <1>19, <1>20, <1>21
     DEF WorkStep, CommitStep, EnrichStep

\* An approval on record is never taken back.
LEMMA ApprovedGrows ==
  ASSUME RunInv, [Next]_vars
  PROVE  \A r \in Runs : approved[r] \subseteq approved'[r]
<1>1. ASSUME NEW q \in Requests, ReviewStep(q), NEW r \in Runs
      PROVE  approved[r] \subseteq approved'[r]
  BY <1>1, RequestSet, ZenonT(60) DEF ApproveReview, RunInv, GatewayOK
<1>2. ASSUME NEW r \in Runs, GatewayStep(r) PROVE UNCHANGED approved
  BY <1>2 DEF GatewayStep, CreateRun, EnqueueRun, EnqueueRunFails, rowVars
<1>3. ASSUME NEW w \in Slots, WorkerStep(w) PROVE UNCHANGED approved
  BY <1>3, OtherSteps, WorkSteps, Taken DEF Moves, Leaves, Stays
<1> QED
  BY <1>1, <1>2, <1>3 DEF Next, vars

\* Nor do the other steps.
LEMMA DraftsKept ==
  ASSUME RunInv, OwnersOK, AllDraftsOK, [Next]_vars
  PROVE  AllDraftsOK'
<1>0. \A r \in Runs : approved[r] \subseteq approved'[r]
  BY ApprovedGrows
<1>1. ASSUME NEW w \in Slots, task'[w] = task[w] PROVE DraftOK(task[w])'
  <2>1. task[w].job = "commit" => task[w].run \in Runs
    BY JobOfRun DEF OwnersOK
  <2> QED
    BY <1>0, <1>1, <2>1 DEF AllDraftsOK, DraftOK
<1>2. CASE UNCHANGED task
  BY <1>1, <1>2 DEF AllDraftsOK
<1>3. ASSUME NEW w \in Slots, Leaves(w) PROVE AllDraftsOK'
  <2>1. DraftOK(task[w])'
    BY <1>3 DEF Leaves, IdleTask, DraftOK, EntityPc, RelationshipPc
  <2> QED
    BY <1>1, <1>3, <2>1 DEF AllDraftsOK, Leaves
<1>4. ASSUME NEW w \in Slots, Receive(w) PROVE AllDraftsOK'
  <2>1. DraftOK(task[w])'
    BY <1>4, Taken DEF DraftOK, Early, EntityPc, RelationshipPc
  <2> QED
    BY <1>1, <1>4, <2>1, Taken DEF AllDraftsOK
<1>5. ASSUME NEW w \in Slots, MarkRunning(w) PROVE AllDraftsOK'
  <2>1. /\ task'[w].pc = "research" /\ task'[w].job = "run"
    BY <1>5 DEF MarkRunning, RunInv, TasksGood, Tasks
  <2>2. DraftOK(task[w])'
    BY <2>1 DEF DraftOK, Early, EntityPc, RelationshipPc
  <2> QED
    BY <1>1, <1>5, <2>2, OtherSteps DEF AllDraftsOK, Moves
<1>6. ASSUME NEW w \in Slots, WorkStep(w) PROVE AllDraftsOK'
  <2>1. DraftOK(task[w])'
    BY <1>6, WorkKeepsDraft DEF AllDraftsOK
  <2> QED
    BY <1>1, <1>6, <2>1, WorkSteps DEF AllDraftsOK, Moves
<1>7. ASSUME NEW r \in Runs, GatewayStep(r) PROVE UNCHANGED task
  BY <1>7 DEF GatewayStep, CreateRun, EnqueueRun, EnqueueRunFails
<1>8. ASSUME NEW q \in Requests, ReviewStep(q) PROVE UNCHANGED task
  BY <1>8, RequestSet
<1>9. ASSUME NEW w \in Slots, WorkerStep(w) PROVE AllDraftsOK'
  BY <1>3, <1>4, <1>5, <1>6, <1>9, OtherSteps
<1> QED
  BY <1>2, <1>7, <1>8, <1>9 DEF Next, vars

\* What CreateEntity, CreateRelationship and CreateLink add to the graph.
LEMMA GraphStep ==
  ASSUME RunInv, [Next]_vars
  PROVE  \/ UNCHANGED <<entities, edges, nextId>>
         \/ \E w \in Slots : CreateEntity(w) \/ CreateRelationship(w)
                               \/ CreateLink(w)
<1>1. ASSUME NEW r \in Runs, GatewayStep(r)
      PROVE  UNCHANGED <<entities, edges, nextId>>
  BY <1>1 DEF GatewayStep, CreateRun, EnqueueRun, EnqueueRunFails, graphVars
<1>2. ASSUME NEW q \in Requests, ReviewStep(q)
      PROVE  UNCHANGED <<entities, edges, nextId>>
  BY <1>2 DEF ReviewStep, ReadForReview, MarkCancelled, ApproveReview,
     EnqueueCommit, ReviewFails, graphVars
<1>3. ASSUME NEW w \in Slots, ResearchStep(w) \/ EndStep(w)
      PROVE  UNCHANGED <<entities, edges, nextId>>
  BY <1>3 DEF ResearchStep, EndStep, Receive, MarkRunning, RecordNode,
     ResearchDone, MarkAwaitingReview, MarkSucceeded, DeadlinePasses,
     NodeRaises, MarkFailed, TaskDies, Crash, graphVars
<1>4. ASSUME NEW w \in Slots, CommitStep(w)
      PROVE  UNCHANGED <<entities, edges, nextId>> \/ CreateEntity(w)
               \/ CreateRelationship(w)
  BY <1>4 DEF CommitStep, LoadParked, UseExisting, AppendCommittedEntity,
     AttachSources, EmbedEntity, EntitiesDone, SkipRelationship,
     AppendCommittedRelationship, CommitNodeReturns, RecordWritingNode,
     graphVars
<1>5. ASSUME NEW w \in Slots, EnrichStep(w)
      PROVE  UNCHANGED <<entities, edges, nextId>> \/ CreateLink(w)
  BY <1>5 DEF EnrichStep, LinksFor, SkipLink, AppendLink, EnrichNodeReturns,
     graphVars
<1> QED
  BY <1>1, <1>2, <1>3, <1>4, <1>5 DEF Next, WorkerStep, vars

\* Under review, a task that writes is a commit job, and the item it writes
\* is in the draft it loaded, which an approval stored.
LEMMA WriterIsApproved ==
  ASSUME RunInv, OwnersOK, AllDraftsOK, ReviewSettings = {TRUE},
         NEW w \in Slots, task[w].pc \in {"ents", "rels", "enrich"}
  PROVE  /\ task[w].run \in Runs /\ approved[task[w].run] # {}
         /\ task[w].structured \in approved[task[w].run] \cup {NoDraft}
<1>1. task[w].run \in Runs /\ task[w].job = "commit"
  BY DEF RunInv, TasksGood, TaskGood, TaskOK, Tasks, AllDraftsOK, DraftOK,
     Early
<1> QED
  BY <1>1, CommitApproved DEF AllDraftsOK, DraftOK

\* Every task works on a draft it was given.
LEMMA DraftsInvariant == Spec => []AllDraftsOK
<1>1. Init => AllDraftsOK
  <2>1. IdleTask.pc = "idle" /\ IdleTask.job = "none"
    BY DEF IdleTask
  <2>2. DraftOK(IdleTask)
    BY <2>1 DEF DraftOK, EntityPc, RelationshipPc
  <2> QED
    BY <2>2 DEF Init, AllDraftsOK
<1>2. RunInv /\ OwnersOK /\ AllDraftsOK /\ [Next]_vars => AllDraftsOK'
  BY DraftsKept
<1> QED
  BY <1>1, <1>2, RunInvariant, OwnersInvariant, PTL DEF Spec

(* agent_review_required: with review on, every node and every drafted     *)
(* edge in the graph is in a draft an approval of its run stored, and even *)
(* the links of enrich_node belong to runs that were approved: no crash or *)
(* race of reviews gets an unseen draft written.                           *)
THEOREM WritesWereApproved == Spec => []WrittenWasApproved
<1>1. Init => WrittenWasApproved
  BY DEF Init, WrittenWasApproved
<1>2. RunInv /\ OwnersOK /\ AllDraftsOK /\ WrittenWasApproved /\ [Next]_vars
        => WrittenWasApproved'
  <2> SUFFICES ASSUME RunInv, OwnersOK, AllDraftsOK, WrittenWasApproved,
                      [Next]_vars, ReviewSettings = {TRUE}
               PROVE  WrittenWasApproved'
    BY DEF WrittenWasApproved
  <2>1. \A r \in Runs : approved[r] \subseteq approved'[r]
    BY ApprovedGrows
  <2>2. /\ \A e \in entities : e.run \in Runs
        /\ \A x \in edges : x.run \in Runs
    BY DEF RunInv, GraphOK
  <2>3. /\ \A e \in entities : \E d \in approved[e.run] :
                                  e.item \in d.entities \ Existing
        /\ \A x \in edges : /\ approved[x.run] # {}
                            /\ x.item # NULL => \E d \in approved[x.run] :
                                                  x.item \in d.relationships
    BY DEF WrittenWasApproved
  <2>4. /\ \A e \in entities : \E d \in approved'[e.run] :
                                  e.item \in d.entities \ Existing
        /\ \A x \in edges : /\ approved'[x.run] # {}
                            /\ x.item # NULL => \E d \in approved'[x.run] :
                                                  x.item \in d.relationships
    BY <2>1, <2>2, <2>3
  <2>5. CASE UNCHANGED <<entities, edges>>
    BY <2>4, <2>5 DEF WrittenWasApproved
  <2>6. ASSUME NEW w \in Slots, CreateEntity(w) PROVE WrittenWasApproved'
    <3>1. PICK e \in task[w].todo \ Existing :
            entities' = entities \cup
                          {[id |-> nextId, run |-> task[w].run, item |-> e]}
      BY <2>6 DEF CreateEntity
    <3>2. /\ task[w].run \in Runs
          /\ task[w].structured \in approved[task[w].run] \cup {NoDraft}
          /\ UNCHANGED edges
      BY <2>6, WriterIsApproved DEF CreateEntity
    <3>3. e \in task[w].structured.entities
      BY <2>6, <3>1 DEF CreateEntity, AllDraftsOK, DraftOK, EntityPc
    <3>4. task[w].structured \in approved'[task[w].run]
      BY <2>1, <3>2, <3>3 DEF NoDraft
    <3> QED
      BY <2>4, <3>1, <3>2, <3>3, <3>4 DEF WrittenWasApproved
  <2>7. ASSUME NEW w \in Slots, CreateRelationship(w)
        PROVE  WrittenWasApproved'
    <3>1. PICK x \in task[w].todo :
            edges' = edges \cup
                       {[id |-> nextId, run |-> task[w].run, item |-> x]}
      BY <2>7 DEF CreateRelationship
    <3>2. /\ task[w].run \in Runs
          /\ task[w].structured \in approved[task[w].run] \cup {NoDraft}
          /\ UNCHANGED entities
      BY <2>7, WriterIsApproved DEF CreateRelationship
    <3>3. x \in task[w].structured.relationships
      BY <2>7, <3>1 DEF CreateRelationship, AllDraftsOK, DraftOK,
         RelationshipPc
    <3>4. task[w].structured \in approved'[task[w].run]
      BY <2>1, <3>2, <3>3 DEF NoDraft
    <3> QED
      BY <2>4, <3>1, <3>2, <3>3, <3>4 DEF WrittenWasApproved
  <2>8. ASSUME NEW w \in Slots, CreateLink(w) PROVE WrittenWasApproved'
    <3>1. /\ edges' = edges \cup {[id |-> nextId, run |-> task[w].run,
                                   item |-> NULL]}
          /\ UNCHANGED entities
      BY <2>8 DEF CreateLink
    <3>2. task[w].run \in Runs /\ approved[task[w].run] # {}
      BY <2>8, WriterIsApproved DEF CreateLink
    <3> QED
      BY <2>1, <2>4, <3>1, <3>2 DEF WrittenWasApproved
  <2> QED
    BY <2>5, <2>6, <2>7, <2>8, GraphStep
<1> QED
  BY <1>1, <1>2, RunInvariant, OwnersInvariant, DraftsInvariant, PTL DEF Spec
=============================================================================
