------------------------- MODULE AgentRunSerial_proofs -------------------------
(***************************************************************************)
(* What the runs of AgentRun keep as long as the owner of a run sends one  *)
(* review of it at a time: one owner per run, the contract RunLifecycle,   *)
(* a run that has succeeded is complete, and a page that shows a run whose *)
(* stream has ended shows its row.                                         *)
(***************************************************************************)
EXTENDS RunPage, AgentRun_proofs

IsCommitJob(i, r)  == queue[i].run = r /\ queue[i].job = "commit"
IsCommitTask(w, r) == task[w].run = r /\ task[w].job = "commit"
Approving(q, r)    == req[q].run = r /\ req[q].pc = "approved"
Reviewing(q, r)    == req[q].run = r /\ Active(q)

OneCommitOwner(r) ==
  /\ \A i, j \in DOMAIN queue : IsCommitJob(i, r) /\ IsCommitJob(j, r) => i = j
  /\ \A v, w \in Slots : IsCommitTask(v, r) /\ IsCommitTask(w, r) => v = w
  /\ \A i \in DOMAIN queue : \A w \in Slots :
       ~(IsCommitJob(i, r) /\ IsCommitTask(w, r))
  /\ \A q \in Requests : Approving(q, r) =>
       /\ \A i \in DOMAIN queue : ~IsCommitJob(i, r)
       /\ \A w \in Slots : ~IsCommitTask(w, r)

\* One review at a time, of a run that waits for it; then one commit job.
OneReview(r) ==
  /\ \A p, q \in Requests : Reviewing(p, r) /\ Reviewing(q, r) => p = q
  /\ \A q \in Requests : Reviewing(q, r) /\ req[q].pc = "checked" =>
       row[r].status = "awaiting_review"
  /\ CommitOwned(r) => row[r].status = "running"

SerialOK == \A r \in Runs : OneCommitOwner(r) /\ OneReview(r)

-----------------------------------------------------------------------------
(* The commit owner of a run, step by step.                                *)
LEMMA CommitMoves ==
  ASSUME NEW w \in Slots, Moves(w), NEW r \in Runs
  PROVE  OneCommitOwner(r) => OneCommitOwner(r)'
<1>1. \A v \in Slots : task'[v].run = task[v].run /\ task'[v].job = task[v].job
  BY DEF Moves
<1>2. UNCHANGED <<queue, req>>
  BY DEF Moves, Stays
<1> QED
  BY <1>1, <1>2 DEF OneCommitOwner, IsCommitJob, IsCommitTask, Approving

LEMMA CommitLeaves ==
  ASSUME NEW w \in Slots, Leaves(w), NEW r \in Runs, OneCommitOwner(r)
  PROVE  /\ OneCommitOwner(r)'
         /\ IsCommitTask(w, r) => ~CommitOwned(r)'
<1>1. /\ \A v \in Slots : v # w => task'[v] = task[v]
      /\ task'[w].run # r
      /\ UNCHANGED <<queue, req>>
  BY NullAssumption DEF Leaves, Stays, IdleTask
<1>2. OneCommitOwner(r)'
  BY <1>1 DEF OneCommitOwner, IsCommitJob, IsCommitTask, Approving
<1>3. IsCommitTask(w, r) => ~CommitOwned(r)'
  BY <1>1 DEF OneCommitOwner, IsCommitJob, IsCommitTask, Approving,
     CommitOwned
<1> QED
  BY <1>2, <1>3

LEMMA CommitReceives ==
  ASSUME RunInv, IdleSlots, NEW w \in Slots, Receive(w), NEW r \in Runs,
         OneCommitOwner(r)
  PROVE  OneCommitOwner(r)'
<1>0. queue \in Seq(Jobs) /\ queue # <<>> /\ queue' = Tail(queue)
  BY Taken DEF RunInv, GatewayOK, Jobs
<1>1. /\ 1 \in DOMAIN queue
      /\ task'[w].run = queue[1].run /\ task'[w].job = queue[1].job
      /\ \A v \in Slots : v # w => task'[v] = task[v]
      /\ UNCHANGED <<creating, req>>
  BY Taken
<1>2. /\ \A i \in DOMAIN queue' : /\ i + 1 \in DOMAIN queue /\ i + 1 # 1
                                  /\ queue'[i] = queue[i + 1]
      /\ \A i \in DOMAIN queue' : \A j \in DOMAIN queue' :
           i + 1 = j + 1 => i = j
  BY <1>0, Popped
<1>3. \A i \in DOMAIN queue' : IsCommitJob(i, r)' =>
        /\ i + 1 \in DOMAIN queue /\ IsCommitJob(i + 1, r) /\ i + 1 # 1
  BY <1>2 DEF IsCommitJob
<1>4. \A v \in Slots : IsCommitTask(v, r)' =>
        IF v = w THEN IsCommitJob(1, r) ELSE IsCommitTask(v, r)
  BY <1>1 DEF IsCommitJob, IsCommitTask
<1>5. \A i, j \in DOMAIN queue' :
        IsCommitJob(i, r)' /\ IsCommitJob(j, r)' => i = j
  BY <1>2, <1>3 DEF OneCommitOwner
<1>6. \A u, v \in Slots : IsCommitTask(u, r)' /\ IsCommitTask(v, r)' => u = v
  BY <1>1, <1>4 DEF OneCommitOwner
<1>7. \A i \in DOMAIN queue' : \A v \in Slots :
        ~(IsCommitJob(i, r)' /\ IsCommitTask(v, r)')
  BY <1>1, <1>3, <1>4 DEF OneCommitOwner
<1>8. \A q \in Requests : Approving(q, r)' =>
        /\ \A i \in DOMAIN queue' : ~IsCommitJob(i, r)'
        /\ \A v \in Slots : ~IsCommitTask(v, r)'
  BY <1>1, <1>3, <1>4 DEF OneCommitOwner, Approving
<1> QED
  BY <1>5, <1>6, <1>7, <1>8 DEF OneCommitOwner

\* A pushed commit job is its run's only claim if there was none.
LEMMA CommitPushed ==
  ASSUME queue \in Seq(Jobs), NEW j \in Jobs, queue' = Append(queue, j),
         UNCHANGED task, NEW r \in Runs, OneCommitOwner(r),
         \A q \in Requests : Approving(q, r)' => Approving(q, r),
         j.run = r /\ j.job = "commit" =>
           /\ \A i \in DOMAIN queue : ~IsCommitJob(i, r)
           /\ \A w \in Slots : ~IsCommitTask(w, r)
           /\ \A q \in Requests : ~Approving(q, r)'
  PROVE  OneCommitOwner(r)'
<1>1. /\ \A i \in DOMAIN queue : i \in DOMAIN queue' /\ queue'[i] = queue[i]
      /\ \E n \in DOMAIN queue' :
           /\ queue'[n] = j
           /\ \A i \in DOMAIN queue' : i # n => i \in DOMAIN queue
  BY Pushed
<1>2. PICK n \in DOMAIN queue' :
           /\ queue'[n] = j
           /\ \A i \in DOMAIN queue' : i # n => i \in DOMAIN queue
  BY <1>1
<1>3. \A i \in DOMAIN queue' : IsCommitJob(i, r)' =>
        \/ i \in DOMAIN queue /\ IsCommitJob(i, r)
        \/ i = n /\ j.run = r /\ j.job = "commit"
  BY <1>1, <1>2 DEF IsCommitJob
<1>4. \A w \in Slots : IsCommitTask(w, r)' <=> IsCommitTask(w, r)
  BY DEF IsCommitTask
<1>5. CASE j.run = r /\ j.job = "commit"
  BY <1>3, <1>4, <1>5 DEF OneCommitOwner
<1>6. CASE ~(j.run = r /\ j.job = "commit")
  BY <1>3, <1>4, <1>6 DEF OneCommitOwner
<1> QED
  BY <1>5, <1>6

LEMMA ReviewStays ==
  ASSUME NEW r \in Runs, OneReview(r), UNCHANGED req,
         row'[r].status = row[r].status, CommitOwned(r)' => CommitOwned(r)
  PROVE  OneReview(r)'
BY DEF OneReview, Reviewing, Active

\* The run a task works on is queued or running.
LEMMA WorkedIsActive ==
  ASSUME RunInv, OwnersOK, SerialOK, NEW w \in Slots, task[w].pc # "idle"
  PROVE  /\ task[w].run \in Runs /\ task[w].job \in {"run", "commit"}
         /\ row[task[w].run].status \in {"queued", "running"}
         /\ RunOwned(task[w].run) \/ CommitOwned(task[w].run)
<1> PICK r : r = task[w].run
  OBVIOUS
<1>1. r \in Runs /\ task[w].job \in {"run", "commit"}
  BY DEF RunInv, TasksGood, TaskGood, TaskOK, Tasks
<1>2. PhaseOK(r) /\ OneReview(r)
  BY <1>1 DEF OwnersOK, SerialOK
<1>3. CASE task[w].job = "run"
  BY <1>1, <1>2, <1>3 DEF RunOwned, IsRunTask, PhaseOK
<1>4. CASE task[w].job = "commit"
  BY <1>1, <1>2, <1>4 DEF CommitOwned, OneReview
<1> QED
  BY <1>1, <1>3, <1>4

LEMMA WorkerSerial ==
  ASSUME RunInv, OwnersOK, SerialOK, NEW w \in Slots, WorkerStep(w),
         NEW r \in Runs
  PROVE  OneCommitOwner(r)' /\ OneReview(r)'
<1>0. OneCommitOwner(r) /\ OneReview(r) /\ PhaseOK(r) /\ IdleSlots
      /\ ResearchIsRun
  BY DEF SerialOK, OwnersOK
<1>1. CASE Receive(w)
  <2>1. UNCHANGED <<req, row>>
    BY <1>1, Taken
  <2> QED
    BY <1>0, <1>1, <2>1, CommitReceives, OwnersReceive, ReviewStays
       DEF SameOwners
<1>2. CASE Moves(w) /\ row'[r].status = row[r].status
  BY <1>0, <1>2, CommitMoves, OwnersMove, ReviewStays
     DEF SameOwners, Moves, Stays
<1>3. CASE Leaves(w) /\ row'[r].status = row[r].status
  BY <1>0, <1>3, CommitLeaves, OwnersLeave, ReviewStays DEF Leaves, Stays
<1>4. ASSUME task[w].pc # "idle", task[w].run = r
      PROVE  \A q \in Requests : ~(Reviewing(q, r) /\ req[q].pc = "checked")
  BY <1>0, <1>4, WorkedIsActive DEF OneReview
<1>5. CASE MarkRunning(w) /\ task[w].run = r
  <2>1. Moves(w) /\ row'[r].status = "running"
    BY <1>5, OtherSteps, RowOfTask
  <2>2. OneCommitOwner(r)'
    BY <1>0, <2>1, CommitMoves
  <2>3. \A q \in Requests : ~(Reviewing(q, r) /\ req[q].pc = "checked")
    BY <1>4, <1>5, <2>1 DEF Moves
  <2>4. UNCHANGED req
    BY <2>1 DEF Moves, Stays
  <2> QED
    BY <1>0, <2>1, <2>2, <2>3, <2>4 DEF OneReview, Reviewing, Active
<1>6. CASE /\ MarkAwaitingReview(w) \/ MarkSucceeded(w) \/ MarkFailed(w)
           /\ task[w].run = r
  <2>1. Leaves(w) /\ task[w].pc # "idle"
    BY <1>6, OtherSteps DEF Leaves
  <2>2. OneCommitOwner(r)'
    BY <1>0, <2>1, CommitLeaves
  <2>3. \A q \in Requests : ~(Reviewing(q, r) /\ req[q].pc = "checked")
    BY <1>4, <1>6, <2>1
  <2>4. ~CommitOwned(r)'
    <3>1. CASE IsCommitTask(w, r)
      BY <1>0, <2>1, <3>1, CommitLeaves
    <3>2. CASE ~IsCommitTask(w, r)
      <4>1. RunOwned(r)
        BY <1>6, <2>1, <3>2, WorkedIsActive
           DEF RunOwned, IsRunTask, IsCommitTask
      <4>2. ~CommitOwned(r)
        BY <1>0, <4>1 DEF PhaseOK, Undecided
      <4> QED
        BY <1>0, <2>1, <4>2, OwnersLeave
    <3> QED
      BY <3>1, <3>2
  <2>5. UNCHANGED req
    BY <2>1 DEF Leaves, Stays
  <2> QED
    BY <1>0, <2>2, <2>3, <2>4, <2>5 DEF OneReview, Reviewing, Active
<1>7. CASE TaskDies(w) \/ Crash(w)
  BY <1>3, <1>7, OtherSteps DEF TaskDies, Crash, rowVars
<1>8. CASE WorkStep(w)
  BY <1>2, <1>8, WorkSteps DEF SameDecision
<1>9. ASSUME MarkRunning(w) \/ MarkAwaitingReview(w) \/ MarkSucceeded(w)
               \/ MarkFailed(w), task[w].run # r
      PROVE  row'[r] = row[r] /\ (Moves(w) \/ Leaves(w))
  BY <1>9, RowOfTask, OtherSteps
<1> QED
  BY <1>1, <1>2, <1>3, <1>5, <1>6, <1>7, <1>8, <1>9, OtherSteps

LEMMA GatewaySerial ==
  ASSUME RunInv, OwnersOK, SerialOK, NEW s \in Runs, GatewayStep(s),
         NEW r \in Runs
  PROVE  OneCommitOwner(r)' /\ OneReview(r)'
<1>0. /\ OneCommitOwner(r) /\ OneReview(r) /\ PhaseOK(r)
      /\ row \in [Runs -> Rows] /\ queue \in Seq(Jobs)
  BY DEF SerialOK, OwnersOK, RunInv, RowsGood, GatewayOK, Jobs
<1>1. UNCHANGED <<task, req>>
  BY DEF GatewayStep, CreateRun, EnqueueRun, EnqueueRunFails
<1>2. CASE UNCHANGED queue
  <2>1. OneCommitOwner(r)' /\ (CommitOwned(r)' <=> CommitOwned(r))
    BY <1>0, <1>1, <1>2
       DEF OneCommitOwner, IsCommitJob, IsCommitTask, Approving, CommitOwned
  <2>2. CASE row'[r] = row[r]
    BY <1>0, <1>1, <2>1, <2>2, ReviewStays
  <2>3. CASE CreateRun(s) /\ r = s
    <3>1. row[r].status = "none"
      BY <2>3 DEF CreateRun
    <3>2. ~CommitOwned(r) /\ NotReviewed(r)
      BY <1>0, <3>1 DEF PhaseOK, Undecided
    <3> QED
      BY <1>0, <1>1, <2>1, <3>2
         DEF OneReview, Reviewing, Active, NotReviewed
  <2> QED
    BY <1>0, <2>2, <2>3
       DEF GatewayStep, CreateRun, EnqueueRun, EnqueueRunFails, rowVars
<1>3. CASE EnqueueRun(s)
  <2> PICK j : j = [job |-> "run", run |-> s]
    OBVIOUS
  <2>1. /\ UNCHANGED row /\ queue' = Append(queue, j)
        /\ j \in Jobs /\ j.run = s /\ j.job = "run"
    BY <1>3 DEF EnqueueRun, rowVars, Jobs
  <2>2. OneCommitOwner(r)'
    BY <1>0, <1>1, <2>1, CommitPushed DEF Approving
  <2>3. (\E i \in DOMAIN queue' : queue'[i].run = r
                                   /\ queue'[i].job = "commit")
            <=> \E i \in DOMAIN queue : queue[i].run = r
                                         /\ queue[i].job = "commit"
    BY <1>0, <1>1, <2>1, OwnersPush
  <2>4. CommitOwned(r)' => CommitOwned(r)
    BY <1>1, <2>3 DEF CommitOwned
  <2> QED
    BY <1>0, <1>1, <2>1, <2>2, <2>4, ReviewStays
<1> QED
  BY <1>2, <1>3 DEF GatewayStep, CreateRun, EnqueueRunFails

LEMMA ReviewSerial ==
  ASSUME SerialReviews, RunInv, OwnersOK, SerialOK, NEW q \in Requests,
         ReviewStep(q), NEW r \in Runs
  PROVE  OneCommitOwner(r)' /\ OneReview(r)'
<1>0. /\ OneCommitOwner(r) /\ OneReview(r) /\ PhaseOK(r)
      /\ row \in [Runs -> Rows] /\ queue \in Seq(Jobs)
      /\ req \in [Requests -> ReqRecords]
  BY DEF SerialOK, OwnersOK, RunInv, RowsGood, GatewayOK, Jobs
<1>1. /\ \A p \in Requests : p # q => req'[p] = req[p]
      /\ UNCHANGED task
  BY RequestSet
<1>2. CASE ReadForReview(q)
  <2>1. UNCHANGED <<queue, row>> /\ req[q].pc = "new"
    BY <1>2 DEF ReadForReview, rowVars
  <2>2. \/ req'[q].pc = "done"
        \/ /\ req'[q].pc = "checked"
           /\ row[req'[q].run].status = "awaiting_review"
           /\ \A p \in Requests : req[p].run = req'[q].run
                                    => req[p].pc \in {"new", "done"}
    BY <1>0, <1>2 DEF ReadForReview, ReqRecords
  <2>3. /\ OneCommitOwner(r)'
        /\ CommitOwned(r)' => CommitOwned(r)
    BY <1>0, <1>1, <2>1, <2>2
       DEF OneCommitOwner, IsCommitJob, IsCommitTask, Approving, CommitOwned
  <2>4. \A p \in Requests : \A s \in Requests :
          Reviewing(p, r)' /\ Reviewing(s, r)' => p = s
    BY <1>0, <1>1, <2>2 DEF OneReview, Reviewing, Active
  <2>5. \A p \in Requests : Reviewing(p, r)' /\ req'[p].pc = "checked" =>
                              row[r].status = "awaiting_review"
    BY <1>0, <1>1, <2>2 DEF OneReview, Reviewing, Active
  <2> QED
    BY <1>0, <2>1, <2>3, <2>4, <2>5 DEF OneReview
<1>3. CASE ~ReadForReview(q) /\ ~EnqueueCommit(q) /\ req[q].run # r
  <2>1. /\ UNCHANGED queue /\ row'[r] = row[r]
        /\ req'[q].run = req[q].run
    BY <1>0, <1>3, RequestSet DEF MarkCancelled, ApproveReview
  <2> QED
    BY <1>0, <1>1, <1>3, <2>1
       DEF OneCommitOwner, IsCommitJob, IsCommitTask, Approving, CommitOwned,
           OneReview, Reviewing, Active
<1>4. CASE ~ReadForReview(q) /\ ~EnqueueCommit(q) /\ req[q].run = r
  <2>1. /\ UNCHANGED queue /\ Reviewing(q, r) /\ req'[q].run = r
        /\ \A p \in Requests : p # q => ~Reviewing(p, r) /\ ~Reviewing(p, r)'
    BY <1>0, <1>1, <1>4, RequestSet DEF OneReview, Reviewing, Active
  <2>2. CASE ApproveReview(q)
    <3>1. /\ row'[r].status = "running" /\ req'[q].pc = "approved"
          /\ req[q].pc = "checked"
      BY <1>0, <1>4, <2>2 DEF ApproveReview, Rows, ReqRecords
    <3>2. row[r].status = "awaiting_review"
      BY <1>0, <2>1, <3>1 DEF OneReview
    <3>3. ~CommitOwned(r)
      BY <1>0, <3>2 DEF PhaseOK, Undecided
    <3>4. OneCommitOwner(r)'
      BY <1>1, <2>1, <3>3
         DEF OneCommitOwner, CommitOwned, IsCommitJob, IsCommitTask
    <3> QED
      BY <2>1, <3>1, <3>4 DEF OneReview
  <2>3. CASE ~ApproveReview(q)
    <3>1. req'[q].pc = "done"
      BY <1>0, <1>4, <2>3
         DEF ReviewStep, MarkCancelled, ReviewFails, ReqRecords
    <3>2. /\ OneCommitOwner(r)' /\ (CommitOwned(r)' => CommitOwned(r))
      BY <1>0, <1>1, <2>1, <3>1
         DEF OneCommitOwner, IsCommitJob, IsCommitTask, Approving, CommitOwned
    <3>3. \A p \in Requests : ~Reviewing(p, r)'
      BY <2>1, <3>1 DEF Reviewing, Active
    <3>4. CASE MarkCancelled(q)
      <4>1. row[r].status = "awaiting_review"
        BY <1>0, <2>1, <3>4 DEF OneReview, MarkCancelled
      <4>2. ~CommitOwned(r)
        BY <1>0, <4>1 DEF PhaseOK, Undecided
      <4> QED
        BY <3>2, <3>3, <4>2 DEF OneReview
    <3>5. CASE ~MarkCancelled(q)
      <4>1. UNCHANGED row
        BY <2>3, <3>5, RequestSet
      <4> QED
        BY <1>0, <3>2, <3>3, <4>1 DEF OneReview
    <3> QED
      BY <3>4, <3>5
  <2> QED
    BY <2>2, <2>3
<1>5. CASE EnqueueCommit(q)
  <2> PICK j : j = [job |-> "commit", run |-> req[q].run]
    OBVIOUS
  <2>1. /\ req[q].pc = "approved" /\ req'[q].pc = "done"
        /\ req'[q].run = req[q].run
        /\ queue' = Append(queue, j) /\ UNCHANGED row
    BY <1>0, <1>5 DEF EnqueueCommit, rowVars, ReqRecords
  <2>2. j \in Jobs /\ j.run = req[q].run /\ j.job = "commit"
    BY <1>0, <2>1 DEF RunInv, GatewayOK, Jobs
  <2>3. \A p \in Requests : Reviewing(p, r)' <=> Reviewing(p, r) /\ p # q
    BY <1>1, <2>1 DEF Reviewing, Active
  <2>4. \A p \in Requests : Approving(p, r)' <=> Approving(p, r) /\ p # q
    BY <1>1, <2>1 DEF Approving
  <2>5. req[q].run = r => /\ Approving(q, r) /\ Reviewing(q, r)
                          /\ \A p \in Requests : ~Approving(p, r)'
    BY <1>0, <2>1, <2>4 DEF Approving, Reviewing, Active, OneReview
  <2>6. OneCommitOwner(r)'
    BY <1>0, <1>1, <2>1, <2>2, <2>4, <2>5, CommitPushed DEF OneCommitOwner
  <2>7. (\E i \in DOMAIN queue' : queue'[i].run = r
                                   /\ queue'[i].job = "commit")
            <=> \/ \E i \in DOMAIN queue : queue[i].run = r
                                            /\ queue[i].job = "commit"
                \/ j.run = r
    BY <1>0, <1>1, <2>1, <2>2, OwnersPush
  <2>8. CommitOwned(r)' => CommitOwned(r)
    BY <1>1, <2>1, <2>2, <2>4, <2>7 DEF CommitOwned, Approving
  <2>9. \A p \in Requests : Reviewing(p, r)' => Reviewing(p, r)
                                                 /\ req'[p] = req[p]
    BY <1>1, <2>3
  <2> QED
    BY <1>0, <2>1, <2>6, <2>8, <2>9 DEF OneReview
<1> QED
  BY <1>2, <1>3, <1>4, <1>5

\* One review of a run at a time, one commit job, for any number of workers.
LEMMA SerialPreserved ==
  ASSUME SerialReviews, RunInv, OwnersOK, SerialOK, [Next]_vars
  PROVE  SerialOK'
<1>1. ASSUME NEW r \in Runs, UNCHANGED vars
      PROVE  OneCommitOwner(r)' /\ OneReview(r)'
  BY <1>1 DEF vars, SerialOK, OneCommitOwner, OneReview, IsCommitJob,
     IsCommitTask, Approving, Reviewing, Active, CommitOwned
<1> QED
  BY <1>1, GatewaySerial, ReviewSerial, WorkerSerial DEF Next, SerialOK

LEMMA SerialInit == Init => SerialOK
<1> SUFFICES ASSUME Init, NEW r \in Runs
             PROVE  OneCommitOwner(r) /\ OneReview(r)
  BY DEF SerialOK
<1>1. /\ DOMAIN queue = {}
      /\ \A w \in Slots : task[w].run # r
      /\ \A q \in Requests : req[q].run # r
  BY NullAssumption DEF Init, IdleTask, IdleReq
<1> QED
  BY <1>1 DEF OneCommitOwner, OneReview, IsCommitJob, IsCommitTask, Approving,
     Reviewing, CommitOwned

LEMMA SerialInvariant ==
  ASSUME SerialReviews
  PROVE  Spec => []SerialOK
<1>1. Init => SerialOK
  BY SerialInit
<1>2. RunInv /\ OwnersOK /\ SerialOK /\ [Next]_vars => SerialOK'
  BY SerialPreserved
<1> QED
  BY <1>1, <1>2, RunInvariant, OwnersInvariant, PTL DEF Spec

-----------------------------------------------------------------------------
\* A set of at most one element.
LEMMA AtMostOne ==
  ASSUME NEW S, \A x, y \in S : x = y
  PROVE  /\ Cardinality(S) \in {0, 1}
         /\ S = {} => Cardinality(S) = 0
<1>1. CASE S = {}
  BY <1>1, FS_EmptySet
<1>2. CASE S # {}
  <2>1. PICK x \in S : TRUE
    BY <1>2
  <2>2. S = {x}
    BY <2>1
  <2> QED
    BY <1>2, <2>2, FS_Singleton
<1> QED
  BY <1>1, <1>2

(* The check in submit_review, one job per decision and one task per job:  *)
(* if the owner of a run does not race two reviews of it, then at most one *)
(* creation, job, task or approval is in charge of the run.                *)
THEOREM OneOwner ==
  ASSUME SerialReviews
  PROVE  Spec => []OneOwnerPerRun
<1>1. RunInv /\ OwnersOK /\ SerialOK => OneOwnerPerRun
  <2> SUFFICES ASSUME RunInv, OwnersOK, SerialOK, NEW r \in Runs
               PROVE  Cardinality(JobsOf(r)) + Cardinality(TasksOf(r))
                        + (IF r \in creating THEN 1 ELSE 0)
                        + Cardinality({q \in ReviewsOf(r) :
                                         req[q].pc = "approved"}) <= 1
    BY DEF OneOwnerPerRun
  <2> DEFINE A == {q \in ReviewsOf(r) : req[q].pc = "approved"}
  <2>1. OneRunOwner(r) /\ PhaseOK(r) /\ OneCommitOwner(r) /\ OneReview(r)
    BY DEF OwnersOK, SerialOK
  <2>2. \A i \in JobsOf(r) :
          i \in DOMAIN queue /\ (IsRunJob(i, r) \/ IsCommitJob(i, r))
    <3>1. queue \in Seq(Jobs) /\ DOMAIN queue = 1..Len(queue)
      BY LenProperties DEF RunInv, GatewayOK, Jobs
    <3>2. \A i \in 1..Len(queue) : queue[i] \in Jobs
      BY <3>1, ElementOfSeq
    <3> QED
      BY <3>1, <3>2 DEF JobsOf, Jobs, IsRunJob, IsCommitJob
  <2>3. \A w \in TasksOf(r) :
          w \in Slots /\ (IsRunTask(w, r) \/ IsCommitTask(w, r))
    BY IdleOwnsNothing, WorkedIsActive
       DEF TasksOf, IsRunTask, IsCommitTask, OwnersOK
  <2>4. \A q \in A : q \in Requests /\ Approving(q, r) /\ Reviewing(q, r)
    BY DEF ReviewsOf, Approving, Reviewing, Active
  <2>5. ~(RunOwned(r) /\ CommitOwned(r))
    BY <2>1 DEF PhaseOK, Undecided
  <2>6. /\ \A i \in JobsOf(r) : (IsRunJob(i, r) /\ RunOwned(r))
                                  \/ (IsCommitJob(i, r) /\ CommitOwned(r))
        /\ \A w \in TasksOf(r) : (IsRunTask(w, r) /\ RunOwned(r))
                                   \/ (IsCommitTask(w, r) /\ CommitOwned(r))
        /\ A # {} => CommitOwned(r)
        /\ r \in creating => RunOwned(r)
    BY <2>2, <2>3, <2>4 DEF RunOwned, CommitOwned, IsCommitJob, IsCommitTask,
       Approving
  <2>7. /\ \A i, j \in JobsOf(r) : i = j
        /\ \A v, w \in TasksOf(r) : v = w
        /\ \A p, q \in A : p = q
    BY <2>1, <2>2, <2>3, <2>4, <2>5, <2>6
       DEF OneRunOwner, OneCommitOwner, OneReview
  <2>8. /\ JobsOf(r) # {} => TasksOf(r) = {} /\ r \notin creating /\ A = {}
        /\ TasksOf(r) # {} => r \notin creating /\ A = {}
        /\ r \in creating => A = {}
    BY <2>1, <2>2, <2>3, <2>4, <2>5, <2>6 DEF OneRunOwner, OneCommitOwner
  <2> HIDE DEF A
  <2>9. /\ Cardinality(JobsOf(r)) \in {0, 1}
        /\ Cardinality(TasksOf(r)) \in {0, 1}
        /\ Cardinality(A) \in {0, 1}
        /\ JobsOf(r) = {} => Cardinality(JobsOf(r)) = 0
        /\ TasksOf(r) = {} => Cardinality(TasksOf(r)) = 0
        /\ A = {} => Cardinality(A) = 0
    BY <2>7, AtMostOne
  <2>10. Cardinality(JobsOf(r)) + Cardinality(TasksOf(r))
           + (IF r \in creating THEN 1 ELSE 0) + Cardinality(A) <= 1
    BY <2>8, <2>9
  <2> QED
    BY <2>10 DEF A
<1> QED
  BY <1>1, RunInvariant, OwnersInvariant, SerialInvariant, PTL

-----------------------------------------------------------------------------
(* The lists a task carries, the graph of its run and the ids on the row.  *)
Working == EntityPc \cup RelationshipPc \cup LinkPc
             \cup {"record_enrich", "finish"}

\* E and X are what the run wrote, I and J the ids on its row: the node fills
\* its local lists, they reach the state when it returns, and the row lags by
\* the one write whose append comes next.
ListsAt(t, E, X, I, J) ==
  /\ t.pc \in Early => /\ E = {} /\ X = {} /\ I = {} /\ J = {}
                       /\ t.lents = {} /\ t.lrels = {}
  /\ t.pc \in EntityPc \cup RelationshipPc => t.lents = E
  /\ t.pc \in EntityPc \cup RelationshipPc \cup LinkPc => t.lrels = X
  /\ t.pc \in LinkPc \cup {"record_enrich", "finish"} => t.ents = E
  /\ t.pc \in {"record_enrich", "finish"} => t.rels = X
  /\ t.pc \in Working =>
       /\ E = I \cup (IF t.pc = "append_ent" THEN {t.cur} ELSE {})
       /\ X = J \cup (IF t.pc \in {"append_rel", "append_link"}
                      THEN {t.cur} ELSE {})

ListsOK(t) == ListsAt(t, EntityIds(t.run), EdgeIds(t.run),
                      row[t.run].entity_ids, row[t.run].relationship_ids)

\* An approval and its job find the run's graph empty.
StillEmpty(r) == /\ \A q \in Requests : Approving(q, r) => Nothing(r)
                 /\ \A i \in DOMAIN queue : IsCommitJob(i, r) => Nothing(r)

\* Fresh UUIDs are new.
IdsBelow == /\ \A e \in entities : e.id < nextId
            /\ \A x \in edges : x.id < nextId

ListsInv == /\ \A w \in Slots : ListsOK(task[w])
            /\ \A r \in Runs : StillEmpty(r)
            /\ IdsBelow

\* A task has its run to itself.
LEMMA AloneOnRun ==
  ASSUME RunInv, OwnersOK, SerialOK, NEW w \in Slots, task[w].pc # "idle",
         NEW r, r = task[w].run
  PROVE  /\ \A v \in Slots : v # w => task[v].run # r
         /\ \A q \in Requests : ~Approving(q, r)
         /\ \A i \in DOMAIN queue : ~IsRunJob(i, r) /\ ~IsCommitJob(i, r)
         /\ r \notin creating
<1>1. r \in Runs /\ (IsRunTask(w, r) \/ IsCommitTask(w, r))
  BY WorkedIsActive DEF IsRunTask, IsCommitTask
<1>2. /\ OneRunOwner(r) /\ PhaseOK(r) /\ OneCommitOwner(r) /\ IdleSlots
      /\ ~(RunOwned(r) /\ CommitOwned(r))
  BY <1>1 DEF OwnersOK, SerialOK, PhaseOK, Undecided
<1>3. ASSUME NEW v \in Slots, task[v].run = r
      PROVE  IsRunTask(v, r) \/ IsCommitTask(v, r)
  BY <1>1, <1>2, <1>3, IdleOwnsNothing, WorkedIsActive
     DEF IsRunTask, IsCommitTask
<1>4. CASE IsRunTask(w, r)
  <2>1. RunOwned(r) /\ ~CommitOwned(r)
    BY <1>2, <1>4 DEF RunOwned
  <2>2. \A v \in Slots : ~IsCommitTask(v, r)
    BY <2>1 DEF CommitOwned, IsCommitTask
  <2> QED
    BY <1>2, <1>3, <1>4, <2>1, <2>2
       DEF OneRunOwner, CommitOwned, Approving, IsCommitJob
<1>5. CASE IsCommitTask(w, r)
  <2>1. CommitOwned(r) /\ ~RunOwned(r)
    BY <1>2, <1>5 DEF CommitOwned, IsCommitTask
  <2> QED
    BY <1>2, <1>3, <1>5, <2>1 DEF OneCommitOwner, RunOwned
<1> QED
  BY <1>1, <1>4, <1>5

\* The ids on the row of a run change with its own task only.
SameIds(r) == /\ row'[r].entity_ids = row[r].entity_ids
              /\ row'[r].relationship_ids = row[r].relationship_ids

LEMMA IdsOfOthers ==
  ASSUME RunInv, NEW w \in Slots, WorkStep(w) \/ MarkRunning(w)
  PROVE  \A r \in Runs : r # task[w].run => SameIds(r)
<1>0. row \in [Runs -> Rows]
  BY DEF RunInv, RowsGood
<1> USE DEF SameIds, rowVars
<1>1. CASE MarkRunning(w) \/ RecordNode(w) \/ RecordWritingNode(w)
  BY <1>0, <1>1 DEF MarkRunning, RecordNode, RecordWritingNode
<1>2. CASE AppendCommittedEntity(w) \/ AppendCommittedRelationship(w)
             \/ AppendLink(w)
  BY <1>0, <1>2 DEF AppendCommittedEntity, AppendCommittedRelationship,
     AppendLink
<1>3. CASE ResearchDone(w) \/ EnrichStep(w) \/ DeadlinePasses(w)
             \/ NodeRaises(w) \/ LoadParked(w) \/ UseExisting(w)
             \/ CreateEntity(w)
  <2>1. UNCHANGED row \/ AppendLink(w)
    BY <1>3 DEF ResearchDone, EnrichStep, DeadlinePasses, NodeRaises,
       LoadParked, UseExisting, CreateEntity, LinksFor, SkipLink, CreateLink,
       EnrichNodeReturns
  <2> QED
    BY <1>2, <2>1
<1>4. CASE AttachSources(w) \/ EmbedEntity(w) \/ EntitiesDone(w)
             \/ SkipRelationship(w) \/ CreateRelationship(w)
             \/ CommitNodeReturns(w)
  BY <1>4 DEF AttachSources, EmbedEntity, EntitiesDone, SkipRelationship,
     CreateRelationship, CommitNodeReturns
<1> QED
  BY <1>1, <1>2, <1>3, <1>4 DEF WorkStep, CommitStep

\* What a write adds to the run's own graph, and that it is new.
LEMMA WritesFresh ==
  ASSUME IdsBelow, nextId \in Nat, RunInv
  PROVE  /\ \A r : nextId \notin EntityIds(r) /\ nextId \notin EdgeIds(r)
         /\ \A r, i : entities' = entities \cup
                                    {[id |-> nextId, run |-> r, item |-> i]}
                        => EntityIds(r)' = EntityIds(r) \cup {nextId}
         /\ \A r, i : edges' = edges \cup
                                 {[id |-> nextId, run |-> r, item |-> i]}
                        => EdgeIds(r)' = EdgeIds(r) \cup {nextId}
<1>0. /\ entities \subseteq [id : Nat, run : Runs, item : EntItems]
      /\ edges \subseteq [id : Nat, run : Runs, item : RelItems \cup {NULL}]
  BY DEF RunInv, GraphOK
<1>1. \A r : nextId \notin EntityIds(r) /\ nextId \notin EdgeIds(r)
  BY <1>0 DEF IdsBelow, EntityIds, EdgeIds
<1>2. ASSUME NEW r, NEW i,
             entities' = entities \cup {[id |-> nextId, run |-> r, item |-> i]}
      PROVE  EntityIds(r)' = EntityIds(r) \cup {nextId}
  <2> PICK n : n = [id |-> nextId, run |-> r, item |-> i]
    OBVIOUS
  <2>1. n.id = nextId /\ n.run = r /\ entities' = entities \cup {n}
    BY <1>2
  <2>2. {x \in entities' : x.run = r} = {x \in entities : x.run = r} \cup {n}
    BY <2>1
  <2> QED
    BY <2>1, <2>2 DEF EntityIds
<1>3. ASSUME NEW r, NEW i,
             edges' = edges \cup {[id |-> nextId, run |-> r, item |-> i]}
      PROVE  EdgeIds(r)' = EdgeIds(r) \cup {nextId}
  <2> PICK n : n = [id |-> nextId, run |-> r, item |-> i]
    OBVIOUS
  <2>1. n.id = nextId /\ n.run = r /\ edges' = edges \cup {n}
    BY <1>3
  <2>2. {x \in edges' : x.run = r} = {x \in edges : x.run = r} \cup {n}
    BY <2>1
  <2> QED
    BY <2>1, <2>2 DEF EdgeIds
<1> QED
  BY <1>1, <1>2, <1>3
\* The node's lists follow the graph, and the row follows the lists.
LEMMA WorkKeepsLists ==
  ASSUME RunInv, IdsBelow, NEW w \in Slots, WorkStep(w), ListsOK(task[w])
  PROVE  ListsOK(task[w])'
<1> PICK t, r : t = task[w] /\ r = t.run
  OBVIOUS
<1> PICK E, X, I, J : /\ E = EntityIds(r) /\ X = EdgeIds(r)
                      /\ I = row[r].entity_ids
                      /\ J = row[r].relationship_ids
  OBVIOUS
<1>0. /\ task \in [Slots -> Tasks] /\ t \in Tasks /\ r \in Runs
      /\ row \in [Runs -> Rows] /\ task'[w].run = r /\ nextId \in Nat
      /\ ListsAt(t, E, X, I, J)
  <2>1. Moves(w)
    BY WorkSteps
  <2> QED
    BY <2>1 DEF RunInv, TasksGood, RowsGood, TaskGood, TaskOK, GraphOK, Moves,
       ListsOK
<1>a. ASSUME NEW n, n = task'[w], NEW E1, NEW X1, NEW I1, NEW J1,
             EntityIds(r)' = E1, EdgeIds(r)' = X1,
             row'[r].entity_ids = I1, row'[r].relationship_ids = J1,
             ListsAt(n, E1, X1, I1, J1)
      PROVE  ListsOK(task[w])'
  BY <1>0, <1>a DEF ListsOK
<1>b. UNCHANGED <<entities, edges>> => EntityIds(r)' = E /\ EdgeIds(r)' = X
  BY DEF EntityIds, EdgeIds
<1>c. UNCHANGED row => row'[r].entity_ids = I /\ row'[r].relationship_ids = J
  OBVIOUS
<1>1. CASE RecordNode(w)
  <2>1. /\ t.pc = "research" /\ task'[w].pc = t.pc /\ task'[w].ents = t.ents
        /\ task'[w].rels = t.rels /\ task'[w].lents = t.lents
        /\ task'[w].lrels = t.lrels /\ task'[w].cur = t.cur
    BY <1>0, <1>1 DEF RecordNode, Tasks
  <2>2. EntityIds(r)' = E /\ EdgeIds(r)' = X
    BY <1>b, <1>1 DEF RecordNode, graphVars
  <2>3. row'[r].entity_ids = I /\ row'[r].relationship_ids = J
    BY <1>0, <1>1 DEF RecordNode, Rows
  <2>4. ListsAt(task'[w], E, X, I, J)
    BY <1>0, <2>1 DEF ListsAt, Working, Early, EntityPc, RelationshipPc, LinkPc
  <2> QED
    BY <1>a, <2>2, <2>3, <2>4
<1>2. CASE ResearchDone(w)
  <2>1. /\ t.pc = "research" /\ task'[w].pc \in {"park", "ents"}
        /\ task'[w].ents = t.ents /\ task'[w].rels = t.rels
        /\ task'[w].lents = t.lents /\ task'[w].lrels = t.lrels
        /\ task'[w].cur = t.cur
    BY <1>0, <1>2 DEF ResearchDone, Tasks, AfterResearch
  <2>2. EntityIds(r)' = E /\ EdgeIds(r)' = X
    BY <1>b, <1>2 DEF ResearchDone, graphVars
  <2>3. row'[r].entity_ids = I /\ row'[r].relationship_ids = J
    BY <1>c, <1>2 DEF ResearchDone, rowVars
  <2>4. ListsAt(task'[w], E, X, I, J)
    BY <1>0, <2>1 DEF ListsAt, Working, Early, EntityPc, RelationshipPc, LinkPc
  <2> QED
    BY <1>a, <2>2, <2>3, <2>4
<1>3. CASE LoadParked(w)
  <2>1. /\ t.pc = "start" /\ task'[w].pc = "ents" /\ task'[w].ents = t.ents
        /\ task'[w].rels = t.rels /\ task'[w].lents = t.lents
        /\ task'[w].lrels = t.lrels /\ task'[w].cur = t.cur
    BY <1>0, <1>3 DEF LoadParked, Tasks
  <2>2. EntityIds(r)' = E /\ EdgeIds(r)' = X
    BY <1>b, <1>3 DEF LoadParked, graphVars
  <2>3. row'[r].entity_ids = I /\ row'[r].relationship_ids = J
    BY <1>c, <1>3 DEF LoadParked, rowVars
  <2>4. ListsAt(task'[w], E, X, I, J)
    BY <1>0, <2>1 DEF ListsAt, Working, Early, EntityPc, RelationshipPc, LinkPc
  <2> QED
    BY <1>a, <2>2, <2>3, <2>4
<1>4. CASE UseExisting(w)
  <2>1. /\ t.pc = "ents" /\ task'[w].pc = "ents" /\ task'[w].ents = t.ents
        /\ task'[w].rels = t.rels /\ task'[w].lents = t.lents
        /\ task'[w].lrels = t.lrels /\ task'[w].cur = t.cur
    BY <1>0, <1>4 DEF UseExisting, Tasks
  <2>2. EntityIds(r)' = E /\ EdgeIds(r)' = X
    BY <1>b, <1>4 DEF UseExisting, graphVars
  <2>3. row'[r].entity_ids = I /\ row'[r].relationship_ids = J
    BY <1>c, <1>4 DEF UseExisting, rowVars
  <2>4. ListsAt(task'[w], E, X, I, J)
    BY <1>0, <2>1 DEF ListsAt, Working, Early, EntityPc, RelationshipPc, LinkPc
  <2> QED
    BY <1>a, <2>2, <2>3, <2>4
<1>5. CASE CreateEntity(w)
  <2>1. /\ t.pc = "ents" /\ task'[w].pc = "append_ent"
        /\ task'[w].ents = t.ents /\ task'[w].rels = t.rels
        /\ task'[w].lents = t.lents \cup {nextId} /\ task'[w].lrels = t.lrels
        /\ task'[w].cur = nextId
    BY <1>0, <1>5 DEF CreateEntity, Tasks
  <2>2. EntityIds(r)' = E \cup {nextId} /\ EdgeIds(r)' = X
    BY <1>0, <1>5, WritesFresh DEF CreateEntity, EdgeIds
  <2>3. row'[r].entity_ids = I /\ row'[r].relationship_ids = J
    BY <1>c, <1>5 DEF CreateEntity, rowVars
  <2>4. ListsAt(task'[w], E \cup {nextId}, X, I, J)
    BY <1>0, <2>1 DEF ListsAt, Working, Early, EntityPc, RelationshipPc, LinkPc
  <2> QED
    BY <1>a, <2>2, <2>3, <2>4
<1>6. CASE AppendCommittedEntity(w)
  <2>1. /\ t.pc = "append_ent" /\ task'[w].pc \in {"attach", "embed"}
        /\ task'[w].ents = t.ents /\ task'[w].rels = t.rels
        /\ task'[w].lents = t.lents /\ task'[w].lrels = t.lrels
        /\ task'[w].cur = t.cur
    BY <1>0, <1>6 DEF AppendCommittedEntity, Tasks
  <2>2. EntityIds(r)' = E /\ EdgeIds(r)' = X
    BY <1>b, <1>6 DEF AppendCommittedEntity, graphVars
  <2>3. /\ row'[r].entity_ids = I \cup {t.cur}
        /\ row'[r].relationship_ids = J
    BY <1>0, <1>6 DEF AppendCommittedEntity, Rows
  <2>4. ListsAt(task'[w], E, X, I \cup {t.cur}, J)
    BY <1>0, <2>1 DEF ListsAt, Working, Early, EntityPc, RelationshipPc, LinkPc
  <2> QED
    BY <1>a, <2>2, <2>3, <2>4
<1>7. CASE AttachSources(w)
  <2>1. /\ t.pc = "attach" /\ task'[w].pc = "embed" /\ task'[w].ents = t.ents
        /\ task'[w].rels = t.rels /\ task'[w].lents = t.lents
        /\ task'[w].lrels = t.lrels /\ task'[w].cur = t.cur
    <3>1. t.pc = "attach"
      BY <1>7 DEF AttachSources
    <3> QED
      BY <1>0, <1>7, <3>1, BestEffort DEF Tasks
  <2>2. EntityIds(r)' = E /\ EdgeIds(r)' = X
    BY <1>b, <1>7 DEF AttachSources, graphVars
  <2>3. row'[r].entity_ids = I /\ row'[r].relationship_ids = J
    BY <1>c, <1>7 DEF AttachSources, rowVars
  <2>4. ListsAt(task'[w], E, X, I, J)
    BY <1>0, <2>1 DEF ListsAt, Working, Early, EntityPc, RelationshipPc, LinkPc
  <2> QED
    BY <1>a, <2>2, <2>3, <2>4
<1>8. CASE EmbedEntity(w)
  <2>1. /\ t.pc = "embed" /\ task'[w].pc = "ents" /\ task'[w].ents = t.ents
        /\ task'[w].rels = t.rels /\ task'[w].lents = t.lents
        /\ task'[w].lrels = t.lrels /\ task'[w].cur = t.cur
    <3>1. t.pc = "embed"
      BY <1>8 DEF EmbedEntity
    <3> QED
      BY <1>0, <1>8, <3>1, BestEffort, ZenonT(60) DEF Tasks
  <2>2. EntityIds(r)' = E /\ EdgeIds(r)' = X
    BY <1>b, <1>8 DEF EmbedEntity, graphVars
  <2>3. row'[r].entity_ids = I /\ row'[r].relationship_ids = J
    BY <1>c, <1>8 DEF EmbedEntity, rowVars
  <2>4. ListsAt(task'[w], E, X, I, J)
    BY <1>0, <2>1 DEF ListsAt, Working, Early, EntityPc, RelationshipPc, LinkPc
  <2> QED
    BY <1>a, <2>2, <2>3, <2>4
<1>9. CASE EntitiesDone(w)
  <2>1. /\ t.pc = "ents" /\ task'[w].pc = "rels" /\ task'[w].ents = t.ents
        /\ task'[w].rels = t.rels /\ task'[w].lents = t.lents
        /\ task'[w].lrels = t.lrels /\ task'[w].cur = t.cur
    BY <1>0, <1>9 DEF EntitiesDone, Tasks
  <2>2. EntityIds(r)' = E /\ EdgeIds(r)' = X
    BY <1>b, <1>9 DEF EntitiesDone, graphVars
  <2>3. row'[r].entity_ids = I /\ row'[r].relationship_ids = J
    BY <1>c, <1>9 DEF EntitiesDone, rowVars
  <2>4. ListsAt(task'[w], E, X, I, J)
    BY <1>0, <2>1 DEF ListsAt, Working, Early, EntityPc, RelationshipPc, LinkPc
  <2> QED
    BY <1>a, <2>2, <2>3, <2>4
<1>10. CASE SkipRelationship(w)
  <2>1. /\ t.pc = "rels" /\ task'[w].pc = "rels" /\ task'[w].ents = t.ents
        /\ task'[w].rels = t.rels /\ task'[w].lents = t.lents
        /\ task'[w].lrels = t.lrels /\ task'[w].cur = t.cur
    BY <1>0, <1>10 DEF SkipRelationship, Tasks
  <2>2. EntityIds(r)' = E /\ EdgeIds(r)' = X
    BY <1>b, <1>10 DEF SkipRelationship, graphVars
  <2>3. row'[r].entity_ids = I /\ row'[r].relationship_ids = J
    BY <1>c, <1>10 DEF SkipRelationship, rowVars
  <2>4. ListsAt(task'[w], E, X, I, J)
    BY <1>0, <2>1 DEF ListsAt, Working, Early, EntityPc, RelationshipPc, LinkPc
  <2> QED
    BY <1>a, <2>2, <2>3, <2>4
<1>11. CASE CreateRelationship(w)
  <2>1. /\ t.pc = "rels" /\ task'[w].pc = "append_rel"
        /\ task'[w].ents = t.ents /\ task'[w].rels = t.rels
        /\ task'[w].lents = t.lents /\ task'[w].lrels = t.lrels \cup {nextId}
        /\ task'[w].cur = nextId
    BY <1>0, <1>11 DEF CreateRelationship, Tasks
  <2>2. EntityIds(r)' = E /\ EdgeIds(r)' = X \cup {nextId}
    BY <1>0, <1>11, WritesFresh DEF CreateRelationship, EntityIds
  <2>3. row'[r].entity_ids = I /\ row'[r].relationship_ids = J
    BY <1>c, <1>11 DEF CreateRelationship, rowVars
  <2>4. ListsAt(task'[w], E, X \cup {nextId}, I, J)
    BY <1>0, <2>1 DEF ListsAt, Working, Early, EntityPc, RelationshipPc, LinkPc
  <2> QED
    BY <1>a, <2>2, <2>3, <2>4
<1>12. CASE AppendCommittedRelationship(w)
  <2>1. /\ t.pc = "append_rel" /\ task'[w].pc = "rels"
        /\ task'[w].ents = t.ents /\ task'[w].rels = t.rels
        /\ task'[w].lents = t.lents /\ task'[w].lrels = t.lrels
        /\ task'[w].cur = t.cur
    BY <1>0, <1>12 DEF AppendCommittedRelationship, Tasks
  <2>2. EntityIds(r)' = E /\ EdgeIds(r)' = X
    BY <1>b, <1>12 DEF AppendCommittedRelationship, graphVars
  <2>3. /\ row'[r].entity_ids = I
        /\ row'[r].relationship_ids = J \cup {t.cur}
    BY <1>0, <1>12 DEF AppendCommittedRelationship, Rows
  <2>4. ListsAt(task'[w], E, X, I, J \cup {t.cur})
    BY <1>0, <2>1 DEF ListsAt, Working, Early, EntityPc, RelationshipPc, LinkPc
  <2> QED
    BY <1>a, <2>2, <2>3, <2>4
<1>13. CASE CommitNodeReturns(w)
  <2>1. /\ t.pc = "rels" /\ task'[w].pc \in {"record_commit", "enrich"}
        /\ task'[w].ents = t.lents /\ task'[w].rels = t.lrels
        /\ task'[w].lents = t.lents /\ task'[w].lrels = t.lrels
        /\ task'[w].cur = t.cur
    BY <1>0, <1>13 DEF CommitNodeReturns, Tasks
  <2>2. EntityIds(r)' = E /\ EdgeIds(r)' = X
    BY <1>b, <1>13 DEF CommitNodeReturns, graphVars
  <2>3. row'[r].entity_ids = I /\ row'[r].relationship_ids = J
    BY <1>c, <1>13 DEF CommitNodeReturns, rowVars
  <2>4. ListsAt(task'[w], E, X, I, J)
    BY <1>0, <2>1 DEF ListsAt, Working, Early, EntityPc, RelationshipPc, LinkPc
  <2> QED
    BY <1>a, <2>2, <2>3, <2>4
<1>14. CASE RecordWritingNode(w)
  <2>1. /\ \/ t.pc = "record_commit" /\ task'[w].pc = "enrich"
           \/ t.pc = "record_enrich" /\ task'[w].pc = "finish"
        /\ task'[w].ents = t.ents /\ task'[w].rels = t.rels
        /\ task'[w].lents = t.lents /\ task'[w].lrels = t.lrels
        /\ task'[w].cur = t.cur
    BY <1>0, <1>14 DEF RecordWritingNode, Tasks
  <2>2. EntityIds(r)' = E /\ EdgeIds(r)' = X
    BY <1>b, <1>14 DEF RecordWritingNode, graphVars
  <2>3. row'[r].entity_ids = I /\ row'[r].relationship_ids = J
    BY <1>0, <1>14 DEF RecordWritingNode, Rows
  <2>4. ListsAt(task'[w], E, X, I, J)
    BY <1>0, <2>1 DEF ListsAt, Working, Early, EntityPc, RelationshipPc, LinkPc
  <2> QED
    BY <1>a, <2>2, <2>3, <2>4
<1>15. CASE LinksFor(w)
  <2>1. /\ t.pc = "enrich" /\ task'[w].pc = "enrich"
        /\ task'[w].ents = t.ents /\ task'[w].rels = t.rels
        /\ task'[w].lents = t.lents /\ task'[w].lrels = t.lrels
    BY <1>0, <1>15 DEF LinksFor, Tasks
  <2>2. EntityIds(r)' = E /\ EdgeIds(r)' = X
    BY <1>b, <1>15 DEF LinksFor, graphVars
  <2>3. row'[r].entity_ids = I /\ row'[r].relationship_ids = J
    BY <1>c, <1>15 DEF LinksFor, rowVars
  <2>4. ListsAt(task'[w], E, X, I, J)
    BY <1>0, <2>1 DEF ListsAt, Working, Early, EntityPc, RelationshipPc, LinkPc
  <2> QED
    BY <1>a, <2>2, <2>3, <2>4
<1>16. CASE SkipLink(w)
  <2>1. /\ t.pc = "enrich" /\ task'[w].pc = "enrich"
        /\ task'[w].ents = t.ents /\ task'[w].rels = t.rels
        /\ task'[w].lents = t.lents /\ task'[w].lrels = t.lrels
        /\ task'[w].cur = t.cur
    BY <1>0, <1>16 DEF SkipLink, Tasks
  <2>2. EntityIds(r)' = E /\ EdgeIds(r)' = X
    BY <1>b, <1>16 DEF SkipLink, graphVars
  <2>3. row'[r].entity_ids = I /\ row'[r].relationship_ids = J
    BY <1>c, <1>16 DEF SkipLink, rowVars
  <2>4. ListsAt(task'[w], E, X, I, J)
    BY <1>0, <2>1 DEF ListsAt, Working, Early, EntityPc, RelationshipPc, LinkPc
  <2> QED
    BY <1>a, <2>2, <2>3, <2>4
<1>17. CASE CreateLink(w)
  <2>1. /\ t.pc = "enrich" /\ task'[w].pc = "append_link"
        /\ task'[w].ents = t.ents /\ task'[w].rels = t.rels
        /\ task'[w].lents = t.lents /\ task'[w].lrels = t.lrels \cup {nextId}
        /\ task'[w].cur = nextId
    BY <1>0, <1>17 DEF CreateLink, Tasks
  <2>2. EntityIds(r)' = E /\ EdgeIds(r)' = X \cup {nextId}
    BY <1>0, <1>17, WritesFresh DEF CreateLink, EntityIds
  <2>3. row'[r].entity_ids = I /\ row'[r].relationship_ids = J
    BY <1>c, <1>17 DEF CreateLink, rowVars
  <2>4. ListsAt(task'[w], E, X \cup {nextId}, I, J)
    BY <1>0, <2>1 DEF ListsAt, Working, Early, EntityPc, RelationshipPc, LinkPc
  <2> QED
    BY <1>a, <2>2, <2>3, <2>4
<1>18. CASE AppendLink(w)
  <2>1. /\ t.pc = "append_link" /\ task'[w].pc = "enrich"
        /\ task'[w].ents = t.ents /\ task'[w].rels = t.rels
        /\ task'[w].lents = t.lents /\ task'[w].lrels = t.lrels
        /\ task'[w].cur = t.cur
    BY <1>0, <1>18 DEF AppendLink, Tasks
  <2>2. EntityIds(r)' = E /\ EdgeIds(r)' = X
    BY <1>b, <1>18 DEF AppendLink, graphVars
  <2>3. /\ row'[r].entity_ids = I
        /\ row'[r].relationship_ids = J \cup {t.cur}
    BY <1>0, <1>18 DEF AppendLink, Rows
  <2>4. ListsAt(task'[w], E, X, I, J \cup {t.cur})
    BY <1>0, <2>1 DEF ListsAt, Working, Early, EntityPc, RelationshipPc, LinkPc
  <2> QED
    BY <1>a, <2>2, <2>3, <2>4
<1>19. CASE EnrichNodeReturns(w)
  <2>1. /\ t.pc = "enrich" /\ task'[w].pc \in {"record_enrich", "finish"}
        /\ task'[w].ents = t.ents /\ task'[w].rels = t.lrels
        /\ task'[w].lents = t.lents /\ task'[w].lrels = t.lrels
        /\ task'[w].cur = t.cur
    BY <1>0, <1>19 DEF EnrichNodeReturns, Tasks
  <2>2. EntityIds(r)' = E /\ EdgeIds(r)' = X
    BY <1>b, <1>19 DEF EnrichNodeReturns, graphVars
  <2>3. row'[r].entity_ids = I /\ row'[r].relationship_ids = J
    BY <1>c, <1>19 DEF EnrichNodeReturns, rowVars
  <2>4. ListsAt(task'[w], E, X, I, J)
    BY <1>0, <2>1 DEF ListsAt, Working, Early, EntityPc, RelationshipPc, LinkPc
  <2> QED
    BY <1>a, <2>2, <2>3, <2>4
<1>20. CASE DeadlinePasses(w)
  <2>1. task'[w].pc = "failing"
    BY <1>0, <1>20 DEF DeadlinePasses, Tasks
  <2>2. \A E1, X1, I1, J1 : ListsAt(task'[w], E1, X1, I1, J1)
    BY <2>1 DEF ListsAt, Working, Early, EntityPc, RelationshipPc, LinkPc
  <2> QED
    BY <1>a, <2>2
<1>21. CASE NodeRaises(w)
  <2>1. task'[w].pc = "failing"
    BY <1>0, <1>21 DEF NodeRaises, Tasks
  <2>2. \A E1, X1, I1, J1 : ListsAt(task'[w], E1, X1, I1, J1)
    BY <2>1 DEF ListsAt, Working, Early, EntityPc, RelationshipPc, LinkPc
  <2> QED
    BY <1>a, <2>2
<1> QED
  BY <1>1, <1>2, <1>3, <1>4, <1>5, <1>6, <1>7, <1>8, <1>9, <1>10, <1>11, <1>12,
     <1>13, <1>14, <1>15, <1>16, <1>17, <1>18, <1>19, <1>20, <1>21
     DEF WorkStep, CommitStep, EnrichStep
\* Fresh UUIDs stay new.
LEMMA IdsStayBelow ==
  ASSUME RunInv, IdsBelow, [Next]_vars
  PROVE  IdsBelow'
<1>0. /\ entities \subseteq [id : Nat, run : Runs, item : EntItems]
      /\ edges \subseteq [id : Nat, run : Runs, item : RelItems \cup {NULL}]
      /\ nextId \in Nat
  BY DEF RunInv, GraphOK
<1>1. ASSUME NEW r, NEW i, nextId' = nextId + 1, UNCHANGED edges,
             entities' = entities \cup {[id |-> nextId, run |-> r, item |-> i]}
      PROVE  IdsBelow'
  BY <1>0, <1>1 DEF IdsBelow
<1>2. ASSUME NEW r, NEW i, nextId' = nextId + 1, UNCHANGED entities,
             edges' = edges \cup {[id |-> nextId, run |-> r, item |-> i]}
      PROVE  IdsBelow'
  BY <1>0, <1>2 DEF IdsBelow
<1>3. CASE UNCHANGED <<entities, edges, nextId>>
  BY <1>3 DEF IdsBelow
<1>4. ASSUME NEW w \in Slots, CreateEntity(w) PROVE IdsBelow'
  BY <1>1, <1>4 DEF CreateEntity
<1>5. ASSUME NEW w \in Slots, CreateRelationship(w) \/ CreateLink(w)
      PROVE  IdsBelow'
  BY <1>2, <1>5 DEF CreateRelationship, CreateLink
<1> QED
  BY <1>3, <1>4, <1>5, GraphStep

\* A step writes to the graph of one run only, whose task takes it.
LEMMA EmptyStays ==
  ASSUME RunInv, OwnersOK, SerialOK, NEW r \in Runs, Untouched(r),
         StillEmpty(r), [Next]_vars
  PROVE  StillEmpty(r)'
<1>0. /\ queue \in Seq(Jobs) /\ req \in [Requests -> ReqRecords]
      /\ OneReview(r)
  BY DEF RunInv, GatewayOK, Jobs, SerialOK
<1>1. CASE UNCHANGED vars
  BY <1>1 DEF vars, StillEmpty, Approving, IsCommitJob, Nothing, EntityIds,
     EdgeIds
<1>2. ASSUME Nothing(r)' <=> Nothing(r), UNCHANGED <<queue, req>>
      PROVE  StillEmpty(r)'
  BY <1>2 DEF StillEmpty, Approving, IsCommitJob
<1>3. ASSUME NEW s \in Runs, GatewayStep(s) PROVE StillEmpty(r)'
  <2>1. UNCHANGED <<entities, edges, req>>
    BY <1>3 DEF GatewayStep, CreateRun, EnqueueRun, EnqueueRunFails, graphVars
  <2>2. Nothing(r)' <=> Nothing(r)
    BY <2>1, GraphSame
  <2>3. CASE EnqueueRun(s)
    <3> PICK j : j = [job |-> "run", run |-> s]
      OBVIOUS
    <3>1. /\ UNCHANGED task /\ queue' = Append(queue, j)
          /\ j \in Jobs /\ j.job = "run"
      BY <2>3 DEF EnqueueRun, Jobs
    <3>2. (\E i \in DOMAIN queue' : queue'[i].run = r
                                     /\ queue'[i].job = "commit")
             <=> \E i \in DOMAIN queue : queue[i].run = r
                                          /\ queue[i].job = "commit"
      BY <1>0, <3>1, OwnersPush
    <3> QED
      BY <2>1, <2>2, <3>2 DEF StillEmpty, Approving, IsCommitJob
  <2> QED
    BY <1>2, <1>3, <2>1, <2>2, <2>3
       DEF GatewayStep, CreateRun, EnqueueRunFails
<1>4. ASSUME NEW q \in Requests, ReviewStep(q) PROVE StillEmpty(r)'
  <2>1. UNCHANGED <<entities, edges>>
    BY <1>4 DEF ReviewStep, ReadForReview, MarkCancelled, ApproveReview,
       EnqueueCommit, ReviewFails, graphVars
  <2>2. /\ Nothing(r)' <=> Nothing(r)
        /\ \A p \in Requests : p # q => req'[p] = req[p]
        /\ UNCHANGED task
    BY <1>4, <2>1, GraphSame, RequestSet
  <2>3. CASE ApproveReview(q)
    <3>1. /\ UNCHANGED queue /\ req[q].pc = "checked"
          /\ req'[q].run = req[q].run
      BY <1>0, <2>3 DEF ApproveReview, ReqRecords
    <3>2. req[q].run = r => Nothing(r)
      BY <1>0, <3>1 DEF OneReview, Reviewing, Active, Untouched
    <3> QED
      BY <2>2, <3>1, <3>2 DEF StillEmpty, Approving, IsCommitJob
  <2>4. CASE EnqueueCommit(q)
    <3> PICK j : j = [job |-> "commit", run |-> req[q].run]
      OBVIOUS
    <3>1. /\ req[q].pc = "approved" /\ req'[q].pc = "done"
          /\ queue' = Append(queue, j)
      BY <1>0, <2>4 DEF EnqueueCommit, ReqRecords
    <3>2. j \in Jobs /\ j.run = req[q].run /\ j.job = "commit"
      BY <1>0, <3>1 DEF RunInv, GatewayOK, Jobs
    <3>3. (\E i \in DOMAIN queue' : queue'[i].run = r
                                     /\ queue'[i].job = "commit")
             <=> \/ \E i \in DOMAIN queue : queue[i].run = r
                                             /\ queue[i].job = "commit"
                 \/ j.run = r
      BY <1>0, <2>2, <3>1, <3>2, OwnersPush
    <3> QED
      BY <2>2, <3>1, <3>2, <3>3 DEF StillEmpty, Approving, IsCommitJob
  <2>5. CASE ~ApproveReview(q) /\ ~EnqueueCommit(q)
    <3>1. UNCHANGED queue /\ req'[q].pc # "approved"
      BY <1>4, <2>5, RequestSet
    <3> QED
      BY <2>2, <3>1 DEF StillEmpty, Approving, IsCommitJob
  <2> QED
    BY <2>3, <2>4, <2>5
<1>5. ASSUME NEW w \in Slots, WorkerStep(w) PROVE StillEmpty(r)'
  <2>1. CASE Receive(w)
    <3>1. UNCHANGED <<entities, edges, req>>
      BY <2>1 DEF Receive, graphVars
    <3>2. \A i \in DOMAIN queue' : i + 1 \in DOMAIN queue
                                    /\ queue'[i] = queue[i + 1]
      BY <2>1, Taken, Popped DEF RunInv, GatewayOK, Jobs
    <3> QED
      BY <3>1, <3>2, GraphSame DEF StillEmpty, Approving, IsCommitJob
  <2>2. CASE WorkStep(w) /\ SameGraph(r)
    BY <1>2, <2>2, WorkSteps DEF SameGraph, Nothing, Moves, Stays
  <2>3. CASE WorkStep(w) /\ ~SameGraph(r)
    <3>1. task[w].run = r /\ Moves(w)
      BY <2>3, WorkPhase, WorkSteps
    <3>2. /\ \A q \in Requests : ~Approving(q, r)
          /\ \A i \in DOMAIN queue : ~IsCommitJob(i, r)
      BY <3>1, AloneOnRun DEF Moves
    <3> QED
      BY <3>1, <3>2 DEF StillEmpty, Approving, IsCommitJob, Moves, Stays
  <2>4. CASE MarkRunning(w) \/ MarkAwaitingReview(w) \/ MarkSucceeded(w)
               \/ MarkFailed(w) \/ TaskDies(w) \/ Crash(w)
    <3>1. UNCHANGED <<entities, edges, queue, req>>
      BY <2>4 DEF MarkRunning, MarkAwaitingReview, MarkSucceeded, MarkFailed,
         TaskDies, Crash, graphVars
    <3> QED
      BY <1>2, <3>1, GraphSame
  <2> QED
    BY <1>5, <2>1, <2>2, <2>3, <2>4, OtherSteps
<1> QED
  BY <1>1, <1>3, <1>4, <1>5 DEF Next
\* Requests and creations touch neither the graph nor the ids on a row.
LEMMA OutsideWorkers ==
  ASSUME RunInv, [Next]_vars, \A w \in Slots : ~WorkerStep(w)
  PROVE  /\ UNCHANGED <<task, entities, edges, sourced, embedded, report>>
         /\ \A r \in Runs : /\ SameIds(r) /\ row'[r].result = row[r].result
                            /\ row'[r].sources = row[r].sources
<1>0. row \in [Runs -> Rows]
  BY DEF RunInv, RowsGood
<1> USE DEF SameIds
<1>1. CASE UNCHANGED vars
  BY <1>1 DEF vars
<1>2. ASSUME NEW s \in Runs, GatewayStep(s)
      PROVE  /\ UNCHANGED <<task, entities, edges, sourced, embedded, report>>
             /\ \A r \in Runs : /\ SameIds(r) /\ row'[r].result = row[r].result
                                /\ row'[r].sources = row[r].sources
  <2>1. UNCHANGED <<task, entities, edges, sourced, embedded, report>>
    BY <1>2 DEF GatewayStep, CreateRun, EnqueueRun, EnqueueRunFails,
       graphVars, rowVars
  <2>2. UNCHANGED row \/ CreateRun(s)
    BY <1>2 DEF GatewayStep, EnqueueRun, EnqueueRunFails, rowVars
  <2>3. CASE UNCHANGED row
    BY <2>1, <2>3
  <2>4. CASE CreateRun(s)
    BY <1>0, <2>1, <2>4 DEF CreateRun
  <2> QED
    BY <2>2, <2>3, <2>4
<1>3. ASSUME NEW q \in Requests, ReviewStep(q)
      PROVE  /\ UNCHANGED <<task, entities, edges, sourced, embedded, report>>
             /\ \A r \in Runs : /\ SameIds(r) /\ row'[r].result = row[r].result
                                /\ row'[r].sources = row[r].sources
  <2>1. UNCHANGED <<task, entities, edges, sourced, embedded, report>>
    BY <1>3 DEF ReviewStep, ReadForReview, MarkCancelled, ApproveReview,
       EnqueueCommit, ReviewFails, graphVars, rowVars
  <2>2. UNCHANGED row \/ MarkCancelled(q) \/ ApproveReview(q)
    BY <1>3, RequestSet
  <2>3. CASE UNCHANGED row
    BY <2>1, <2>3
  <2>4. CASE MarkCancelled(q)
    BY <1>0, <2>1, <2>4 DEF MarkCancelled
  <2>5. CASE ApproveReview(q)
    BY <1>0, <2>1, <2>5 DEF ApproveReview
  <2> QED
    BY <2>2, <2>3, <2>4, <2>5
<1> QED
  BY <1>1, <1>2, <1>3 DEF Next

\* An idle task carries no list.
LEMMA IdleLists ==
  ASSUME NEW t, t.pc \in {"idle", "failing"}
  PROVE  \A E, X, I, J : ListsAt(t, E, X, I, J)
BY DEF ListsAt, Working, Early, EntityPc, RelationshipPc, LinkPc

LEMMA ListsStay ==
  ASSUME RunInv, OwnersOK, SerialOK, \A r \in Runs : Untouched(r), ListsInv,
         NEW w \in Slots, WorkerStep(w), NEW v \in Slots
  PROVE  ListsOK(task[v])'
<1>0. /\ \A u \in Slots : ListsOK(task[u])
      /\ \A r \in Runs : StillEmpty(r) /\ Untouched(r)
      /\ IdsBelow
  BY DEF ListsInv
\* Another task, or one whose run is left alone.
<1>1. ASSUME NEW u \in Slots, task'[u] = task[u],
             task[u].pc # "idle" => /\ SameGraph(task[u].run)
                                    /\ SameIds(task[u].run)
      PROVE  ListsOK(task[u])'
  <2>1. CASE task[u].pc = "idle"
    BY <1>1, <2>1, IdleLists DEF ListsOK
  <2>2. CASE task[u].pc # "idle"
    BY <1>0, <1>1, <2>2 DEF ListsOK, SameGraph, SameIds
  <2> QED
    BY <2>1, <2>2
<1>2. UNCHANGED <<entities, edges>> => \A r : SameGraph(r)
  BY GraphSame
<1>3. CASE Receive(w)
  <2>1. UNCHANGED <<entities, edges, row>>
    BY <1>3 DEF Receive, graphVars, rowVars
  <2>2. CASE v # w
    BY <1>1, <1>2, <1>3, <2>1, <2>2, Taken DEF SameIds
  <2>3. CASE v = w
    <3>1. /\ task'[w].pc = "start" /\ task'[w].run = queue[1].run
          /\ queue[1] \in Jobs /\ 1 \in DOMAIN queue
      BY <1>3, Taken
    <3>2. task'[w].lents = {} /\ task'[w].lrels = {}
      BY <1>3 DEF Receive, IdleTask, RunInv, TasksGood
    <3> PICK r : r = queue[1].run
      OBVIOUS
    <3>3. r \in Runs /\ (IsRunJob(1, r) \/ IsCommitJob(1, r))
      BY <3>1 DEF Jobs, IsRunJob, IsCommitJob
    <3>4. Nothing(r)
      BY <1>0, <3>1, <3>3 DEF Untouched, StillEmpty
    <3>5. row[r].entity_ids = {} /\ row[r].relationship_ids = {}
      BY <3>3, <3>4 DEF RunInv, RowsGood, RecordedAreReal, Nothing
    <3>6. /\ EntityIds(r)' = {} /\ EdgeIds(r)' = {}
          /\ row'[r].entity_ids = {} /\ row'[r].relationship_ids = {}
      BY <2>1, <3>4, <3>5 DEF Nothing, EntityIds, EdgeIds
    <3>7. ListsAt(task'[w], {}, {}, {}, {})
      BY <3>1, <3>2
         DEF ListsAt, Working, Early, EntityPc, RelationshipPc, LinkPc
    <3> QED
      BY <2>3, <3>1, <3>6, <3>7 DEF ListsOK
  <2> QED
    BY <2>2, <2>3
<1>4. CASE task[w].pc # "idle" /\ v # w
  <2>1. task[v].pc # "idle" =>
          /\ task[v].run \in Runs /\ task[v].run # task[w].run
    BY <1>4, AloneOnRun, WorkedIsActive
  <2>2. CASE WorkStep(w)
    BY <1>1, <1>4, <2>1, <2>2, WorkSteps, WorkPhase, IdsOfOthers DEF Moves
  <2>3. CASE MarkRunning(w)
    <3>1. UNCHANGED <<entities, edges>>
      BY <2>3 DEF MarkRunning, graphVars
    <3> QED
      BY <1>1, <1>2, <1>4, <2>1, <2>3, <3>1, OtherSteps, IdsOfOthers DEF Moves
  <2>4. CASE MarkAwaitingReview(w) \/ MarkSucceeded(w) \/ MarkFailed(w)
               \/ TaskDies(w) \/ Crash(w)
    <3>1. UNCHANGED <<entities, edges>>
      BY <2>4 DEF MarkAwaitingReview, MarkSucceeded, MarkFailed, TaskDies,
         Crash, graphVars
    <3>2. \A r \in Runs : r # task[w].run => row'[r] = row[r]
      BY <2>4, RowOfTask DEF TaskDies, Crash, rowVars
    <3> QED
      BY <1>1, <1>2, <1>4, <2>1, <2>4, <3>1, <3>2, OtherSteps
         DEF Leaves, SameIds
  <2> QED
    BY <1>3, <2>2, <2>3, <2>4, OtherSteps
<1>5. CASE task[w].pc # "idle" /\ v = w
  <2>1. CASE WorkStep(w)
    BY <1>0, <1>5, <2>1, WorkKeepsLists
  <2>2. CASE MarkRunning(w)
    <3> PICK t : t = task[w]
      OBVIOUS
    <3>1. /\ t \in Tasks /\ t.run \in Runs /\ row \in [Runs -> Rows]
          /\ task \in [Slots -> Tasks] /\ t.pc = "start"
      BY <2>2, RowOfTask DEF RunInv, TasksGood, RowsGood, MarkRunning
    <3>2. SameGraph(t.run) /\ SameIds(t.run)
      BY <1>2, <2>2, <3>1 DEF MarkRunning, SameIds, graphVars, Rows
    <3>3. /\ task'[w].pc = "research" /\ task'[w].run = t.run
          /\ task'[w].lents = t.lents /\ task'[w].lrels = t.lrels
      BY <2>2, <3>1 DEF MarkRunning, Tasks
    <3>4. \A E, X, I, J : ListsAt(t, E, X, I, J) => ListsAt(task'[w], E, X, I, J)
      BY <3>1, <3>3
         DEF ListsAt, Working, Early, EntityPc, RelationshipPc, LinkPc
    <3> QED
      BY <1>0, <1>5, <3>2, <3>3, <3>4 DEF ListsOK, SameGraph, SameIds
  <2>3. CASE Leaves(w)
    <3>1. task'[w].pc = "idle"
      BY <2>3 DEF Leaves, IdleTask
    <3> QED
      BY <1>5, <3>1, IdleLists DEF ListsOK
  <2> QED
    BY <1>3, <2>1, <2>2, <2>3, OtherSteps
<1> QED
  BY <1>3, <1>4, <1>5, OtherSteps, WorkSteps DEF Moves, Leaves

\* Every step keeps the lists true to the graph.
LEMMA ListsPreserved ==
  ASSUME RunInv, OwnersOK, SerialOK, \A r \in Runs : Untouched(r), ListsInv,
         [Next]_vars
  PROVE  ListsInv'
<1>1. IdsBelow' /\ \A r \in Runs : StillEmpty(r)'
  BY IdsStayBelow, EmptyStays DEF ListsInv
<1>2. CASE \A w \in Slots : ~WorkerStep(w)
  <2>1. ASSUME NEW w \in Slots PROVE ListsOK(task[w])'
    <3>1. /\ task'[w] = task[w] /\ SameGraph(task[w].run)
          /\ task[w].run \in Runs => SameIds(task[w].run)
      BY <1>2, OutsideWorkers, GraphSame
    <3>2. CASE task[w].pc = "idle"
      BY <3>1, <3>2, IdleLists DEF ListsOK
    <3>3. CASE task[w].pc # "idle"
      <4>1. task[w].run \in Runs /\ ListsOK(task[w])
        BY <3>3, WorkedIsActive DEF ListsInv
      <4> QED
        BY <3>1, <4>1 DEF ListsOK, SameGraph, SameIds
    <3> QED
      BY <3>2, <3>3
  <2> QED
    BY <1>1, <2>1 DEF ListsInv
<1>3. ASSUME NEW w \in Slots, WorkerStep(w) PROVE ListsInv'
  BY <1>1, <1>3, ListsStay DEF ListsInv
<1> QED
  BY <1>2, <1>3

LEMMA ListsInit == Init => ListsInv
<1> SUFFICES ASSUME Init PROVE ListsInv
  OBVIOUS
<1>1. /\ \A w \in Slots : task[w] = IdleTask
      /\ entities = {} /\ edges = {} /\ DOMAIN queue = {}
      /\ \A q \in Requests : req[q] = IdleReq
  BY DEF Init
<1>2. IdleTask.pc = "idle" /\ IdleReq.pc = "new"
  BY DEF IdleTask, IdleReq
<1>3. \A w \in Slots : ListsOK(task[w])
  BY <1>1, <1>2, IdleLists DEF ListsOK
<1> QED
  BY <1>1, <1>2, <1>3 DEF ListsInv, StillEmpty, Approving, IdsBelow

LEMMA ListsInvariant ==
  ASSUME SerialReviews
  PROVE  Spec => []ListsInv
<1>1. Init => ListsInv
  BY ListsInit
<1>2. RunInv /\ OwnersOK /\ SerialOK /\ (\A r \in Runs : Untouched(r))
        /\ ListsInv /\ [Next]_vars => ListsInv'
  BY ListsPreserved
<1> QED
  BY <1>1, <1>2, RunInvariant, OwnersInvariant, SerialInvariant,
     UntouchedInvariant, PTL DEF Spec
-----------------------------------------------------------------------------
(* The contract RunLifecycle: how its variables follow from a step.        *)
LStatus   == [r \in Runs |-> Stage(row[r].status)]
LApproved == {r \in Runs : approved[r] # {}}
LWritten  == [r \in Runs |-> EntityIds(r) \cup EdgeIds(r)]
LReported == [r \in Runs |-> row[r].entity_ids \cup row[r].relationship_ids]

SameRun(r) == /\ Stage(row'[r].status) = Stage(row[r].status)
              /\ (approved'[r] # {}) <=> (approved[r] # {})
              /\ SameGraph(r) /\ SameIds(r)

LEMMA StageIs ==
  /\ Stage("queued") = "active" /\ Stage("running") = "active"
  /\ Stage("awaiting_review") = "parked"
  /\ \A s \in {"none", "succeeded", "failed", "cancelled"} : Stage(s) = s
BY DEF Stage

\* Nothing of the contract shows.
LEMMA Hidden ==
  ASSUME \A r \in Runs : SameRun(r)
  PROVE  UNCHANGED Lifecycle!lifecycleVars
<1>1. UNCHANGED <<LStatus, LApproved, LWritten, LReported>>
  BY DEF SameRun, SameGraph, SameIds, LStatus, LApproved, LWritten, LReported
<1> QED
  BY <1>1 DEF Lifecycle!lifecycleVars, LStatus, LApproved, LWritten, LReported

\* What shows when one run has changed.
LEMMA Shown ==
  ASSUME NEW r \in Runs, \A s \in Runs : s # r => SameRun(s)
  PROVE  /\ LStatus' = [LStatus EXCEPT ![r] = Stage(row'[r].status)]
         /\ LStatus[r] = Stage(row[r].status)
         /\ LApproved' = IF approved'[r] # {} THEN LApproved \cup {r}
                                              ELSE LApproved \ {r}
         /\ r \in LApproved <=> approved[r] # {}
         /\ LWritten' = [LWritten EXCEPT ![r] = EntityIds(r)'
                                                 \cup EdgeIds(r)']
         /\ LWritten[r] = EntityIds(r) \cup EdgeIds(r)
         /\ LReported' = [LReported EXCEPT ![r] =
                             row'[r].entity_ids \cup row'[r].relationship_ids]
         /\ LReported[r] = row[r].entity_ids \cup row[r].relationship_ids
<1>1. LStatus' = [LStatus EXCEPT ![r] = Stage(row'[r].status)]
  BY DEF SameRun, LStatus
<1>2. LApproved' = IF approved'[r] # {} THEN LApproved \cup {r}
                                        ELSE LApproved \ {r}
  BY DEF SameRun, LApproved
<1>3. LWritten' = [LWritten EXCEPT ![r] = EntityIds(r)' \cup EdgeIds(r)']
  BY DEF SameRun, SameGraph, LWritten
<1>4. LReported' = [LReported EXCEPT ![r] =
                      row'[r].entity_ids \cup row'[r].relationship_ids]
  BY DEF SameRun, SameIds, LReported
<1> QED
  BY <1>1, <1>2, <1>3, <1>4 DEF LStatus, LApproved, LWritten, LReported

\* The changes of one variable only.
LEMMA ShownParts ==
  ASSUME NEW r \in Runs, \A s \in Runs : s # r => SameRun(s)
  PROVE  /\ SameGraph(r) => LWritten' = LWritten
         /\ SameIds(r) => LReported' = LReported
         /\ (approved'[r] # {} <=> approved[r] # {}) => LApproved' = LApproved
         /\ Stage(row'[r].status) = Stage(row[r].status) => LStatus' = LStatus
BY DEF SameRun, SameGraph, SameIds, LStatus, LApproved, LWritten, LReported

LEMMA LifecycleInit == Init => Lifecycle!Init
<1> SUFFICES ASSUME Init PROVE Lifecycle!Init
  OBVIOUS
<1>1. /\ \A r \in Runs : Stage(row[r].status) = "none"
      /\ \A r \in Runs : EntityIds(r) = {} /\ EdgeIds(r) = {}
      /\ \A r \in Runs : row[r].entity_ids = {} /\ row[r].relationship_ids = {}
      /\ \A r \in Runs : approved[r] = {}
  BY StageIs DEF Init, BlankRow, EntityIds, EdgeIds
<1> QED
  BY <1>1 DEF Lifecycle!Init
(* Each handler and task step is a step of the contract or does not show.  *)
LEMMA GatewayLifecycle ==
  ASSUME RunInv, NEW s \in Runs, GatewayStep(s)
  PROVE  Lifecycle!Next \/ UNCHANGED Lifecycle!lifecycleVars
<1>0. row \in [Runs -> Rows]
  BY DEF RunInv, RowsGood
<1>1. UNCHANGED approved /\ (\A r : SameGraph(r))
  <2>1. UNCHANGED <<entities, edges, approved>>
    BY DEF GatewayStep, CreateRun, EnqueueRun, EnqueueRunFails, graphVars,
       rowVars
  <2> QED
    BY <2>1, GraphSame
<1>2. CASE UNCHANGED row
  BY <1>1, <1>2, Hidden DEF SameRun, SameIds
<1>3. CASE CreateRun(s)
  <2>1. /\ \A r \in Runs : r # s => SameRun(r)
        /\ row[s].status = "none" /\ row'[s].status = "queued" /\ SameIds(s)
    BY <1>0, <1>1, <1>3 DEF CreateRun, SameRun, SameIds, Rows
  <2>2. /\ LStatus[s] = "none" /\ LStatus' = [LStatus EXCEPT ![s] = "active"]
        /\ UNCHANGED <<LApproved, LWritten, LReported>>
    BY <1>1, <2>1, Shown, ShownParts, StageIs
  <2>3. Lifecycle!Start(s)
    BY <2>2 DEF Lifecycle!Start, Lifecycle!Move, LStatus, LApproved, LWritten,
       LReported
  <2> QED
    BY <2>3 DEF Lifecycle!Next
<1> QED
  BY <1>2, <1>3 DEF GatewayStep, EnqueueRun, EnqueueRunFails, rowVars

LEMMA ReviewLifecycle ==
  ASSUME RunInv, SerialOK, OwnersOK, NEW q \in Requests, ReviewStep(q)
  PROVE  Lifecycle!Next \/ UNCHANGED Lifecycle!lifecycleVars
<1>0. row \in [Runs -> Rows] /\ approved \in [Runs -> SUBSET Drafts]
  BY DEF RunInv, RowsGood, GatewayOK
<1>1. \A r : SameGraph(r)
  <2>1. UNCHANGED <<entities, edges>>
    BY DEF ReviewStep, ReadForReview, MarkCancelled, ApproveReview,
       EnqueueCommit, ReviewFails, graphVars
  <2> QED
    BY <2>1, GraphSame
<1>2. CASE UNCHANGED <<row, approved>>
  BY <1>1, <1>2, Hidden DEF SameRun, SameIds
<1> PICK r : r = req[q].run
  OBVIOUS
<1>3. ASSUME req[q].pc = "checked"
      PROVE  r \in Runs /\ row[r].status = "awaiting_review" /\ approved[r] = {}
  <2>1. r \in Runs
    BY <1>3 DEF RunInv, GatewayOK
  <2>2. row[r].status = "awaiting_review"
    BY <1>3, <2>1 DEF SerialOK, OneReview, Reviewing, Active
  <2> QED
    BY <2>1, <2>2 DEF OwnersOK, PhaseOK, Undecided
<1>4. CASE MarkCancelled(q)
  <2>1. r \in Runs /\ row[r].status = "awaiting_review"
    BY <1>3, <1>4 DEF MarkCancelled
  <2>2. /\ \A s \in Runs : s # r => SameRun(s)
        /\ row'[r].status = "cancelled" /\ SameIds(r) /\ UNCHANGED approved
    BY <1>0, <1>1, <1>4, <2>1 DEF MarkCancelled, SameRun, SameIds, Rows
  <2>3. /\ LStatus[r] = "parked" /\ LStatus' = [LStatus EXCEPT ![r] = "cancelled"]
        /\ UNCHANGED <<LApproved, LWritten, LReported>>
    BY <1>1, <2>1, <2>2, Shown, ShownParts, StageIs
  <2>4. Lifecycle!Reject(r)
    BY <2>3 DEF Lifecycle!Reject, Lifecycle!Move, LStatus, LApproved,
       LWritten, LReported
  <2> QED
    BY <2>1, <2>4 DEF Lifecycle!Next
<1>5. CASE ApproveReview(q)
  <2>1. r \in Runs /\ row[r].status = "awaiting_review"
    BY <1>3, <1>5 DEF ApproveReview
  <2>2. /\ \A s \in Runs : s # r => SameRun(s)
        /\ row'[r].status = "running" /\ SameIds(r) /\ approved'[r] # {}
    BY <1>0, <1>1, <1>5, <2>1 DEF ApproveReview, SameRun, SameIds, Rows
  <2>3. /\ LStatus[r] = "parked" /\ LStatus' = [LStatus EXCEPT ![r] = "active"]
        /\ LApproved' = LApproved \cup {r}
        /\ UNCHANGED <<LWritten, LReported>>
    BY <1>1, <2>1, <2>2, Shown, ShownParts, StageIs
  <2>4. Lifecycle!Approve(r)
    BY <2>3 DEF Lifecycle!Approve, Lifecycle!Move, LStatus, LApproved,
       LWritten, LReported
  <2> QED
    BY <2>1, <2>4 DEF Lifecycle!Next
<1> QED
  BY <1>2, <1>4, <1>5 DEF ReviewStep, ReadForReview, EnqueueCommit,
     ReviewFails, rowVars

\* The writes and appends; every other step in between shows nothing.
Writes(w)  == CreateEntity(w) \/ CreateRelationship(w) \/ CreateLink(w)
Appends(w) == \/ AppendCommittedEntity(w) \/ AppendCommittedRelationship(w)
              \/ AppendLink(w)

LEMMA QuietWork ==
  ASSUME RunInv, NEW w \in Slots, WorkStep(w)
  PROVE  /\ ~Writes(w) => UNCHANGED <<entities, edges>>
         /\ ~Appends(w) => \A r \in Runs : SameIds(r)
<1>0. row \in [Runs -> Rows]
  BY DEF RunInv, RowsGood
<1>1. ~Writes(w) => UNCHANGED <<entities, edges>>
  BY DEF Writes, WorkStep, CommitStep, EnrichStep, RecordNode, ResearchDone,
     DeadlinePasses, NodeRaises, LoadParked, UseExisting,
     AppendCommittedEntity, AttachSources, EmbedEntity, EntitiesDone,
     SkipRelationship, AppendCommittedRelationship, CommitNodeReturns,
     RecordWritingNode, LinksFor, SkipLink, AppendLink, EnrichNodeReturns,
     graphVars
<1>2. ~Appends(w) => \/ UNCHANGED row
                     \/ RecordNode(w) \/ RecordWritingNode(w)
  BY DEF Appends, WorkStep, CommitStep, EnrichStep, ResearchDone,
     DeadlinePasses, NodeRaises, LoadParked, UseExisting, CreateEntity,
     AttachSources, EmbedEntity, EntitiesDone, SkipRelationship,
     CreateRelationship, CommitNodeReturns, LinksFor, SkipLink, CreateLink,
     EnrichNodeReturns, rowVars
<1>3. CASE UNCHANGED row
  BY <1>1, <1>3 DEF SameIds
<1>4. CASE RecordNode(w)
  BY <1>0, <1>1, <1>4 DEF RecordNode, SameIds
<1>5. CASE RecordWritingNode(w)
  BY <1>0, <1>1, <1>5 DEF RecordWritingNode, SameIds
<1> QED
  BY <1>1, <1>2, <1>3, <1>4, <1>5
LEMMA WorkLifecycle ==
  ASSUME RunInv, OwnersOK, SerialOK, ListsInv, AllDraftsOK,
         NEW w \in Slots, WorkStep(w)
  PROVE  Lifecycle!Next \/ UNCHANGED Lifecycle!lifecycleVars
<1> PICK t, r : t = task[w] /\ r = t.run
  OBVIOUS
<1>0. /\ row \in [Runs -> Rows] /\ t.pc # "idle" /\ ListsOK(t) /\ IdsBelow
      /\ nextId \in Nat
  <2>1. Moves(w)
    BY WorkSteps
  <2> QED
    BY <2>1 DEF Moves, RunInv, RowsGood, ListsInv, GraphOK
<1>1. r \in Runs /\ row[r].status \in {"queued", "running"}
  BY <1>0, WorkedIsActive
<1>2. /\ \A s \in Runs : Stage(row'[s].status) = Stage(row[s].status)
      /\ UNCHANGED approved
  BY WorkSteps DEF SameDecision, Moves, Stays
<1>3. \A s \in Runs : s # r => SameRun(s)
  BY <1>2, WorkPhase, IdsOfOthers DEF SameRun
<1>4. LStatus[r] = "active" /\ UNCHANGED <<LStatus, LApproved>>
  BY <1>1, <1>2, <1>3, Shown, ShownParts, StageIs
<1>5. CASE ~Writes(w) /\ ~Appends(w)
  <2>1. \A s \in Runs : SameRun(s)
    BY <1>2, <1>5, QuietWork, GraphSame DEF SameRun
  <2> QED
    BY <2>1, Hidden
<1>6. CASE Writes(w)
  <2>1. t.pc \in {"ents", "rels", "enrich"}
    BY <1>6 DEF Writes, CreateEntity, CreateRelationship, CreateLink
  <2>2. ~Appends(w)
    BY <2>1 DEF Appends, AppendCommittedEntity, AppendCommittedRelationship,
       AppendLink
  <2>3. SameIds(r)
    BY <1>1, <2>2, QuietWork
  <2>4. EntityIds(r)' \cup EdgeIds(r)'
          = (EntityIds(r) \cup EdgeIds(r)) \cup {nextId}
    <3>1. CASE CreateEntity(w)
      <4>1. EntityIds(r)' = EntityIds(r) \cup {nextId} /\ UNCHANGED edges
        BY <1>0, <3>1, WritesFresh DEF CreateEntity
      <4>2. EdgeIds(r)' = EdgeIds(r)
        BY <4>1 DEF EdgeIds
      <4> QED
        BY <4>1, <4>2
    <3>2. CASE CreateRelationship(w) \/ CreateLink(w)
      <4>1. EdgeIds(r)' = EdgeIds(r) \cup {nextId} /\ UNCHANGED entities
        BY <1>0, <3>2, WritesFresh DEF CreateRelationship, CreateLink
      <4>2. EntityIds(r)' = EntityIds(r)
        BY <4>1 DEF EntityIds
      <4> QED
        BY <4>1, <4>2
    <3> QED
      BY <1>6, <3>1, <3>2 DEF Writes
  <2>5. /\ nextId \notin EntityIds(r) \cup EdgeIds(r)
        /\ EntityIds(r) = row[r].entity_ids
        /\ EdgeIds(r) = row[r].relationship_ids
    <3>1. nextId \notin EntityIds(r) \cup EdgeIds(r)
      BY <1>0, WritesFresh
    <3>2. /\ EntityIds(r) = row[r].entity_ids
          /\ EdgeIds(r) = row[r].relationship_ids
      BY <1>0, <2>1 DEF ListsOK, ListsAt, Working, EntityPc, RelationshipPc,
         LinkPc
    <3> QED
      BY <3>1, <3>2
  <2>6. /\ LWritten' = [LWritten EXCEPT ![r] = LWritten[r] \cup {nextId}]
        /\ nextId \notin LWritten[r]
        /\ LWritten[r] \subseteq LReported[r]
        /\ LReported' = LReported
    BY <1>1, <1>3, <2>3, <2>4, <2>5, Shown, ShownParts
  <2>7. nextId \in LWritten'[r] \ LWritten[r]
    BY <1>1, <2>6 DEF LWritten
  <2>8. ReviewSettings = {TRUE} => r \in LApproved
    BY <1>1, <1>3, <2>1, WriterIsApproved DEF LApproved
  <2>9. Lifecycle!Write(r)
    BY <1>0, <1>4, <2>6, <2>7, <2>8
       DEF Lifecycle!Write, LStatus, LApproved, LWritten, LReported
  <2> QED
    BY <1>1, <2>9 DEF Lifecycle!Next
<1>7. CASE Appends(w)
  <2>1. t.pc \in {"append_ent", "append_rel", "append_link"}
    BY <1>7 DEF Appends, AppendCommittedEntity, AppendCommittedRelationship,
       AppendLink
  <2>2. ~Writes(w)
    BY <2>1 DEF Writes, CreateEntity, CreateRelationship, CreateLink
  <2>3. SameGraph(r)
    BY <2>2, QuietWork, GraphSame
  <2>4. row'[r].entity_ids \cup row'[r].relationship_ids
          = row[r].entity_ids \cup row[r].relationship_ids \cup {t.cur}
    BY <1>0, <1>1, <1>7
       DEF Appends, AppendCommittedEntity, AppendCommittedRelationship,
           AppendLink, Rows
  <2>5. EntityIds(r) \cup EdgeIds(r)
          = row[r].entity_ids \cup row[r].relationship_ids \cup {t.cur}
    BY <1>0, <2>1 DEF ListsOK, ListsAt, Working, EntityPc, RelationshipPc,
       LinkPc
  <2>6. /\ LReported' = [LReported EXCEPT ![r] = LWritten[r]]
        /\ LWritten' = LWritten
    <3>1. row'[r].entity_ids \cup row'[r].relationship_ids = LWritten[r]
      BY <1>1, <1>3, <2>4, <2>5, Shown
    <3> QED
      BY <1>1, <1>3, <2>3, <3>1, Shown, ShownParts
  <2>7. Lifecycle!Report(r)
    BY <1>4, <2>6
       DEF Lifecycle!Report, LStatus, LApproved, LWritten, LReported
  <2> QED
    BY <1>1, <2>7 DEF Lifecycle!Next
<1> QED
  BY <1>5, <1>6, <1>7

LEMMA WorkerLifecycle ==
  ASSUME RunInv, OwnersOK, SerialOK, ListsInv, AllDraftsOK,
         \A r \in Runs : Untouched(r), NEW w \in Slots, WorkerStep(w)
  PROVE  Lifecycle!Next \/ UNCHANGED Lifecycle!lifecycleVars
<1>0. row \in [Runs -> Rows] /\ task \in [Slots -> Tasks]
  BY DEF RunInv, RowsGood, TasksGood
<1>1. CASE WorkStep(w)
  BY <1>1, WorkLifecycle
<1>2. CASE Receive(w) \/ TaskDies(w) \/ Crash(w)
  <2>1. UNCHANGED <<row, approved, entities, edges>>
    BY <1>2 DEF Receive, TaskDies, Crash, graphVars, rowVars
  <2> QED
    BY <2>1, GraphSame, Hidden DEF SameRun, SameIds
<1> PICK t, r : t = task[w] /\ r = t.run
  OBVIOUS
<1>3. ASSUME MarkRunning(w) \/ MarkAwaitingReview(w) \/ MarkSucceeded(w)
               \/ MarkFailed(w)
      PROVE  /\ r \in Runs /\ row[r].status \in {"queued", "running"}
             /\ UNCHANGED approved /\ (\A s : SameGraph(s))
             /\ \A s \in Runs : s # r => row'[s] = row[s] /\ SameRun(s)
  <2>1. /\ UNCHANGED <<entities, edges, approved>> /\ t.pc # "idle"
    BY <1>3 DEF MarkRunning, MarkAwaitingReview, MarkSucceeded, MarkFailed,
       graphVars
  <2>2. r \in Runs /\ row[r].status \in {"queued", "running"}
    BY <2>1, WorkedIsActive
  <2>3. \A s : SameGraph(s)
    BY <2>1, GraphSame
  <2>4. \A s \in Runs : s # r => row'[s] = row[s]
    BY <1>3, RowOfTask
  <2> QED
    BY <2>1, <2>2, <2>3, <2>4 DEF SameRun, SameIds
<1>4. CASE MarkRunning(w)
  <2>1. row'[r].status = "running" /\ SameIds(r)
    BY <1>0, <1>3, <1>4 DEF MarkRunning, SameIds, Rows
  <2>2. \A s \in Runs : SameRun(s)
    BY <1>3, <1>4, <2>1, StageIs DEF SameRun
  <2> QED
    BY <2>2, Hidden
<1>5. CASE MarkAwaitingReview(w)
  <2>1. row'[r].status = "awaiting_review" /\ SameIds(r)
    BY <1>0, <1>3, <1>5 DEF MarkAwaitingReview, SameIds, Rows
  <2>2. IsRunTask(w, r) /\ t.pc = "park"
    BY <1>5 DEF MarkAwaitingReview, OwnersOK, ResearchIsRun, IsRunTask
  <2>3. Nothing(r)
    BY <1>3, <1>5, <2>2 DEF Untouched, Early
  <2>4. approved[r] = {}
    BY <1>3, <1>5, <2>2 DEF OwnersOK, PhaseOK, Undecided, RunOwned
  <2>5. /\ LStatus[r] = "active" /\ LStatus' = [LStatus EXCEPT ![r] = "parked"]
        /\ r \notin LApproved /\ LWritten[r] = {}
        /\ UNCHANGED <<LApproved, LWritten, LReported>>
    BY <1>3, <1>5, <2>1, <2>3, <2>4, Shown, ShownParts, StageIs DEF Nothing
  <2>6. Lifecycle!Park(r)
    BY <2>5 DEF Lifecycle!Park, Lifecycle!Move, LStatus, LApproved, LWritten,
       LReported
  <2> QED
    BY <1>3, <1>5, <2>6 DEF Lifecycle!Next
<1>6. CASE MarkSucceeded(w)
  <2>1. /\ row'[r].status = "succeeded"
        /\ row'[r].entity_ids = t.ents /\ row'[r].relationship_ids = t.rels
    BY <1>0, <1>3, <1>6 DEF MarkSucceeded, Rows
  <2>2. t.ents = EntityIds(r) /\ t.rels = EdgeIds(r)
    <3>1. t.pc = "finish" /\ ListsOK(t)
      BY <1>6 DEF MarkSucceeded, ListsInv
    <3> QED
      BY <3>1 DEF ListsOK, ListsAt
  <2>3. /\ LStatus[r] = "active"
        /\ LStatus' = [LStatus EXCEPT ![r] = "succeeded"]
        /\ LReported' = [LReported EXCEPT ![r] = LWritten[r]]
        /\ UNCHANGED <<LApproved, LWritten>>
    <3>1. row'[r].entity_ids \cup row'[r].relationship_ids = LWritten[r]
      BY <1>3, <1>6, <2>1, <2>2, Shown
    <3>2. LReported' = [LReported EXCEPT ![r] = LWritten[r]]
      BY <1>3, <1>6, <3>1, Shown, ZenonT(60)
    <3>3. /\ LStatus[r] = "active"
          /\ LStatus' = [LStatus EXCEPT ![r] = "succeeded"]
      BY <1>3, <1>6, <2>1, Shown, StageIs
    <3>4. UNCHANGED <<LApproved, LWritten>>
      BY <1>3, <1>6, ShownParts
    <3> QED
      BY <3>2, <3>3, <3>4
  <2>4. Lifecycle!Succeed(r)
    BY <2>3 DEF Lifecycle!Succeed, Lifecycle!Move, LStatus, LApproved,
       LWritten, LReported
  <2> QED
    BY <1>3, <1>6, <2>4 DEF Lifecycle!Next
<1>7. CASE MarkFailed(w)
  <2>1. /\ row'[r].status = "failed"
        /\ row'[r].entity_ids = t.ents /\ row'[r].relationship_ids = t.rels
    BY <1>0, <1>3, <1>7 DEF MarkFailed, Rows
  <2>2. t.ents \subseteq EntityIds(r) /\ t.rels \subseteq EdgeIds(r)
    BY DEF RunInv, TasksGood, TaskGood, TaskReal
  <2>3. /\ LStatus[r] = "active" /\ LStatus' = [LStatus EXCEPT ![r] = "failed"]
        /\ LReported' = [LReported EXCEPT ![r] = t.ents \cup t.rels]
        /\ t.ents \cup t.rels \subseteq LWritten[r]
        /\ UNCHANGED <<LApproved, LWritten>>
    BY <1>3, <1>7, <2>1, <2>2, Shown, ShownParts, StageIs
  <2>4. LReported'[r] = t.ents \cup t.rels
    BY <1>3, <1>7, <2>3 DEF LReported
  <2>5. Lifecycle!Fail(r)
    BY <2>3, <2>4 DEF Lifecycle!Fail, Lifecycle!Move, LStatus, LApproved,
       LWritten, LReported
  <2> QED
    BY <1>3, <1>7, <2>5 DEF Lifecycle!Next
<1> QED
  BY <1>1, <1>2, <1>4, <1>5, <1>6, <1>7, OtherSteps

(* The statuses of the rows, the approvals, the graph and the ids the rows *)
(* report follow the contract RunLifecycle, whatever crashes, fails or     *)
(* interleaves, for any number of runs, workers and requests: a run is     *)
(* approved at most once, written to only while it is active and one write *)
(* ahead of its row, never reopened, and it succeeds with all it wrote.    *)
THEOREM RunsFollowTheContract ==
  ASSUME SerialReviews
  PROVE  Spec => ImplementsLifecycle
<1>1. Init => Lifecycle!Init
  BY LifecycleInit
<1>2. RunInv /\ OwnersOK /\ SerialOK /\ (\A r \in Runs : Untouched(r))
        /\ ListsInv /\ AllDraftsOK /\ [Next]_vars
        => [Lifecycle!Next]_(Lifecycle!lifecycleVars)
  <2> SUFFICES ASSUME RunInv, OwnersOK, SerialOK, \A r \in Runs : Untouched(r),
                      ListsInv, AllDraftsOK, [Next]_vars
               PROVE  Lifecycle!Next \/ UNCHANGED Lifecycle!lifecycleVars
    OBVIOUS
  <2>1. CASE UNCHANGED vars
    BY <2>1, Hidden
       DEF vars, SameRun, SameGraph, SameIds, EntityIds, EdgeIds
  <2> QED
    BY <2>1, GatewayLifecycle, ReviewLifecycle, WorkerLifecycle DEF Next
<1> QED
  BY <1>1, <1>2, RunInvariant, OwnersInvariant, SerialInvariant,
     UntouchedInvariant, ListsInvariant, DraftsInvariant, PTL
     DEF Spec, ImplementsLifecycle, Lifecycle!Spec

-----------------------------------------------------------------------------
(* What a run that succeeds stands for: the report of its research phase   *)
(* travels from the row to the task and back, the node has written or      *)
(* noted every item of the draft it has taken from its list, and of every  *)
(* entity it is known whether its embedding and sources are stored.        *)
Kept(r, a, s, src) == /\ report[r] # NULL /\ a = report[r].analysis
                      /\ report[r].skipped \subseteq s
                      /\ src = report[r].sources

KeptOK(t) == t.pc \in Working \cup {"park"} =>
               /\ Kept(t.run, t.analysis, t.skipped, t.sources)
               /\ t.structured = Agreed(t.run)

\* M is what the run's entities are, todo what is left of the draft's.
ItemsAt(t, M) ==
  LET new == t.structured.entities \ Existing IN
  /\ t.pc \in Working => \A e, f \in M : e.item = f.item => e = f
  /\ t.pc \in EntityPc => {e.item : e \in M} = new \ t.todo
  /\ t.pc \in Working \ EntityPc => new \subseteq {e.item : e \in M}

\* D is what the run's edges are.
Settled(x, D, s) == (\E d \in D : d.item = x) \/ Note("rel", x) \in s

EdgesAt(t, D) ==
  /\ t.pc \in RelationshipPc =>
       \A x \in t.structured.relationships \ t.todo : Settled(x, D, t.skipped)
  /\ t.pc \in Working \ (EntityPc \cup RelationshipPc) =>
       \A x \in t.structured.relationships : Settled(x, D, t.skipped)

StoresAt(t, M, so, em) ==
  t.pc \in Working => \A e \in M :
    /\ \/ e.id \in em \/ Note("embed", e.id) \in t.skipped
       \/ t.pc \in {"append_ent", "attach", "embed"} /\ e.id = t.cur
    /\ t.sources =>
         \/ e.id \in so \/ Note("attach", e.id) \in t.skipped
         \/ t.pc \in {"append_ent", "attach"} /\ e.id = t.cur

EntitiesOf(r) == {e \in entities : e.run = r}
EdgesOf(r)    == {x \in edges : x.run = r}

ContentsOK(t) == /\ KeptOK(t) /\ ItemsAt(t, EntitiesOf(t.run))
                 /\ EdgesAt(t, EdgesOf(t.run))
                 /\ StoresAt(t, EntitiesOf(t.run), sourced, embedded)

\* The row holds on to the report while the run waits, and for its commit.
ReportWaits(r) ==
  row[r].status = "awaiting_review" \/ CommitOwned(r) =>
    /\ row[r].pending # NULL /\ row[r].result # NULL
    /\ Kept(r, row[r].result.analysis, row[r].result.skipped, row[r].sources)

\* SucceededIsComplete, run by run.
Complete(r) ==
  row[r].status = "succeeded" =>
    /\ report[r] # NULL
    /\ row[r].result.analysis = report[r].analysis
    /\ report[r].skipped \subseteq row[r].result.skipped
    /\ row[r].entity_ids = EntityIds(r)
    /\ row[r].relationship_ids = EdgeIds(r)
    /\ row[r].result.entities_created = Cardinality(EntityIds(r))
    /\ row[r].result.relationships_created = Cardinality(EdgeIds(r))
    /\ \A i \in Agreed(r).entities \ Existing :
         Cardinality({e \in EntitiesOf(r) : e.item = i}) = 1
    /\ \A x \in Agreed(r).relationships :
         Settled(x, EdgesOf(r), row[r].result.skipped)
    /\ \A e \in EntitiesOf(r) :
         /\ e.id \in embedded \/ Note("embed", e.id) \in row[r].result.skipped
         /\ report[r].sources =>
              \/ e.id \in sourced
              \/ Note("attach", e.id) \in row[r].result.skipped

CompleteInv == /\ \A w \in Slots : ContentsOK(task[w])
               /\ \A r \in Runs : ReportWaits(r) /\ Complete(r)

LEMMA CompleteIs == (\A r \in Runs : Complete(r)) => SucceededIsComplete
<1> SUFFICES ASSUME NEW r \in Runs, Complete(r), row[r].status = "succeeded"
             PROVE  LET mine == {e \in entities : e.run = r}
                        notes == row[r].result.skipped
                    IN
                    /\ report[r] # NULL
                    /\ row[r].result.analysis = report[r].analysis
                    /\ report[r].skipped \subseteq notes
                    /\ row[r].entity_ids = EntityIds(r)
                    /\ row[r].relationship_ids = EdgeIds(r)
                    /\ row[r].result.entities_created
                         = Cardinality(EntityIds(r))
                    /\ row[r].result.relationships_created
                         = Cardinality(EdgeIds(r))
                    /\ \A i \in Agreed(r).entities \ Existing :
                         Cardinality({e \in mine : e.item = i}) = 1
                    /\ \A x \in Agreed(r).relationships :
                         \/ \E e \in edges : e.run = r /\ e.item = x
                         \/ Note("rel", x) \in notes
                    /\ \A e \in mine :
                         /\ e.id \in embedded \/ Note("embed", e.id) \in notes
                         /\ report[r].sources =>
                              e.id \in sourced \/ Note("attach", e.id) \in notes
  BY DEF SucceededIsComplete
<1>1. \A x : Settled(x, EdgesOf(r), row[r].result.skipped) =>
              \/ \E e \in edges : e.run = r /\ e.item = x
              \/ Note("rel", x) \in row[r].result.skipped
  BY DEF Settled, EdgesOf
<1> QED
  BY <1>1 DEF Complete, EntitiesOf

\* Past the start a task's report and draft stay, and its notes only grow.
LEMMA WorkFields ==
  ASSUME RunInv, NEW w \in Slots, WorkStep(w), ~ResearchDone(w),
         ~LoadParked(w), NEW t, t = task[w]
  PROVE  /\ task'[w].structured = t.structured /\ task'[w].analysis = t.analysis
         /\ task'[w].sources = t.sources /\ t.skipped \subseteq task'[w].skipped
         /\ task'[w].pc \in Working => t.pc \in Working
         /\ task'[w].pc # "park"
<1>0. task \in [Slots -> Tasks] /\ t \in Tasks
  BY DEF RunInv, TasksGood
<1> USE DEF Working, EntityPc, RelationshipPc, LinkPc
<1>1. CASE RecordNode(w)
  BY <1>0, <1>1 DEF RecordNode, Tasks
<1>2. CASE UseExisting(w)
  BY <1>0, <1>2 DEF UseExisting, Tasks
<1>3. CASE CreateEntity(w)
  BY <1>0, <1>3 DEF CreateEntity, Tasks
<1>4. CASE AppendCommittedEntity(w)
  BY <1>0, <1>4 DEF AppendCommittedEntity, Tasks
<1>5. CASE AttachSources(w)
  <2>1. PICK s : /\ task'[w] = [t EXCEPT !.pc = "embed", !.skipped = s]
                 /\ t.skipped \subseteq s
    BY <1>5, BestEffort
  <2>2. t.pc = "attach"
    BY <1>5 DEF AttachSources
  <2> QED
    BY <1>0, <2>1, <2>2 DEF Tasks
<1>6. CASE EmbedEntity(w)
  <2>1. PICK s : /\ task'[w] = [t EXCEPT !.pc = "ents", !.skipped = s]
                 /\ t.skipped \subseteq s
    BY <1>6, BestEffort, ZenonT(60)
  <2>2. t.pc = "embed"
    BY <1>6 DEF EmbedEntity
  <2> QED
    BY <1>0, <2>1, <2>2 DEF Tasks
<1>7. CASE EntitiesDone(w)
  BY <1>0, <1>7 DEF EntitiesDone, Tasks
<1>8. CASE SkipRelationship(w)
  BY <1>0, <1>8 DEF SkipRelationship, Tasks
<1>9. CASE CreateRelationship(w)
  BY <1>0, <1>9 DEF CreateRelationship, Tasks
<1>10. CASE AppendCommittedRelationship(w)
  BY <1>0, <1>10 DEF AppendCommittedRelationship, Tasks
<1>11. CASE CommitNodeReturns(w)
  BY <1>0, <1>11 DEF CommitNodeReturns, Tasks
<1>12. CASE RecordWritingNode(w)
  BY <1>0, <1>12 DEF RecordWritingNode, Tasks
<1>13. CASE LinksFor(w)
  BY <1>0, <1>13 DEF LinksFor, Tasks
<1>14. CASE SkipLink(w)
  BY <1>0, <1>14 DEF SkipLink, Tasks
<1>15. CASE CreateLink(w)
  BY <1>0, <1>15 DEF CreateLink, Tasks
<1>16. CASE AppendLink(w)
  BY <1>0, <1>16 DEF AppendLink, Tasks
<1>17. CASE EnrichNodeReturns(w)
  BY <1>0, <1>17 DEF EnrichNodeReturns, Tasks
<1>18. CASE DeadlinePasses(w)
  BY <1>0, <1>18 DEF DeadlinePasses, GuardedPc, Tasks
<1>19. CASE NodeRaises(w)
  BY <1>0, <1>19 DEF NodeRaises, CanRaise, Tasks
<1> QED
  BY <1>1, <1>2, <1>3, <1>4, <1>5, <1>6, <1>7, <1>8, <1>9, <1>10, <1>11, <1>12,
     <1>13, <1>14, <1>15, <1>16, <1>17, <1>18, <1>19
     DEF WorkStep, CommitStep, EnrichStep

-----------------------------------------------------------------------------
(* How a step moves a task through the loops of the two writing nodes.     *)
ItemsMove(t, n) ==
  \/ n.pc \notin Working
  \/ /\ t.pc \in EntityPc /\ n.pc \in EntityPc
     /\ n.todo \ Existing = t.todo \ Existing
  \/ t.pc \in EntityPc /\ n.pc \in Working \ EntityPc /\ t.todo = {}
  \/ t.pc \in Working \ EntityPc /\ n.pc \in Working \ EntityPc

EdgesMove(t, n, D1) ==
  \/ n.pc \notin Working \/ n.pc \in EntityPc
  \/ n.pc \in RelationshipPc /\ n.todo = t.structured.relationships
  \/ /\ n.pc \in RelationshipPc /\ t.pc \in RelationshipPc
     /\ \A x \in t.todo \ n.todo : Settled(x, D1, n.skipped)
  \/ /\ n.pc \in Working \ (EntityPc \cup RelationshipPc)
     /\ t.pc \in RelationshipPc /\ t.todo = {}
  \/ /\ n.pc \in Working \ (EntityPc \cup RelationshipPc)
     /\ t.pc \in Working \ (EntityPc \cup RelationshipPc)

StoresMove(t, n, so1, em1) ==
  /\ t.pc \in {"append_ent", "attach", "embed"} /\ n.pc \in Working =>
       \/ n.pc \in {"append_ent", "attach", "embed"} /\ n.cur = t.cur
       \/ t.cur \in em1 \/ Note("embed", t.cur) \in n.skipped
  /\ t.pc \in {"append_ent", "attach"} /\ t.sources /\ n.pc \in Working =>
       \/ n.pc \in {"append_ent", "attach"} /\ n.cur = t.cur
       \/ t.cur \in so1 \/ Note("attach", t.cur) \in n.skipped

(* What a step of the task leaves of what it has done.                     *)
\* The entities stay, and the list of drafts loses none that is new.
LEMMA ItemsStay ==
  ASSUME NEW t, NEW n, NEW M, ItemsAt(t, M), n.structured = t.structured,
         ItemsMove(t, n)
  PROVE  ItemsAt(n, M)
<1> PICK new : new = t.structured.entities \ Existing
  OBVIOUS
<1>0. EntityPc \subseteq Working
  BY DEF Working
<1>1. CASE n.pc \notin Working
  BY <1>0, <1>1 DEF ItemsAt
<1>2. CASE /\ t.pc \in EntityPc /\ n.pc \in EntityPc
           /\ n.todo \ Existing = t.todo \ Existing
  <2>1. new \ n.todo = new \ t.todo
    BY <1>2
  <2> QED
    BY <1>0, <1>2, <2>1 DEF ItemsAt
<1>3. CASE t.pc \in EntityPc /\ n.pc \in Working \ EntityPc /\ t.todo = {}
  <2>1. {e.item : e \in M} = new
    BY <1>3 DEF ItemsAt
  <2> QED
    BY <1>0, <1>3, <2>1 DEF ItemsAt
<1>4. CASE t.pc \in Working \ EntityPc /\ n.pc \in Working \ EntityPc
  BY <1>4 DEF ItemsAt
<1> QED
  BY <1>1, <1>2, <1>3, <1>4 DEF ItemsMove

\* Edges are added, notes too, and what leaves the list is written or noted.
LEMMA EdgesStay ==
  ASSUME NEW t, NEW n, NEW D, NEW D1, EdgesAt(t, D), D \subseteq D1,
         n.structured = t.structured, t.skipped \subseteq n.skipped,
         EdgesMove(t, n, D1)
  PROVE  EdgesAt(n, D1)
<1>0. /\ RelationshipPc \subseteq Working
      /\ \A p \in EntityPc : p \notin RelationshipPc
  BY DEF Working, EntityPc, RelationshipPc
<1>1. \A x : Settled(x, D, t.skipped) => Settled(x, D1, n.skipped)
  BY DEF Settled
<1>2. CASE n.pc \notin Working \/ n.pc \in EntityPc
  BY <1>0, <1>2 DEF EdgesAt
<1>3. CASE n.pc \in RelationshipPc /\ n.todo = t.structured.relationships
  BY <1>3 DEF EdgesAt
<1>4. CASE /\ n.pc \in RelationshipPc /\ t.pc \in RelationshipPc
           /\ \A x \in t.todo \ n.todo : Settled(x, D1, n.skipped)
  BY <1>1, <1>4 DEF EdgesAt
<1>5. CASE /\ n.pc \in Working \ (EntityPc \cup RelationshipPc)
           /\ t.pc \in RelationshipPc /\ t.todo = {}
  BY <1>1, <1>5 DEF EdgesAt
<1>6. CASE /\ n.pc \in Working \ (EntityPc \cup RelationshipPc)
           /\ t.pc \in Working \ (EntityPc \cup RelationshipPc)
  BY <1>1, <1>6 DEF EdgesAt
<1> QED
  BY <1>2, <1>3, <1>4, <1>5, <1>6 DEF EdgesMove

\* The entity being worked on keeps its turn, or is stored, or noted.
LEMMA StoresStay ==
  ASSUME NEW t, NEW n, NEW M, NEW so, NEW so1, NEW em, NEW em1,
         StoresAt(t, M, so, em), so \subseteq so1, em \subseteq em1,
         n.sources = t.sources, t.skipped \subseteq n.skipped,
         n.pc \in Working => t.pc \in Working,
         StoresMove(t, n, so1, em1)
  PROVE  StoresAt(n, M, so1, em1)
<1> SUFFICES ASSUME n.pc \in Working, NEW e \in M
             PROVE  /\ \/ e.id \in em1 \/ Note("embed", e.id) \in n.skipped
                       \/ /\ n.pc \in {"append_ent", "attach", "embed"}
                          /\ e.id = n.cur
                    /\ n.sources =>
                         \/ e.id \in so1 \/ Note("attach", e.id) \in n.skipped
                         \/ n.pc \in {"append_ent", "attach"} /\ e.id = n.cur
  BY DEF StoresAt
<1>1. /\ \/ e.id \in em \/ Note("embed", e.id) \in t.skipped
         \/ t.pc \in {"append_ent", "attach", "embed"} /\ e.id = t.cur
      /\ t.sources =>
           \/ e.id \in so \/ Note("attach", e.id) \in t.skipped
           \/ t.pc \in {"append_ent", "attach"} /\ e.id = t.cur
  BY DEF StoresAt
<1> QED
  BY <1>1 DEF StoresMove

\* The history of reports is what ResearchDone makes of it.
ReportTyped == report \in [Runs -> Findings \cup {NULL}]

\* The rows keep the parked report, and the graph of other runs is left alone.
LEMMA WorkGrows ==
  ASSUME RunInv, ReportTyped, NEW w \in Slots, WorkStep(w)
  PROVE  /\ \A r \in Runs : /\ row'[r].result = row[r].result
                            /\ row'[r].sources = row[r].sources
         /\ edges \subseteq edges' /\ sourced \subseteq sourced'
         /\ embedded \subseteq embedded'
         /\ CreateEntity(w) \/ UNCHANGED entities
         /\ \A r : r # task[w].run => /\ EntitiesOf(r)' = EntitiesOf(r)
                                      /\ EdgesOf(r)' = EdgesOf(r)
         /\ ResearchDone(w) \/ UNCHANGED report
         /\ \A r \in Runs : r # task[w].run => report'[r] = report[r]
<1>0. row \in [Runs -> Rows]
  BY DEF RunInv, RowsGood
<1>a. ASSUME UNCHANGED row
      PROVE  \A r \in Runs : /\ row'[r].result = row[r].result
                             /\ row'[r].sources = row[r].sources
  BY <1>a
<1>b. ASSUME UNCHANGED <<entities, edges>>
      PROVE  \A r : EntitiesOf(r)' = EntitiesOf(r) /\ EdgesOf(r)' = EdgesOf(r)
  BY <1>b DEF EntitiesOf, EdgesOf
<1> USE DEF rowVars, graphVars
<1>1. CASE RecordNode(w)
  BY <1>0, <1>a, <1>b, <1>1 DEF RecordNode
<1>2. CASE ResearchDone(w)
  <2>1. \A r \in Runs : r # task[w].run => report'[r] = report[r]
    BY <1>2 DEF ResearchDone, ReportTyped
  <2> QED
    BY <1>a, <1>b, <1>2, <2>1 DEF ResearchDone
<1>3. CASE LoadParked(w)
  BY <1>0, <1>a, <1>b, <1>3 DEF LoadParked
<1>4. CASE UseExisting(w)
  BY <1>0, <1>a, <1>b, <1>4 DEF UseExisting
<1>5. CASE CreateEntity(w)
  <2>1. PICK e : entities' = entities \cup
                       {[id |-> nextId, run |-> task[w].run, item |-> e]}
    BY <1>5 DEF CreateEntity
  <2>2. UNCHANGED <<row, edges, sourced, embedded, report>>
    BY <1>5 DEF CreateEntity
  <2>3. \A r : r # task[w].run => EntitiesOf(r)' = EntitiesOf(r)
    BY <2>1 DEF EntitiesOf
  <2> QED
    BY <1>a, <1>5, <2>2, <2>3 DEF EdgesOf
<1>6. CASE AppendCommittedEntity(w)
  BY <1>0, <1>a, <1>b, <1>6 DEF AppendCommittedEntity
<1>7. CASE AttachSources(w)
  BY <1>a, <1>b, <1>7 DEF AttachSources
<1>8. CASE EmbedEntity(w)
  BY <1>a, <1>b, <1>8 DEF EmbedEntity
<1>9. CASE EntitiesDone(w)
  BY <1>0, <1>a, <1>b, <1>9 DEF EntitiesDone
<1>10. CASE SkipRelationship(w)
  BY <1>0, <1>a, <1>b, <1>10 DEF SkipRelationship
<1>11. CASE CreateRelationship(w)
  BY <1>0, <1>a, <1>11 DEF CreateRelationship, EntitiesOf, EdgesOf
<1>12. CASE AppendCommittedRelationship(w)
  BY <1>0, <1>a, <1>b, <1>12 DEF AppendCommittedRelationship
<1>13. CASE CommitNodeReturns(w)
  BY <1>0, <1>a, <1>b, <1>13 DEF CommitNodeReturns
<1>14. CASE RecordWritingNode(w)
  BY <1>0, <1>a, <1>b, <1>14 DEF RecordWritingNode
<1>15. CASE LinksFor(w)
  BY <1>0, <1>a, <1>b, <1>15 DEF LinksFor
<1>16. CASE SkipLink(w)
  BY <1>0, <1>a, <1>b, <1>16 DEF SkipLink
<1>17. CASE CreateLink(w)
  BY <1>0, <1>a, <1>17 DEF CreateLink, EntitiesOf, EdgesOf
<1>18. CASE AppendLink(w)
  BY <1>0, <1>a, <1>b, <1>18 DEF AppendLink
<1>19. CASE EnrichNodeReturns(w)
  BY <1>0, <1>a, <1>b, <1>19 DEF EnrichNodeReturns
<1>20. CASE DeadlinePasses(w)
  BY <1>0, <1>a, <1>b, <1>20 DEF DeadlinePasses
<1>21. CASE NodeRaises(w)
  BY <1>0, <1>a, <1>b, <1>21 DEF NodeRaises
<1> QED
  BY <1>1, <1>2, <1>3, <1>4, <1>5, <1>6, <1>7, <1>8, <1>9, <1>10, <1>11, <1>12,
     <1>13, <1>14, <1>15, <1>16, <1>17, <1>18, <1>19, <1>20, <1>21
     DEF WorkStep, CommitStep, EnrichStep

\* What a research phase reports.
LEMMA Reported ==
  ASSUME RunInv, ReportTyped, NEW w \in Slots, ResearchDone(w)
  PROVE  LET r == task[w].run IN
         /\ r \in Runs /\ report'[r] \in Findings
         /\ task'[w].structured = report'[r].drafts
         /\ task'[w].analysis = report'[r].analysis
         /\ task'[w].skipped = report'[r].skipped
         /\ task'[w].sources = report'[r].sources
         /\ task'[w].todo = report'[r].drafts.entities
         /\ task'[w].pc \in {"park", "ents"}
         /\ \A s \in Runs : s # r => report'[s] = report[s]
<1> PICK t, r : t = task[w] /\ r = t.run
  OBVIOUS
<1>0. task \in [Slots -> Tasks] /\ t \in Tasks /\ r \in Runs
  BY DEF RunInv, TasksGood, TaskGood, TaskOK, ResearchDone
<1> PICK d \in Drafts, rep \in Reports, s \in BOOLEAN, pc \in AfterResearch :
     /\ task' = [task EXCEPT ![w] =
                  [@ EXCEPT !.pc = pc,
                            !.structured = d,
                            !.todo = d.entities,
                            !.analysis = rep.analysis,
                            !.skipped = rep.skipped,
                            !.sources = s]]
     /\ report' = [report EXCEPT ![task[w].run] = [analysis |-> rep.analysis,
                                                   skipped |-> rep.skipped,
                                                   sources |-> s,
                                                   drafts |-> d]]
  BY DEF ResearchDone
<1> PICK f : f = [analysis |-> rep.analysis, skipped |-> rep.skipped,
                  sources |-> s, drafts |-> d]
  OBVIOUS
<1>1. rep.analysis \in Analyses /\ rep.skipped \in SUBSET Notes
  BY ReportAssumption DEF Analyses
<1>2. /\ f \in Findings /\ f.analysis = rep.analysis
      /\ f.skipped = rep.skipped /\ f.sources = s /\ f.drafts = d
  BY <1>1 DEF Findings
<1>3. report'[r] = f /\ \A o \in Runs : o # r => report'[o] = report[o]
  BY <1>0 DEF ReportTyped
<1>4. /\ task'[w].structured = d /\ task'[w].analysis = rep.analysis
      /\ task'[w].skipped = rep.skipped /\ task'[w].sources = s
      /\ task'[w].todo = d.entities /\ task'[w].pc = pc
  BY <1>0 DEF Tasks
<1> QED
  BY <1>0, <1>2, <1>3, <1>4 DEF AfterResearch

\* No other step reports.
LEMMA ReportChanges ==
  ASSUME RunInv, ReportTyped, [Next]_vars
  PROVE  UNCHANGED report \/ \E w \in Slots : ResearchDone(w)
<1>1. CASE \A w \in Slots : ~WorkerStep(w)
  BY <1>1, OutsideWorkers
<1>2. ASSUME NEW w \in Slots, WorkerStep(w)
      PROVE  UNCHANGED report \/ ResearchDone(w)
  <2>1. CASE WorkStep(w)
    BY <2>1, WorkGrows
  <2>2. CASE ~WorkStep(w)
    BY <1>2, <2>2, OtherSteps DEF Receive, MarkRunning, MarkAwaitingReview,
       MarkSucceeded, MarkFailed, TaskDies, Crash, rowVars
  <2> QED
    BY <2>1, <2>2
<1> QED
  BY <1>1, <1>2

LEMMA ReportsInvariant == Spec => []ReportTyped
<1>1. Init => ReportTyped
  BY DEF Init, ReportTyped
<1>2. RunInv /\ ReportTyped /\ [Next]_vars => ReportTyped'
  <2> SUFFICES ASSUME RunInv, ReportTyped, [Next]_vars PROVE ReportTyped'
    OBVIOUS
  <2>1. ASSUME NEW w \in Slots, ResearchDone(w) PROVE ReportTyped'
    <3>1. /\ report'[task[w].run] \in Findings /\ task[w].run \in Runs
          /\ \A s \in Runs : s # task[w].run => report'[s] = report[s]
      BY <2>1, Reported
    <3>2. \E f : report' = [report EXCEPT ![task[w].run] = f]
      BY <2>1 DEF ResearchDone
    <3> QED
      BY <3>1, <3>2 DEF ReportTyped
  <2> QED
    BY <2>1, ReportChanges DEF ReportTyped
<1> QED
  BY <1>1, <1>2, RunInvariant, PTL DEF Spec

\* Every step but the creation of an entity.
LEMMA WorkMoves ==
  ASSUME RunInv, NEW w \in Slots, WorkStep(w), ~ResearchDone(w),
         ~LoadParked(w), ~CreateEntity(w), NEW t, t = task[w],
         NEW n, n = task'[w], NEW r, r = t.run
  PROVE  /\ ItemsMove(t, n) /\ EdgesMove(t, n, EdgesOf(r)')
         /\ StoresMove(t, n, sourced', embedded')
<1>0. task \in [Slots -> Tasks] /\ t \in Tasks
  BY DEF RunInv, TasksGood
<1> USE DEF Working, EntityPc, RelationshipPc, LinkPc
<1>a. ASSUME n.pc \notin Working
      PROVE  /\ ItemsMove(t, n) /\ EdgesMove(t, n, EdgesOf(r)')
             /\ StoresMove(t, n, sourced', embedded')
  BY <1>a DEF ItemsMove, EdgesMove, StoresMove
<1>b. ASSUME t.pc \in EntityPc, n.pc \in EntityPc, n.pc # "append_ent",
             n.todo \ Existing = t.todo \ Existing,
             StoresMove(t, n, sourced', embedded')
      PROVE  /\ ItemsMove(t, n) /\ EdgesMove(t, n, EdgesOf(r)')
             /\ StoresMove(t, n, sourced', embedded')
  BY <1>b DEF ItemsMove, EdgesMove
<1>c. ASSUME t.pc \in Working \ EntityPc, n.pc \in Working \ EntityPc,
             EdgesMove(t, n, EdgesOf(r)')
      PROVE  /\ ItemsMove(t, n) /\ EdgesMove(t, n, EdgesOf(r)')
             /\ StoresMove(t, n, sourced', embedded')
  BY <1>c DEF ItemsMove, StoresMove
<1>d. ASSUME t.pc \in LinkPc \cup {"record_enrich"},
             n.pc \in LinkPc \cup {"record_enrich", "finish"}
      PROVE  /\ ItemsMove(t, n) /\ EdgesMove(t, n, EdgesOf(r)')
             /\ StoresMove(t, n, sourced', embedded')
  BY <1>d DEF ItemsMove, EdgesMove, StoresMove
<1>1. CASE RecordNode(w)
  BY <1>0, <1>1, <1>a DEF RecordNode, Tasks
<1>2. CASE UseExisting(w)
  <2>1. PICK e \in t.todo \cap Existing :
          /\ n.pc = "ents" /\ n.todo = t.todo \ {e} /\ t.pc = "ents"
    BY <1>0, <1>2 DEF UseExisting, Tasks
  <2>2. n.todo \ Existing = t.todo \ Existing
    BY <2>1
  <2> QED
    BY <1>b, <2>1, <2>2 DEF StoresMove
<1>3. CASE AppendCommittedEntity(w)
  <2>1. /\ t.pc = "append_ent" /\ n.todo = t.todo /\ n.cur = t.cur
        /\ n.pc = IF t.sources THEN "attach" ELSE "embed"
    BY <1>0, <1>3 DEF AppendCommittedEntity, Tasks
  <2> QED
    BY <1>b, <2>1 DEF StoresMove
<1>4. CASE AttachSources(w)
  <2>1. PICK s : /\ n = [t EXCEPT !.pc = "embed", !.skipped = s]
                 /\ \/ t.cur \in sourced'
                    \/ Note("attach", t.cur) \in s
    BY <1>4, BestEffort
  <2>2. /\ t.pc = "attach" /\ n.pc = "embed" /\ n.skipped = s
        /\ n.todo = t.todo /\ n.cur = t.cur
    BY <1>0, <1>4, <2>1 DEF AttachSources, Tasks
  <2> QED
    BY <1>b, <2>1, <2>2 DEF StoresMove
<1>5. CASE EmbedEntity(w)
  <2>1. PICK s : /\ n = [t EXCEPT !.pc = "ents", !.skipped = s]
                 /\ \/ t.cur \in embedded'
                    \/ Note("embed", t.cur) \in s
    BY <1>5, BestEffort, ZenonT(60)
  <2>2. /\ t.pc = "embed" /\ n.pc = "ents" /\ n.skipped = s
        /\ n.todo = t.todo
    BY <1>0, <1>5, <2>1 DEF EmbedEntity, Tasks
  <2> QED
    BY <1>b, <2>1, <2>2 DEF StoresMove
<1>6. CASE EntitiesDone(w)
  <2>1. /\ t.pc = "ents" /\ t.todo = {} /\ n.pc = "rels"
        /\ n.todo = t.structured.relationships
    BY <1>0, <1>6 DEF EntitiesDone, Tasks
  <2> QED
    BY <2>1 DEF ItemsMove, EdgesMove, StoresMove
<1>7. CASE SkipRelationship(w)
  <2>1. PICK x \in t.todo :
          /\ t.pc = "rels" /\ n.pc = "rels" /\ n.todo = t.todo \ {x}
          /\ n.skipped = t.skipped \cup {Note("rel", x)}
    BY <1>0, <1>7 DEF SkipRelationship, Tasks
  <2>2. \A y \in t.todo \ n.todo : Settled(y, EdgesOf(r)', n.skipped)
    BY <2>1 DEF Settled
  <2>3. EdgesMove(t, n, EdgesOf(r)')
    BY <2>1, <2>2 DEF EdgesMove
  <2> QED
    BY <1>c, <2>1, <2>3
<1>8. CASE CreateRelationship(w)
  <2>1. PICK x \in t.todo :
          /\ edges' = edges \cup {[id |-> nextId, run |-> t.run, item |-> x]}
          /\ t.pc = "rels" /\ n.pc = "append_rel" /\ n.todo = t.todo \ {x}
    BY <1>0, <1>8 DEF CreateRelationship, Tasks
  <2> PICK d : d = [id |-> nextId, run |-> t.run, item |-> x]
    OBVIOUS
  <2>2. d \in EdgesOf(r)' /\ d.item = x
    BY <2>1 DEF EdgesOf
  <2>3. \A y \in t.todo \ n.todo : Settled(y, EdgesOf(r)', n.skipped)
    BY <2>1, <2>2 DEF Settled
  <2>4. EdgesMove(t, n, EdgesOf(r)')
    BY <2>1, <2>3 DEF EdgesMove
  <2> QED
    BY <1>c, <2>1, <2>4
<1>9. CASE AppendCommittedRelationship(w)
  <2>1. t.pc = "append_rel" /\ n.pc = "rels" /\ n.todo = t.todo
    BY <1>0, <1>9 DEF AppendCommittedRelationship, Tasks
  <2>2. EdgesMove(t, n, EdgesOf(r)')
    BY <2>1 DEF EdgesMove
  <2> QED
    BY <1>c, <2>1, <2>2
<1>10. CASE CommitNodeReturns(w)
  <2>1. /\ t.pc = "rels" /\ t.todo = {}
        /\ n.pc \in {"record_commit", "enrich"}
    BY <1>0, <1>10 DEF CommitNodeReturns, Tasks
  <2>2. EdgesMove(t, n, EdgesOf(r)')
    BY <2>1 DEF EdgesMove
  <2> QED
    BY <1>c, <2>1, <2>2
<1>11. CASE RecordWritingNode(w)
  <2>1. \/ t.pc = "record_commit" /\ n.pc = "enrich"
        \/ t.pc = "record_enrich" /\ n.pc = "finish"
    BY <1>0, <1>11 DEF RecordWritingNode, Tasks
  <2> QED
    BY <1>d, <2>1
<1>12. CASE LinksFor(w)
  BY <1>0, <1>12, <1>d DEF LinksFor, Tasks
<1>13. CASE SkipLink(w)
  BY <1>0, <1>13, <1>d DEF SkipLink, Tasks
<1>14. CASE CreateLink(w)
  BY <1>0, <1>14, <1>d DEF CreateLink, Tasks
<1>15. CASE AppendLink(w)
  BY <1>0, <1>15, <1>d DEF AppendLink, Tasks
<1>16. CASE EnrichNodeReturns(w)
  BY <1>0, <1>16, <1>d DEF EnrichNodeReturns, Tasks
<1>17. CASE DeadlinePasses(w)
  BY <1>0, <1>17, <1>a DEF DeadlinePasses, Tasks
<1>18. CASE NodeRaises(w)
  BY <1>0, <1>18, <1>a DEF NodeRaises, Tasks
<1> QED
  BY <1>1, <1>2, <1>3, <1>4, <1>5, <1>6, <1>7, <1>8, <1>9, <1>10, <1>11, <1>12,
     <1>13, <1>14, <1>15, <1>16, <1>17, <1>18
     DEF WorkStep, CommitStep, EnrichStep

\* Outside its loops a task claims nothing of what it wrote.
LEMMA NoContents ==
  ASSUME NEW t, t.pc \notin Working \cup {"park"}
  PROVE  /\ KeptOK(t) /\ \A M : ItemsAt(t, M)
         /\ \A D : EdgesAt(t, D)
         /\ \A M, so, em : StoresAt(t, M, so, em)
<1>1. /\ EntityPc \subseteq Working /\ RelationshipPc \subseteq Working
  BY DEF Working
<1> QED
  BY <1>1 DEF KeptOK, ItemsAt, EdgesAt, StoresAt

\* The writing nodes start with the draft and with nothing written.
LEMMA FirstContents ==
  ASSUME NEW n, n.pc \in {"ents", "park"}, n.todo = n.structured.entities
  PROVE  /\ ItemsAt(n, {}) /\ \A D : EdgesAt(n, D)
         /\ \A so, em : StoresAt(n, {}, so, em)
<1> USE DEF Working, EntityPc, RelationshipPc, LinkPc
<1>1. ItemsAt(n, {})
  BY DEF ItemsAt
<1>2. \A D : EdgesAt(n, D)
  BY DEF EdgesAt
<1>3. \A so, em : StoresAt(n, {}, so, em)
  BY DEF StoresAt
<1> QED
  BY <1>1, <1>2, <1>3

\* A run without ids has no entities.
LEMMA NoEntities ==
  ASSUME NEW r, EntityIds(r) = {}
  PROVE  EntitiesOf(r) = {}
BY DEF EntityIds, EntitiesOf

\* The research phase ends with what it reports.
LEMMA ResearchContents ==
  ASSUME RunInv, OwnersOK, ReportTyped, ListsInv, NEW w \in Slots,
         ResearchDone(w)
  PROVE  ContentsOK(task[w])'
<1> PICK t, n, r : t = task[w] /\ n = task'[w] /\ r = t.run
  OBVIOUS
<1>0. WorkStep(w) /\ t.pc = "research"
  BY DEF WorkStep, ResearchDone
<1>1. n.run = r /\ SameDecision(r)
  BY <1>0, WorkSteps, Reported DEF Moves
<1>2. /\ r \in Runs /\ report'[r] \in Findings
      /\ n.structured = report'[r].drafts
      /\ n.analysis = report'[r].analysis
      /\ n.skipped = report'[r].skipped /\ n.sources = report'[r].sources
      /\ n.todo = report'[r].drafts.entities /\ n.pc \in {"park", "ents"}
  BY Reported
<1>3. row'[r].pending = NULL
  <2>1. RunOwned(r) /\ PhaseOK(r)
    BY <1>0, <1>2 DEF OwnersOK, ResearchIsRun, RunOwned, IsRunTask
  <2> QED
    BY <1>1, <2>1 DEF PhaseOK, SameDecision
<1>4. EntitiesOf(r)' = {}
  <2>1. EntityIds(r) = {}
    BY <1>0 DEF ListsInv, ListsOK, ListsAt, Early
  <2>2. UNCHANGED entities
    BY DEF ResearchDone, graphVars
  <2> QED
    BY <2>1, <2>2, NoEntities DEF EntitiesOf
<1>5. KeptOK(task[w])'
  <2>1. report'[r] # NULL
    BY <1>2, NullAssumption
  <2>2. Kept(r, n.analysis, n.skipped, n.sources)'
    BY <1>2, <2>1 DEF Kept
  <2>3. n.structured = Agreed(r)'
    BY <1>2, <1>3 DEF Agreed
  <2> QED
    BY <1>1, <2>2, <2>3 DEF KeptOK
<1>6. /\ ItemsAt(n, {}) /\ (\A D : EdgesAt(n, D))
      /\ \A so, em : StoresAt(n, {}, so, em)
  BY <1>2, FirstContents
<1> QED
  BY <1>1, <1>4, <1>5, <1>6 DEF ContentsOK

\* commit_agent_run starts with what the row kept.
LEMMA ParkedContents ==
  ASSUME RunInv, ReportTyped, ListsInv, NEW w \in Slots, LoadParked(w),
         \A r \in Runs : ReportWaits(r)
  PROVE  ContentsOK(task[w])'
<1> PICK t, n, r : t = task[w] /\ n = task'[w] /\ r = t.run
  OBVIOUS
<1>0. /\ WorkStep(w) /\ t.pc = "start" /\ t.job = "commit"
      /\ task \in [Slots -> Tasks] /\ t \in Tasks /\ r \in Runs
  BY DEF WorkStep, CommitStep, LoadParked, RunInv, TasksGood, TaskGood, TaskOK
<1>1. n.run = r /\ SameDecision(r)
  BY <1>0, WorkSteps DEF Moves
<1>2. /\ row[r].pending # NULL /\ row[r].result # NULL
      /\ Kept(r, row[r].result.analysis, row[r].result.skipped, row[r].sources)
  <2>1. CommitOwned(r)
    BY <1>0 DEF CommitOwned
  <2> QED
    BY <1>0, <2>1 DEF ReportWaits
<1>3. /\ n.pc = "ents" /\ n.structured = row[r].pending
      /\ n.todo = n.structured.entities /\ n.sources = row[r].sources
      /\ n.analysis = row[r].result.analysis
      /\ n.skipped = row[r].result.skipped
  BY <1>0, <1>2 DEF LoadParked, Tasks
<1>4. UNCHANGED <<entities, report>>
  BY DEF LoadParked, graphVars, rowVars
<1>5. EntitiesOf(r)' = {}
  <2>1. EntityIds(r) = {}
    BY <1>0 DEF ListsInv, ListsOK, ListsAt, Early
  <2> QED
    BY <1>4, <2>1, NoEntities DEF EntitiesOf
<1>6. KeptOK(task[w])'
  <2>1. Kept(r, n.analysis, n.skipped, n.sources)'
    BY <1>2, <1>3, <1>4 DEF Kept
  <2>2. n.structured = Agreed(r)'
    BY <1>1, <1>2, <1>3 DEF Agreed, SameDecision
  <2> QED
    BY <1>1, <2>1, <2>2 DEF KeptOK
<1>7. /\ ItemsAt(n, {}) /\ (\A D : EdgesAt(n, D))
      /\ \A so, em : StoresAt(n, {}, so, em)
  BY <1>3, FirstContents
<1> QED
  BY <1>1, <1>5, <1>6, <1>7 DEF ContentsOK

\* A new entity is for a draft that had none.
LEMMA CreateContents ==
  ASSUME RunInv, IdsBelow, NEW w \in Slots, CreateEntity(w), NEW t,
         t = task[w], NEW n, n = task'[w], NEW r, r = t.run,
         t.todo \subseteq t.structured.entities, n.structured = t.structured,
         n.sources = t.sources, n.skipped = t.skipped,
         ItemsAt(t, EntitiesOf(r)), StoresAt(t, EntitiesOf(r), sourced, embedded)
  PROVE  /\ ItemsAt(n, EntitiesOf(r)') /\ (\A D : EdgesAt(n, D))
         /\ StoresAt(n, EntitiesOf(r)', sourced', embedded')
<1>0. task \in [Slots -> Tasks] /\ t \in Tasks
  BY DEF RunInv, TasksGood
<1> PICK M, new : /\ M = EntitiesOf(r)
                  /\ new = t.structured.entities \ Existing
  OBVIOUS
<1>1. PICK e \in t.todo \ Existing :
        /\ entities' = entities \cup
                         {[id |-> nextId, run |-> t.run, item |-> e]}
        /\ t.pc = "ents" /\ n.pc = "append_ent" /\ n.todo = t.todo \ {e}
        /\ n.cur = nextId /\ UNCHANGED <<sourced, embedded>>
  BY <1>0 DEF CreateEntity, Tasks
<1> PICK f : f = [id |-> nextId, run |-> t.run, item |-> e]
  OBVIOUS
<1>2. f.id = nextId /\ f.run = r /\ f.item = e
  OBVIOUS
<1>3. EntitiesOf(r)' = M \cup {f}
  BY <1>1, <1>2 DEF EntitiesOf
<1> USE DEF Working, EntityPc, RelationshipPc, LinkPc
<1>4. /\ \A g, h \in M : g.item = h.item => g = h
      /\ {g.item : g \in M} = new \ t.todo
  BY <1>1 DEF ItemsAt
<1>5. ItemsAt(n, M \cup {f})
  <2>1. e \in new /\ \A g \in M : g.item # e
    BY <1>1, <1>4
  <2>2. \A g, h \in M \cup {f} : g.item = h.item => g = h
    BY <1>2, <1>4, <2>1
  <2>3. {g.item : g \in M \cup {f}} = {g.item : g \in M} \cup {e}
    BY <1>2
  <2>4. {g.item : g \in M \cup {f}} = new \ (t.todo \ {e})
    BY <1>1, <1>4, <2>1, <2>3
  <2> QED
    BY <1>1, <2>2, <2>4 DEF ItemsAt
<1>6. \A D : EdgesAt(n, D)
  BY <1>1 DEF EdgesAt
<1>7. StoresAt(n, M \cup {f}, sourced', embedded')
  BY <1>1, <1>2 DEF StoresAt
<1> QED
  BY <1>3, <1>5, <1>6, <1>7

\* Every step of a task keeps its contents true to the graph.
LEMMA WorkKeepsContents ==
  ASSUME RunInv, OwnersOK, ReportTyped, ListsInv, AllDraftsOK,
         \A r \in Runs : ReportWaits(r), NEW w \in Slots, WorkStep(w),
         ContentsOK(task[w])
  PROVE  ContentsOK(task[w])'
<1> PICK t, n, r : t = task[w] /\ n = task'[w] /\ r = t.run
  OBVIOUS
<1>1. CASE ResearchDone(w)
  BY <1>1, ResearchContents
<1>2. CASE LoadParked(w)
  BY <1>2, ParkedContents
<1>3. CASE ~ResearchDone(w) /\ ~LoadParked(w)
  <2>1. /\ n.structured = t.structured /\ n.analysis = t.analysis
        /\ n.sources = t.sources /\ t.skipped \subseteq n.skipped
        /\ n.pc \in Working => t.pc \in Working
        /\ n.pc # "park"
    BY <1>3, WorkFields
  <2>2. n.run = r /\ r \in Runs /\ SameDecision(r)
    BY WorkSteps DEF Moves, RunInv, TasksGood, TaskGood, TaskOK
  <2>3. /\ UNCHANGED report /\ EdgesOf(r) \subseteq EdgesOf(r)'
        /\ sourced \subseteq sourced' /\ embedded \subseteq embedded'
        /\ CreateEntity(w) \/ EntitiesOf(r)' = EntitiesOf(r)
    BY <1>3, WorkGrows DEF EntitiesOf, EdgesOf
  <2>4. /\ KeptOK(t) /\ ItemsAt(t, EntitiesOf(r)) /\ EdgesAt(t, EdgesOf(r))
        /\ StoresAt(t, EntitiesOf(r), sourced, embedded)
    BY DEF ContentsOK
  <2>5. KeptOK(task[w])'
    <3>1. Agreed(r)' = Agreed(r)
      BY <2>2, <2>3 DEF Agreed, SameDecision
    <3> QED
      BY <2>1, <2>2, <2>3, <2>4, <3>1 DEF KeptOK, Kept
  <2>6. CASE CreateEntity(w)
    <3>0. t \in Tasks /\ t.pc \in EntityPc /\ DraftOK(t)
      BY <2>6 DEF CreateEntity, AllDraftsOK, EntityPc, RunInv, TasksGood
    <3>1. t.todo \subseteq t.structured.entities /\ n.skipped = t.skipped
      <4>1. t.todo \subseteq t.structured.entities
        BY <3>0 DEF DraftOK
      <4>2. n.skipped = t.skipped
        BY <2>6, <3>0, SMTT(30) DEF CreateEntity, Tasks
      <4> QED
        BY <4>1, <4>2
    <3>2. /\ ItemsAt(n, EntitiesOf(r)') /\ (\A D : EdgesAt(n, D))
          /\ StoresAt(n, EntitiesOf(r)', sourced', embedded')
      BY <2>1, <2>4, <2>6, <3>1, CreateContents DEF ListsInv
    <3> QED
      BY <2>2, <2>5, <3>2 DEF ContentsOK
  <2>7. CASE ~CreateEntity(w)
    <3>1. /\ ItemsMove(t, n) /\ EdgesMove(t, n, EdgesOf(r)')
          /\ StoresMove(t, n, sourced', embedded')
      BY <1>3, <2>7, WorkMoves
    <3>2. ItemsAt(n, EntitiesOf(r)')
      BY <2>1, <2>3, <2>4, <2>7, <3>1, ItemsStay
    <3>3. EdgesAt(n, EdgesOf(r)')
      BY <2>1, <2>3, <2>4, <3>1, EdgesStay
    <3>4. StoresAt(n, EntitiesOf(r)', sourced', embedded')
      BY <2>1, <2>3, <2>4, <2>7, <3>1, StoresStay
    <3> QED
      BY <2>2, <2>5, <3>2, <3>3, <3>4 DEF ContentsOK
  <2> QED
    BY <2>6, <2>7
<1> QED
  BY <1>1, <1>2, <1>3

-----------------------------------------------------------------------------
(* The tasks and runs a step does not work on.                             *)
SameStores(r) == /\ EntitiesOf(r)' = EntitiesOf(r) /\ EdgesOf(r)' = EdgesOf(r)
                 /\ SameGraph(r) /\ report'[r] = report[r]
                 /\ sourced \subseteq sourced' /\ embedded \subseteq embedded'

LEMMA ContentsStay ==
  ASSUME NEW t, ContentsOK(t), SameStores(t.run),
         row'[t.run].pending = row[t.run].pending, NEW w, task'[w] = t
  PROVE  ContentsOK(task[w])'
<1>1. /\ ItemsMove(t, t) /\ \A D : EdgesMove(t, t, D)
      /\ \A so, em : StoresMove(t, t, so, em)
  BY DEF ItemsMove, EdgesMove, StoresMove
<1>2. StoresAt(t, EntitiesOf(t.run), sourced', embedded')
  BY <1>1, StoresStay DEF ContentsOK, SameStores
<1>3. KeptOK(task[w])'
  BY DEF ContentsOK, KeptOK, Kept, Agreed, SameStores
<1> QED
  BY <1>2, <1>3 DEF ContentsOK, SameStores

LEMMA CompleteStays ==
  ASSUME NEW r \in Runs, Complete(r), SameStores(r), row'[r] = row[r]
  PROVE  Complete(r)'
<1>1. Agreed(r)' = Agreed(r)
  BY DEF Agreed, SameStores
<1>2. /\ EntitiesOf(r)' = EntitiesOf(r) /\ EdgesOf(r)' = EdgesOf(r)
      /\ EntityIds(r)' = EntityIds(r) /\ EdgeIds(r)' = EdgeIds(r)
      /\ report'[r] = report[r] /\ row'[r] = row[r]
      /\ \A i : i \in sourced => i \in sourced'
      /\ \A i : i \in embedded => i \in embedded'
  BY DEF SameStores, SameGraph
<1> QED
  BY <1>1, <1>2 DEF Complete

\* Steps that leave the graph and the reports alone.
LEMMA QuietStores ==
  ASSUME UNCHANGED <<entities, edges, sourced, embedded, report>>
  PROVE  \A r : SameStores(r)
BY GraphSame DEF SameStores, EntitiesOf, EdgesOf

LEMMA WorkStores ==
  ASSUME RunInv, ReportTyped, NEW w \in Slots, WorkStep(w)
  PROVE  \A r \in Runs : r # task[w].run => SameStores(r)
BY WorkGrows, WorkPhase DEF SameStores

\* The worker's other steps write to rows only.
LEMMA OtherStores ==
  ASSUME RunInv, NEW w \in Slots,
         Receive(w) \/ MarkRunning(w) \/ MarkAwaitingReview(w)
           \/ MarkSucceeded(w) \/ MarkFailed(w) \/ TaskDies(w) \/ Crash(w)
  PROVE  /\ \A r : SameStores(r)
         /\ Receive(w) \/ TaskDies(w) \/ Crash(w) => UNCHANGED row
         /\ \A r \in Runs : r # task[w].run => row'[r] = row[r]
<1>1. UNCHANGED <<entities, edges, sourced, embedded, report>>
  BY DEF Receive, MarkRunning, MarkAwaitingReview, MarkSucceeded, MarkFailed,
     TaskDies, Crash, graphVars, rowVars
<1>2. Receive(w) \/ TaskDies(w) \/ Crash(w) => UNCHANGED row
  BY DEF Receive, TaskDies, Crash, rowVars
<1> QED
  BY <1>1, <1>2, QuietStores, RowOfTask

LEMMA WorkerContents ==
  ASSUME RunInv, OwnersOK, SerialOK, ReportTyped, ListsInv, AllDraftsOK,
         CompleteInv, NEW w \in Slots, WorkerStep(w), NEW v \in Slots
  PROVE  ContentsOK(task[v])'
<1>0. /\ \A u \in Slots : ContentsOK(task[u])
      /\ \A r \in Runs : ReportWaits(r)
  BY DEF CompleteInv
<1>1. CASE v # w
  <2>1. task'[v] = task[v]
    BY <1>1, OtherSteps, WorkSteps, Taken DEF Moves, Leaves
  <2>2. CASE task[v].pc \notin Working \cup {"park"}
    BY <2>1, <2>2, NoContents DEF ContentsOK, KeptOK
  <2>3. CASE task[v].pc \in Working \cup {"park"}
    <3>1. task[v].pc # "idle"
      BY <2>3 DEF Working, EntityPc, RelationshipPc, LinkPc
    <3>2. task[v].run \in Runs /\ task[w].run # task[v].run
      BY <1>1, <3>1, AloneOnRun, WorkedIsActive
    <3>3. CASE WorkStep(w)
      BY <1>0, <2>1, <3>2, <3>3, WorkStores, WorkSteps, ContentsStay
         DEF SameDecision
    <3>4. CASE ~WorkStep(w)
      BY <1>0, <2>1, <3>2, <3>4, OtherSteps, OtherStores, ContentsStay
    <3> QED
      BY <3>3, <3>4
  <2> QED
    BY <2>2, <2>3
<1>2. CASE v = w /\ WorkStep(w)
  BY <1>0, <1>2, WorkKeepsContents
<1>3. CASE v = w /\ ~WorkStep(w)
  <2>1. task'[w].pc \in {"idle", "start", "research"}
    <3>1. CASE MarkRunning(w)
      BY <3>1 DEF MarkRunning, RunInv, TasksGood, Tasks
    <3>2. CASE Leaves(w)
      BY <3>2 DEF Leaves, IdleTask
    <3> QED
      BY <1>3, <3>1, <3>2, OtherSteps, Taken
  <2>2. task'[w].pc \notin Working \cup {"park"}
    BY <2>1 DEF Working, EntityPc, RelationshipPc, LinkPc
  <2> QED
    BY <1>3, <2>2, NoContents DEF ContentsOK, KeptOK
<1> QED
  BY <1>1, <1>2, <1>3

\* A row that stays as it is while no commit begins.
LEMMA WaitsStay ==
  ASSUME NEW r \in Runs, ReportWaits(r), report'[r] = report[r],
         CommitOwned(r)' => CommitOwned(r) \/ row[r].status = "awaiting_review",
         row'[r].status = "awaiting_review" =>
           row[r].status = "awaiting_review",
         row'[r].pending = row[r].pending \/ row'[r].pending # NULL,
         row'[r].result = row[r].result, row'[r].sources = row[r].sources
  PROVE  ReportWaits(r)'
BY DEF ReportWaits, Kept

\* What a task leaves on its row when it parks or ends.
LEMMA EndingRows ==
  ASSUME RunInv, NEW w \in Slots, NEW r, r = task[w].run,
         MarkRunning(w) \/ MarkAwaitingReview(w) \/ MarkSucceeded(w)
           \/ MarkFailed(w)
  PROVE  /\ r \in Runs
         /\ MarkRunning(w) \/ MarkFailed(w) =>
              /\ row'[r].status \in {"running", "failed"}
              /\ row'[r].pending = row[r].pending
              /\ row'[r].result = row[r].result
              /\ row'[r].sources = row[r].sources
         /\ MarkAwaitingReview(w) =>
              /\ row'[r].status = "awaiting_review"
              /\ row'[r].pending = task[w].structured
              /\ row'[r].pending # NULL
              /\ row'[r].result = ResultOf(task[w]) /\ row'[r].result # NULL
              /\ row'[r].sources = task[w].sources
         /\ MarkSucceeded(w) =>
              /\ row'[r].status = "succeeded"
              /\ row'[r].pending = row[r].pending
              /\ row'[r].result = ResultOf(task[w])
              /\ row'[r].entity_ids = task[w].ents
              /\ row'[r].relationship_ids = task[w].rels
<1>0. /\ row \in [Runs -> Rows] /\ task[w] \in Tasks /\ TaskGood(task[w])
      /\ r \in Runs
  BY RowOfTask DEF RunInv, RowsGood, TasksGood
<1>1. ResultOf(task[w]) # NULL /\ task[w].structured # NULL
  BY <1>0, ResultTyped, NullAssumption DEF Tasks
<1>2. CASE MarkRunning(w)
  BY <1>0, <1>2 DEF MarkRunning, MarkAwaitingReview, MarkSucceeded, Rows
<1>3. CASE MarkAwaitingReview(w)
  BY <1>0, <1>1, <1>3 DEF MarkRunning, MarkAwaitingReview, MarkSucceeded,
     MarkFailed, Rows
<1>4. CASE MarkSucceeded(w)
  BY <1>0, <1>4 DEF MarkRunning, MarkAwaitingReview, MarkSucceeded,
     MarkFailed, Rows
<1>5. CASE MarkFailed(w)
  BY <1>0, <1>5 DEF MarkRunning, MarkAwaitingReview, MarkSucceeded,
     MarkFailed, Rows
<1> QED
  BY <1>2, <1>3, <1>4, <1>5

\* mark_succeeded.sql: the task at its end stands for what the run wrote.
LEMMA SucceedsComplete ==
  ASSUME RunInv, ListsInv, NEW w \in Slots, MarkSucceeded(w),
         ContentsOK(task[w]), NEW r, r = task[w].run
  PROVE  Complete(r)'
<1> PICK t : t = task[w]
  OBVIOUS
<1>0. t.pc = "finish" /\ "finish" \in Working
  BY DEF MarkSucceeded, Working
<1>1. /\ "finish" \notin EntityPc \cup RelationshipPc
      /\ "finish" \notin Early
  BY DEF EntityPc, RelationshipPc, Early
<1>2. t.ents = EntityIds(r) /\ t.rels = EdgeIds(r)
  BY <1>0 DEF ListsInv, ListsOK, ListsAt
<1>3. /\ Kept(r, t.analysis, t.skipped, t.sources)
      /\ t.structured = Agreed(r)
  BY <1>0 DEF ContentsOK, KeptOK
<1>4. /\ \A e, f \in EntitiesOf(r) : e.item = f.item => e = f
      /\ t.structured.entities \ Existing \subseteq
           {e.item : e \in EntitiesOf(r)}
  BY <1>0, <1>1 DEF ContentsOK, ItemsAt
<1>5. \A x \in t.structured.relationships : Settled(x, EdgesOf(r), t.skipped)
  BY <1>0, <1>1 DEF ContentsOK, EdgesAt
<1>6. \A e \in EntitiesOf(r) :
        /\ e.id \in embedded \/ Note("embed", e.id) \in t.skipped
        /\ t.sources => e.id \in sourced \/ Note("attach", e.id) \in t.skipped
  BY <1>0 DEF ContentsOK, StoresAt
<1>7. /\ SameStores(r) /\ UNCHANGED <<sourced, embedded>>
      /\ EntitiesOf(r)' = EntitiesOf(r) /\ EdgesOf(r)' = EdgesOf(r)
      /\ EntityIds(r)' = EntityIds(r) /\ EdgeIds(r)' = EdgeIds(r)
      /\ report'[r] = report[r]
  BY OtherStores DEF MarkSucceeded, graphVars, SameStores, SameGraph
<1>8. /\ row'[r].result = ResultOf(t) /\ row'[r].pending = row[r].pending
      /\ row'[r].entity_ids = t.ents /\ row'[r].relationship_ids = t.rels
  BY EndingRows
<1>9. /\ row'[r].result.analysis = t.analysis
      /\ row'[r].result.skipped = t.skipped
      /\ row'[r].result.entities_created = Cardinality(EntityIds(r))
      /\ row'[r].result.relationships_created = Cardinality(EdgeIds(r))
  BY <1>2, <1>8 DEF ResultOf
<1>10. Agreed(r)' = t.structured
  BY <1>3, <1>7, <1>8 DEF Agreed
<1>11. \A i \in t.structured.entities \ Existing :
         Cardinality({e \in EntitiesOf(r) : e.item = i}) = 1
  <2> TAKE i \in t.structured.entities \ Existing
  <2>1. PICK e \in EntitiesOf(r) : e.item = i
    BY <1>4
  <2>2. {f \in EntitiesOf(r) : f.item = i} = {e}
    BY <1>4, <2>1
  <2> QED
    BY <2>2, FS_Singleton
<1>12. /\ report'[r] # NULL
       /\ row'[r].result.analysis = report'[r].analysis
       /\ report'[r].skipped \subseteq row'[r].result.skipped
       /\ report'[r].sources = t.sources
  BY <1>3, <1>7, <1>9 DEF Kept
<1> QED
  BY <1>2, <1>5, <1>6, <1>7, <1>8, <1>9, <1>10, <1>11, <1>12, SMTT(30) DEF Complete

\* When a task ends, the commit of its run is over.
LEMMA CommitEnds ==
  ASSUME RunInv, OwnersOK, SerialOK, NEW w \in Slots, Leaves(w), NEW r,
         r = task[w].run
  PROVE  ~CommitOwned(r)'
<1>1. /\ \A v \in Slots : v # w => task[v].run # r
      /\ \A q \in Requests : ~Approving(q, r)
      /\ \A i \in DOMAIN queue : ~IsCommitJob(i, r)
  BY AloneOnRun DEF Leaves
<1>2. /\ \A v \in Slots : v # w => task'[v] = task[v]
      /\ task'[w].run # r
      /\ UNCHANGED <<queue, req>>
  <2>1. r \in Runs
    BY WorkedIsActive DEF Leaves
  <2> QED
    BY <2>1, NullAssumption DEF Leaves, Stays, IdleTask
<1> QED
  BY <1>1, <1>2 DEF CommitOwned, Approving, IsCommitJob

LEMMA WorkerRuns ==
  ASSUME RunInv, OwnersOK, SerialOK, ReportTyped, ListsInv, CompleteInv,
         NEW w \in Slots, WorkerStep(w), NEW r \in Runs
  PROVE  ReportWaits(r)' /\ Complete(r)'
<1>0. /\ ReportWaits(r) /\ Complete(r) /\ PhaseOK(r) /\ IdleSlots
      /\ ContentsOK(task[w])
  BY DEF CompleteInv, OwnersOK
<1>a. ASSUME task[w].pc # "idle", task[w].run = r
      PROVE  row[r].status \in {"queued", "running"}
  BY <1>a, WorkedIsActive
<1>b. CommitOwned(r)' => CommitOwned(r)
  BY <1>0, OtherSteps, WorkSteps, OwnersMove, OwnersLeave, OwnersReceive
     DEF SameOwners
<1>1. CASE WorkStep(w)
  <2>1. /\ Moves(w) /\ SameDecision(r)
        /\ row'[r].result = row[r].result /\ row'[r].sources = row[r].sources
    BY <1>1, WorkSteps, WorkGrows
  <2>2. CASE task[w].run # r
    <3>1. SameStores(r)
      BY <1>1, <2>2, WorkStores
    <3>2. ReportWaits(r)'
      BY <1>0, <1>b, <2>1, <3>1, WaitsStay DEF SameDecision, SameStores
    <3>3. row'[r].status = "succeeded" =>
            row'[r].entity_ids = row[r].entity_ids
              /\ row'[r].relationship_ids = row[r].relationship_ids
      BY <1>1, <2>2, IdsOfOthers DEF SameIds
    <3>4. Complete(r)'
      <4>1. Agreed(r)' = Agreed(r)
        BY <2>1, <3>1 DEF Agreed, SameDecision, SameStores
      <4>2. /\ EntitiesOf(r)' = EntitiesOf(r) /\ EdgesOf(r)' = EdgesOf(r)
            /\ EntityIds(r)' = EntityIds(r) /\ EdgeIds(r)' = EdgeIds(r)
            /\ report'[r] = report[r]
            /\ row'[r].status = row[r].status
            /\ row'[r].result = row[r].result
            /\ \A i : i \in sourced => i \in sourced'
            /\ \A i : i \in embedded => i \in embedded'
        BY <2>1, <3>1 DEF SameStores, SameGraph, SameDecision
      <4> QED
        BY <1>0, <3>3, <4>1, <4>2 DEF Complete
    <3> QED
      BY <3>2, <3>4
  <2>3. CASE task[w].run = r
    <3>1. row'[r].status \in {"queued", "running"}
      BY <1>a, <2>1, <2>3 DEF Moves, SameDecision
    <3>2. Complete(r)'
      BY <3>1 DEF Complete
    <3>3. CASE ResearchDone(w)
      <4>1. RunOwned(r)
        BY <2>3, <3>3 DEF ResearchDone, OwnersOK, ResearchIsRun, RunOwned,
           IsRunTask
      <4>2. ~CommitOwned(r)
        BY <1>0, <4>1 DEF PhaseOK, Undecided
      <4> QED
        BY <1>b, <3>1, <3>2, <4>2 DEF ReportWaits
    <3>4. CASE ~ResearchDone(w)
      <4>1. UNCHANGED report
        BY <1>1, <3>4, WorkGrows
      <4> QED
        BY <1>0, <1>b, <2>1, <3>1, <3>2, <4>1, WaitsStay DEF SameDecision
    <3> QED
      BY <3>3, <3>4
  <2> QED
    BY <2>2, <2>3
<1>2. CASE row'[r] = row[r] /\ SameStores(r)
  <2>1. report'[r] = report[r]
    BY <1>2 DEF SameStores
  <2> QED
    BY <1>0, <1>2, <1>b, <2>1, WaitsStay, CompleteStays
<1>3. CASE Receive(w) \/ TaskDies(w) \/ Crash(w)
  BY <1>2, <1>3, OtherStores
<1>4. CASE (MarkRunning(w) \/ MarkFailed(w)) /\ task[w].run = r
  <2>1. /\ row'[r].status \in {"running", "failed"}
        /\ row'[r].pending = row[r].pending
        /\ row'[r].result = row[r].result /\ row'[r].sources = row[r].sources
    BY <1>4, EndingRows
  <2>2. report'[r] = report[r]
    BY <1>4, OtherStores DEF SameStores
  <2>3. Complete(r)'
    BY <2>1 DEF Complete
  <2> QED
    BY <1>0, <1>b, <2>1, <2>2, <2>3, WaitsStay
<1>5. CASE MarkAwaitingReview(w) /\ task[w].run = r
  <2>1. /\ row'[r].status = "awaiting_review" /\ row'[r].pending # NULL
        /\ row'[r].result = ResultOf(task[w]) /\ row'[r].result # NULL
        /\ row'[r].sources = task[w].sources
    BY <1>5, EndingRows
  <2>2. Kept(r, task[w].analysis, task[w].skipped, task[w].sources)
    BY <1>0, <1>5 DEF ContentsOK, KeptOK, MarkAwaitingReview
  <2>3. report'[r] = report[r]
    BY <1>5, OtherStores DEF SameStores
  <2>4. /\ row'[r].result.analysis = task[w].analysis
        /\ row'[r].result.skipped = task[w].skipped
    BY <2>1 DEF ResultOf
  <2>5. ReportWaits(r)'
    BY <2>1, <2>2, <2>3, <2>4 DEF ReportWaits, Kept
  <2>6. Complete(r)'
    BY <2>1 DEF Complete
  <2> QED
    BY <2>5, <2>6
<1>6. CASE MarkSucceeded(w) /\ task[w].run = r
  <2>1. row'[r].status = "succeeded"
    BY <1>6, EndingRows
  <2>2. ~CommitOwned(r)'
    BY <1>6, OtherSteps, CommitEnds
  <2>3. ReportWaits(r)'
    BY <2>1, <2>2 DEF ReportWaits
  <2> QED
    BY <1>0, <1>6, <2>3, SucceedsComplete
<1>7. CASE /\ MarkRunning(w) \/ MarkAwaitingReview(w) \/ MarkSucceeded(w)
                \/ MarkFailed(w)
           /\ task[w].run # r
  BY <1>2, <1>7, OtherStores
<1> QED
  BY <1>1, <1>3, <1>4, <1>5, <1>6, <1>7, OtherSteps

\* A decision on a run gives it its commit owner, and changes a parked row.
LEMMA GatewayRuns ==
  ASSUME RunInv, OwnersOK, SerialOK, NEW s \in Runs, GatewayStep(s),
         NEW r \in Runs
  PROVE  /\ CommitOwned(r)' => CommitOwned(r)
         /\ \/ row'[r] = row[r]
            \/ /\ row[r].status = "none" /\ row'[r].status = "queued"
               /\ row'[r].pending = row[r].pending
<1>0. row \in [Runs -> Rows] /\ queue \in Seq(Jobs)
  BY DEF RunInv, RowsGood, GatewayOK, Jobs
<1>1. CASE CreateRun(s) \/ EnqueueRunFails(s)
  <2>1. UNCHANGED <<queue, task, req>>
    BY <1>1 DEF CreateRun, EnqueueRunFails
  <2>2. CommitOwned(r)' => CommitOwned(r)
    BY <2>1 DEF CommitOwned
  <2>3. CASE CreateRun(s)
    BY <1>0, <2>2, <2>3 DEF CreateRun, Rows
  <2>4. CASE EnqueueRunFails(s)
    BY <2>2, <2>4 DEF EnqueueRunFails, rowVars
  <2> QED
    BY <1>1, <2>3, <2>4
<1>2. CASE EnqueueRun(s)
  <2> PICK j : j = [job |-> "run", run |-> s]
    OBVIOUS
  <2>1. /\ queue' = Append(queue, j) /\ j \in Jobs /\ j.job = "run"
        /\ UNCHANGED <<task, req, row>>
    BY <1>2 DEF EnqueueRun, Jobs, rowVars
  <2>2. (\E i \in DOMAIN queue' : queue'[i].run = r
                                   /\ queue'[i].job = "commit")
           <=> \E i \in DOMAIN queue : queue[i].run = r
                                        /\ queue[i].job = "commit"
    BY <1>0, <2>1, OwnersPush
  <2>3. CommitOwned(r)' => CommitOwned(r)
    BY <2>1, <2>2 DEF CommitOwned
  <2> QED
    BY <2>1, <2>3
<1> QED
  BY <1>1, <1>2 DEF GatewayStep

LEMMA ReviewRuns ==
  ASSUME RunInv, OwnersOK, SerialOK, NEW q \in Requests, ReviewStep(q),
         NEW r \in Runs
  PROVE  /\ CommitOwned(r)' => \/ CommitOwned(r)
                               \/ row[r].status = "awaiting_review"
         /\ \/ row'[r] = row[r]
            \/ /\ row[r].status = "awaiting_review"
               /\ row'[r].status \in {"running", "cancelled"}
               /\ row'[r].pending # NULL \/ ~CommitOwned(r)'
<1>0. /\ row \in [Runs -> Rows] /\ queue \in Seq(Jobs)
      /\ req \in [Requests -> ReqRecords]
      /\ OneReview(r) /\ PhaseOK(r)
  BY DEF RunInv, RowsGood, GatewayOK, Jobs, SerialOK, OwnersOK
<1>1. /\ \A p \in Requests : p # q => req'[p] = req[p]
      /\ UNCHANGED task
  BY RequestSet
<1>2. CASE EnqueueCommit(q)
  <2> PICK j : j = [job |-> "commit", run |-> req[q].run]
    OBVIOUS
  <2>1. /\ req[q].pc = "approved" /\ req'[q].pc = "done"
        /\ queue' = Append(queue, j) /\ UNCHANGED row
    BY <1>0, <1>2 DEF EnqueueCommit, rowVars, ReqRecords
  <2>2. j \in Jobs /\ j.run = req[q].run /\ j.job = "commit"
    BY <1>0, <2>1 DEF RunInv, GatewayOK, Jobs
  <2>3. (\E i \in DOMAIN queue' : queue'[i].run = r
                                   /\ queue'[i].job = "commit")
           <=> \/ \E i \in DOMAIN queue : queue[i].run = r
                                           /\ queue[i].job = "commit"
               \/ j.run = r
    BY <1>0, <1>1, <2>1, <2>2, OwnersPush
  <2>4. CommitOwned(r)' => CommitOwned(r)
    BY <1>1, <2>1, <2>2, <2>3 DEF CommitOwned
  <2> QED
    BY <2>1, <2>4
<1>3. CASE ~EnqueueCommit(q) /\ ~ApproveReview(q) /\ ~MarkCancelled(q)
  <2>1. UNCHANGED <<queue, row>> /\ req'[q].pc # "approved"
    BY <1>3, RequestSet
  <2> QED
    BY <1>1, <2>1 DEF CommitOwned
<1>4. CASE (MarkCancelled(q) \/ ApproveReview(q)) /\ req[q].run # r
  <2>1. /\ UNCHANGED queue /\ row'[r] = row[r] /\ req'[q].run # r
    BY <1>0, <1>4 DEF MarkCancelled, ApproveReview, ReqRecords
  <2> QED
    BY <1>1, <2>1 DEF CommitOwned
<1>5. CASE (MarkCancelled(q) \/ ApproveReview(q)) /\ req[q].run = r
  <2>1. Reviewing(q, r) /\ req[q].pc = "checked"
    BY <1>5 DEF MarkCancelled, ApproveReview, Reviewing, Active
  <2>2. row[r].status = "awaiting_review"
    BY <1>0, <2>1 DEF OneReview
  <2>3. CASE ApproveReview(q)
    <3>1. req[q].pending # NULL
      BY <1>0, NullAssumption DEF ReqRecords
    <3>2. row'[r].status = "running" /\ row'[r].pending # NULL
      BY <1>0, <1>5, <2>3, <3>1 DEF ApproveReview, Rows
    <3> QED
      BY <2>2, <3>2
  <2>4. CASE MarkCancelled(q)
    <3>1. row'[r].status = "cancelled"
      BY <1>0, <1>5, <2>4 DEF MarkCancelled, Rows
    <3>2. UNCHANGED queue /\ req'[q].pc = "done"
      BY <1>0, <2>4 DEF MarkCancelled, ReqRecords
    <3>3. ~CommitOwned(r)
      BY <1>0, <2>2 DEF PhaseOK, Undecided
    <3>4. ~CommitOwned(r)'
      BY <1>1, <3>2, <3>3 DEF CommitOwned
    <3> QED
      BY <2>2, <3>1, <3>4
  <2> QED
    BY <1>5, <2>3, <2>4
<1> QED
  BY <1>2, <1>3, <1>4, <1>5

\* Creations and reviews, and no step at all.
LEMMA OutsideKeeps ==
  ASSUME RunInv, OwnersOK, SerialOK, CompleteInv, [Next]_vars,
         \A w \in Slots : ~WorkerStep(w)
  PROVE  CompleteInv'
<1>1. /\ UNCHANGED <<task, entities, edges, sourced, embedded, report>>
      /\ \A r \in Runs : /\ row'[r].result = row[r].result
                         /\ row'[r].sources = row[r].sources
  BY OutsideWorkers
<1>2. \A r : SameStores(r)
  BY <1>1, QuietStores
<1>3. ASSUME NEW r \in Runs
      PROVE  /\ CommitOwned(r)' => \/ CommitOwned(r)
                                   \/ row[r].status = "awaiting_review"
             /\ \/ row'[r] = row[r]
                \/ /\ row[r].status = "none" /\ row'[r].status = "queued"
                   /\ row'[r].pending = row[r].pending
                \/ /\ row[r].status = "awaiting_review"
                   /\ row'[r].status \in {"running", "cancelled"}
                   /\ row'[r].pending # NULL \/ ~CommitOwned(r)'
  <2>1. CASE UNCHANGED vars
    BY <2>1 DEF vars, CommitOwned
  <2> QED
    BY <2>1, GatewayRuns, ReviewRuns DEF Next
<1>4. ASSUME NEW r \in Runs PROVE ReportWaits(r)' /\ Complete(r)'
  <2>0. ReportWaits(r) /\ Complete(r) /\ report'[r] = report[r]
    BY <1>1 DEF CompleteInv
  <2>1. CASE row'[r] = row[r]
    BY <1>2, <1>3, <2>0, <2>1, WaitsStay, CompleteStays
  <2>2. CASE row'[r] # row[r]
    <3>1. row'[r].status \in {"queued", "running", "cancelled"}
      BY <1>3, <2>2
    <3>2. Complete(r)'
      BY <3>1 DEF Complete
    <3>3. CASE CommitOwned(r)'
      BY <1>1, <1>3, <2>0, <2>2, <3>1, <3>2, <3>3, WaitsStay
    <3>4. CASE ~CommitOwned(r)'
      BY <3>1, <3>2, <3>4 DEF ReportWaits
    <3> QED
      BY <3>3, <3>4
  <2> QED
    BY <2>1, <2>2
<1>5. ASSUME NEW v \in Slots PROVE ContentsOK(task[v])'
  <2>0. ContentsOK(task[v]) /\ task'[v] = task[v]
    BY <1>1 DEF CompleteInv
  <2>1. CASE task[v].pc \notin Working \cup {"park"}
    BY <2>0, <2>1, NoContents DEF ContentsOK, KeptOK
  <2>2. CASE task[v].pc \in Working \cup {"park"}
    <3>1. task[v].pc # "idle"
      BY <2>2 DEF Working, EntityPc, RelationshipPc, LinkPc
    <3>2. /\ task[v].run \in Runs
          /\ row[task[v].run].status \in {"queued", "running"}
      BY <3>1, WorkedIsActive
    <3>3. row'[task[v].run].pending = row[task[v].run].pending
      BY <1>3, <3>2
    <3> QED
      BY <1>2, <2>0, <3>3, ContentsStay
  <2> QED
    BY <2>1, <2>2
<1> QED
  BY <1>4, <1>5 DEF CompleteInv

LEMMA CompletePreserved ==
  ASSUME RunInv, OwnersOK, SerialOK, ReportTyped, ListsInv, AllDraftsOK,
         CompleteInv, [Next]_vars
  PROVE  CompleteInv'
<1>1. CASE \A w \in Slots : ~WorkerStep(w)
  BY <1>1, OutsideKeeps
<1>2. ASSUME NEW w \in Slots, WorkerStep(w) PROVE CompleteInv'
  BY <1>2, WorkerContents, WorkerRuns DEF CompleteInv
<1> QED
  BY <1>1, <1>2

LEMMA CompleteInit == Init => CompleteInv
<1> SUFFICES ASSUME Init PROVE CompleteInv
  OBVIOUS
<1>1. \A w \in Slots : task[w].pc = "idle"
  BY DEF Init, IdleTask
<1>2. \A w \in Slots : ContentsOK(task[w])
  <2>1. "idle" \notin Working \cup {"park"}
    BY DEF Working, EntityPc, RelationshipPc, LinkPc
  <2> QED
    BY <1>1, <2>1, NoContents DEF ContentsOK
<1>3. ASSUME NEW r \in Runs PROVE ReportWaits(r) /\ Complete(r)
  <2>1. row[r].status = "none"
    BY DEF Init, BlankRow
  <2>2. ~CommitOwned(r)
    <3>1. DOMAIN queue = {}
      BY DEF Init
    <3>2. (\A w \in Slots : task[w].run # r) /\ \A q \in Requests : req[q].run # r
      BY NullAssumption DEF Init, IdleTask, IdleReq
    <3> QED
      BY <3>1, <3>2 DEF CommitOwned
  <2> QED
    BY <2>1, <2>2 DEF ReportWaits, Complete
<1> QED
  BY <1>2, <1>3 DEF CompleteInv

(* commit_node, _finish_succeeded and _commit_agent_run, with or without   *)
(* review, whatever fails or crashes on the way: when a run has succeeded, *)
(* its row and its part of the graph stand for the whole agreed draft and  *)
(* for what the research phase found.                                      *)
THEOREM SucceededRunsAreComplete ==
  ASSUME SerialReviews
  PROVE  Spec => []SucceededIsComplete
<1>1. Init => CompleteInv
  BY CompleteInit
<1>2. RunInv /\ OwnersOK /\ SerialOK /\ ReportTyped /\ ListsInv /\ AllDraftsOK
        /\ CompleteInv /\ [Next]_vars => CompleteInv'
  BY CompletePreserved
<1>3. CompleteInv => SucceededIsComplete
  BY CompleteIs DEF CompleteInv
<1> QED
  BY <1>1, <1>2, <1>3, RunInvariant, OwnersInvariant, SerialInvariant,
     ReportsInvariant, ListsInvariant, DraftsInvariant, PTL DEF Spec

-----------------------------------------------------------------------------
(* RunPage: what the page of a run may rely on.  The page only looks at    *)
(* its run and sends reviews, so whatever the runs of AgentRun keep, they  *)
(* keep with a page beside them; and where the stream has ended nobody but *)
(* a review of the page's user changes the row, whose answer the page      *)
(* waits for.                                                              *)

\* The steps that leave the runs alone leave all of AgentRun alone.
LEMMA PageWatches ==
  ASSUME PageNext
  PROVE  [Next]_vars
<1>1. CASE Elsewhere
  BY <1>1 DEF Elsewhere, Next
<1>2. ASSUME NEW q \in Requests, ReviewOfPage(q) PROVE Next
  BY <1>2 DEF ReviewOfPage, Click, Decide, ReviewStep, Next
<1>3. CASE PageStep
  BY <1>3 DEF PageStep, LoadPage, StreamOpens, Poll, ReceiveEvent,
     ReviewAnswered, StreamBreaks
<1> QED
  BY <1>1, <1>2, <1>3 DEF PageNext

(* A run with a page beside it is a run of AgentRun: the poll loop, the    *)
(* stream and the page add nothing to what can happen to a row, and a      *)
(* click is a request like any other.  What AgentRun guarantees therefore  *)
(* holds for the page as well.                                             *)
THEOREM PageRefinesRuns == PageSpec => Spec
<1>1. PageInit => Init
  BY DEF PageInit
<1>2. [PageNext]_allVars => [Next]_vars
  BY PageWatches DEF allVars
<1> QED
  BY <1>1, <1>2, PTL DEF PageSpec, Spec

\* A stream that ended sent the row of a run at rest, until a review's answer
\* is on its way to the page.
StreamInv == stream = "ended" /\ answer = NULL =>
               /\ sent = row[Viewed]
               /\ row[Viewed].status \in StreamTerminal

\* The steps of a task touch the row of its own run only.
LEMMA WorkRow ==
  ASSUME RunInv, NEW w \in Slots, WorkStep(w), NEW r \in Runs, r # task[w].run
  PROVE  row'[r] = row[r]
<1>0. row \in [Runs -> Rows]
  BY DEF RunInv, RowsGood
<1>1. \/ UNCHANGED row
      \/ RecordNode(w) \/ RecordWritingNode(w) \/ AppendCommittedEntity(w)
      \/ AppendCommittedRelationship(w) \/ AppendLink(w)
  BY DEF WorkStep, CommitStep, EnrichStep, ResearchDone, LoadParked,
     UseExisting, CreateEntity, AttachSources, EmbedEntity, EntitiesDone,
     SkipRelationship, CreateRelationship, CommitNodeReturns, LinksFor,
     SkipLink, CreateLink, EnrichNodeReturns, DeadlinePasses, NodeRaises,
     rowVars
<1>2. CASE RecordNode(w) \/ RecordWritingNode(w)
  BY <1>0, <1>2 DEF RecordNode, RecordWritingNode
<1>3. CASE AppendCommittedEntity(w) \/ AppendCommittedRelationship(w)
             \/ AppendLink(w)
  BY <1>0, <1>3 DEF AppendCommittedEntity, AppendCommittedRelationship,
     AppendLink
<1> QED
  BY <1>1, <1>2, <1>3

\* At rest only a review changes the row.
LEMMA RestingRow ==
  ASSUME RunInv, OwnersOK, SerialOK, Elsewhere,
         row[Viewed].status \in StreamTerminal
  PROVE  row'[Viewed] = row[Viewed]
<1>0. /\ Viewed \in Runs /\ row \in [Runs -> Rows]
      /\ row[Viewed].status \notin {"none", "queued", "running"}
  BY PageAssumption DEF RunInv, RowsGood, StreamTerminal, Terminal
<1>1. ASSUME NEW r \in Runs, GatewayStep(r) PROVE row'[Viewed] = row[Viewed]
  <2>1. CASE CreateRun(r)
    BY <1>0, <2>1 DEF CreateRun
  <2> QED
    BY <1>1, <2>1 DEF GatewayStep, EnqueueRun, EnqueueRunFails, rowVars
<1>2. ASSUME NEW w \in Slots, WorkerStep(w) PROVE row'[Viewed] = row[Viewed]
  <2>1. CASE Receive(w) \/ TaskDies(w) \/ Crash(w)
    BY <2>1 DEF Receive, TaskDies, Crash, rowVars
  <2>2. CASE ~(Receive(w) \/ TaskDies(w) \/ Crash(w))
    <3>1. task[w].pc # "idle"
      BY <1>2, <2>2, OtherSteps, WorkSteps DEF Moves, Leaves
    <3>2. task[w].run # Viewed
      BY <1>0, <3>1, WorkedIsActive
    <3>3. CASE WorkStep(w)
      BY <1>0, <3>2, <3>3, WorkRow
    <3> QED
      BY <1>0, <1>2, <2>2, <3>2, <3>3, OtherSteps, RowOfTask
  <2> QED
    BY <2>1, <2>2
<1> QED
  BY <1>1, <1>2 DEF Elsewhere

LEMMA StreamStep ==
  ASSUME RunInv, OwnersOK, SerialOK, StreamInv, PageNext
  PROVE  StreamInv'
<1>0. Viewed \in Runs /\ NULL \notin Rows /\ row \in [Runs -> Rows]
  BY PageAssumption DEF RunInv, RowsGood
<1>1. CASE Elsewhere
  BY <1>1, RestingRow DEF StreamInv, Elsewhere, pageVars
<1>2. ASSUME NEW q \in Requests, Decide(q) PROVE StreamInv'
  <2>1. RunInv'
    BY <1>2, StepPreserves DEF Decide, Next, ReviewStep
  <2>2. CASE req[q].run = Viewed
    <3>1. answer' = row'[Viewed] /\ row'[Viewed] \in Rows
      BY <1>0, <1>2, <2>1, <2>2 DEF Decide, RunInv, RowsGood
    <3> QED
      BY <1>0, <3>1 DEF StreamInv
  <2>3. CASE req[q].run # Viewed
    <3>1. /\ row'[Viewed] = row[Viewed] /\ answer' = answer
          /\ UNCHANGED <<stream, sent>>
      BY <1>0, <1>2, <2>3
         DEF Decide, MarkCancelled, ApproveReview, streamVars
    <3> QED
      BY <3>1 DEF StreamInv
  <2> QED
    BY <2>2, <2>3
<1>3. ASSUME NEW q \in Requests,
             Click(q) \/ (EnqueueCommit(q) /\ UNCHANGED pageVars)
      PROVE  StreamInv'
  BY <1>3 DEF StreamInv, Click, ReadForReview, EnqueueCommit, rowVars, pageVars
<1>4. CASE Poll
  BY <1>4 DEF StreamInv, Poll, vars
<1>5. CASE PageStep /\ ~Poll
  BY <1>5 DEF StreamInv, PageStep, LoadPage, StreamOpens, ReceiveEvent,
     ReviewAnswered, StreamBreaks, vars
<1> QED
  BY <1>1, <1>2, <1>3, <1>4, <1>5 DEF PageNext, ReviewOfPage, PageStep

(* _STREAM_TERMINAL_STATUSES, for any number of runs and workers: the last *)
(* event of a stream that ended is the row of the run for as long as no    *)
(* review of it is decided, as the owner of a run sends one at a time.     *)
THEOREM EndedStreamsAreCurrent ==
  ASSUME SerialReviews
  PROVE  PageSpec => []EndedStreamIsCurrent
<1>1. PageInit => StreamInv
  BY DEF PageInit, StreamInv
<1>2. RunInv /\ OwnersOK /\ SerialOK /\ StreamInv /\ [PageNext]_allVars
        => StreamInv'
  <2>1. UNCHANGED allVars /\ StreamInv => StreamInv'
    BY DEF allVars, vars, pageVars, StreamInv
  <2> QED
    BY <2>1, StreamStep
<1>3. StreamInv => EndedStreamIsCurrent
  BY DEF StreamInv, EndedStreamIsCurrent
<1> QED
  BY <1>1, <1>2, <1>3, PageRefinesRuns, RunInvariant, OwnersInvariant,
     SerialInvariant, PTL DEF PageSpec
=============================================================================
