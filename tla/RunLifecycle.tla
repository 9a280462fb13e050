---------------------------- MODULE RunLifecycle ----------------------------
(***************************************************************************)
(* What a research run promises the user who started it, without jobs,     *)
(* workers, queues or statements: it is worked on, it may be parked for a  *)
(* review, nothing is written while it waits or after it was turned down,  *)
(* every write is put on record before the next one, and a run that        *)
(* succeeded reports exactly what it wrote.  AgentRun implements it as     *)
(* long as the reviews of one run do not race.                             *)
(***************************************************************************)
CONSTANTS
  Runs,          \* ids of runs
  Ids,           \* ids of what a run can write into the graph
  ReviewAlways   \* every worker runs with agent_review_required

VARIABLES
  status,     \* where each run is in its life
  approved,   \* runs whose drafts the user approved
  written,    \* what each run has put into the graph
  reported    \* what its row says it has put there

lifecycleVars == <<status, approved, written, reported>>

Statuses == {"none", "active", "parked", "succeeded", "failed", "cancelled"}

Init ==
  /\ status = [r \in Runs |-> "none"]
  /\ approved = {}
  /\ written = [r \in Runs |-> {}]
  /\ reported = [r \in Runs |-> {}]

\* Only the status of r changes, and only along one edge.
Move(r, from, to) ==
  /\ status[r] = from
  /\ status' = [status EXCEPT ![r] = to]

Start(r) ==
  /\ Move(r, "none", "active")
  /\ UNCHANGED <<approved, written, reported>>

\* A run waits for review before it has written anything, and at most once.
Park(r) ==
  /\ Move(r, "active", "parked")
  /\ r \notin approved
  /\ written[r] = {}
  /\ UNCHANGED <<approved, written, reported>>

Approve(r) ==
  /\ Move(r, "parked", "active")
  /\ approved' = approved \cup {r}
  /\ UNCHANGED <<written, reported>>

Reject(r) ==
  /\ Move(r, "parked", "cancelled")
  /\ UNCHANGED <<approved, written, reported>>

\* One more write, once the row lists all the earlier ones.
Write(r) ==
  /\ status[r] = "active"
  /\ ReviewAlways => r \in approved
  /\ written[r] \subseteq reported[r]
  /\ \E id \in written'[r] \ written[r] :
       /\ id \in Ids
       /\ written' = [written EXCEPT ![r] = @ \cup {id}]
  /\ UNCHANGED <<status, approved, reported>>

Report(r) ==
  /\ status[r] = "active"
  /\ reported' = [reported EXCEPT ![r] = written[r]]
  /\ UNCHANGED <<status, approved, written>>

Succeed(r) ==
  /\ Move(r, "active", "succeeded")
  /\ reported' = [reported EXCEPT ![r] = written[r]]
  /\ UNCHANGED <<approved, written>>

\* A failed run may list less than it wrote, never more.
Fail(r) ==
  /\ Move(r, "active", "failed")
  /\ reported' = [reported EXCEPT ![r] = reported'[r]]
  /\ reported'[r] \subseteq written[r]
  /\ UNCHANGED <<approved, written>>

Next == \E r \in Runs :
          \/ Start(r) \/ Park(r) \/ Approve(r) \/ Reject(r)
          \/ Write(r) \/ Report(r) \/ Succeed(r) \/ Fail(r)

Spec == Init /\ [][Next]_lifecycleVars

-----------------------------------------------------------------------------
(* What follows from the contract alone; RunLifecycle_proofs proves it.    *)

\* Types; every id on a row was written.
TypeOK ==
  /\ status \in [Runs -> Statuses]
  /\ approved \subseteq Runs
  /\ written \in [Runs -> SUBSET Ids]
  /\ reported \in [Runs -> SUBSET Ids]
  /\ \A r \in Runs : reported[r] \subseteq written[r]

\* A run that waits for a decision, or was turned down, has written nothing.
UndecidedWroteNothing ==
  \A r \in Runs : status[r] \in {"none", "parked", "cancelled"} =>
                    written[r] = {}

\* A run that was approved is never parked again, and with review always on
\* whatever is in the graph was approved.
WritesAreApproved ==
  \A r \in Runs :
    /\ status[r] \in {"none", "parked", "cancelled"} => r \notin approved
    /\ ReviewAlways /\ written[r] # {} => r \in approved

\* Until it fails, the row of a run misses at most one of its writes, and none
\* once it succeeded.
LagsByOne ==
  \A r \in Runs :
    /\ status[r] = "succeeded" => reported[r] = written[r]
    /\ status[r] # "failed" => \A x, y \in written[r] \ reported[r] : x = y

\* Nothing moves a run out of succeeded, failed or cancelled, writes for it or
\* changes what it reports.
DecidedIsFinal ==
  [][\A r \in Runs : status[r] \in {"succeeded", "failed", "cancelled"} =>
       /\ status'[r] = status[r]
       /\ written'[r] = written[r]
       /\ reported'[r] = reported[r]]_lifecycleVars

=============================================================================
