------------------------- MODULE RunLifecycle_proofs -------------------------
(***************************************************************************)
(* What a user of IntelliVault may rely on, from the contract of a run     *)
(* alone: for any number of runs and of ids.  Each fact needs the ones     *)
(* before it: a run is parked before its first write only because it is    *)
(* not parked a second time, and a row lags by one write because a write   *)
(* waits for the row.                                                      *)
(***************************************************************************)
EXTENDS RunLifecycle, TLAPS

\* The invariant is inductive as it stands.
Contract == TypeOK /\ UndecidedWroteNothing /\ WritesAreApproved /\ LagsByOne

LEMMA ContractInitially == Init => Contract
  BY DEF Init, Contract, TypeOK, UndecidedWroteNothing, WritesAreApproved,
         LagsByOne, Statuses

\* A step along the life of a run that writes and reports nothing.
LEMMA MovesKeepContract ==
  ASSUME Contract, NEW r \in Runs,
         Start(r) \/ Park(r) \/ Approve(r) \/ Reject(r)
  PROVE  Contract'
<1> USE DEF Contract, Start, Park, Approve, Reject, Move
<1>1. TypeOK'
  BY DEF TypeOK, Statuses
<1>2. UndecidedWroteNothing'
  BY DEF TypeOK, UndecidedWroteNothing
<1>3. WritesAreApproved'
  BY DEF TypeOK, WritesAreApproved
<1>4. LagsByOne'
  BY DEF TypeOK, LagsByOne
<1> QED
  BY <1>1, <1>2, <1>3, <1>4

\* A write: the only step after which the row is behind.
LEMMA WriteKeepsContract ==
  ASSUME Contract, NEW r \in Runs, Write(r)
  PROVE  Contract'
<1> USE DEF Contract, Write
<1>1. TypeOK'
  BY DEF TypeOK
<1>2. UndecidedWroteNothing'
  BY DEF TypeOK, UndecidedWroteNothing
<1>3. WritesAreApproved'
  BY DEF TypeOK, WritesAreApproved
<1>4. LagsByOne'
  BY DEF TypeOK, LagsByOne
<1> QED
  BY <1>1, <1>2, <1>3, <1>4

\* A step that changes what the row reports, the end of the run included.
LEMMA ReportsKeepContract ==
  ASSUME Contract, NEW r \in Runs, Report(r) \/ Succeed(r) \/ Fail(r)
  PROVE  Contract'
<1> USE DEF Contract, Report, Succeed, Fail, Move
<1>1. TypeOK'
  BY DEF TypeOK, Statuses
<1>2. UndecidedWroteNothing'
  BY DEF TypeOK, UndecidedWroteNothing
<1>3. WritesAreApproved'
  BY DEF TypeOK, WritesAreApproved
<1>4. LagsByOne'
  BY DEF TypeOK, LagsByOne
<1> QED
  BY <1>1, <1>2, <1>3, <1>4

LEMMA ContractStutters ==
  ASSUME Contract, UNCHANGED lifecycleVars
  PROVE  Contract'
  BY DEF Contract, lifecycleVars, TypeOK, UndecidedWroteNothing,
         WritesAreApproved, LagsByOne

\* What every run under the contract is always like: an undecided run has
\* written nothing, with review on whatever was written was approved, and the
\* row of a run that has not failed misses at most one write.
THEOREM ContractHolds == Spec => []Contract
<1>1. Contract /\ [Next]_lifecycleVars => Contract'
  <2> SUFFICES ASSUME Contract, [Next]_lifecycleVars
               PROVE  Contract'
    OBVIOUS
  <2>1. CASE UNCHANGED lifecycleVars
    BY <2>1, ContractStutters
  <2>2. CASE Next
    <3> PICK r \in Runs : \/ Start(r) \/ Park(r) \/ Approve(r) \/ Reject(r)
                         \/ Write(r) \/ Report(r) \/ Succeed(r) \/ Fail(r)
      BY <2>2 DEF Next
    <3> QED
      BY MovesKeepContract, WriteKeepsContract, ReportsKeepContract
  <2> QED
    BY <2>1, <2>2
<1> QED
  BY <1>1, ContractInitially, PTL DEF Spec

\* Nothing happens to a run once it succeeded, failed or was turned down.
THEOREM DecidedStays == Spec => DecidedIsFinal
<1> DEFINE Final(r) ==
      status[r] \in {"succeeded", "failed", "cancelled"} =>
        /\ status'[r] = status[r]
        /\ written'[r] = written[r]
        /\ reported'[r] = reported[r]
<1>1. Contract /\ [Next]_lifecycleVars =>
        [\A r \in Runs : Final(r)]_lifecycleVars
  <2> SUFFICES ASSUME Contract, Next, NEW r \in Runs
               PROVE  Final(r)
    OBVIOUS
  <2> PICK o \in Runs : \/ Start(o) \/ Park(o) \/ Approve(o) \/ Reject(o)
                       \/ Write(o) \/ Report(o) \/ Succeed(o) \/ Fail(o)
    BY DEF Next
  <2>1. CASE Start(o) \/ Park(o) \/ Approve(o) \/ Reject(o)
    BY <2>1 DEF Contract, TypeOK, Start, Park, Approve, Reject, Move
  <2>2. CASE Write(o) \/ Report(o)
    BY <2>2 DEF Contract, TypeOK, Write, Report
  <2>3. CASE Succeed(o) \/ Fail(o)
    BY <2>3 DEF Contract, TypeOK, Succeed, Fail, Move
  <2> QED
    BY <2>1, <2>2, <2>3
<1> QED
  BY <1>1, ContractHolds, PTL DEF Spec, DecidedIsFinal

=============================================================================
