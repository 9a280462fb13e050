------------------------------ MODULE MCAgentRun ------------------------------
(* Small instances of AgentRun for TLC.                                    *)
EXTENDS AgentRun, TLC

CONSTANTS e1, e2, x1

Symmetry == Permutations(Runs) \cup Permutations(Requests)
              \cup Permutations(Slots)

MCEntItems == {e1, e2}
OneEntItem == {e1}
MCExisting == {e2}
MCRelItems == {x1}
MCReports  == {[analysis |-> "text", skipped |-> {Note("research", 0)}]}

\* A reviewer may drop every entity or keep the one new entity.
MCEntEdits == {{}, {e1}}
MCRelEdits == {{}}
=============================================================================
