------------------------------- MODULE MCRunPage -------------------------------
(* A small instance of RunPage for TLC.                                    *)
EXTENDS RunPage

CONSTANTS e1, x1, r1

MCEntItems == {e1}
MCRelItems == {x1}
MCReports  == {[analysis |-> "text", skipped |-> {Note("research", 0)}]}
MCRelEdits == {{}}
=============================================================================
