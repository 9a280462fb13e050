---------------------------- MODULE MCResearchGraph ----------------------------
(* Small instances of ResearchGraph for TLC.                               *)
EXTENDS ResearchGraph

CONSTANTS u1, u2, a, b

\* An edge between drafts, one to a known node and one that may dangle.
MCEdges == {<<a, b>>, <<a, Uuid>>}
=============================================================================
