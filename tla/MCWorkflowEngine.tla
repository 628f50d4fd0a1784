------------------------- MODULE MCWorkflowEngine -------------------------
(* Instances of WorkflowEngine for TLC. *)
EXTENDS WorkflowEngine

CONSTANTS r1, r2, p1, p2

\* A run whose first step stops it on failure and whose others do not.
MCOneRun == [r \in {r1} |-> <<"stop", "continue", "continue">>]

\* The second step of a run is a git step.
MCWatchedOne == [r \in {r1} |-> {1, 3}]
=============================================================================
