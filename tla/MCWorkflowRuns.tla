--------------------------- MODULE MCWorkflowRuns ---------------------------
(* Small instances of WorkflowRuns.                                         *)
EXTENDS WorkflowRuns, TLC

CONSTANTS w1, w2

TwoWorkflows == {w1, w2}

Maybe == BOOLEAN
=============================================================================
