----------------------------- MODULE MCWorkflow -----------------------------
(* Small instances of WorkflowRuntime for TLC. *)
EXTENDS WorkflowRuntime

\* Work, a robot gate on it, more work, and a human gate.
GatedTwice == <<"agent", "robot", "agent", "human">>
=============================================================================
