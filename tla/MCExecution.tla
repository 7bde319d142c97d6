---------------------------- MODULE MCExecution ----------------------------
(* A small instance of ExecutionService for TLC, with three modes: in      *)
(* process, in process with writebacks, and with the queue.                *)
EXTENDS ExecutionService, TLC

CONSTANTS r1, r2, r3, c1, c2

ModeRuns == [ inline |-> {r1, r2, r3}, applying |-> {r1, r2}, queue |-> {r1, r2} ]
ModeCalls == [ inline |-> {c1}, applying |-> {c1, c2}, queue |-> {c1} ]

\* A run or a call a mode does not use is never anything but unused or idle.
Symmetric == Permutations(Runs) \cup Permutations(Calls)
=============================================================================
