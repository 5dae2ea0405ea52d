-------------------------- MODULE MCExecutionState --------------------------
(* A small instance of ExecutionState: the decision and close job of a day. *)
EXTENDS ExecutionState
CONSTANTS decisionJob, closeJob, d1, d2, flat, long

MCJobs == {decisionJob, closeJob}
MCDecisions == {d1, d2}
MCInventories == {flat, long}
=============================================================================
