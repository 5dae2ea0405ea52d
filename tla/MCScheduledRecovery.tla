------------------------- MODULE MCScheduledRecovery -------------------------
(* The day of MCOrderExecution under the schedule of the batch jobs. *)
EXTENDS MCOrderExecution, ScheduledRecovery
=============================================================================
