-------------------------- MODULE MCExecutionLease --------------------------
(* Three owners, leases of one or two ticks, a clock of five ticks. *)
EXTENDS ExecutionLease
CONSTANTS guard, cli, reconcile
MCClients == {guard, cli, reconcile}
MCTtls == {1, 2}
=============================================================================
