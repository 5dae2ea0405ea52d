----------------------------- MODULE MCDeadlines -----------------------------
(* A batch of two phases whose timeouts add up to more than the job's.     *)
EXTENDS Deadlines

MCPhaseTimeouts == <<3, 4>>
=============================================================================
