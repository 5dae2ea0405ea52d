----------------------------- MODULE MCJobGuard -----------------------------
(* A batch of two phases whose timeouts add up to more than the job's.     *)
EXTENDS JobGuard

MCPhaseTimeouts == <<3, 4>>
=============================================================================
