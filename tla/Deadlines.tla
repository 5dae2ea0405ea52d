------------------------------ MODULE Deadlines ------------------------------
(***************************************************************************)
(* The two timeouts of the production jobs: the job guard's, for a batch   *)
(* of phases, and the risk history's.  They share no state, and each is    *)
(* explored with the other at rest.                                        *)
(***************************************************************************)
EXTENDS JobGuard

VARIABLES at, waiting, box, late, threads, snapshot, owner, child, cached, result

historyVars ==
    <<at, waiting, box, late, threads, snapshot, owner, child, cached, result>>

History == INSTANCE VarHistory

GuardAtRest ==
    /\ now = MaxTime
    /\ guard = "done" /\ guardAt = 0 /\ lease = 0
    /\ shell = FALSE /\ phase = 1 /\ phaseGrace \in PhaseGraces
    /\ wrapper = "none" /\ wrapperAt = 0 /\ pending = FALSE
    /\ worker = FALSE

HistoryAtRest ==
    /\ at = "done" /\ waiting = FALSE /\ box = "open"
    /\ late = TRUE
    /\ threads = {}
    /\ snapshot = "none" /\ owner = "none" /\ child = "none"
    /\ cached = "none" /\ result = "empty"

DeadlinesInit ==
    \/ Init /\ HistoryAtRest
    \/ GuardAtRest /\ History!Init

DeadlinesNext ==
    \/ Next /\ UNCHANGED historyVars
    \/ History!Next /\ UNCHANGED vars

DeadlinesSpec ==
    /\ DeadlinesInit /\ [][DeadlinesNext]_<<vars, historyVars>>
    /\ Fairness /\ History!Fairness

SnapshotOutlivesReplay == History!SnapshotOutlivesReplay
NothingLeftBehind == History!NothingLeftBehind
NothingPublishedLate == History!NothingPublishedLate
CallReturns == History!CallReturns
=============================================================================
