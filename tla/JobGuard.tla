------------------------------ MODULE JobGuard ------------------------------
(***************************************************************************)
(* One guarded batch job: the guard process (run_guarded_command), which   *)
(* holds the job lease and a deadline for its child's process group; the   *)
(* batch shell and the phase wrapper (scripts/tools/phase_deadline.py),    *)
(* both in that group; and the worker the wrapper starts in a session, and *)
(* so in a process group, of its own.                                      *)
(*                                                                         *)
(* Time is discrete and a due timer fires before time goes on; timers due  *)
(* at the same time fire in any order.                                     *)
(***************************************************************************)
EXTENDS Naturals, Sequences

CONSTANTS
    GuardTimeout,   \* --timeout of the guard
    GuardGrace,     \* --grace of the guard, between TERM and KILL
    PhaseTimeouts,  \* the phases of the batch script: --timeout of each
    PhaseGraces,    \* --grace of the wrapper: one of these
    LeaseMargin,    \* what the lease's ttl adds to timeout and grace
    Stubborn,       \* a worker may survive TERM
    LateSignals,    \* the guard may be signalled while it terminates
    MaxTime         \* bound on the clock

ASSUME GuardAssumption ==
    /\ GuardTimeout \in Nat \ {0} /\ GuardGrace \in Nat
    /\ PhaseTimeouts \in Seq(Nat \ {0}) /\ PhaseGraces \subseteq Nat
    /\ LeaseMargin \in Nat \ {0}
    /\ Stubborn \in BOOLEAN /\ LateSignals \in BOOLEAN
    /\ MaxTime \in Nat

VARIABLES
    now,
    guard,    \* "run", "term", "cleanup", "done", "unwound" (by a signal
              \* during "term") or "dead" (of a signal during "cleanup")
    guardAt,  \* when the guard acts next
    lease,    \* expiry of the lease row, or 0 once it is released
    shell,    \* the batch script, leader of the guarded group, is alive
    phase,    \* phases started so far
    phaseGrace,
    wrapper,  \* "none", "run" or "term"
    wrapperAt,
    pending,  \* a TERM the wrapper has not handled yet
    worker    \* the phase's worker is alive

vars == <<now, guard, guardAt, lease, shell, phase, phaseGrace, wrapper,
          wrapperAt, pending, worker>>

guardVars == <<guard, guardAt, lease>>
groupVars == <<shell, phase, phaseGrace, wrapper, wrapperAt, pending, worker>>

GroupAlive == shell \/ wrapper # "none"
GuardWaits == guard \in {"run", "term", "cleanup"}

\* acquire_lease and Popen.
Init ==
    /\ now = 0
    /\ guard = "run" /\ guardAt = GuardTimeout
    /\ lease = GuardTimeout + GuardGrace + LeaseMargin
    /\ shell = TRUE /\ phase = 0 /\ phaseGrace \in PhaseGraces
    /\ wrapper = "none" /\ wrapperAt = 0 /\ pending = FALSE
    /\ worker = FALSE

-----------------------------------------------------------------------------
(***************************************************************************)
(* The guard                                                               *)
(***************************************************************************)
\* killpg(SIGTERM): the shell dies of it, the wrapper has a handler.
TermGroup ==
    /\ shell' = FALSE
    /\ pending' = (wrapper # "none")
    /\ UNCHANGED <<phase, phaseGrace, wrapper, wrapperAt, worker>>

StartTerminating(state) ==
    /\ guard' = state
    /\ guardAt' = now + GuardGrace
    /\ TermGroup
    /\ UNCHANGED <<now, lease>>

\* Mutant: the guard waits again instead of terminating.
WaitAgain ==
    /\ guard = "run" /\ shell /\ now = guardAt
    /\ guardAt' = now + GuardTimeout
    /\ UNCHANGED <<now, guard, lease, groupVars>>

GuardTimesOut ==
    /\ guard = "run" /\ shell /\ now = guardAt
    /\ StartTerminating("term")

\* SIGTERM or SIGINT of launchd or an operator.
GuardInterrupted ==
    /\ guard = "run"
    /\ StartTerminating("term")

\* The leader exited by itself: what is left of its group is terminated.
LeaderExited ==
    /\ guard = "run" /\ ~shell
    /\ StartTerminating("cleanup")

Return(state) ==
    /\ guard' = state
    /\ lease' = 0
    /\ UNCHANGED <<now, guardAt>>

GroupGone ==
    /\ guard \in {"term", "cleanup"} /\ ~GroupAlive
    /\ Return("done")
    /\ UNCHANGED groupVars

\* Mutant: kill() of the leader instead of killpg().
KillLeader ==
    /\ guard \in {"term", "cleanup"} /\ now = guardAt
    /\ Return("done")
    /\ shell' = FALSE
    /\ UNCHANGED <<phase, phaseGrace, wrapper, wrapperAt, pending, worker>>

\* killpg(SIGKILL) reaches the group, not the worker's own group.
KillGroup ==
    /\ guard \in {"term", "cleanup"} /\ now = guardAt
    /\ Return("done")
    /\ shell' = FALSE /\ wrapper' = "none" /\ pending' = FALSE
    /\ UNCHANGED <<phase, phaseGrace, wrapperAt, worker>>

\* The handler raises inside the termination of a timeout, whose except
\* clause nothing else guards: the guard unwinds and releases the lease.
SignalWhileTerminating ==
    /\ LateSignals /\ guard = "term"
    /\ Return("unwound")
    /\ UNCHANGED groupVars

\* After a normal exit the handlers are restored already: the signal kills
\* the guard, and its lease row stays until it expires.
SignalWhileCleaningUp ==
    /\ LateSignals /\ guard = "cleanup"
    /\ guard' = "dead"
    /\ UNCHANGED <<now, guardAt, lease, groupVars>>

-----------------------------------------------------------------------------
(***************************************************************************)
(* The batch script and its phases                                         *)
(***************************************************************************)
StartPhase ==
    /\ shell /\ wrapper = "none"
    /\ phase < Len(PhaseTimeouts)
    /\ phase' = phase + 1
    /\ wrapper' = "run" /\ wrapperAt' = now + PhaseTimeouts[phase + 1]
    /\ worker' = TRUE
    /\ UNCHANGED <<now, guardVars, shell, phaseGrace, pending>>

\* After its last phase, or when a phase failed.
ShellExits ==
    /\ shell /\ wrapper = "none" /\ phase > 0
    /\ shell' = FALSE
    /\ UNCHANGED <<now, guardVars, phase, phaseGrace, wrapper, wrapperAt,
                   pending, worker>>

WorkerEnds ==
    /\ worker
    /\ worker' = FALSE
    /\ UNCHANGED <<now, guardVars, shell, phase, phaseGrace, wrapper, wrapperAt,
                   pending>>

\* The worker ended, by itself or of the TERM.
WrapperReturns ==
    /\ wrapper # "none" /\ ~worker
    /\ wrapper' = "none" /\ pending' = FALSE
    /\ UNCHANGED <<now, guardVars, shell, phase, phaseGrace, wrapperAt, worker>>

\* killpg(SIGTERM) to the worker's group; the grace period starts.
TermWorker ==
    /\ wrapper' = "term" /\ wrapperAt' = now + phaseGrace
    /\ worker' \in {FALSE, Stubborn}
    /\ UNCHANGED <<now, guardVars, shell, phase, phaseGrace>>

PhaseTimesOut ==
    /\ wrapper = "run" /\ worker /\ now = wrapperAt
    /\ TermWorker
    /\ UNCHANGED pending

\* Mutant: the wrapper has no handler and dies of the TERM.
WrapperDies ==
    /\ pending /\ worker
    /\ wrapper' = "none" /\ pending' = FALSE
    /\ UNCHANGED <<now, guardVars, shell, phase, phaseGrace, wrapperAt, worker>>

\* The guard's TERM, forwarded.  During the termination of a phase that timed
\* out it starts the grace period again.
PhaseInterrupted ==
    /\ pending /\ worker
    /\ TermWorker
    /\ pending' = FALSE

KillWorker ==
    /\ wrapper = "term" /\ now = wrapperAt
    /\ worker' = FALSE /\ wrapper' = "none" /\ pending' = FALSE
    /\ UNCHANGED <<now, guardVars, shell, phase, phaseGrace, wrapperAt>>

\* Time goes on when no timer is due and no signal waits to be handled.
Tick ==
    /\ now < MaxTime
    /\ GuardWaits => now < guardAt
    /\ wrapper # "none" => now < wrapperAt /\ ~pending
    /\ now' = now + 1
    /\ UNCHANGED <<guardVars, groupVars>>

Next ==
    \/ GuardTimesOut \/ GuardInterrupted \/ LeaderExited
    \/ GroupGone \/ KillGroup
    \/ SignalWhileTerminating \/ SignalWhileCleaningUp
    \/ StartPhase \/ ShellExits \/ WorkerEnds \/ WrapperReturns
    \/ PhaseTimesOut \/ PhaseInterrupted \/ KillWorker
    \/ Tick

\* Timers fire and time passes; a worker need never end by itself.
Fairness ==
    /\ WF_vars(Tick)
    /\ WF_vars(PhaseTimesOut) /\ WF_vars(PhaseInterrupted)
    /\ WF_vars(KillWorker) /\ WF_vars(WrapperReturns)
    /\ WF_vars(GuardTimesOut) /\ WF_vars(LeaderExited)
    /\ WF_vars(GroupGone) /\ WF_vars(KillGroup)

Spec == Init /\ [][Next]_vars /\ Fairness

-----------------------------------------------------------------------------
(***************************************************************************)
(* Properties                                                              *)
(***************************************************************************)
\* When the guard returns and gives the lease up, its process group is gone:
\* "TERM, a grace period, and KILL for the descendants".  A guard that a
\* second signal unwinds keeps no such promise.
GroupDeadOnReturn == guard = "done" => ~GroupAlive

\* No worker outlives its wrapper: "a phase timeout or an interrupted parent
\* cannot leave a network worker running after the shell has exited".
NoOrphan == worker => wrapper # "none"

\* The guard works, a slow termination included, only while its lease is valid,
\* so that no second job is admitted beside it; and when the wrapper's grace is
\* shorter than the guard's, so does a worker, which may be sending orders.
WorkUnderLease ==
    /\ GuardWaits => now < lease
    /\ worker /\ phaseGrace < GuardGrace /\ guard # "unwound" => now < lease

\* Whatever the group does, the guard returns by its deadline and grace.
GuardReturns == <>~GuardWaits
=============================================================================
