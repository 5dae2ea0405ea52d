--------------------------- MODULE ExecutionState ---------------------------
(***************************************************************************)
(* The durable execution state of one account and strategy: the rows of    *)
(* execution_runs, order_intents and execution_reconciliations kept by     *)
(* ExecutionStateStore (src/leadlag/execution/state_store.py).             *)
(*                                                                         *)
(* Every public operation runs in one BEGIN IMMEDIATE transaction, so each *)
(* is one action here, and the caller of an operation is anonymous: any    *)
(* process may call any operation at any time.  An operation that raises   *)
(* changes nothing and is a stuttering step.  A job (account, strategy,    *)
(* trade date, job type) has at most one row, so a run is named by its job *)
(* and a job without a row has the status "absent".                        *)
(***************************************************************************)
EXTENDS Naturals

CONSTANTS
    Jobs,        \* job keys of one account and strategy
    Decisions,   \* decision ids: each names one list of orders
    Inventories, \* starting positions an execution plan can be built from
    None         \* a column that was never written

VARIABLES
    run          \* Jobs -> the run's row, its intents and its last checkpoint

vars == <<run>>

-----------------------------------------------------------------------------
(***************************************************************************)
(* Rows                                                                    *)
(***************************************************************************)
ExecutionRunStatus ==
    {"absent", "prepared", "executing", "reconciliation_required",
     "completed", "failed_before_submission"}

\* A checkpoint is the newest execution_reconciliations row: its outcome, and
\* whether its error list is empty.
Outcomes == {"complete", "incomplete", "pending"}
Checkpoints == [outcome : Outcomes \cup {None}, clean : BOOLEAN]
NoCheckpoint == [outcome |-> None, clean |-> FALSE]

Rows == [status     : ExecutionRunStatus,
         decision   : Decisions \cup {None},
         intents    : Decisions \cup {None},
         start      : Inventories \cup {None},
         checkpoint : Checkpoints]

Absent == [status |-> "absent", decision |-> None, intents |-> None,
           start |-> None, checkpoint |-> NoCheckpoint]

\* Statuses with an ambiguous broker outcome, and those a run can only have
\* once a process was allowed to talk to the broker about it.
Ambiguous == {"executing", "reconciliation_required"}
Submitted == Ambiguous \cup {"completed"}
Resumable == {"prepared", "failed_before_submission"}

\* Mutant: a check that forgets the runs a dead process left executing.
UnresolvedReconciliation(j) ==
    \E other \in Jobs \ {j} : run[other].status = "reconciliation_required"

\* Some other run of the account and strategy is unresolved.
UnresolvedRun(j) == \E other \in Jobs \ {j} : run[other].status \in Ambiguous

-----------------------------------------------------------------------------
(***************************************************************************)
(* Operations                                                              *)
(***************************************************************************)
Init == run = [j \in Jobs |-> Absent]

\* The UPDATE shared by the mark_* operations, once their checks have passed.
Transition(j, allowed, new) ==
    /\ run[j].status \in allowed
    /\ run' = [run EXCEPT ![j].status = new]

\* prepare_run without a row: INSERT unless another run is unresolved.
CreateRun(j, d) ==
    /\ run[j].status = "absent"
    /\ ~UnresolvedRun(j)
    /\ run' = [run EXCEPT ![j] =
                  [status |-> "prepared", decision |-> d, intents |-> None,
                   start |-> None, checkpoint |-> NoCheckpoint]]

\* Mutant: a run with an ambiguous outcome is resumed like a prepared one.
ResumeInterrupted(j, d) ==
    /\ ~UnresolvedRun(j)
    /\ run[j].decision = d
    /\ Transition(j, Resumable \cup Ambiguous, "prepared")

\* prepare_run with a row: only a run that never reached the broker resumes,
\* and only with the decision it was created for.
ResumeRun(j, d) ==
    /\ ~UnresolvedRun(j)
    /\ run[j].decision = d
    /\ Transition(j, Resumable, "prepared")

PrepareRun(j, d) == CreateRun(j, d) \/ ResumeRun(j, d)

CanPrepare(j, d) ==
    /\ ~UnresolvedRun(j)
    /\ \/ run[j].status = "absent"
       \/ run[j].status \in Resumable /\ run[j].decision = d

\* Mutants: record_plan without its status check, without its intents check.
CanRecordAnytime(j, d) ==
    run[j].status # "absent" /\ run[j].intents \in {None, d}
CanReplaceIntents(j, d) == run[j].status \in Resumable /\ d \in Decisions

\* record_plan: the intents are written once, the saved starting positions
\* are rewritten by every call.
CanRecordPlan(j, d) ==
    run[j].status \in Resumable /\ run[j].intents \in {None, d}

RecordPlan(j, d, inv) ==
    /\ CanRecordPlan(j, d)
    /\ run' = [run EXCEPT ![j] =
                  [status |-> run[j].status, decision |-> run[j].decision,
                   intents |-> d, start |-> inv,
                   checkpoint |-> run[j].checkpoint]]

CanStart(j) == run[j].status = "prepared" /\ ~UnresolvedRun(j)

\* Mutants: the start without its second look at the other runs, and one that
\* a second process of the same job repeats.
StartUnchecked(j) == Transition(j, {"prepared"}, "executing")
StartAgain(j) ==
    /\ ~UnresolvedRun(j)
    /\ Transition(j, {"prepared", "executing"}, "executing")

MarkSubmissionStarted(j) ==
    /\ ~UnresolvedRun(j)
    /\ Transition(j, {"prepared"}, "executing")

MarkFailedBeforeSubmission(j) ==
    Transition(j, {"prepared"}, "failed_before_submission")

\* Also reopens a completed run, and looks at no other run when it does.
MarkReconciliationRequired(j) ==
    Transition(j, {"prepared"} \cup Submitted, "reconciliation_required")

CanComplete(j) ==
    /\ run[j].status \in Ambiguous
    /\ run[j].checkpoint = [outcome |-> "complete", clean |-> TRUE]

MarkCompleted(j) ==
    /\ CanComplete(j)
    /\ Transition(j, Ambiguous, "completed")

\* record_reconciliation appends; only the newest checkpoint is consulted.
RecordReconciliation(j, outcome, clean) ==
    /\ run[j].status # "absent"
    /\ run' = [run EXCEPT ![j].checkpoint =
                              [outcome |-> outcome, clean |-> clean]]

Next ==
    \E j \in Jobs :
        \/ \E d \in Decisions : PrepareRun(j, d)
        \/ \E d \in Decisions, inv \in Inventories : RecordPlan(j, d, inv)
        \/ MarkSubmissionStarted(j)
        \/ MarkFailedBeforeSubmission(j)
        \/ MarkReconciliationRequired(j)
        \/ MarkCompleted(j)
        \/ \E o \in Outcomes, c \in BOOLEAN : RecordReconciliation(j, o, c)

Spec == Init /\ [][Next]_vars

-----------------------------------------------------------------------------
(***************************************************************************)
(* Properties                                                              *)
(***************************************************************************)
\* Every row holds values of its columns, and a job without a row has none.
TypeOK ==
    /\ run \in [Jobs -> Rows]
    /\ \A j \in Jobs : run[j].status = "absent" => run[j] = Absent

\* However the callers of prepare_run, mark_submission_started and the
\* recovery operations interleave, two runs of one account and strategy are
\* never open for submission together.
AtMostOneExecuting ==
    \A i, j \in Jobs :
        run[i].status = "executing" /\ run[j].status = "executing" => i = j

\* A run that reached the broker never becomes submittable again: no sequence
\* of operations, the reopening of a completed run included, leads back to a
\* status from which prepare_run or mark_submission_started would send orders.
NeverSubmittableAgain ==
    [][\A j \in Jobs : run[j].status \in Submitted
                           => run'[j].status \in Submitted
                              /\ (run'[j].status = "executing"
                                      => run[j].status = "executing")]_vars

\* What recovery compares the broker with stays what was planned: once a run
\* may have reached the broker, a late record_plan of a second process changes
\* neither its order intents nor its saved starting positions.
PlanFrozenOnceSubmitted ==
    [][\A j \in Jobs : run[j].status \in Submitted
                           => /\ run'[j].intents = run[j].intents
                              /\ run'[j].start = run[j].start]_vars

\* A job keeps the first list of orders recorded for it, through every
\* failure, resumption and later attempt of the same day.
IntentsNeverReplaced ==
    [][\A j \in Jobs : run[j].intents # None
                           => run'[j].intents = run[j].intents]_vars

\* A run becomes completed only while its newest checkpoint is a clean
\* "complete": a later incomplete or pending checkpoint revokes an earlier one.
CompletedOnCleanCheckpoint ==
    [][\A j \in Jobs :
          run[j].status # "completed" /\ run'[j].status = "completed"
              => /\ run[j].status \in Ambiguous
                 /\ run[j].checkpoint.outcome = "complete"
                 /\ run[j].checkpoint.clean]_vars
=============================================================================
