----------------------- MODULE ExecutionState_proofs -----------------------
(***************************************************************************)
(* The safety properties of ExecutionState, for every set of jobs,         *)
(* decisions and starting inventories.                                     *)
(***************************************************************************)
EXTENDS ExecutionState, TLAPS

LEMMA TypeStep == TypeOK /\ [Next]_vars => TypeOK'
<1> USE DEF TypeOK, Rows, Absent, NoCheckpoint, Checkpoints, Outcomes,
            ExecutionRunStatus
<1> SUFFICES ASSUME TypeOK, [Next]_vars PROVE TypeOK'
  OBVIOUS
<1>1. ASSUME NEW j \in Jobs, NEW d \in Decisions, CreateRun(j, d)
      PROVE  TypeOK'
  BY <1>1 DEF CreateRun
<1>2. ASSUME NEW j \in Jobs, NEW d \in Decisions, ResumeRun(j, d)
      PROVE  TypeOK'
  BY <1>2 DEF ResumeRun, Transition, Resumable
<1>3. ASSUME NEW j \in Jobs, NEW d \in Decisions, NEW inv \in Inventories,
             RecordPlan(j, d, inv)
      PROVE  TypeOK'
  BY <1>3 DEF RecordPlan, CanRecordPlan, Resumable
<1>4. ASSUME NEW j \in Jobs, MarkSubmissionStarted(j)
      PROVE  TypeOK'
  BY <1>4 DEF MarkSubmissionStarted, Transition
<1>5. ASSUME NEW j \in Jobs, MarkFailedBeforeSubmission(j)
      PROVE  TypeOK'
  BY <1>5 DEF MarkFailedBeforeSubmission, Transition
<1>6. ASSUME NEW j \in Jobs, MarkReconciliationRequired(j)
      PROVE  TypeOK'
  BY <1>6 DEF MarkReconciliationRequired, Transition, Submitted, Ambiguous
<1>7. ASSUME NEW j \in Jobs, MarkCompleted(j)
      PROVE  TypeOK'
  BY <1>7 DEF MarkCompleted, Transition, Ambiguous
<1>8. ASSUME NEW j \in Jobs, NEW o \in Outcomes, NEW c \in BOOLEAN,
             RecordReconciliation(j, o, c)
      PROVE  TypeOK'
  BY <1>8 DEF RecordReconciliation
<1>9. CASE UNCHANGED vars
  BY <1>9 DEF vars
<1>10. QED
  BY <1>1, <1>2, <1>3, <1>4, <1>5, <1>6, <1>7, <1>8, <1>9
     DEF Next, PrepareRun

LEMMA InitType == Init => TypeOK
BY DEF Init, TypeOK, Rows, Absent, NoCheckpoint, Checkpoints, Outcomes,
       ExecutionRunStatus

\* The type invariant of the store: no operation writes a value outside its
\* column, and none touches a job without a row except prepare_run.
THEOREM TypeCorrect == Spec => []TypeOK
BY InitType, TypeStep, PTL DEF Spec

\* How a step changes a job's status: nothing but mark_submission_started makes
\* a run executing, and no operation takes a submitted run back.
LEMMA StatusStep ==
    ASSUME TypeOK, Next, NEW j \in Jobs
    PROVE  /\ run'[j].status = "executing"
                  => run[j].status = "executing" \/ MarkSubmissionStarted(j)
           /\ run[j].status \in Submitted => run'[j].status \in Submitted
<1> USE DEF TypeOK, Rows, Submitted, Ambiguous, Resumable, Transition
<1> DEFINE Goal == /\ run'[j].status = "executing"
                         => run[j].status = "executing"
                            \/ MarkSubmissionStarted(j)
                   /\ run[j].status \in Submitted
                         => run'[j].status \in Submitted
<1>1. ASSUME NEW k \in Jobs, NEW d \in Decisions, PrepareRun(k, d)
      PROVE  Goal
  BY <1>1 DEF PrepareRun, CreateRun, ResumeRun
<1>2. ASSUME NEW k \in Jobs, NEW d \in Decisions, NEW inv \in Inventories,
             RecordPlan(k, d, inv)
      PROVE  Goal
  BY <1>2 DEF RecordPlan, CanRecordPlan
<1>3. ASSUME NEW k \in Jobs, MarkSubmissionStarted(k)
      PROVE  Goal
  BY <1>3 DEF MarkSubmissionStarted
<1>4. ASSUME NEW k \in Jobs,
             \/ MarkFailedBeforeSubmission(k)
             \/ MarkReconciliationRequired(k)
             \/ MarkCompleted(k)
      PROVE  Goal
  BY <1>4 DEF MarkFailedBeforeSubmission, MarkReconciliationRequired,
              MarkCompleted
<1>5. ASSUME NEW k \in Jobs, NEW o \in Outcomes, NEW c \in BOOLEAN,
             RecordReconciliation(k, o, c)
      PROVE  Goal
  BY <1>5 DEF RecordReconciliation
<1>6. QED
  BY <1>1, <1>2, <1>3, <1>4, <1>5 DEF Next

\* Two runs are never executing together: a run becomes executing only while
\* no other run is unresolved, and an executing run is unresolved.
THEOREM ExecutingIsExclusive == Spec => []AtMostOneExecuting
<1>1. Init => AtMostOneExecuting
  BY DEF Init, AtMostOneExecuting, Absent
<1>2. TypeOK /\ AtMostOneExecuting /\ [Next]_vars => AtMostOneExecuting'
  <2> SUFFICES ASSUME TypeOK, AtMostOneExecuting, [Next]_vars,
                      NEW i \in Jobs, NEW j \in Jobs,
                      run'[i].status = "executing",
                      run'[j].status = "executing"
               PROVE  i = j
    BY DEF AtMostOneExecuting
  <2>1. CASE UNCHANGED vars
    BY <2>1 DEF vars, AtMostOneExecuting
  <2>2. ASSUME Next, NEW k \in Jobs, NEW l \in Jobs,
               MarkSubmissionStarted(k), run'[l].status = "executing"
        PROVE  k = l
    <3>1. SUFFICES ASSUME k # l PROVE FALSE
      OBVIOUS
    <3>2. run[l].status = "executing"
      BY <2>2, <3>1 DEF MarkSubmissionStarted, Transition, TypeOK
    <3>3. UnresolvedRun(k)
      BY <3>1, <3>2 DEF UnresolvedRun, Ambiguous
    <3>4. QED
      BY <2>2, <3>3 DEF MarkSubmissionStarted
  <2>3. CASE Next
    BY <2>2, <2>3, StatusStep DEF AtMostOneExecuting
  <2>4. QED
    BY <2>1, <2>3
<1>3. QED
  BY <1>1, <1>2, TypeCorrect, PTL DEF Spec

\* No sequence of operations leads a submitted run back to a status from which
\* its orders would be sent again.
THEOREM SubmittedForGood == Spec => NeverSubmittableAgain
<1>1. TypeOK /\ [Next]_vars =>
        [\A j \in Jobs : run[j].status \in Submitted
                             => run'[j].status \in Submitted
                                /\ (run'[j].status = "executing"
                                        => run[j].status = "executing")]_vars
  <2> SUFFICES ASSUME TypeOK, Next, NEW j \in Jobs,
                      run[j].status \in Submitted
               PROVE  /\ run'[j].status \in Submitted
                      /\ run'[j].status = "executing"
                             => run[j].status = "executing"
    OBVIOUS
  <2>1. ~MarkSubmissionStarted(j)
    BY DEF MarkSubmissionStarted, Transition, Submitted, Ambiguous
  <2>2. QED
    BY <2>1, StatusStep
<1>2. QED
  BY <1>1, TypeCorrect, PTL DEF Spec, NeverSubmittableAgain

LEMMA FrozenStep ==
    TypeOK /\ [Next]_vars =>
        [\A j \in Jobs : run[j].status \in Submitted
                             => /\ run'[j].intents = run[j].intents
                                /\ run'[j].start = run[j].start]_vars
<1> SUFFICES ASSUME TypeOK, Next, NEW j \in Jobs,
                    run[j].status \in Submitted
             PROVE  /\ run'[j].intents = run[j].intents
                    /\ run'[j].start = run[j].start
  OBVIOUS
<1> USE DEF TypeOK, Rows, Submitted, Ambiguous, Resumable, Transition
<1>1. ASSUME NEW k \in Jobs, NEW d \in Decisions, NEW inv \in Inventories,
             RecordPlan(k, d, inv)
      PROVE  run'[j] = run[j]
  BY <1>1 DEF RecordPlan, CanRecordPlan
<1>2. ASSUME NEW k \in Jobs, NEW d \in Decisions, PrepareRun(k, d)
      PROVE  run'[j] = run[j]
  BY <1>2 DEF PrepareRun, CreateRun, ResumeRun
<1>3. ASSUME NEW k \in Jobs,
             \/ MarkSubmissionStarted(k)
             \/ MarkFailedBeforeSubmission(k)
             \/ MarkReconciliationRequired(k)
             \/ MarkCompleted(k)
      PROVE  /\ run'[j].intents = run[j].intents
             /\ run'[j].start = run[j].start
  BY <1>3 DEF MarkSubmissionStarted, MarkFailedBeforeSubmission,
              MarkReconciliationRequired, MarkCompleted
<1>4. ASSUME NEW k \in Jobs, NEW o \in Outcomes, NEW c \in BOOLEAN,
             RecordReconciliation(k, o, c)
      PROVE  /\ run'[j].intents = run[j].intents
             /\ run'[j].start = run[j].start
  BY <1>4 DEF RecordReconciliation
<1>5. QED
  BY <1>1, <1>2, <1>3, <1>4 DEF Next

\* The plan recovery compares the broker with is the one saved before the run
\* was submitted: only record_plan writes it, and only for resumable runs.
THEOREM SubmittedPlanFrozen == Spec => PlanFrozenOnceSubmitted
BY FrozenStep, TypeCorrect, PTL DEF Spec, PlanFrozenOnceSubmitted

LEMMA IntentsStep ==
    TypeOK /\ [Next]_vars =>
        [\A j \in Jobs : run[j].intents # None
                             => run'[j].intents = run[j].intents]_vars
<1> SUFFICES ASSUME TypeOK, Next, NEW j \in Jobs, run[j].intents # None
             PROVE  run'[j].intents = run[j].intents
  OBVIOUS
<1> USE DEF TypeOK, Rows, Transition
<1>1. ASSUME NEW k \in Jobs, NEW d \in Decisions, NEW inv \in Inventories,
             RecordPlan(k, d, inv)
      PROVE  run'[j].intents = run[j].intents
  BY <1>1 DEF RecordPlan, CanRecordPlan
<1>2. ASSUME NEW k \in Jobs, NEW d \in Decisions, PrepareRun(k, d)
      PROVE  run'[j].intents = run[j].intents
  <2>1. CASE CreateRun(k, d)
    <3>1. k # j
      BY <2>1 DEF CreateRun, Absent
    <3>2. QED
      BY <2>1, <3>1 DEF CreateRun
  <2>2. CASE ResumeRun(k, d)
    BY <2>2 DEF ResumeRun
  <2>3. QED
    BY <1>2, <2>1, <2>2 DEF PrepareRun
<1>3. ASSUME NEW k \in Jobs,
             \/ MarkSubmissionStarted(k)
             \/ MarkFailedBeforeSubmission(k)
             \/ MarkReconciliationRequired(k)
             \/ MarkCompleted(k)
      PROVE  run'[j].intents = run[j].intents
  BY <1>3 DEF MarkSubmissionStarted, MarkFailedBeforeSubmission,
              MarkReconciliationRequired, MarkCompleted
<1>4. ASSUME NEW k \in Jobs, NEW o \in Outcomes, NEW c \in BOOLEAN,
             RecordReconciliation(k, o, c)
      PROVE  run'[j].intents = run[j].intents
  BY <1>4 DEF RecordReconciliation
<1>5. QED
  BY <1>1, <1>2, <1>3, <1>4 DEF Next

\* A job's first list of orders is its only one: record_plan accepts no other.
THEOREM IntentsKept == Spec => IntentsNeverReplaced
BY IntentsStep, TypeCorrect, PTL DEF Spec, IntentsNeverReplaced

LEMMA CompletedStep ==
    TypeOK /\ [Next]_vars =>
        [\A j \in Jobs :
            run[j].status # "completed" /\ run'[j].status = "completed"
                => /\ run[j].status \in Ambiguous
                   /\ run[j].checkpoint.outcome = "complete"
                   /\ run[j].checkpoint.clean]_vars
<1> SUFFICES ASSUME TypeOK, Next, NEW j \in Jobs,
                    run[j].status # "completed",
                    run'[j].status = "completed"
             PROVE  CanComplete(j)
  BY DEF CanComplete
<1> USE DEF TypeOK, Rows, Transition
<1>1. ASSUME NEW k \in Jobs, MarkCompleted(k)
      PROVE  CanComplete(j)
  BY <1>1 DEF MarkCompleted
<1>2. ASSUME NEW k \in Jobs,
             \/ MarkSubmissionStarted(k)
             \/ MarkFailedBeforeSubmission(k)
             \/ MarkReconciliationRequired(k)
      PROVE  FALSE
  BY <1>2 DEF MarkSubmissionStarted, MarkFailedBeforeSubmission,
              MarkReconciliationRequired
<1>3. ASSUME NEW k \in Jobs, NEW o \in Outcomes, NEW c \in BOOLEAN,
             RecordReconciliation(k, o, c)
      PROVE  FALSE
  BY <1>3 DEF RecordReconciliation
<1>4. ASSUME NEW k \in Jobs, NEW d \in Decisions, PrepareRun(k, d)
      PROVE  FALSE
  BY <1>4 DEF PrepareRun, CreateRun, ResumeRun
<1>5. ASSUME NEW k \in Jobs, NEW d \in Decisions, NEW inv \in Inventories,
             RecordPlan(k, d, inv)
      PROVE  FALSE
  BY <1>5 DEF RecordPlan
<1>6. QED
  BY <1>1, <1>2, <1>3, <1>4, <1>5 DEF Next

\* Only mark_completed completes a run, and its newest checkpoint is then a
\* clean "complete".
THEOREM CompletedIsChecked == Spec => CompletedOnCleanCheckpoint
BY CompletedStep, TypeCorrect, PTL DEF Spec, CompletedOnCleanCheckpoint
=============================================================================
