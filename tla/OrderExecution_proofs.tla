----------------------- MODULE OrderExecution_proofs ------------------------
(***************************************************************************)
(* The trading day for any jobs, processes, plans and number of faults:    *)
(* who may send, what the variables hold, and that the day is a run of the *)
(* store.                                                                  *)
(***************************************************************************)
EXTENDS OrderExecution, Planning_proofs

-----------------------------------------------------------------------------
(***************************************************************************)
(* The trading day, for any jobs, processes, plans and number of faults:   *)
(* the store admits one run at a time whatever the lease does, a run is    *)
(* sent by one process only, and while no live process loses its lease no  *)
(* two processes send at all.                                              *)
(***************************************************************************)

\* The store keeps a row of five columns for every job.
RunTyped ==
    /\ run = [j \in Jobs |-> run[j]]
    /\ \A j \in Jobs :
          run[j] = [status |-> run[j].status, decision |-> run[j].decision,
                    intents |-> run[j].intents, start |-> run[j].start,
                    checkpoint |-> run[j].checkpoint]

\* What one operation of the store does to the status of j.
StatusChange(j) ==
    \/ run'[j].status = run[j].status
    \/ run[j].status \notin Store!Submitted /\ run'[j].status = "prepared"
    \/ /\ run'[j].status = "executing"
       /\ run[j].status = "prepared" /\ ~Store!UnresolvedRun(j)
    \/ run'[j].status \in {"reconciliation_required", "completed"}

\* A step changes the status of one run at most, as an operation may.
StatusStep ==
    \E j : /\ j \in Jobs => StatusChange(j)
           /\ \A k \in Jobs \ {j} : run'[k].status = run[k].status

\* The UPDATE of the mark_* operations.
LEMMA TransitionStep ==
    ASSUME RunTyped, NEW j, NEW allowed, NEW new,
           Store!Transition(j, allowed, new)
    PROVE  /\ RunTyped'
           /\ \A k \in Jobs \ {j} : run'[k].status = run[k].status
           /\ j \in Jobs => run'[j].status = new /\ run[j].status \in allowed
<1> DEFINE row == [status |-> new, decision |-> run[j].decision,
                   intents |-> run[j].intents, start |-> run[j].start,
                   checkpoint |-> run[j].checkpoint]
<1>1. CASE j \in Jobs
  <2>1. [run[j] EXCEPT !.status = new] = row
    BY <1>1 DEF RunTyped
  <2>2. run' = [run EXCEPT ![j] = row]
    BY <2>1 DEF Store!Transition
  <2>3. QED
    BY <1>1, <2>2 DEF RunTyped, Store!Transition
<1>2. CASE j \notin Jobs
  <2>1. run' = run
    BY <1>2 DEF RunTyped, Store!Transition
  <2>2. QED
    BY <1>2, <2>1 DEF RunTyped
<1>3. QED
  BY <1>1, <1>2

\* Every operation of the store that the day uses is such a step.
LEMMA StoreStep ==
    ASSUME RunTyped, NEW j,
           \/ \E d : Store!PrepareRun(j, d)
           \/ \E d, inv : Store!RecordPlan(j, d, inv)
           \/ Store!MarkSubmissionStarted(j)
           \/ Store!MarkReconciliationRequired(j)
           \/ Store!MarkCompleted(j)
           \/ \E outcome, clean : Store!RecordReconciliation(j, outcome, clean)
    PROVE  RunTyped' /\ StatusStep
<1>1. ASSUME NEW d, Store!CreateRun(j, d) PROVE RunTyped' /\ StatusStep
  <2>1. CASE j \in Jobs
    BY <1>1, <2>1
       DEF Store!CreateRun, RunTyped, StatusStep, StatusChange, Store!Submitted,
           Store!Ambiguous
  <2>2. CASE j \notin Jobs
    BY <1>1, <2>2 DEF Store!CreateRun, RunTyped, StatusStep
  <2>3. QED
    BY <2>1, <2>2
<1>2. ASSUME NEW d, Store!ResumeRun(j, d) PROVE RunTyped' /\ StatusStep
  <2>1. Store!Transition(j, Store!Resumable, "prepared")
    BY <1>2 DEF Store!ResumeRun
  <2>2. QED
    BY <2>1, TransitionStep
       DEF StatusStep, StatusChange, Store!Resumable, Store!Submitted, Store!Ambiguous
<1>3. ASSUME NEW d, NEW inv, Store!RecordPlan(j, d, inv)
      PROVE  RunTyped' /\ StatusStep
  <2>1. CASE j \in Jobs
    BY <1>3, <2>1 DEF Store!RecordPlan, RunTyped, StatusStep, StatusChange
  <2>2. CASE j \notin Jobs
    BY <1>3, <2>2 DEF Store!RecordPlan, RunTyped, StatusStep
  <2>3. QED
    BY <2>1, <2>2
<1>4. ASSUME Store!MarkSubmissionStarted(j) PROVE RunTyped' /\ StatusStep
  <2>1. Store!Transition(j, {"prepared"}, "executing") /\ ~Store!UnresolvedRun(j)
    BY <1>4 DEF Store!MarkSubmissionStarted
  <2>2. QED
    BY <2>1, TransitionStep DEF StatusStep, StatusChange
<1>5. ASSUME Store!MarkReconciliationRequired(j) PROVE RunTyped' /\ StatusStep
  <2>1. Store!Transition(j, {"prepared"} \cup Store!Submitted, "reconciliation_required")
    BY <1>5 DEF Store!MarkReconciliationRequired
  <2>2. QED
    BY <2>1, TransitionStep DEF StatusStep, StatusChange
<1>6. ASSUME Store!MarkCompleted(j) PROVE RunTyped' /\ StatusStep
  <2>1. Store!Transition(j, Store!Ambiguous, "completed")
    BY <1>6 DEF Store!MarkCompleted
  <2>2. QED
    BY <2>1, TransitionStep DEF StatusStep, StatusChange
<1>7. ASSUME NEW outcome, NEW clean, Store!RecordReconciliation(j, outcome, clean)
      PROVE  RunTyped' /\ StatusStep
  <2> DEFINE checkpoint == [outcome |-> outcome, clean |-> clean]
             row == [status |-> run[j].status, decision |-> run[j].decision,
                     intents |-> run[j].intents, start |-> run[j].start,
                     checkpoint |-> checkpoint]
  <2>0. run' = [run EXCEPT ![j].checkpoint = checkpoint]
    BY <1>7 DEF Store!RecordReconciliation
  <2> HIDE DEF checkpoint
  <2>1. CASE j \in Jobs
    <3>1. [run[j] EXCEPT !.checkpoint = checkpoint] = row
      BY <2>1 DEF RunTyped
    <3>2. run' = [run EXCEPT ![j] = row]
      BY <2>0, <3>1
    <3>3. QED
      BY <2>1, <3>2 DEF RunTyped, StatusStep, StatusChange
  <2>2. CASE j \notin Jobs
    BY <2>0, <2>2 DEF RunTyped, StatusStep
  <2>3. QED
    BY <2>1, <2>2
<1>8. QED
  BY <1>1, <1>2, <1>3, <1>4, <1>5, <1>6, <1>7 DEF Store!PrepareRun

-----------------------------------------------------------------------------
Labels == {"idle", "lease", "positions", "prepare", "plan", "start", "send",
           "persist", "poll", "close", "done"}

PcTyped == pc \in [Procs -> Labels]

\* p has committed mark_submission_started and may call the broker.
Started(p) == pc[p] \in {"send", "persist", "poll", "close"}

\* p works under the lease: its own, or its guard's.
Inside(p) ==
    \/ pc[p] \in {"prepare", "plan", "start"} \/ Started(p)
    \/ pc[p] = "positions" /\ IsClose(p)
    \/ pc[p] \notin {"idle", "done"} /\ p \in Guarded

LeaseInv == ~Overrun => \A p \in Procs : Inside(p) => lease = p

\* A run that is being sent stays submitted, and has one process.
StartedInv ==
    /\ \A p \in Procs : Started(p) => run[JobOf[p]].status \in Store!Submitted
    /\ \A p, q \in Procs :
          Started(p) /\ Started(q) /\ JobOf[p] = JobOf[q] => p = q

IInv ==
    /\ RunTyped
    /\ PcTyped
    /\ LeaseInv
    /\ StartedInv
    /\ Store!AtMostOneExecuting

\* A process starts to send in StartSubmission only.
StartStep ==
    \A p \in Procs : Started(p)' =>
        Started(p) \/ (StartSubmission(p) /\ \A q \in Procs \ {p} : pc'[q] = pc[q])

LEMMA InitIInv == Init => IInv
<1> SUFFICES ASSUME Init PROVE IInv
  OBVIOUS
<1>1. RunTyped
  BY DEF Init, RunTyped, Store!Absent
<1>2. PcTyped /\ LeaseInv /\ StartedInv
  BY DEF Init, PcTyped, Labels, LeaseInv, Inside, Started, StartedInv
<1>3. Store!AtMostOneExecuting
  BY DEF Init, Store!AtMostOneExecuting, Store!Absent
<1>4. QED
  BY <1>1, <1>2, <1>3 DEF IInv

\* A step is an operation of the store on one run or leaves the store alone.
LEMMA RunStep == RunTyped /\ [Next]_vars => RunTyped' /\ StatusStep
<1> SUFFICES ASSUME RunTyped, [Next]_vars PROVE RunTyped' /\ StatusStep
  OBVIOUS
<1>1. CASE run' = run
  BY <1>1 DEF RunTyped, StatusStep, StatusChange
<1>2. ASSUME NEW p \in Procs, ProcStep(p), run' # run PROVE RunTyped' /\ StatusStep
  <2>1. CASE Prepare(p)
    BY <2>1, StoreStep DEF Prepare
  <2>2. CASE RecordPlan(p)
    BY <2>2, StoreStep DEF RecordPlan
  <2>3. CASE StartSubmission(p)
    BY <2>3, StoreStep DEF StartSubmission
  <2>4. CASE MarkIncomplete(p)
    BY <1>2, <2>4, StoreStep DEF MarkIncomplete
  <2>5. CASE Report(p)
    BY <2>5, StoreStep DEF Report
  <2>6. CASE RecordCheckpoint(p)
    BY <2>6, StoreStep DEF RecordCheckpoint
  <2>7. CASE Settle(p)
    BY <1>2, <2>7, StoreStep DEF Settle
  <2>8. QED
    BY <1>2, <2>1, <2>2, <2>3, <2>4, <2>5, <2>6, <2>7
       DEF ProcStep, Begin, ReadPositions, EnterLease, GiveUp, Send, BatchReturns,
           Persist, PollEnds, RecordAll, FetchFills, VerifyPositions, Finish
<1>3. ASSUME RecoveryStep, run' # run PROVE RunTyped' /\ StatusStep
  <2>1. CASE RecoverCheckpoint
    BY <2>1, StoreStep DEF RecoverCheckpoint
  <2>2. CASE RecoverSettle
    BY <1>3, <2>2, StoreStep DEF RecoverSettle
  <2>3. QED
    BY <1>3, <2>1, <2>2
       DEF RecoveryStep, RecoverBegin, RecoverOrders, RecoverWith, RecoverPositions,
           RecoverRecord, RecoverEnd
<1>4. CASE run' # run /\ ~(\E p \in Procs : ProcStep(p)) /\ ~RecoveryStep
  BY <1>4 DEF Next, vars, Crash, RecoverCrash, LeaseExpires, LeaseLapses, Market,
              Expire, Fill
<1>5. QED
  BY <1>1, <1>2, <1>3, <1>4

\* What reading the positions comes to, for a close and for a decision.
LEMMA ReadForms ==
    ASSUME NEW p \in Procs, ReadPositions(p)
    PROVE  /\ pc[p] = "positions" /\ UNCHANGED <<run, saved, rec, book, faults>>
           /\ IsClose(p) =>
                 IF ClosePlan(PositionList(Position)) = <<>>
                 THEN Exit(p)
                 ELSE /\ work' = [work EXCEPT
                             ![p].start = Position,
                             ![p].plan = ClosePlan(PositionList(Position))]
                      /\ Goto(p, "prepare") /\ UNCHANGED lease
           /\ ~IsClose(p) => \E target \in Targets :
                 /\ work' = [work EXCEPT
                             ![p].start = Position,
                             ![p].plan = DecisionPlan(target, Position)]
                 /\ Goto(p, "lease") /\ UNCHANGED lease
<1>1. PICK plan \in PlansFrom(p, Position) :
          IF IsClose(p) /\ plan = <<>>
          THEN Exit(p)
          ELSE /\ work' = [work EXCEPT ![p].start = Position, ![p].plan = plan]
               /\ Goto(p, IF IsClose(p) THEN "prepare" ELSE "lease")
               /\ UNCHANGED lease
  BY DEF ReadPositions
<1>2. CASE IsClose(p)
  <2>1. plan = ClosePlan(PositionList(Position))
    BY <1>1, <1>2 DEF PlansFrom
  <2>2. QED
    BY <1>1, <1>2, <2>1 DEF ReadPositions
<1>3. CASE ~IsClose(p)
  <2>1. PICK target \in Targets : plan = DecisionPlan(target, Position)
    BY <1>1, <1>3 DEF PlansFrom
  <2>2. QED
    BY <1>1, <1>3, <2>1 DEF ReadPositions
<1>4. QED
  BY <1>2, <1>3

\* The steps of a process keep the lease's promise, and only StartSubmission
\* lets one send.
LEMMA ProcStepInv ==
    ASSUME PcTyped, LeaseInv, NEW p \in Procs, ProcStep(p)
    PROVE  PcTyped' /\ LeaseInv' /\ StartStep
<1> USE ExecutionAssumption
        DEF PcTyped, Labels, LeaseInv, Inside, Started, StartStep, IsClose
<1>1. CASE Begin(p)
  BY <1>1 DEF Begin, Goto, Free
<1>2. CASE ReadPositions(p)
  <2>1. /\ pc[p] = "positions"
        /\ \/ /\ pc' = [pc EXCEPT ![p] = "done"]
              /\ lease' = IF lease = p THEN Free ELSE lease
           \/ /\ IsClose(p) /\ UNCHANGED lease
              /\ pc' = [pc EXCEPT ![p] = "prepare"]
           \/ /\ ~IsClose(p) /\ UNCHANGED lease
              /\ pc' = [pc EXCEPT ![p] = "lease"]
    <3> HIDE DEF IsClose
    <3>1. CASE IsClose(p)
      <4>1. CASE ClosePlan(PositionList(Position)) = <<>>
        BY <1>2, <3>1, <4>1, ReadForms DEF Exit, Goto
      <4>2. CASE ClosePlan(PositionList(Position)) # <<>>
        BY <1>2, <3>1, <4>2, ReadForms DEF Goto
      <4>3. QED
        BY <4>1, <4>2
    <3>2. CASE ~IsClose(p)
      BY <1>2, <3>2, ReadForms DEF Goto
    <3>3. QED
      BY <3>1, <3>2
  <2>2. QED
    BY <2>1 DEF Free
<1>3. CASE EnterLease(p)
  BY <1>3 DEF EnterLease, Goto, Free
<1>4. CASE Prepare(p)
  BY <1>4 DEF Prepare, Goto
<1>5. CASE RecordPlan(p)
  BY <1>5 DEF RecordPlan, Goto
<1>6. CASE StartSubmission(p)
  <2>1. /\ pc[p] = "start" /\ UNCHANGED lease
        /\ \/ pc' = [pc EXCEPT ![p] = "send"]
           \/ pc' = [pc EXCEPT ![p] = "close"]
    BY <1>6 DEF StartSubmission, Enqueue, Goto
  <2>2. QED
    BY <1>6, <2>1
<1>7. CASE GiveUp(p)
  BY <1>7 DEF GiveUp, Exit, Goto, Free
<1>8. ASSUME NEW outcome, NEW n, Send(p, outcome, n)
      PROVE  PcTyped' /\ LeaseInv' /\ StartStep
  BY <1>8 DEF Send
<1>9. CASE BatchReturns(p)
  BY <1>9 DEF BatchReturns, Goto
<1>10. CASE Persist(p)
  BY <1>10 DEF Persist, Goto
<1>11. CASE PollEnds(p)
  <2>1. /\ pc[p] = "poll" /\ UNCHANGED lease
        /\ \/ pc' = [pc EXCEPT ![p] = "send"]
           \/ pc' = [pc EXCEPT ![p] = "close"]
    BY <1>11 DEF PollEnds, Goto
  <2>2. QED
    BY <2>1
<1>12. CASE \/ RecordAll(p) \/ MarkIncomplete(p) \/ Report(p) \/ FetchFills(p)
            \/ VerifyPositions(p) \/ RecordCheckpoint(p) \/ Settle(p)
  <2>1. UNCHANGED <<lease, pc>>
    BY <1>12 DEF RecordAll, MarkIncomplete, Report, FetchFills, VerifyPositions,
                 RecordCheckpoint, Settle, AtStep
  <2>2. QED
    BY <2>1
<1>13. CASE Finish(p)
  BY <1>13 DEF Finish, Exit, Goto, Free
<1>14. QED
  BY <1>1, <1>2, <1>3, <1>4, <1>5, <1>6, <1>7, <1>8, <1>9, <1>10, <1>11, <1>12, <1>13
     DEF ProcStep

\* So do crashes, recovery, the lease's expiry and the market.
LEMMA NextLeaseInv ==
    PcTyped /\ LeaseInv /\ [Next]_vars => PcTyped' /\ LeaseInv' /\ StartStep
<1> SUFFICES ASSUME PcTyped, LeaseInv, [Next]_vars
             PROVE  PcTyped' /\ LeaseInv' /\ StartStep
  OBVIOUS
<1>1. ASSUME NEW p \in Procs, ProcStep(p) PROVE PcTyped' /\ LeaseInv' /\ StartStep
  BY <1>1, ProcStepInv
<1> USE ExecutionAssumption
        DEF PcTyped, Labels, LeaseInv, Inside, Started, StartStep, IsClose
<1>2. ASSUME NEW p \in Procs, Crash(p) PROVE PcTyped' /\ LeaseInv' /\ StartStep
  BY <1>2 DEF Crash, Goto, Free
<1>3. CASE RecoverBegin
  BY <1>3 DEF RecoverBegin, Free
<1>4. CASE RecoverEnd \/ RecoverCrash
  <2>1. pc' = pc /\ (lease' = lease \/ lease = Recovery)
    BY <1>4 DEF RecoverEnd, RecoverCrash
  <2>2. QED
    BY <2>1 DEF Recovery
<1>5. CASE LeaseExpires
  <2>1. pc' = pc /\ \A p \in Procs : Inside(p) => lease # p
    BY <1>5 DEF LeaseExpires, HolderAlive
  <2>2. QED
    BY <2>1
<1>6. CASE LeaseLapses
  BY <1>6 DEF LeaseLapses
<1>7. CASE UNCHANGED <<pc, lease>>
  BY <1>7
<1>8. QED
  <2>1. CASE (\E j \in Jobs : RecoverOrders(j)) \/ RecoverPositions \/ RecoverRecord
             \/ RecoverCheckpoint \/ RecoverSettle
    BY <1>7, <2>1 DEF RecoverOrders, RecoverWith, RecoverPositions, RecoverRecord,
                      RecoverCheckpoint, RecoverSettle
  <2>2. CASE Market \/ UNCHANGED vars
    BY <1>7, <2>2 DEF Market, Expire, Fill, vars
  <2>3. QED
    BY <1>1, <1>2, <1>3, <1>4, <1>5, <1>6, <2>1, <2>2 DEF Next, RecoveryStep

\* No step resubmits a run, and only a process that finds its run prepared
\* starts to send it.
LEMMA NextStartedInv == IInv /\ [Next]_vars => StartedInv'
<1> SUFFICES ASSUME IInv, [Next]_vars PROVE StartedInv'
  OBVIOUS
<1> USE ExecutionAssumption
<1>1. StatusStep /\ StartStep /\ RunTyped /\ StartedInv
  BY RunStep, NextLeaseInv DEF IInv
<1>2. \A j \in Jobs : run[j].status \in Store!Submitted
                          => run'[j].status \in Store!Submitted
  BY <1>1 DEF StatusStep, StatusChange, Store!Submitted, Store!Ambiguous
<1>3. ASSUME NEW p \in Procs, StartSubmission(p)
      PROVE  /\ pc[p] = "start" /\ run[JobOf[p]].status = "prepared"
             /\ run'[JobOf[p]].status \in Store!Submitted
  <2>1. Store!Transition(JobOf[p], {"prepared"}, "executing") /\ JobOf[p] \in Jobs
    BY <1>3 DEF StartSubmission, Store!MarkSubmissionStarted
  <2>2. QED
    BY <1>1, <1>3, <2>1, TransitionStep
       DEF StartSubmission, Store!Submitted, Store!Ambiguous
<1>4. \A p \in Procs : Started(p)' => run'[JobOf[p]].status \in Store!Submitted
  BY <1>1, <1>2, <1>3 DEF StartStep, StartedInv
<1>5. \A p, q \in Procs :
          Started(p)' /\ Started(q)' /\ JobOf[p] = JobOf[q] => p = q
  BY <1>1, <1>3 DEF StartStep, StartedInv, Started, Store!Submitted, Store!Ambiguous
<1>6. QED
  BY <1>4, <1>5 DEF StartedInv

\* A run is only made executing while no other run is open.
LEMMA NextOneExecuting ==
    Store!AtMostOneExecuting /\ StatusStep => Store!AtMostOneExecuting'
BY DEF StatusStep, StatusChange, Store!AtMostOneExecuting, Store!UnresolvedRun,
       Store!Ambiguous

LEMMA NextIInv == IInv /\ [Next]_vars => IInv'
BY RunStep, NextLeaseInv, NextStartedInv, NextOneExecuting DEF IInv

\* The inductive invariant of the day.
THEOREM DayInvariant == Spec => []IInv
BY InitIInv, NextIInv, PTL DEF Spec

\* The store's promise survives the processes: however many decision, close and
\* recovery processes interleave, crash and lose their leases, two runs are never
\* executing together.
THEOREM OneRunAtATime == Spec => []Store!AtMostOneExecuting
<1>1. IInv => Store!AtMostOneExecuting
  BY DEF IInv
<1>2. QED
  BY <1>1, DayInvariant, PTL

\* A job's orders are sent by one process, also when its lease is lost: a second
\* process of the job stops at prepare_run or mark_submission_started.
OneSenderPerJob ==
    \A p, q \in Procs : Sending(p) /\ Sending(q) /\ JobOf[p] = JobOf[q] => p = q

THEOREM JobSentByOne == Spec => []OneSenderPerJob
<1>1. IInv => OneSenderPerJob
  BY DEF IInv, StartedInv, Started, OneSenderPerJob, Sending
<1>2. QED
  BY <1>1, DayInvariant, PTL

\* No process, restart or recovery leads a run that was submitted back to where
\* prepare_run or mark_submission_started would send its orders again.
THEOREM SubmittedForGood == Spec => Store!NeverSubmittableAgain
<1>1. IInv /\ [Next]_vars =>
        [\A j \in Jobs : run[j].status \in Store!Submitted
            => run'[j].status \in Store!Submitted
               /\ (run'[j].status = "executing"
                       => run[j].status = "executing")]_(Store!vars)
  BY RunStep
     DEF IInv, StatusStep, StatusChange, Store!Submitted, Store!Ambiguous, Store!vars
<1>2. QED
  BY <1>1, DayInvariant, PTL DEF Spec, Store!NeverSubmittableAgain

-----------------------------------------------------------------------------
(***************************************************************************)
(* What the variables of the trading day hold: rows of the store, orders   *)
(* at the broker, attributions of them, and the local variables of the     *)
(* processes and of the recovery.  The day is then a refinement of the     *)
(* store, and a saved plan stays what the process that sends it planned.   *)
(***************************************************************************)

Inventories == [TickerSet -> Int]
Kinds == {"close", "new", "delayed"}
Statuses == {"SUBMITTED", "FAILED", "FILLED", "CANCELLED"}
Steps == {"fills", "record", "report", "mark", "snapshot", "checkpoint", "settle"}

ResultRec == [id : Nat, ticker : TickerSet, side : Sides, qty : Nat \ {0},
              status : Statuses]
BatchRec == [kind : Kinds, orders : Seq(Intent)]
WorkRec == [start : Inventories \cup {None}, plan : Seq(Intent),
            queue : Seq(BatchRec), batch : Seq(ResultRec),
            results : Seq(ResultRec), expected : Inventories \cup {None},
            errors : BOOLEAN, todo : Seq(Steps)]

-----------------------------------------------------------------------------
(***************************************************************************)
(* Batches.                                                                *)
(***************************************************************************)
LEMMA PartType ==
    ASSUME NEW plan \in Seq(Intent), NEW purpose
    PROVE  /\ Part(plan, purpose) \in Seq(Intent)
           /\ \A k \in DOMAIN Part(plan, purpose) :
                 /\ Part(plan, purpose)[k].purpose = purpose
                 /\ \E i \in DOMAIN plan : Part(plan, purpose)[k] = plan[i]
<1> DEFINE P == {i \in DOMAIN plan : plan[i].purpose = purpose}
<1>1. Part(plan, purpose) = Entries(plan, P)
  BY DEF Part
<1>2. \A i \in P \cap DOMAIN plan : plan[i].purpose = purpose
  OBVIOUS
<1> HIDE DEF P
<1>3. QED
  BY <1>1, <1>2, EntriesOf

\* All batches of a job, empty ones included.
AllBatches(j, plan) ==
    LET closes == Part(plan, "close")
        news   == Part(plan, "new")
    IN  IF j \in CloseJobs
        THEN <<Batch("close", Immediate(closes)),
               Batch("delayed", Delayed(closes))>>
        ELSE <<Batch("close", closes),
               Batch("new", Immediate(news)),
               Batch("delayed", Delayed(news))>>

KindOrder(kind) == IF kind = "close" THEN 1 ELSE IF kind = "new" THEN 2 ELSE 3

LEMMA AllBatchesType ==
    ASSUME NEW j, NEW plan \in Seq(Intent)
    PROVE  /\ AllBatches(j, plan) \in Seq(BatchRec)
           /\ \A b, c \in DOMAIN AllBatches(j, plan) :
                 b < c => KindOrder(AllBatches(j, plan)[b].kind)
                              < KindOrder(AllBatches(j, plan)[c].kind)
<1> DEFINE closes == Part(plan, "close")
           news == Part(plan, "new")
<1>1. closes \in Seq(Intent) /\ news \in Seq(Intent)
  BY PartType
<1> HIDE DEF closes, news
<1>2. /\ Immediate(closes) \in Seq(Intent) /\ Immediate(news) \in Seq(Intent)
      /\ Delayed(closes) \in Seq(Intent) /\ Delayed(news) \in Seq(Intent)
  BY <1>1, ImmediateType, DelayedType
<1>3. CASE j \in CloseJobs
  <2> DEFINE a == Batch("close", Immediate(closes))
             b == Batch("delayed", Delayed(closes))
  <2>1. a \in BatchRec /\ b \in BatchRec /\ a.kind = "close" /\ b.kind = "delayed"
    BY <1>2 DEF Batch, BatchRec, Kinds
  <2> HIDE DEF a, b
  <2>2. AllBatches(j, plan) = <<a, b>>
    BY <1>3 DEF AllBatches, a, b, closes
  <2>3. QED
    BY <2>1, <2>2 DEF KindOrder
<1>4. CASE j \notin CloseJobs
  <2> DEFINE a == Batch("close", closes)
             b == Batch("new", Immediate(news))
             c == Batch("delayed", Delayed(news))
  <2>1. /\ a \in BatchRec /\ b \in BatchRec /\ c \in BatchRec
        /\ a.kind = "close" /\ b.kind = "new" /\ c.kind = "delayed"
    BY <1>1, <1>2 DEF Batch, BatchRec, Kinds
  <2> HIDE DEF a, b, c
  <2>2. AllBatches(j, plan) = <<a, b, c>>
    BY <1>4 DEF AllBatches, a, b, c, closes, news
  <2>3. QED
    BY <2>1, <2>2 DEF KindOrder
<1>5. QED
  BY <1>3, <1>4

LEMMA BatchesAre ==
    \A j, plan : Batches(j, plan)
        = Entries(AllBatches(j, plan),
                  {b \in DOMAIN AllBatches(j, plan) : AllBatches(j, plan)[b].orders # <<>>})
BY DEF Batches, AllBatches

\* The batches that are sent: not empty, one of a kind, in the order of kinds.
LEMMA BatchesType ==
    ASSUME NEW j, NEW plan \in Seq(Intent)
    PROVE  /\ Batches(j, plan) \in Seq(BatchRec)
           /\ \A b \in DOMAIN Batches(j, plan) : Batches(j, plan)[b].orders # <<>>
           /\ \A b, c \in DOMAIN Batches(j, plan) :
                 b < c => KindOrder(Batches(j, plan)[b].kind)
                              < KindOrder(Batches(j, plan)[c].kind)
<1> DEFINE all == AllBatches(j, plan)
           P == {b \in DOMAIN all : all[b].orders # <<>>}
<1>1. all \in Seq(BatchRec)
      /\ \A b, c \in DOMAIN all : b < c => KindOrder(all[b].kind) < KindOrder(all[c].kind)
  BY AllBatchesType
<1>2. Batches(j, plan) = Entries(all, P) /\ \A b \in P \cap DOMAIN all : all[b].orders # <<>>
  BY BatchesAre
<1> HIDE DEF all, P
<1>3. /\ Entries(all, P) \in Seq(BatchRec)
      /\ \A k \in DOMAIN Entries(all, P) : \E i \in P \cap DOMAIN all : Entries(all, P)[k] = all[i]
  BY <1>1, EntriesOf
<1>4. \A b \in DOMAIN Entries(all, P) : Entries(all, P)[b].orders # <<>>
  BY <1>2, <1>3
<1>5. ASSUME NEW b \in DOMAIN Entries(all, P), NEW c \in DOMAIN Entries(all, P), b < c
      PROVE  KindOrder(Entries(all, P)[b].kind) < KindOrder(Entries(all, P)[c].kind)
  <2>1. PICK i, l \in P \cap DOMAIN all :
            i < l /\ Entries(all, P)[b] = all[i] /\ Entries(all, P)[c] = all[l]
    BY <1>1, <1>5, EntriesInOrder
  <2>2. QED
    BY <1>1, <2>1
<1>6. QED
  BY <1>2, <1>3, <1>4, <1>5

-----------------------------------------------------------------------------
(***************************************************************************)
(* The account, and the plans made from it.                                *)
(***************************************************************************)
BookOK ==
    /\ book \in Seq(BookOrder)
    /\ \A id \in DOMAIN book : /\ book[id].filled <= book[id].qty
                               /\ book[id].live => book[id].filled < book[id].qty

LEMMA FilledByType ==
    ASSUME book \in Seq(BookOrder), NEW ids
    PROVE  FilledBy(ids) \in Inventories
<1> SUFFICES ASSUME NEW t \in TickerSet
             PROVE  FilledBy(ids)[t] \in Int
  BY DEF FilledBy, Inventories
<1> DEFINE v == [id \in DOMAIN book |->
                    IF id \in ids /\ book[id].ticker = t
                    THEN Signed([book[id] EXCEPT !.qty = book[id].filled])
                    ELSE 0]
<1>1. ASSUME NEW id \in DOMAIN book
      PROVE  Signed([book[id] EXCEPT !.qty = book[id].filled]) \in Int
  <2>1. book[id] \in BookOrder
    OBVIOUS
  <2>2. QED
    BY <2>1 DEF BookOrder, Signed
<1>2. v \in Seq(Int)
  <2>1. DOMAIN book = 1 .. Len(book) /\ Len(book) \in Nat
    OBVIOUS
  <2>2. \A id \in DOMAIN book : v[id] \in Int
    BY <1>1
  <2>3. v = [id \in 1 .. Len(book) |-> v[id]]
    BY <2>1
  <2> HIDE DEF v
  <2>4. QED
    BY <2>1, <2>2, <2>3
<1>3. SumFunction(v) \in Int
  BY <1>2, SeqSumInt
<1>4. QED
  BY <1>3 DEF FilledBy

LEMMA PlusType ==
    ASSUME NEW a \in Inventories, NEW b \in Inventories
    PROVE  Plus(a, b) \in Inventories
BY DEF Plus, Inventories

LEMMA PositionType ==
    ASSUME book \in Seq(BookOrder)
    PROVE  Position \in Inventories
<1>1. Opening \in Inventories
  BY ExecutionAssumption DEF Inventories
<1>2. QED
  BY <1>1, FilledByType, PlusType DEF Position

OnlyCloses(plan) == \A i \in DOMAIN plan : plan[i].purpose = "close"

LEMMA ClosePlanType ==
    ASSUME book \in Seq(BookOrder)
    PROVE  /\ WellFormed(ClosePlan(PositionList(Position)))
           /\ OnlyCloses(ClosePlan(PositionList(Position)))
<1> DEFINE positions == PositionList(Position)
           orders == DayCloseOrders(positions, 0, 0)
<1>1. positions \in Seq(Orders) /\ OnePerTicker(positions)
  BY PositionType, OrdersForType DEF PositionList, Inventories
<1> HIDE DEF positions
<1>2. orders \in Seq(Orders) /\ OnePerTicker(orders)
  BY <1>1, DayCloseOrdersType
<1> HIDE DEF orders
<1>3. WellFormed(Intents(orders, "close")) /\ OnlyCloses(Intents(orders, "close"))
  BY <1>2, ClosesWellFormed DEF OnlyCloses
<1>4. QED
  BY <1>3 DEF ClosePlan, orders, positions

LEMMA DecisionType ==
    ASSUME book \in Seq(BookOrder), NEW target \in Targets
    PROVE  WellFormed(DecisionPlan(target, Position))
BY PositionType, DecisionPlanType, ExecutionAssumption DEF Inventories

-----------------------------------------------------------------------------
(***************************************************************************)
(* The orders at the broker: they are only added to, an order stays what   *)
(* it was, its fills only grow and an order that has ended stays as it is. *)
(***************************************************************************)
SameOrder(o, b) == /\ b.job = o.job /\ b.kind = o.kind /\ b.ticker = o.ticker
                   /\ b.side = o.side /\ b.qty = o.qty

BookGrows ==
    \A id \in DOMAIN book :
        /\ id \in DOMAIN book'
        /\ SameOrder(book[id], book'[id])
        /\ book[id].filled <= book'[id].filled
        /\ ~book[id].live => book'[id] = book[id]

\* A step that sends no order.
BookKept == DOMAIN book' = DOMAIN book /\ BookGrows

\* An order that is still live is filled further, or ends.
Moved(o, b) == /\ o.live /\ b \in BookOrder /\ SameOrder(o, b)
               /\ o.filled <= b.filled /\ b.filled <= b.qty
               /\ b.live => b.filled < b.qty

LEMMA BookUpdate ==
    ASSUME BookOK, book' = [id \in DOMAIN book |-> book'[id]],
           \A id \in DOMAIN book : book'[id] = book[id] \/ Moved(book[id], book'[id])
    PROVE  BookOK' /\ BookKept
<1>1. DOMAIN book' = DOMAIN book /\ DOMAIN book = 1 .. Len(book) /\ Len(book) \in Nat
  BY DEF BookOK
<1>2. ASSUME NEW id \in DOMAIN book
      PROVE  /\ book'[id] \in BookOrder
             /\ book'[id].filled <= book'[id].qty
             /\ book'[id].live => book'[id].filled < book'[id].qty
             /\ SameOrder(book[id], book'[id])
             /\ book[id].filled <= book'[id].filled
             /\ ~book[id].live => book'[id] = book[id]
  <2>1. book[id] \in BookOrder
    BY DEF BookOK
  <2>2. CASE Moved(book[id], book'[id])
    BY <2>2 DEF Moved
  <2>3. CASE book'[id] = book[id]
    BY <2>1, <2>3 DEF SameOrder, BookOK, BookOrder
  <2>4. QED
    BY <2>2, <2>3
<1>3. book' \in Seq(BookOrder)
  <2>1. book' = [id \in 1 .. Len(book) |-> book'[id]]
    BY <1>1
  <2>2. \A id \in 1 .. Len(book) : book'[id] \in BookOrder
    BY <1>1, <1>2
  <2>3. QED
    BY <1>1, <2>1, <2>2
<1>4. QED
  BY <1>1, <1>2, <1>3 DEF BookOK, BookKept, BookGrows

LEMMA MarketStep == BookOK /\ Market => BookOK' /\ BookKept
<1>1. ASSUME BookOK, NEW id \in DOMAIN book, Expire(id) PROVE BookOK' /\ BookKept
  <2>1. book[id] \in BookOrder /\ book[id].filled <= book[id].qty /\ book[id].live
    BY <1>1 DEF BookOK, Expire
  <2> DEFINE o == book[id]
             b == [o EXCEPT !.live = FALSE]
  <2>2. /\ b \in BookOrder /\ ~b.live /\ SameOrder(o, b)
        /\ b.filled = o.filled /\ b.qty = o.qty
    BY <2>1 DEF SameOrder, BookOrder
  <2>3. book' = [book EXCEPT ![id] = b]
    BY <1>1 DEF Expire
  <2>7. Moved(o, b)
    <3> HIDE DEF b
    <3>1. QED
      BY <2>1, <2>2 DEF Moved, BookOrder
  <2> HIDE DEF b
  <2>4. \A x \in DOMAIN book : book'[x] = book[x] \/ Moved(book[x], book'[x])
    BY <2>7, <2>3
  <2>5. book' = [x \in DOMAIN book |-> book'[x]]
    BY <2>3
  <2>6. QED
    BY <1>1, <2>4, <2>5, BookUpdate
<1>2. ASSUME BookOK, NEW id \in DOMAIN book, NEW qty, Fill(id, qty)
      PROVE  BookOK' /\ BookKept
  <2>1. /\ book[id] \in BookOrder /\ book[id].filled <= book[id].qty
        /\ book[id].live /\ qty \in 1 .. book[id].qty - book[id].filled
    BY <1>2 DEF BookOK, Fill
  <2> DEFINE o == book[id]
             n == o.filled + qty
             left == n < o.qty
             b == [o EXCEPT !.filled = n, !.live = left]
  <2>7. /\ left \in BOOLEAN /\ n \in Nat /\ o.filled <= n /\ n <= o.qty
        /\ left <=> n < o.qty
    BY <2>1 DEF BookOrder
  <2>3. book' = [book EXCEPT ![id] = b]
    BY <1>2 DEF Fill
  <2> HIDE DEF left, n
  <2>2. /\ b \in BookOrder /\ SameOrder(o, b) /\ b.filled = n /\ b.qty = o.qty
        /\ b.live = left
    BY <2>1, <2>7 DEF SameOrder, BookOrder
  <2>8. Moved(o, b)
    <3> HIDE DEF b
    <3>1. QED
      BY <2>1, <2>2, <2>7 DEF Moved
  <2> HIDE DEF b
  <2>4. \A x \in DOMAIN book : book'[x] = book[x] \/ Moved(book[x], book'[x])
    BY <2>8, <2>3
  <2>5. book' = [x \in DOMAIN book |-> book'[x]]
    BY <2>3
  <2>6. QED
    BY <1>2, <2>4, <2>5, BookUpdate
<1>3. QED
  BY <1>1, <1>2 DEF Market

-----------------------------------------------------------------------------
(***************************************************************************)
(* What a step of a process does to its local variables, field by field.   *)
(***************************************************************************)
WorkTyped == work \in [Procs -> WorkRec]

\* No other process moves.
Alone(p) == \A q \in Procs \ {p} : pc'[q] = pc[q] /\ work'[q] = work[q]

SamePlan(p) == work'[p].start = work[p].start /\ work'[p].plan = work[p].plan

SameOrders(p) == /\ work'[p].queue = work[p].queue
                 /\ work'[p].batch = work[p].batch
                 /\ work'[p].results = work[p].results

LEMMA WorkUpdate ==
    ASSUME WorkTyped, NEW p \in Procs, NEW w \in WorkRec, work' = [work EXCEPT ![p] = w]
    PROVE  WorkTyped' /\ work'[p] = w /\ \A q \in Procs \ {p} : work'[q] = work[q]
BY DEF WorkTyped

LEMMA GotoStep ==
    ASSUME PcTyped, NEW p \in Procs, NEW label, Goto(p, label)
    PROVE  pc'[p] = label /\ \A q \in Procs \ {p} : pc'[q] = pc[q]
BY DEF PcTyped, Goto

LEMMA NoWorkType == NoWork \in WorkRec
<1>1. <<>> \in Seq(Intent) /\ <<>> \in Seq(BatchRec) /\ <<>> \in Seq(ResultRec)
      /\ <<>> \in Seq(Steps)
  OBVIOUS
<1>2. QED
  BY <1>1 DEF NoWork, WorkRec

LEMMA ExitStep ==
    ASSUME WorkTyped, PcTyped, NEW p \in Procs, Exit(p)
    PROVE  WorkTyped' /\ Alone(p) /\ pc'[p] = "done" /\ work'[p] = NoWork
BY NoWorkType, WorkUpdate, GotoStep DEF Exit, Alone

\* fetch_current_positions, and the plan made of them.
PlanIsMade(p) ==
    /\ work'[p].start = Position
    /\ WellFormed(work'[p].plan)
    /\ IsClose(p) => work'[p].plan = ClosePlan(PositionList(Position)) /\ work'[p].plan # <<>>
    /\ ~IsClose(p) => \E target \in Targets :
                          work'[p].plan = DecisionPlan(target, Position)

LEMMA ReadStep ==
    ASSUME WorkTyped, PcTyped, BookOK, NEW p \in Procs, ReadPositions(p)
    PROVE  /\ WorkTyped' /\ Alone(p)
           /\ \/ pc'[p] = "done" /\ work'[p] = NoWork /\ IsClose(p)
                 /\ lease' = IF lease = p THEN Free ELSE lease
              \/ /\ pc'[p] = IF IsClose(p) THEN "prepare" ELSE "lease"
                 /\ PlanIsMade(p) /\ SameOrders(p) /\ lease' = lease
<1>1. book \in Seq(BookOrder) /\ Position \in Inventories
  BY PositionType DEF BookOK
<1>2. ASSUME NEW plan, WellFormed(plan), NEW label,
             work' = [work EXCEPT ![p].start = Position, ![p].plan = plan],
             Goto(p, label)
      PROVE  /\ WorkTyped' /\ Alone(p) /\ pc'[p] = label /\ SameOrders(p)
             /\ work'[p].start = Position /\ work'[p].plan = plan
  <2> DEFINE pos == Position
             w == [work[p] EXCEPT !.start = pos, !.plan = plan]
  <2>1. plan \in Seq(Intent) /\ pos \in Inventories
    BY <1>1, <1>2 DEF WellFormed
  <2>2. work' = [work EXCEPT ![p].start = pos, ![p].plan = plan]
    BY <1>2
  <2> HIDE DEF pos
  <2>3. work' = [work EXCEPT ![p] = w]
    BY <2>2 DEF WorkTyped
  <2>4. /\ w \in WorkRec /\ w.start = pos /\ w.plan = plan
        /\ w.queue = work[p].queue /\ w.batch = work[p].batch
        /\ w.results = work[p].results
    BY <2>1 DEF WorkTyped, WorkRec
  <2> HIDE DEF w
  <2>5. WorkTyped' /\ work'[p] = w /\ \A q \in Procs \ {p} : work'[q] = work[q]
    BY <2>3, <2>4, WorkUpdate
  <2>6. pc'[p] = label /\ \A q \in Procs \ {p} : pc'[q] = pc[q]
    BY <1>2, GotoStep
  <2>7. QED
    BY <2>4, <2>5, <2>6 DEF Alone, SameOrders, pos
<1>3. CASE IsClose(p)
  <2> DEFINE plan == ClosePlan(PositionList(Position))
  <2>1. WellFormed(plan)
    BY <1>1, ClosePlanType
  <2>2. CASE plan = <<>>
    <3>1. Exit(p)
      BY <1>3, <2>2, ReadForms
    <3>2. QED
      BY <1>3, <3>1, ExitStep DEF Exit
  <2>3. CASE plan # <<>>
    <3>1. /\ work' = [work EXCEPT ![p].start = Position, ![p].plan = plan]
          /\ Goto(p, "prepare") /\ lease' = lease
      BY <1>3, <2>3, ReadForms
    <3> HIDE DEF plan
    <3>2. /\ WorkTyped' /\ Alone(p) /\ pc'[p] = "prepare" /\ SameOrders(p)
          /\ work'[p].start = Position /\ work'[p].plan = plan
      BY <1>2, <2>1, <3>1
    <3>3. QED
      BY <1>3, <2>1, <2>3, <3>1, <3>2 DEF PlanIsMade, plan
  <2>4. QED
    BY <2>2, <2>3
<1>4. CASE ~IsClose(p)
  <2>1. PICK target \in Targets :
            /\ work' = [work EXCEPT ![p].start = Position,
                                    ![p].plan = DecisionPlan(target, Position)]
            /\ Goto(p, "lease") /\ lease' = lease
    BY <1>4, ReadForms
  <2> DEFINE plan == DecisionPlan(target, Position)
  <2>2. WellFormed(plan)
    BY <1>1, DecisionType
  <2>3. work' = [work EXCEPT ![p].start = Position, ![p].plan = plan]
    BY <2>1
  <2> HIDE DEF plan
  <2>4. /\ WorkTyped' /\ Alone(p) /\ pc'[p] = "lease" /\ SameOrders(p)
        /\ work'[p].start = Position /\ work'[p].plan = plan
    BY <1>2, <2>1, <2>2, <2>3
  <2>5. QED
    BY <1>4, <2>1, <2>2, <2>4 DEF PlanIsMade, plan
<1>5. QED
  BY <1>3, <1>4

LEMMA ClosingType == \A j : Closing(j) \in Seq(Steps)
<1> TAKE j
<1> DEFINE C == <<"fills", "record", "report", "mark",
                  "snapshot", "checkpoint", "settle">>
           D == <<"record", "mark", "report", "fills",
                  "snapshot", "record", "checkpoint", "settle">>
<1>1. \A i \in 1 .. 7 : C[i] \in Steps
  BY DEF Steps
<1>2. \A i \in 1 .. 8 : D[i] \in Steps
  BY DEF Steps
<1>3. Len(C) = 7 /\ C = [i \in 1 .. 7 |-> C[i]]
  OBVIOUS
<1>4. Len(D) = 8 /\ D = [i \in 1 .. 8 |-> D[i]]
  OBVIOUS
<1>5. Closing(j) = C \/ Closing(j) = D
  BY DEF Closing
<1> HIDE DEF C, D
<1>6. C \in Seq(Steps)
  BY <1>1, <1>3
<1>7. D \in Seq(Steps)
  BY <1>2, <1>4
<1>8. QED
  BY <1>5, <1>6, <1>7

\* mark_submission_started lays out the batches and what follows them.
LEMMA StartWork ==
    ASSUME WorkTyped, PcTyped, NEW p \in Procs, StartSubmission(p)
    PROVE  /\ WorkTyped' /\ Alone(p) /\ SamePlan(p)
           /\ work'[p].queue = Batches(JobOf[p], work[p].plan)
           /\ work'[p].batch = work[p].batch /\ work'[p].results = work[p].results
           /\ work'[p].todo = Closing(JobOf[p])
           /\ work'[p].errors = work[p].errors
           /\ pc'[p] = IF work'[p].queue = <<>> THEN "close" ELSE "send"
<1> DEFINE queue == Batches(JobOf[p], work[p].plan)
           todo == Closing(JobOf[p])
           w == [work[p] EXCEPT !.queue = queue, !.todo = todo]
<1>1. /\ work' = [work EXCEPT ![p].queue = queue, ![p].todo = todo]
      /\ Goto(p, IF queue = <<>> THEN "close" ELSE "send")
  BY DEF StartSubmission, Enqueue
<1>2. work[p] \in WorkRec
  BY DEF WorkTyped
<1>3. queue \in Seq(BatchRec)
  <2>1. work[p].plan \in Seq(Intent)
    BY <1>2 DEF WorkRec
  <2>2. QED
    BY <2>1, BatchesType
<1>4. todo \in Seq(Steps)
  BY ClosingType
<1> HIDE DEF queue, todo
<1>5. work' = [work EXCEPT ![p] = w]
  BY <1>1 DEF WorkTyped
<1>6. /\ w \in WorkRec /\ w.queue = queue /\ w.todo = todo
      /\ w.start = work[p].start /\ w.plan = work[p].plan /\ w.batch = work[p].batch
      /\ w.results = work[p].results
  BY <1>2, <1>3, <1>4 DEF WorkRec
<1>7. w.errors = work[p].errors
  BY <1>2 DEF WorkRec
<1> HIDE DEF w
<1>8. WorkTyped' /\ work'[p] = w /\ \A q \in Procs \ {p} : work'[q] = work[q]
  BY <1>5, <1>6, WorkUpdate
<1>9. /\ pc'[p] = IF queue = <<>> THEN "close" ELSE "send"
      /\ \A q \in Procs \ {p} : pc'[q] = pc[q]
  <2> DEFINE label == IF queue = <<>> THEN "close" ELSE "send"
  <2>1. Goto(p, label)
    BY <1>1
  <2> HIDE DEF label
  <2>2. pc'[p] = label /\ \A q \in Procs \ {p} : pc'[q] = pc[q]
    BY <2>1, GotoStep
  <2>3. QED
    BY <2>2 DEF label
<1>10. QED
  BY <1>6, <1>7, <1>8, <1>9 DEF SamePlan, Alone, queue, todo

-----------------------------------------------------------------------------
(***************************************************************************)
(* Sending, field by field.                                                *)
(***************************************************************************)
\* The order that is sent next.
NextOrder(p) == CurrentBatch(p).orders[Len(work[p].batch) + 1]

LEMMA HeadType ==
    ASSUME WorkTyped, NEW p \in Procs, work[p].queue # <<>>
    PROVE  /\ CurrentBatch(p) \in BatchRec /\ CurrentBatch(p) = work[p].queue[1]
           /\ CurrentBatch(p).kind \in Kinds /\ CurrentBatch(p).orders \in Seq(Intent)
           /\ work[p].batch \in Seq(ResultRec) /\ work[p].results \in Seq(ResultRec)
<1>1. /\ work[p].queue \in Seq(BatchRec)
      /\ work[p].batch \in Seq(ResultRec) /\ work[p].results \in Seq(ResultRec)
  BY DEF WorkTyped, WorkRec
<1>2. CurrentBatch(p) \in BatchRec /\ CurrentBatch(p) = work[p].queue[1]
  BY <1>1 DEF CurrentBatch
<1>3. QED
  BY <1>1, <1>2 DEF BatchRec

\* submit_order: n orders reach the broker, the last of them may be known.
SendsOrders(p, n, r) ==
    /\ n \in Nat /\ r \in ResultRec
    /\ NextOrder(p) \in Intent
    /\ r.ticker = NextOrder(p).ticker /\ r.side = NextOrder(p).side
    /\ r.qty = NextOrder(p).qty
    /\ \/ r.id = NoId /\ r.status = "FAILED"
       \/ r.id = Len(book) + n /\ n > 0 /\ r.status = "SUBMITTED"
    /\ Sent(p, NextOrder(p)) \in BookOrder
    /\ book' = book \o [i \in 1 .. n |-> Sent(p, NextOrder(p))]
    /\ work'[p].batch = Append(work[p].batch, r)

LEMMA SendStep ==
    ASSUME WorkTyped, PcTyped, BookOK, NEW p \in Procs, work[p].queue # <<>>,
           NEW outcome \in SubmitOutcomes, NEW unanswered \in Unanswered,
           Send(p, outcome, unanswered)
    PROVE  /\ WorkTyped' /\ Alone(p) /\ pc'[p] = pc[p] /\ SamePlan(p)
           /\ work'[p].queue = work[p].queue /\ work'[p].results = work[p].results
           /\ work'[p].todo = work[p].todo
           /\ \E n, r : SendsOrders(p, n, r)
                        /\ n = unanswered + (IF outcome = "rejected" THEN 0 ELSE 1)
<1> DEFINE o == NextOrder(p)
           n == unanswered + (IF outcome = "rejected" THEN 0 ELSE 1)
           r == IF outcome = "accepted" THEN Result(o, Len(book) + n, "SUBMITTED")
                ELSE Result(o, NoId, "FAILED")
           batch == Append(work[p].batch, r)
           w == [work[p] EXCEPT !.batch = batch]
<1>1. /\ Len(work[p].batch) < Len(CurrentBatch(p).orders)
      /\ book' = book \o [i \in 1 .. n |-> Sent(p, o)]
      /\ work' = [work EXCEPT ![p].batch = batch]
      /\ pc' = pc
  BY DEF Send, NextOrder
<1>2. work[p] \in WorkRec
  BY DEF WorkTyped
<1>3. o \in Intent
  BY <1>1, HeadType DEF NextOrder
<1>4. n \in Nat /\ Len(book) \in Nat /\ (outcome = "accepted" => n > 0)
  <2>1. unanswered \in Nat
    BY DEF Unanswered, Attempts
  <2>2. QED
    BY <2>1 DEF BookOK
<1> HIDE DEF n, o
<1>5. r \in ResultRec
  BY <1>3, <1>4 DEF Result, ResultRec, Intent, Statuses, NoId, Sides
<1>6. /\ r.ticker = o.ticker /\ r.side = o.side /\ r.qty = o.qty
      /\ \/ r.id = NoId /\ r.status = "FAILED"
         \/ r.id = Len(book) + n /\ n > 0 /\ r.status = "SUBMITTED"
  BY <1>4 DEF Result
<1>7. Sent(p, o) \in BookOrder
  <2>1. JobOf[p] \in Jobs /\ CurrentBatch(p).kind \in Kinds
    BY HeadType, ExecutionAssumption
  <2>2. QED
    BY <1>3, <2>1 DEF Sent, BookOrder, Intent, Kinds
<1> HIDE DEF r
<1>8. batch \in Seq(ResultRec)
  BY <1>2, <1>5 DEF WorkRec
<1> HIDE DEF batch
<1>10. work' = [work EXCEPT ![p] = w]
  BY <1>1 DEF WorkTyped
<1>11. /\ w \in WorkRec /\ w.batch = batch
       /\ w.start = work[p].start /\ w.plan = work[p].plan /\ w.queue = work[p].queue
       /\ w.results = work[p].results /\ w.todo = work[p].todo
  BY <1>2, <1>8 DEF WorkRec
<1> HIDE DEF w
<1>12. WorkTyped' /\ work'[p] = w /\ \A q \in Procs \ {p} : work'[q] = work[q]
  BY <1>10, <1>11, WorkUpdate
<1>13. SendsOrders(p, n, r)
  BY <1>1, <1>3, <1>4, <1>5, <1>6, <1>7, <1>11, <1>12 DEF SendsOrders, batch, o
<1>14. QED
  BY <1>1, <1>11, <1>12, <1>13 DEF SamePlan, Alone, n

\* What submit_orders_batch hands back of the results it collected.
BatchHandedBack(p) ==
    /\ \A k \in DOMAIN work'[p].batch : \E i \in DOMAIN work[p].batch :
          /\ work'[p].batch[k].id = work[p].batch[i].id
          /\ work'[p].batch[k].ticker = work[p].batch[i].ticker
          /\ work'[p].batch[k].side = work[p].batch[i].side
          /\ work'[p].batch[k].qty = work[p].batch[i].qty
          /\ \/ work'[p].batch[k].status = work[p].batch[i].status
             \/ work'[p].batch[k].status = "CANCELLED"
    /\ Broker = "tachibana" \/ Len(work'[p].batch) = Len(work[p].batch) =>
          /\ Len(work'[p].batch) = Len(work[p].batch)
          /\ \A i \in DOMAIN work[p].batch :
                /\ work'[p].batch[i].id = work[p].batch[i].id
                /\ work'[p].batch[i].ticker = work[p].batch[i].ticker
                /\ work'[p].batch[i].side = work[p].batch[i].side
                /\ work'[p].batch[i].qty = work[p].batch[i].qty
                /\ \/ work'[p].batch[i].status = work[p].batch[i].status
                   \/ /\ work'[p].batch[i].status = "CANCELLED"
                      /\ NeedsRollback(p)

LEMMA ReturnsStep ==
    ASSUME WorkTyped, PcTyped, BookOK, NEW p \in Procs, BatchReturns(p)
    PROVE  /\ WorkTyped' /\ Alone(p) /\ pc'[p] = "persist" /\ SamePlan(p)
           /\ work'[p].queue = work[p].queue /\ work'[p].results = work[p].results
           /\ work'[p].todo = work[p].todo
           /\ BatchHandedBack(p)
           /\ BookOK' /\ BookKept
<1> DEFINE old == work[p].batch
           batch == ReturnedBatch(p, NeedsRollback(p))
           w == [work[p] EXCEPT !.batch = batch]
<1>1. work' = [work EXCEPT ![p].batch = batch] /\ Goto(p, "persist")
  BY DEF BatchReturns
<1>2. work[p] \in WorkRec /\ old \in Seq(ResultRec)
  BY DEF WorkTyped, WorkRec
<1>3. /\ batch \in Seq(ResultRec)
      /\ \A k \in DOMAIN batch : \E i \in DOMAIN old :
            /\ batch[k].id = old[i].id /\ batch[k].ticker = old[i].ticker
            /\ batch[k].side = old[i].side /\ batch[k].qty = old[i].qty
            /\ batch[k].status = old[i].status \/ batch[k].status = "CANCELLED"
      /\ Broker = "tachibana" \/ Len(batch) = Len(old) =>
            /\ Len(batch) = Len(old)
            /\ \A i \in DOMAIN old :
                /\ batch[i].id = old[i].id /\ batch[i].ticker = old[i].ticker
                /\ batch[i].side = old[i].side /\ batch[i].qty = old[i].qty
                /\ \/ batch[i].status = old[i].status
                   \/ batch[i].status = "CANCELLED" /\ NeedsRollback(p)
  <2>1. CASE Broker = "kabu" /\ NeedsRollback(p)
    <3>1. batch = <<>>
      BY <2>1 DEF ReturnedBatch
    <3> HIDE DEF batch, old
    <3>2. batch \in Seq(ResultRec) /\ DOMAIN batch = {} /\ Len(batch) = 0
      BY <3>1
    <3>3. Len(old) = 0 => DOMAIN old = {}
      BY <1>2
    <3>4. QED
      BY <2>1, <3>2, <3>3
  <2>2. CASE Broker = "kabu" /\ ~NeedsRollback(p)
    <3> DEFINE P == {i \in DOMAIN old : old[i].status # "FAILED"}
    <3>1. batch = Entries(old, P)
      BY <2>2 DEF ReturnedBatch
    <3> HIDE DEF P, old, batch
    <3>2. batch \in Seq(ResultRec)
          /\ \A k \in DOMAIN batch : \E i \in P \cap DOMAIN old : batch[k] = old[i]
      BY <1>2, <3>1, EntriesOf
    <3>3. Len(batch) = Len(old) => batch = old
      BY <1>2, <3>1, EntriesAll
    <3>4. QED
      BY <2>2, <3>2, <3>3
  <2>3. CASE Broker # "kabu" /\ NeedsRollback(p)
    <3>1. batch = [i \in DOMAIN old |-> [old[i] EXCEPT !.status = "CANCELLED"]]
      BY <2>3 DEF ReturnedBatch
    <3> HIDE DEF old, batch
    <3>2. \A i \in DOMAIN old :
              /\ batch[i] \in ResultRec /\ batch[i].status = "CANCELLED"
              /\ batch[i].id = old[i].id /\ batch[i].ticker = old[i].ticker
              /\ batch[i].side = old[i].side /\ batch[i].qty = old[i].qty
      <4> TAKE i \in DOMAIN old
      <4>1. batch[i] = [old[i] EXCEPT !.status = "CANCELLED"] /\ old[i] \in ResultRec
        BY <1>2, <3>1
      <4>2. QED
        BY <4>1 DEF ResultRec, Statuses
    <3>3. /\ DOMAIN batch = 1 .. Len(old) /\ Len(old) \in Nat /\ DOMAIN old = 1 .. Len(old)
          /\ batch = [i \in 1 .. Len(old) |-> batch[i]]
      BY <1>2, <3>1
    <3>4. batch \in Seq(ResultRec) /\ Len(batch) = Len(old)
      BY <3>2, <3>3
    <3>5. QED
      BY <2>3, <3>2, <3>3, <3>4
  <2>4. CASE Broker # "kabu" /\ ~NeedsRollback(p)
    <3>1. batch = old
      BY <2>4 DEF ReturnedBatch
    <3> HIDE DEF batch, old
    <3>2. \A k \in DOMAIN batch : \E i \in DOMAIN old : batch[k] = old[i]
      BY <3>1
    <3>3. /\ batch \in Seq(ResultRec) /\ Len(batch) = Len(old)
          /\ \A i \in DOMAIN old :
                /\ batch[i].id = old[i].id /\ batch[i].ticker = old[i].ticker
                /\ batch[i].side = old[i].side /\ batch[i].qty = old[i].qty
                /\ batch[i].status = old[i].status
      BY <1>2, <3>1
    <3>4. \A k \in DOMAIN batch : \E i \in DOMAIN old :
              /\ batch[k].id = old[i].id /\ batch[k].ticker = old[i].ticker
              /\ batch[k].side = old[i].side /\ batch[k].qty = old[i].qty
              /\ batch[k].status = old[i].status \/ batch[k].status = "CANCELLED"
      BY <3>2
    <3>5. \A i \in DOMAIN old :
              \/ batch[i].status = old[i].status
              \/ batch[i].status = "CANCELLED" /\ NeedsRollback(p)
      BY <3>3
    <3>6. QED
      BY <3>3, <3>4, <3>5
  <2>5. QED
    BY <2>1, <2>2, <2>3, <2>4
<1> HIDE DEF batch
<1>4. work' = [work EXCEPT ![p] = w]
  BY <1>1 DEF WorkTyped
<1>5. /\ w \in WorkRec /\ w.batch = batch
      /\ w.start = work[p].start /\ w.plan = work[p].plan /\ w.queue = work[p].queue
      /\ w.results = work[p].results /\ w.todo = work[p].todo
  BY <1>2, <1>3 DEF WorkRec
<1> HIDE DEF w
<1>6. WorkTyped' /\ work'[p] = w /\ \A q \in Procs \ {p} : work'[q] = work[q]
  BY <1>4, <1>5, WorkUpdate
<1>7. pc'[p] = "persist" /\ \A q \in Procs \ {p} : pc'[q] = pc[q]
  BY <1>1, GotoStep
<1>8. BatchHandedBack(p)
  BY <1>3, <1>5, <1>6 DEF BatchHandedBack
<1>9. BookOK' /\ BookKept
  <2>1. PICK cancelled \in SUBSET Cancellable(p) :
            book' = [id \in DOMAIN book |->
                        IF id \in cancelled THEN [book[id] EXCEPT !.live = FALSE]
                        ELSE book[id]]
    BY DEF BatchReturns
  <2>2. \A id \in cancelled : book[id].live
    BY DEF Cancellable
  <2>3. ASSUME NEW id \in DOMAIN book PROVE book'[id] = book[id] \/ Moved(book[id], book'[id])
    <3>1. book[id] \in BookOrder /\ book[id].filled <= book[id].qty
      BY DEF BookOK
    <3>2. CASE id \in cancelled
      <4> DEFINE b == [book[id] EXCEPT !.live = FALSE]
      <4>1. /\ b \in BookOrder /\ ~b.live /\ SameOrder(book[id], b)
            /\ b.filled = book[id].filled /\ b.qty = book[id].qty
        BY <3>1 DEF SameOrder, BookOrder
      <4>2. book'[id] = b
        BY <2>1, <3>2
      <4> HIDE DEF b
      <4>3. Moved(book[id], b)
        BY <2>2, <3>1, <3>2, <4>1 DEF Moved, BookOrder
      <4>4. QED
        BY <4>2, <4>3
    <3>3. CASE id \notin cancelled
      BY <2>1, <3>3
    <3>4. QED
      BY <3>2, <3>3
  <2>4. book' = [id \in DOMAIN book |-> book'[id]]
    BY <2>1
  <2>5. QED
    BY <2>3, <2>4, BookUpdate
<1>10. QED
  BY <1>5, <1>6, <1>7, <1>8, <1>9 DEF SamePlan, Alone

\* What polling leaves of a batch: the status of an order that has ended may
\* have been read.
BatchPolled(old, new) ==
    /\ new \in Seq(ResultRec) /\ Len(new) = Len(old)
    /\ \A i \in DOMAIN old :
          /\ new[i].id = old[i].id /\ new[i].ticker = old[i].ticker
          /\ new[i].side = old[i].side /\ new[i].qty = old[i].qty
          /\ \/ new[i].status = old[i].status
             \/ /\ old[i].status = "SUBMITTED" /\ ~book[old[i].id].live
                /\ new[i].status = TrueStatus(old[i].id)

LEMMA PollStep ==
    ASSUME WorkTyped, PcTyped, NEW p \in Procs, work[p].queue # <<>>, PollEnds(p)
    PROVE  /\ WorkTyped' /\ Alone(p) /\ SamePlan(p)
           /\ work'[p].todo = work[p].todo /\ work'[p].batch = <<>>
           /\ \E batch :
                 /\ BatchPolled(work[p].batch, batch)
                 /\ work'[p].results = work[p].results \o batch
                 /\ work'[p].queue = IF GateOpen(p, work[p].batch, batch)
                                     THEN Tail(work[p].queue) ELSE <<>>
           /\ pc'[p] = IF work'[p].queue = <<>> THEN "close" ELSE "send"
<1>1. PICK seen \in SUBSET Ended(work[p].batch) :
          LET batch == Polled(work[p].batch, seen)
              queue == IF GateOpen(p, work[p].batch, batch)
                       THEN Tail(work[p].queue)
                       ELSE <<>>
          IN  /\ work' = [work EXCEPT ![p].results = @ \o batch,
                                      ![p].batch = <<>>,
                                      ![p].queue = queue]
              /\ Goto(p, IF queue = <<>> THEN "close" ELSE "send")
  BY DEF PollEnds
<1> DEFINE old == work[p].batch
           batch == Polled(old, seen)
           queue == IF GateOpen(p, old, batch) THEN Tail(work[p].queue) ELSE <<>>
           results == work[p].results \o batch
           label == IF queue = <<>> THEN "close" ELSE "send"
           w == [work[p] EXCEPT !.results = results, !.batch = <<>>, !.queue = queue]
<1>2. work[p] \in WorkRec /\ old \in Seq(ResultRec) /\ work[p].results \in Seq(ResultRec)
      /\ work[p].queue \in Seq(BatchRec)
  BY DEF WorkTyped, WorkRec
<1>3. BatchPolled(old, batch)
  <2>1. batch = [i \in DOMAIN old |->
                    IF i \in seen
                    THEN [old[i] EXCEPT !.status = TrueStatus(old[i].id)]
                    ELSE old[i]]
    BY DEF Polled
  <2>2. \A i \in seen : old[i].status = "SUBMITTED" /\ ~book[old[i].id].live
    BY DEF Ended, PendingIn
  <2> HIDE DEF batch, old
  <2>3. ASSUME NEW i \in DOMAIN old
        PROVE  /\ batch[i] \in ResultRec
               /\ batch[i].id = old[i].id /\ batch[i].ticker = old[i].ticker
               /\ batch[i].side = old[i].side /\ batch[i].qty = old[i].qty
               /\ \/ batch[i].status = old[i].status
                  \/ /\ old[i].status = "SUBMITTED" /\ ~book[old[i].id].live
                     /\ batch[i].status = TrueStatus(old[i].id)
    <3> DEFINE s == TrueStatus(old[i].id)
    <3>1. old[i] \in ResultRec /\ s \in Statuses
      BY <1>2 DEF TrueStatus, Statuses
    <3>2. CASE i \in seen
      <4>1. batch[i] = [old[i] EXCEPT !.status = s]
        BY <2>1, <3>2
      <4> HIDE DEF s
      <4>2. /\ batch[i] \in ResultRec /\ batch[i].status = s
            /\ batch[i].id = old[i].id /\ batch[i].ticker = old[i].ticker
            /\ batch[i].side = old[i].side /\ batch[i].qty = old[i].qty
        BY <3>1, <4>1 DEF ResultRec
      <4>3. QED
        BY <2>2, <3>2, <4>2 DEF s
    <3>3. CASE i \notin seen
      <4>1. batch[i] = old[i]
        BY <2>1, <3>3
      <4>2. QED
        BY <3>1, <4>1
    <3>4. QED
      BY <3>2, <3>3
  <2>4. /\ DOMAIN batch = 1 .. Len(old) /\ Len(old) \in Nat /\ DOMAIN old = 1 .. Len(old)
        /\ batch = [i \in 1 .. Len(old) |-> batch[i]]
    BY <1>2, <2>1
  <2>5. batch \in Seq(ResultRec) /\ Len(batch) = Len(old)
    BY <2>3, <2>4
  <2>6. QED
    BY <2>3, <2>5 DEF BatchPolled
<1>4. work' = [work EXCEPT ![p].results = results, ![p].batch = <<>>, ![p].queue = queue]
      /\ Goto(p, label)
  BY <1>1
<1>5. batch \in Seq(ResultRec)
  BY <1>3 DEF BatchPolled
<1>6. queue \in Seq(BatchRec)
  <2>1. Tail(work[p].queue) \in Seq(BatchRec) /\ <<>> \in Seq(BatchRec)
    BY <1>2
  <2>2. QED
    BY <2>1
<1> HIDE DEF batch, queue, label
<1>7. results \in Seq(ResultRec) /\ <<>> \in Seq(ResultRec)
  BY <1>2, <1>5
<1> HIDE DEF results
<1>8. work' = [work EXCEPT ![p] = w]
  BY <1>4 DEF WorkTyped
<1>9. /\ w \in WorkRec /\ w.results = results /\ w.batch = <<>> /\ w.queue = queue
      /\ w.start = work[p].start /\ w.plan = work[p].plan /\ w.todo = work[p].todo
  BY <1>2, <1>6, <1>7 DEF WorkRec
<1> HIDE DEF w
<1>10. WorkTyped' /\ work'[p] = w /\ \A q \in Procs \ {p} : work'[q] = work[q]
  BY <1>8, <1>9, WorkUpdate
<1>11. pc'[p] = label /\ \A q \in Procs \ {p} : pc'[q] = pc[q]
  BY <1>4, GotoStep
<1>12. QED
  BY <1>3, <1>9, <1>10, <1>11 DEF SamePlan, Alone, label, queue, results

-----------------------------------------------------------------------------
(***************************************************************************)
(* The steps after the last batch, field by field.                         *)
(***************************************************************************)
ClosingStep(p) ==
    \/ RecordAll(p) \/ MarkIncomplete(p) \/ Report(p) \/ FetchFills(p)
    \/ VerifyPositions(p) \/ RecordCheckpoint(p) \/ Settle(p)

\* A closing step is the head of what is left to do; errors stay errors.
ClosingMoves(p) ==
    /\ pc[p] = "close" /\ work[p].todo # <<>>
    /\ UNCHANGED <<lease, pc, rec, book, faults>>
    /\ SamePlan(p) /\ SameOrders(p)
    /\ work'[p].todo = Tail(work[p].todo)
    /\ work[p].errors => work'[p].errors

LEMMA TodoStep ==
    ASSUME WorkTyped, NEW p \in Procs, work[p].todo # <<>>,
           NEW errors \in BOOLEAN, NEW expected \in Inventories \cup {None},
           NEW w, \/ w = StepDone(p) /\ errors = work[p].errors
                                     /\ expected = work[p].expected
                  \/ w = [StepDone(p) EXCEPT !.errors = errors]
                     /\ expected = work[p].expected
                  \/ w = [StepDone(p) EXCEPT !.expected = expected, !.errors = errors],
           work' = [work EXCEPT ![p] = w]
    PROVE  /\ WorkTyped' /\ \A q \in Procs \ {p} : work'[q] = work[q]
           /\ SamePlan(p) /\ SameOrders(p)
           /\ work'[p].todo = Tail(work[p].todo)
           /\ work'[p].errors = errors /\ work'[p].expected = expected
<1> DEFINE todo == Tail(work[p].todo)
           d == [work[p] EXCEPT !.todo = todo]
<1>1. work[p] \in WorkRec
  BY DEF WorkTyped
<1>2. todo \in Seq(Steps)
  BY <1>1 DEF WorkRec
<1>3. StepDone(p) = d
  BY DEF StepDone
<1> HIDE DEF todo
<1>4. /\ d \in WorkRec /\ d.todo = todo
      /\ d.start = work[p].start /\ d.plan = work[p].plan /\ d.queue = work[p].queue
      /\ d.batch = work[p].batch /\ d.results = work[p].results
      /\ d.expected = work[p].expected
  BY <1>1, <1>2 DEF WorkRec
<1>5. d.errors = work[p].errors
  BY <1>1 DEF WorkRec
<1> HIDE DEF d
<1>6. /\ w \in WorkRec /\ w.todo = todo
      /\ w.start = d.start /\ w.plan = d.plan /\ w.queue = d.queue
      /\ w.batch = d.batch /\ w.results = d.results
      /\ w.expected = expected /\ w.errors = errors
  <2>1. CASE w = StepDone(p) /\ errors = work[p].errors /\ expected = work[p].expected
    BY <1>3, <1>4, <1>5, <2>1
  <2>2. CASE w = [StepDone(p) EXCEPT !.errors = errors] /\ expected = work[p].expected
    BY <1>3, <1>4, <2>2 DEF WorkRec
  <2>3. CASE w = [StepDone(p) EXCEPT !.expected = expected, !.errors = errors]
    BY <1>3, <1>4, <2>3 DEF WorkRec
  <2>4. QED
    BY <2>1, <2>2, <2>3
<1>7. WorkTyped' /\ work'[p] = w /\ \A q \in Procs \ {p} : work'[q] = work[q]
  BY <1>6, WorkUpdate
<1>8. QED
  BY <1>4, <1>6, <1>7 DEF SamePlan, SameOrders, todo

\* What each of them does to the errors and to the expected positions.
ClosingData(p) ==
    /\ Head(work[p].todo) # "fills" => work'[p].expected = work[p].expected
    /\ Head(work[p].todo) = "fills" =>
          work'[p].expected = Plus(work[p].start, FilledBy(ResultIds(p)))
    /\ Head(work[p].todo) \in {"record", "mark", "checkpoint", "settle"} =>
          work'[p].errors = work[p].errors
    /\ Head(work[p].todo) = "snapshot" /\ ~work'[p].errors =>
          /\ Position = work[p].expected
          /\ \A i \in DOMAIN work[p].results :
                work[p].results[i].id # NoId /\ Broker # "kabu"

LEMMA ClosingStepMoves ==
    ASSUME WorkTyped, PcTyped, BookOK, NEW p \in Procs,
           work[p].start \in Inventories, ClosingStep(p)
    PROVE  WorkTyped' /\ Alone(p) /\ ClosingMoves(p) /\ ClosingData(p)
<1> DEFINE Goal == WorkTyped' /\ Alone(p) /\ ClosingMoves(p) /\ ClosingData(p)
<1>1. work[p] \in WorkRec /\ work[p].errors \in BOOLEAN
      /\ work[p].expected \in Inventories \cup {None}
  BY DEF WorkTyped, WorkRec
<1>2. ASSUME NEW step, AtStep(p, step), step \in {"record", "mark", "checkpoint", "settle"},
             work' = [work EXCEPT ![p] = StepDone(p)]
      PROVE  Goal
  <2>1. /\ pc[p] = "close" /\ work[p].todo # <<>> /\ Head(work[p].todo) = step
        /\ UNCHANGED <<lease, pc, rec, book, faults>>
    BY <1>2 DEF AtStep
  <2>2. /\ WorkTyped' /\ \A q \in Procs \ {p} : work'[q] = work[q]
        /\ SamePlan(p) /\ SameOrders(p)
        /\ work'[p].todo = Tail(work[p].todo)
        /\ work'[p].errors = work[p].errors /\ work'[p].expected = work[p].expected
    BY <1>1, <1>2, <2>1, TodoStep
  <2>3. QED
    BY <1>2, <2>1, <2>2 DEF Alone, ClosingMoves, ClosingData
<1>3. ASSUME NEW step, AtStep(p, step), step \in {"report", "snapshot"},
             NEW errors \in BOOLEAN, work[p].errors = TRUE => errors = TRUE,
             work' = [work EXCEPT ![p] = [StepDone(p) EXCEPT !.errors = errors]],
             step = "snapshot" /\ errors = FALSE =>
                 /\ Position = work[p].expected
                 /\ \A i \in DOMAIN work[p].results :
                       work[p].results[i].id # NoId /\ Broker # "kabu"
      PROVE  Goal
  <2>1. /\ pc[p] = "close" /\ work[p].todo # <<>> /\ Head(work[p].todo) = step
        /\ UNCHANGED <<lease, pc, rec, book, faults>>
    BY <1>3 DEF AtStep
  <2>2. /\ WorkTyped' /\ \A q \in Procs \ {p} : work'[q] = work[q]
        /\ SamePlan(p) /\ SameOrders(p)
        /\ work'[p].todo = Tail(work[p].todo)
        /\ work'[p].errors = errors /\ work'[p].expected = work[p].expected
    <3> DEFINE w == [StepDone(p) EXCEPT !.errors = errors]
    <3>1. work' = [work EXCEPT ![p] = w]
      BY <1>3
    <3>2. w = [StepDone(p) EXCEPT !.errors = errors]
      OBVIOUS
    <3> HIDE DEF w
    <3>3. QED
      BY <1>1, <2>1, <3>1, <3>2, TodoStep
  <2>3. QED
    BY <1>3, <2>1, <2>2 DEF Alone, ClosingMoves, ClosingData
<1>4. CASE RecordAll(p) \/ MarkIncomplete(p) \/ RecordCheckpoint(p) \/ Settle(p)
  BY <1>2, <1>4 DEF RecordAll, MarkIncomplete, RecordCheckpoint, Settle
<1>5. CASE Report(p)
  <2> DEFINE ok == Complete(p) /\ ~work[p].errors
             errors == StepDone(p).errors \/ (~ok /\ ~IsClose(p))
  <2>1. /\ AtStep(p, "report")
        /\ work' = [work EXCEPT ![p] = [StepDone(p) EXCEPT !.errors = errors]]
    BY <1>5 DEF Report
  <2>2. errors \in BOOLEAN
    OBVIOUS
  <2>3. StepDone(p).errors = work[p].errors
    BY <1>1 DEF StepDone, WorkRec
  <2>4. work[p].errors = TRUE => errors = TRUE
    BY <2>3
  <2>5. "report" # "snapshot"
    OBVIOUS
  <2> HIDE DEF errors
  <2>6. QED
    BY <1>3, <2>1, <2>2, <2>4, <2>5
<1>6. CASE VerifyPositions(p)
  <2>1. PICK fails \in QueryFails :
            work' = [work EXCEPT ![p] = [StepDone(p) EXCEPT !.errors =
                       @ \/ fails \/ (\E i \in DOMAIN work[p].results :
                            work[p].results[i].id = NoId \/ Broker = "kabu")
                         \/ Position # work[p].expected]]
    BY <1>6 DEF VerifyPositions
  <2> DEFINE unconfirmed == \E i \in DOMAIN work[p].results :
                               work[p].results[i].id = NoId \/ Broker = "kabu"
             errors == StepDone(p).errors \/ fails \/ unconfirmed
                          \/ Position # work[p].expected
  <2>2. /\ AtStep(p, "snapshot")
        /\ work' = [work EXCEPT ![p] = [StepDone(p) EXCEPT !.errors = errors]]
    BY <1>6, <2>1 DEF VerifyPositions
  <2>3. errors \in BOOLEAN
    OBVIOUS
  <2>4. StepDone(p).errors = work[p].errors
    BY <1>1 DEF StepDone, WorkRec
  <2>5. work[p].errors = TRUE => errors = TRUE
    BY <2>4
  <2>6. errors = FALSE => /\ Position = work[p].expected
                   /\ \A i \in DOMAIN work[p].results :
                         work[p].results[i].id # NoId /\ Broker # "kabu"
    OBVIOUS
  <2> HIDE DEF errors
  <2>7. QED
    BY <1>3, <2>2, <2>3, <2>5, <2>6
<1>7. CASE FetchFills(p)
  <2>1. PICK fails \in QueryFails :
            work' = [work EXCEPT ![p] = [StepDone(p) EXCEPT
                        !.expected = Plus(work[p].start, FilledBy(ResultIds(p))),
                        !.errors = @ \/ fails]]
    BY <1>7 DEF FetchFills
  <2> DEFINE expected == Plus(work[p].start, FilledBy(ResultIds(p)))
             errors == StepDone(p).errors \/ fails
             w == [StepDone(p) EXCEPT !.expected = expected, !.errors = errors]
  <2>2. work' = [work EXCEPT ![p] = w]
    BY <2>1
  <2>3. errors \in BOOLEAN /\ expected \in Inventories
    BY FilledByType, PlusType DEF BookOK
  <2>4. StepDone(p).errors = work[p].errors
    BY <1>1 DEF StepDone, WorkRec
  <2>5. work[p].errors => errors
    BY <2>4
  <2>6. /\ pc[p] = "close" /\ work[p].todo # <<>> /\ Head(work[p].todo) = "fills"
        /\ UNCHANGED <<lease, pc, rec, book, faults>>
    BY <1>7 DEF FetchFills, AtStep
  <2> HIDE DEF errors, expected
  <2>7. w = [StepDone(p) EXCEPT !.expected = expected, !.errors = errors]
    OBVIOUS
  <2> HIDE DEF w
  <2>8. /\ WorkTyped' /\ \A q \in Procs \ {p} : work'[q] = work[q]
        /\ SamePlan(p) /\ SameOrders(p)
        /\ work'[p].todo = Tail(work[p].todo)
        /\ work'[p].errors = errors /\ work'[p].expected = expected
    BY <2>2, <2>3, <2>6, <2>7, TodoStep
  <2>9. QED
    BY <2>5, <2>6, <2>8 DEF Alone, ClosingMoves, ClosingData, expected
<1>8. QED
  BY <1>4, <1>5, <1>6, <1>7 DEF ClosingStep

-----------------------------------------------------------------------------
(***************************************************************************)
(* The types of the trading day as an invariant of its steps.              *)
(***************************************************************************)

(***************************************************************************)
(* The orders at the broker.                                               *)
(***************************************************************************)
\* Orders that appear at the broker were sent by a process.
SentBy(p) ==
    \A id \in DOMAIN book' \ DOMAIN book : book'[id] = Sent(p, NextOrder(p))

LEMMA ConcatIs ==
    ASSUME NEW S, NEW a \in Seq(S), NEW b \in Seq(S), NEW c, c = a \o b
    PROVE  /\ c \in Seq(S) /\ Len(c) = Len(a) + Len(b) /\ DOMAIN c = 1 .. Len(a) + Len(b)
           /\ \A i \in 1 .. Len(a) : c[i] = a[i]
           /\ \A i \in (Len(a) + 1) .. (Len(a) + Len(b)) :
                  i - Len(a) \in 1 .. Len(b) /\ c[i] = b[i - Len(a)]
<1>1. /\ c \in Seq(S)
      /\ c = [i \in 1 .. Len(a) + Len(b) |-> IF i <= Len(a) THEN a[i] ELSE b[i - Len(a)]]
  BY ConcatFunction
<1>2. Len(a) \in Nat /\ Len(b) \in Nat
  OBVIOUS
<1>3. Len(c) = Len(a) + Len(b) /\ DOMAIN c = 1 .. Len(a) + Len(b)
  BY <1>1, <1>2
<1>4. \A i \in 1 .. Len(a) : i \in 1 .. Len(a) + Len(b) /\ i <= Len(a)
  BY <1>2
<1>5. \A i \in (Len(a) + 1) .. (Len(a) + Len(b)) :
          i \in 1 .. Len(a) + Len(b) /\ ~(i <= Len(a)) /\ i - Len(a) \in 1 .. Len(b)
  BY <1>2
<1>6. QED
  BY <1>1, <1>3, <1>4, <1>5

LEMMA SendBook ==
    ASSUME BookOK, NEW p \in Procs, NEW n, NEW r, SendsOrders(p, n, r)
    PROVE  /\ BookOK' /\ BookGrows /\ SentBy(p)
           /\ Len(book') = Len(book) + n /\ DOMAIN book' = 1 .. Len(book) + n
           /\ \A id \in DOMAIN book : book'[id] = book[id]
           /\ \A id \in (Len(book) + 1) .. (Len(book) + n) : book'[id] = Sent(p, NextOrder(p))
<1> DEFINE o == Sent(p, NextOrder(p))
           more == [i \in 1 .. n |-> o]
           B == Len(book)
<1>1. /\ n \in Nat /\ o \in BookOrder /\ book' = book \o more
      /\ book \in Seq(BookOrder) /\ B \in Nat
      /\ DOMAIN book = 1 .. B
  BY DEF SendsOrders, BookOK
<1>2. o.filled <= o.qty /\ (o.live => o.filled < o.qty)
  <2>1. o.filled = 0 /\ o.qty \in Nat \ {0}
    BY <1>1 DEF BookOrder, Sent
  <2>2. QED
    BY <2>1
<1> HIDE DEF o
<1>3. /\ more \in Seq(BookOrder) /\ Len(more) = n
      /\ \A i \in 1 .. n : more[i] = o
  BY <1>1
<1> HIDE DEF more
<1>4. /\ book' \in Seq(BookOrder) /\ Len(book') = B + n /\ DOMAIN book' = 1 .. B + n
      /\ \A id \in 1 .. B : book'[id] = book[id]
      /\ \A id \in B + 1 .. B + n : book'[id] = o
  <2>1. /\ book' \in Seq(BookOrder) /\ Len(book') = Len(book) + Len(more)
        /\ DOMAIN book' = 1 .. Len(book) + Len(more)
        /\ \A id \in 1 .. Len(book) : book'[id] = book[id]
        /\ \A id \in (Len(book) + 1) .. (Len(book) + Len(more)) :
               id - Len(book) \in 1 .. Len(more) /\ book'[id] = more[id - Len(book)]
    <3>1. /\ book \in Seq(BookOrder) /\ more \in Seq(BookOrder)
          /\ book' = book \o more
      BY <1>1, <1>3
    <3>2. QED
      BY <3>1, ConcatIs
  <2>2. QED
    BY <1>3, <2>1 DEF B
<1>5. BookOK'
  <2>1. ASSUME NEW id \in DOMAIN book'
        PROVE  book'[id].filled <= book'[id].qty
               /\ (book'[id].live => book'[id].filled < book'[id].qty)
    <3>1. id \in 1 .. B \/ id \in B + 1 .. B + n
      BY <1>1, <1>4
    <3>2. QED
      BY <1>1, <1>2, <1>4, <3>1 DEF BookOK
  <2>2. QED
    BY <1>4, <2>1 DEF BookOK
<1>6. BookGrows
  <2>1. ASSUME NEW id \in DOMAIN book
        PROVE  /\ id \in DOMAIN book' /\ SameOrder(book[id], book'[id])
               /\ book[id].filled <= book'[id].filled
               /\ ~book[id].live => book'[id] = book[id]
    <3>1. id \in DOMAIN book' /\ book'[id] = book[id] /\ book[id] \in BookOrder
      BY <1>1, <1>4
    <3>2. book[id].filled <= book[id].filled
      BY <3>1 DEF BookOrder
    <3>3. QED
      BY <3>1, <3>2 DEF SameOrder
  <2>2. QED
    BY <2>1 DEF BookGrows
<1>7. SentBy(p)
  <2>1. \A id \in DOMAIN book' \ DOMAIN book : id \in B + 1 .. B + n
    BY <1>1, <1>4
  <2>2. QED
    BY <1>4, <2>1 DEF SentBy, o
<1>8. QED
  BY <1>1, <1>4, <1>5, <1>6, <1>7 DEF o

LEMMA BookSame ==
    ASSUME BookOK, book' = book
    PROVE  BookOK' /\ BookKept
BY BookUpdate DEF BookOK

-----------------------------------------------------------------------------
(***************************************************************************)
(* The local variables of a process.                                       *)
(***************************************************************************)
Planned(p) ==
    \/ pc[p] \in {"prepare", "plan", "start"}
    \/ Started(p)
    \/ pc[p] = "lease" /\ ~IsClose(p)

Matches(r, o) == r.ticker = o.ticker /\ r.side = o.side /\ r.qty = o.qty

\* Results of the first orders of a list, in its order.
Answers(batch, orders) ==
    /\ Len(batch) <= Len(orders)
    /\ \A i \in DOMAIN batch : Matches(batch[i], orders[i])

\* The last entries of a list.
Suffix(s, all) ==
    /\ Len(s) <= Len(all)
    /\ \A i \in DOMAIN s : s[i] = all[Len(all) - Len(s) + i]

WorkOK(p) ==
    /\ ~Planned(p) => work[p] = NoWork
    /\ Planned(p) => /\ work[p].start \in Inventories
                     /\ WellFormed(work[p].plan)
                     /\ IsClose(p) => OnlyCloses(work[p].plan)
    /\ ~Started(p) => /\ work[p].queue = <<>> /\ work[p].batch = <<>>
                      /\ work[p].results = <<>>
    /\ Started(p) => Suffix(work[p].queue, Batches(JobOf[p], work[p].plan))
    /\ pc[p] \in {"send", "persist", "poll"} => work[p].queue # <<>>
    /\ pc[p] = "close" => work[p].queue = <<>> /\ work[p].batch = <<>>
    /\ pc[p] = "send" => Answers(work[p].batch, CurrentBatch(p).orders)
    /\ pc[p] \in {"persist", "poll"} =>
          /\ Broker = "tachibana" => Len(work[p].batch) = Len(CurrentBatch(p).orders)
          /\ Len(work[p].batch) = Len(CurrentBatch(p).orders)
                => Answers(work[p].batch, CurrentBatch(p).orders)

LEMMA SuffixTail ==
    ASSUME NEW S, NEW s \in Seq(S), NEW all \in Seq(S), s # <<>>, Suffix(s, all)
    PROVE  Tail(s) \in Seq(S) /\ Suffix(Tail(s), all)
<1>1. /\ Len(s) \in Nat \ {0} /\ Len(all) \in Nat /\ DOMAIN s = 1 .. Len(s)
      /\ Tail(s) \in Seq(S) /\ Len(Tail(s)) = Len(s) - 1
      /\ DOMAIN Tail(s) = 1 .. Len(s) - 1
      /\ \A i \in 1 .. Len(s) - 1 : Tail(s)[i] = s[i + 1]
  OBVIOUS
<1>2. \A i \in 1 .. Len(s) - 1 :
          /\ i + 1 \in DOMAIN s
          /\ Len(all) - Len(s) + (i + 1) = Len(all) - (Len(s) - 1) + i
  BY <1>1
<1>3. QED
  BY <1>1, <1>2 DEF Suffix

LEMMA SuffixSelf == \A S : \A s \in Seq(S) : Suffix(s, s)
<1>1. ASSUME NEW S, NEW s \in Seq(S) PROVE Suffix(s, s)
  <2>1. Len(s) \in Nat /\ DOMAIN s = 1 .. Len(s)
    OBVIOUS
  <2>2. \A i \in 1 .. Len(s) : Len(s) - Len(s) + i = i
    BY <2>1
  <2>3. QED
    BY <2>1, <2>2 DEF Suffix
<1>2. QED
  BY <1>1

LEMMA SuffixEmpty == \A S : \A all \in Seq(S) : Suffix(<<>>, all)
BY DEF Suffix

\* A process that does not move keeps what holds of its variables.
LEMMA WorkFrame ==
    ASSUME NEW p \in Procs, WorkOK(p), pc'[p] = pc[p], work'[p] = work[p]
    PROVE  WorkOK(p)'
BY DEF WorkOK, Planned, Started, CurrentBatch

\* The steps that change no local variable but the program counter.
LEMMA LabelStep ==
    ASSUME PcTyped, WorkTyped, NEW p \in Procs, NEW label, WorkOK(p),
           Goto(p, label), UNCHANGED work,
           \/ pc[p] = "idle" /\ label = IF IsClose(p) THEN "lease" ELSE "positions"
           \/ pc[p] = "lease" /\ label = IF IsClose(p) THEN "positions" ELSE "prepare"
           \/ pc[p] = "prepare" /\ label = "plan"
           \/ pc[p] = "plan" /\ label = "start"
           \/ pc[p] = "persist" /\ label = "poll"
    PROVE  WorkTyped' /\ Alone(p) /\ WorkOK(p)'
<1>1. pc'[p] = label /\ \A q \in Procs \ {p} : pc'[q] = pc[q]
  BY GotoStep
<1>2. WorkTyped' /\ Alone(p) /\ work'[p] = work[p]
  BY <1>1 DEF WorkTyped, Alone
<1>3. WorkOK(p)'
  BY <1>1, <1>2 DEF WorkOK, Planned, Started, CurrentBatch, IsClose
<1>4. QED
  BY <1>2, <1>3

\* A process that ends forgets its variables.
LEMMA ExitOK ==
    ASSUME NEW p \in Procs, pc'[p] = "done", work'[p] = NoWork
    PROVE  WorkOK(p)'
BY DEF WorkOK, Planned, Started, NoWork

LEMMA StepOK ==
    ASSUME PcTyped, WorkTyped, BookOK, NEW p \in Procs, WorkOK(p), ProcStep(p)
    PROVE  WorkTyped' /\ Alone(p) /\ WorkOK(p)'
<1> DEFINE Goal == WorkTyped' /\ Alone(p) /\ WorkOK(p)'
<1>1. CASE Begin(p)
  BY <1>1, LabelStep DEF Begin
<1>2. CASE ReadPositions(p)
  <2>1. /\ WorkTyped' /\ Alone(p)
        /\ \/ pc'[p] = "done" /\ work'[p] = NoWork
           \/ /\ pc'[p] = IF IsClose(p) THEN "prepare" ELSE "lease"
              /\ PlanIsMade(p) /\ SameOrders(p)
    BY <1>2, ReadStep
  <2>2. CASE pc'[p] = "done" /\ work'[p] = NoWork
    BY <2>1, <2>2, ExitOK
  <2>3. CASE /\ pc'[p] = IF IsClose(p) THEN "prepare" ELSE "lease"
             /\ PlanIsMade(p) /\ SameOrders(p)
    <3>1. pc[p] = "positions" /\ ~Planned(p) /\ ~Started(p)
      BY <1>2 DEF ReadPositions, Planned, Started
    <3>2. /\ work'[p].queue = <<>> /\ work'[p].batch = <<>> /\ work'[p].results = <<>>
      BY <2>3, <3>1 DEF WorkOK, SameOrders
    <3>3. /\ work'[p].start \in Inventories /\ WellFormed(work'[p].plan)
      BY <2>3, PositionType DEF PlanIsMade, BookOK
    <3>4. IsClose(p) => OnlyCloses(work'[p].plan)
      BY <2>3, ClosePlanType DEF PlanIsMade, BookOK
    <3>5. Planned(p)' /\ ~Started(p)' /\ pc'[p] \notin {"send", "persist", "poll", "close"}
      BY <2>3 DEF Planned, Started, IsClose
    <3>6. QED
      BY <2>1, <3>2, <3>3, <3>4, <3>5 DEF WorkOK, IsClose
  <2>4. QED
    BY <2>1, <2>2, <2>3
<1>3. CASE EnterLease(p)
  BY <1>3, LabelStep DEF EnterLease
<1>4. CASE Prepare(p)
  BY <1>4, LabelStep DEF Prepare
<1>5. CASE RecordPlan(p)
  BY <1>5, LabelStep DEF RecordPlan
<1>6. CASE StartSubmission(p)
  <2>1. /\ WorkTyped' /\ Alone(p) /\ SamePlan(p)
        /\ work'[p].queue = Batches(JobOf[p], work[p].plan)
        /\ work'[p].batch = work[p].batch /\ work'[p].results = work[p].results
        /\ pc'[p] = IF work'[p].queue = <<>> THEN "close" ELSE "send"
    BY <1>6, StartWork
  <2>2. pc[p] = "start" /\ Planned(p) /\ ~Started(p)
    BY <1>6 DEF StartSubmission, Planned, Started
  <2>3. /\ work'[p].start \in Inventories /\ WellFormed(work'[p].plan)
        /\ IsClose(p) => OnlyCloses(work'[p].plan)
        /\ work'[p].batch = <<>>
    BY <2>1, <2>2 DEF WorkOK, SamePlan
  <2>4. /\ Suffix(work'[p].queue, Batches(JobOf[p], work'[p].plan))
        /\ work'[p].queue \in Seq(BatchRec)
        /\ work'[p].queue # <<>> => CurrentBatch(p)' \in BatchRec
    <3>1. Batches(JobOf[p], work[p].plan) \in Seq(BatchRec)
      BY <2>1, <2>3, BatchesType DEF SamePlan, WellFormed
    <3>2. QED
      BY <2>1, <3>1, SuffixSelf DEF SamePlan, CurrentBatch
  <2>5. CASE work'[p].queue = <<>>
    <3>1. pc'[p] = "close" /\ Planned(p)' /\ Started(p)'
      BY <2>1, <2>5 DEF Planned, Started
    <3>2. QED
      BY <2>1, <2>3, <2>4, <2>5, <3>1 DEF WorkOK, IsClose
  <2>6. CASE work'[p].queue # <<>>
    <3>1. pc'[p] = "send" /\ Planned(p)' /\ Started(p)'
      BY <2>1, <2>6 DEF Planned, Started
    <3>2. Answers(work'[p].batch, CurrentBatch(p)'.orders)
      <4>1. CurrentBatch(p)'.orders \in Seq(Intent)
        BY <2>4, <2>6 DEF BatchRec
      <4>2. Len(CurrentBatch(p)'.orders) \in Nat /\ Len(<<>>) = 0 /\ DOMAIN <<>> = {}
        BY <4>1
      <4>3. QED
        BY <2>3, <4>2 DEF Answers
    <3>3. QED
      BY <2>1, <2>3, <2>4, <2>6, <3>1, <3>2 DEF WorkOK, IsClose
  <2>7. QED
    BY <2>5, <2>6
<1>7. CASE GiveUp(p)
  BY <1>7, ExitStep, ExitOK DEF GiveUp
<1>8. ASSUME NEW outcome \in SubmitOutcomes, NEW n \in Unanswered, Send(p, outcome, n)
      PROVE  Goal
  <2>1. pc[p] = "send" /\ Len(work[p].batch) < Len(CurrentBatch(p).orders)
    BY <1>8 DEF Send
  <2>2. work[p].queue # <<>> /\ Started(p) /\ Planned(p)
    BY <2>1 DEF WorkOK, Started, Planned
  <2>3. /\ WorkTyped' /\ Alone(p) /\ pc'[p] = pc[p] /\ SamePlan(p)
        /\ work'[p].queue = work[p].queue /\ work'[p].results = work[p].results
        /\ \E m, r : SendsOrders(p, m, r)
    BY <1>8, <2>2, SendStep
  <2>4. PICK r : /\ r.ticker = NextOrder(p).ticker /\ r.side = NextOrder(p).side
                 /\ r.qty = NextOrder(p).qty /\ r \in ResultRec
                 /\ work'[p].batch = Append(work[p].batch, r)
    BY <2>3 DEF SendsOrders
  <2>5. Started(p)' /\ Planned(p)' /\ pc'[p] = "send"
    BY <2>1, <2>3 DEF Started, Planned
  <2>6. Answers(work'[p].batch, CurrentBatch(p)'.orders)
    <3> DEFINE old == work[p].batch
               new == work'[p].batch
               orders == CurrentBatch(p).orders
    <3>1. /\ old \in Seq(ResultRec) /\ orders \in Seq(Intent)
          /\ Len(old) < Len(orders)
      BY <2>1, <2>2, HeadType
    <3>2. CurrentBatch(p)' = CurrentBatch(p)
      BY <2>3 DEF CurrentBatch
    <3>3. Answers(old, orders)
      BY <2>1 DEF WorkOK
    <3>4. new = Append(old, r) /\ Matches(r, orders[Len(old) + 1])
      BY <2>4 DEF Matches, NextOrder
    <3> HIDE DEF old, new, orders
    <3>5. /\ Len(new) = Len(old) + 1 /\ DOMAIN new = 1 .. Len(old) + 1
          /\ Len(old) \in Nat /\ Len(orders) \in Nat /\ DOMAIN old = 1 .. Len(old)
          /\ \A i \in 1 .. Len(old) : new[i] = old[i]
          /\ new[Len(old) + 1] = r
      BY <2>4, <3>1, <3>4
    <3>6. \A i \in DOMAIN new : Matches(new[i], orders[i])
      <4> TAKE i \in DOMAIN new
      <4>1. i \in 1 .. Len(old) \/ i = Len(old) + 1
        BY <3>5
      <4>2. QED
        BY <3>3, <3>4, <3>5, <4>1 DEF Answers
    <3>7. Len(new) <= Len(orders)
      BY <3>1, <3>5
    <3>8. Answers(new, orders)
      BY <3>6, <3>7 DEF Answers
    <3>9. QED
      BY <3>2, <3>8 DEF new, orders
  <2>7. QED
    BY <2>2, <2>3, <2>5, <2>6 DEF WorkOK, SamePlan, IsClose
<1>9. CASE BatchReturns(p)
  <2>1. pc[p] = "send" /\ Len(work[p].batch) = Len(CurrentBatch(p).orders)
    BY <1>9 DEF BatchReturns
  <2>2. work[p].queue # <<>> /\ Started(p) /\ Planned(p)
    BY <2>1 DEF WorkOK, Started, Planned
  <2>3. /\ WorkTyped' /\ Alone(p) /\ pc'[p] = "persist" /\ SamePlan(p)
        /\ work'[p].queue = work[p].queue /\ work'[p].results = work[p].results
        /\ BatchHandedBack(p)
    BY <1>9, ReturnsStep
  <2>4. Started(p)' /\ Planned(p)'
    BY <2>3 DEF Started, Planned
  <2>5. CurrentBatch(p)' = CurrentBatch(p)
    BY <2>3 DEF CurrentBatch
  <2>6. Answers(work[p].batch, CurrentBatch(p).orders)
    BY <2>1 DEF WorkOK
  <2>7. \/ Broker = "tachibana" \/ Len(work'[p].batch) = Len(CurrentBatch(p).orders)
        => /\ Len(work'[p].batch) = Len(CurrentBatch(p).orders)
           /\ Answers(work'[p].batch, CurrentBatch(p).orders)
    <3> DEFINE old == work[p].batch
               new == work'[p].batch
               orders == CurrentBatch(p).orders
    <3> HAVE Broker = "tachibana" \/ Len(new) = Len(orders)
    <3>1. /\ Len(new) = Len(old)
          /\ \A i \in DOMAIN old :
                /\ new[i].ticker = old[i].ticker /\ new[i].side = old[i].side
                /\ new[i].qty = old[i].qty
      BY <2>1, <2>3 DEF BatchHandedBack
    <3>2. old \in Seq(ResultRec) /\ new \in Seq(ResultRec)
      BY <2>3 DEF WorkTyped, WorkRec
    <3> HIDE DEF old, new, orders
    <3>3. DOMAIN new = DOMAIN old
      BY <3>1, <3>2
    <3>4. \A i \in DOMAIN new : Matches(new[i], orders[i])
      BY <2>6, <3>1, <3>3 DEF Answers, Matches, old, orders
    <3>5. Len(new) = Len(orders) /\ Len(new) <= Len(orders)
      BY <2>1, <2>6, <3>1 DEF Answers, old, orders
    <3>6. QED
      BY <3>4, <3>5 DEF Answers, new, orders
  <2>8. QED
    BY <2>2, <2>3, <2>4, <2>5, <2>7 DEF WorkOK, SamePlan, IsClose
<1>10. CASE Persist(p)
  BY <1>10, LabelStep DEF Persist
<1>11. CASE PollEnds(p)
  <2>1. pc[p] = "poll" /\ work[p].queue # <<>> /\ Started(p) /\ Planned(p)
    BY <1>11 DEF PollEnds, WorkOK, Started, Planned
  <2>2. /\ WorkTyped' /\ Alone(p) /\ SamePlan(p) /\ work'[p].batch = <<>>
        /\ work'[p].queue = Tail(work[p].queue) \/ work'[p].queue = <<>>
        /\ pc'[p] = IF work'[p].queue = <<>> THEN "close" ELSE "send"
    BY <1>11, <2>1, PollStep
  <2>3. /\ work'[p].start \in Inventories /\ WellFormed(work'[p].plan)
        /\ IsClose(p) => OnlyCloses(work'[p].plan)
    BY <2>1, <2>2 DEF WorkOK, SamePlan
  <2>4. /\ Suffix(work'[p].queue, Batches(JobOf[p], work'[p].plan))
        /\ work'[p].queue \in Seq(BatchRec)
    <3>1. Batches(JobOf[p], work[p].plan) \in Seq(BatchRec)
      BY <2>2, <2>3, BatchesType DEF SamePlan, WellFormed
    <3>2. work[p].queue \in Seq(BatchRec) /\ Suffix(work[p].queue, Batches(JobOf[p], work[p].plan))
      BY <2>1 DEF WorkOK, WorkTyped, WorkRec
    <3>3. /\ Tail(work[p].queue) \in Seq(BatchRec)
          /\ Suffix(Tail(work[p].queue), Batches(JobOf[p], work[p].plan))
      BY <2>1, <3>1, <3>2, SuffixTail
    <3>4. /\ <<>> \in Seq(BatchRec)
          /\ Suffix(<<>>, Batches(JobOf[p], work[p].plan))
      BY <3>1, SuffixEmpty
    <3>5. QED
      BY <2>2, <3>3, <3>4 DEF SamePlan
  <2>5. CASE work'[p].queue = <<>>
    <3>1. pc'[p] = "close" /\ Planned(p)' /\ Started(p)'
      BY <2>2, <2>5 DEF Planned, Started
    <3>2. QED
      BY <2>2, <2>3, <2>4, <2>5, <3>1 DEF WorkOK, IsClose
  <2>6. CASE work'[p].queue # <<>>
    <3>1. pc'[p] = "send" /\ Planned(p)' /\ Started(p)'
      BY <2>2, <2>6 DEF Planned, Started
    <3>2. Answers(work'[p].batch, CurrentBatch(p)'.orders)
      <4>1. CurrentBatch(p)' \in BatchRec
        BY <2>4, <2>6 DEF CurrentBatch
      <4>2. Len(CurrentBatch(p)'.orders) \in Nat /\ Len(<<>>) = 0 /\ DOMAIN <<>> = {}
        BY <4>1 DEF BatchRec
      <4>3. QED
        BY <2>2, <4>2 DEF Answers
    <3>3. QED
      BY <2>2, <2>3, <2>4, <2>6, <3>1, <3>2 DEF WorkOK, IsClose
  <2>7. QED
    BY <2>5, <2>6
<1>12. CASE ClosingStep(p)
  <2>1. pc[p] = "close" /\ Started(p) /\ Planned(p)
    BY <1>12 DEF ClosingStep, RecordAll, MarkIncomplete, Report, FetchFills,
                 VerifyPositions, RecordCheckpoint, Settle, AtStep, Started, Planned
  <2>2. work[p].start \in Inventories
    BY <2>1 DEF WorkOK
  <2>3. WorkTyped' /\ Alone(p) /\ ClosingMoves(p)
    BY <1>12, <2>2, ClosingStepMoves
  <2>4. pc'[p] = "close" /\ Started(p)' /\ Planned(p)' /\ SamePlan(p) /\ SameOrders(p)
    BY <2>1, <2>3 DEF ClosingMoves, Started, Planned
  <2>5. QED
    BY <2>1, <2>3, <2>4 DEF WorkOK, SamePlan, SameOrders, IsClose
<1>13. CASE Finish(p)
  BY <1>13, ExitStep, ExitOK DEF Finish
<1>14. QED
  BY <1>1, <1>2, <1>3, <1>4, <1>5, <1>6, <1>7, <1>8, <1>9, <1>10, <1>11, <1>12, <1>13
     DEF ProcStep, ClosingStep

-----------------------------------------------------------------------------
(***************************************************************************)
(* The day is a refinement of the store: every step of its processes and   *)
(* of recovery is one operation of the store on a well-typed row, or none. *)
(***************************************************************************)

SP == INSTANCE ExecutionState_proofs
         WITH Decisions <- Seq(Intent), Inventories <- [TickerSet -> Int]

LEMMA StoreBridge ==
    /\ Store!TypeOK <=> SP!TypeOK
    /\ Store!TypeOK' <=> SP!TypeOK'
    /\ Store!Submitted = SP!Submitted /\ Store!Ambiguous = SP!Ambiguous
    /\ Store!vars = SP!vars /\ Store!vars' = SP!vars'
BY DEF Store!TypeOK, SP!TypeOK, Store!Rows, SP!Rows, Store!Absent, SP!Absent,
       Store!ExecutionRunStatus, SP!ExecutionRunStatus, Store!Checkpoints, SP!Checkpoints,
       Store!Outcomes, SP!Outcomes, Store!NoCheckpoint, SP!NoCheckpoint,
       Store!Submitted, SP!Submitted, Store!Ambiguous, SP!Ambiguous, Store!vars, SP!vars

LEMMA NextBridge == Store!Next => SP!Next
<1> SUFFICES ASSUME Store!Next PROVE SP!Next
  OBVIOUS
<1>1. PICK j \in Jobs :
        \/ \E d \in Seq(Intent) : Store!PrepareRun(j, d)
        \/ \E d \in Seq(Intent), inv \in [TickerSet -> Int] : Store!RecordPlan(j, d, inv)
        \/ Store!MarkSubmissionStarted(j)
        \/ Store!MarkFailedBeforeSubmission(j)
        \/ Store!MarkReconciliationRequired(j)
        \/ Store!MarkCompleted(j)
        \/ \E o \in Store!Outcomes, c \in BOOLEAN : Store!RecordReconciliation(j, o, c)
  BY DEF Store!Next
<1>2. \A d : Store!PrepareRun(j, d) => SP!PrepareRun(j, d)
  BY DEF Store!PrepareRun, SP!PrepareRun, Store!CreateRun, SP!CreateRun, Store!ResumeRun,
         SP!ResumeRun, Store!UnresolvedRun, SP!UnresolvedRun, Store!Ambiguous, SP!Ambiguous,
         Store!Transition, SP!Transition, Store!Resumable, SP!Resumable,
         Store!NoCheckpoint, SP!NoCheckpoint
<1>3. \A d, inv : Store!RecordPlan(j, d, inv) => SP!RecordPlan(j, d, inv)
  BY DEF Store!RecordPlan, SP!RecordPlan, Store!CanRecordPlan, SP!CanRecordPlan,
         Store!Resumable, SP!Resumable
<1>4. Store!MarkSubmissionStarted(j) => SP!MarkSubmissionStarted(j)
  BY DEF Store!MarkSubmissionStarted, SP!MarkSubmissionStarted, Store!UnresolvedRun,
         SP!UnresolvedRun, Store!Ambiguous, SP!Ambiguous, Store!Transition, SP!Transition
<1>5. Store!MarkFailedBeforeSubmission(j) => SP!MarkFailedBeforeSubmission(j)
  BY DEF Store!MarkFailedBeforeSubmission, SP!MarkFailedBeforeSubmission,
         Store!Transition, SP!Transition
<1>6. Store!MarkReconciliationRequired(j) => SP!MarkReconciliationRequired(j)
  BY DEF Store!MarkReconciliationRequired, SP!MarkReconciliationRequired,
         Store!Submitted, SP!Submitted, Store!Ambiguous, SP!Ambiguous,
         Store!Transition, SP!Transition
<1>7. Store!MarkCompleted(j) => SP!MarkCompleted(j)
  BY DEF Store!MarkCompleted, SP!MarkCompleted, Store!CanComplete, SP!CanComplete,
         Store!Ambiguous, SP!Ambiguous, Store!Transition, SP!Transition
<1>8. Store!Outcomes = SP!Outcomes
      /\ \A o, c : Store!RecordReconciliation(j, o, c) => SP!RecordReconciliation(j, o, c)
  BY DEF Store!RecordReconciliation, SP!RecordReconciliation, Store!Outcomes, SP!Outcomes
<1>9. QED
  BY <1>1, <1>2, <1>3, <1>4, <1>5, <1>6, <1>7, <1>8 DEF SP!Next

\* What the store keeps in a step of one of its operations.
LEMMA StoreKeeps ==
    ASSUME Store!TypeOK, Store!Next \/ run' = run
    PROVE  /\ Store!TypeOK'
           /\ \A j \in Jobs : run[j].status \in Store!Submitted =>
                 /\ run'[j].intents = run[j].intents /\ run'[j].start = run[j].start
                 /\ run'[j].status \in Store!Submitted
           /\ \A j \in Jobs : run[j].intents # None => run'[j].intents = run[j].intents
           /\ \A j \in Jobs : run[j].status # "completed" /\ run'[j].status = "completed"
                 => /\ run[j].status \in Store!Ambiguous
                    /\ run[j].checkpoint.outcome = "complete" /\ run[j].checkpoint.clean
<1>1. CASE run' = run
  <2>1. Store!TypeOK'
    BY <1>1 DEF Store!TypeOK
  <2>2. QED
    BY <1>1, <2>1
<1>2. CASE Store!Next /\ run' # run
  <2>1. SP!TypeOK /\ SP!Next
    BY <1>2, StoreBridge, NextBridge
  <2>2. SP!vars' # SP!vars
    BY <1>2 DEF SP!vars
  <2>3. [SP!Next]_SP!vars
    BY <2>1
  <2>4. SP!TypeOK'
    BY <2>1, <2>3, SP!TypeStep
  <2>5. \A j \in Jobs : run[j].status \in SP!Submitted =>
            run'[j].intents = run[j].intents /\ run'[j].start = run[j].start
    BY <2>1, <2>2, <2>3, SP!FrozenStep
  <2>6. \A j \in Jobs : run[j].intents # None => run'[j].intents = run[j].intents
    BY <2>1, <2>2, <2>3, SP!IntentsStep
  <2>7. \A j \in Jobs : run[j].status # "completed" /\ run'[j].status = "completed"
            => /\ run[j].status \in SP!Ambiguous
               /\ run[j].checkpoint.outcome = "complete" /\ run[j].checkpoint.clean
    BY <2>1, <2>2, <2>3, SP!CompletedStep
  <2>8. \A j \in Jobs : run[j].status \in SP!Submitted => run'[j].status \in SP!Submitted
    BY <2>1, SP!StatusStep
  <2>9. QED
    BY <2>4, <2>5, <2>6, <2>7, <2>8, StoreBridge
<1>3. QED
  BY <1>1, <1>2

\* The steps of a process of the day, as operations of the store.
LEMMA ProcStore ==
    ASSUME WorkTyped, NEW p \in Procs, WorkOK(p), ProcStep(p)
    PROVE  Store!Next \/ run' = run
<1>1. /\ JobOf[p] \in Jobs /\ work[p].plan \in Seq(Intent) /\ work[p].errors \in BOOLEAN
      /\ (~work[p].errors) \in BOOLEAN
  <2>1. work[p] \in WorkRec
    BY DEF WorkTyped
  <2>2. JobOf[p] \in Jobs
    BY ExecutionAssumption
  <2>3. work[p].plan \in Seq(Intent)
    BY <2>1 DEF WorkRec
  <2>4. work[p].errors \in BOOLEAN
    BY <2>1 DEF WorkRec
  <2>5. (~work[p].errors) \in BOOLEAN
    OBVIOUS
  <2>6. QED
    BY <2>2, <2>3, <2>4, <2>5
<1>2. CASE Prepare(p)
  BY <1>1, <1>2 DEF Prepare, Store!Next
<1>3. CASE RecordPlan(p)
  <2>1. work[p].start \in [TickerSet -> Int]
    BY <1>3 DEF RecordPlan, WorkOK, Planned, Inventories
  <2>2. QED
    BY <1>1, <1>3, <2>1 DEF RecordPlan, Store!Next
<1>4. CASE StartSubmission(p)
  BY <1>1, <1>4 DEF StartSubmission, Store!Next
<1>5. CASE MarkIncomplete(p)
  BY <1>1, <1>5 DEF MarkIncomplete, Store!Next
<1>6. ASSUME NEW outcome \in {"complete", "incomplete", "pending"},
             Store!RecordReconciliation(JobOf[p], outcome, ~work[p].errors)
      PROVE  Store!Next
  BY <1>1, <1>6 DEF Store!Next, Store!Outcomes
<1>7. CASE Report(p)
  BY <1>6, <1>7 DEF Report
<1>8. CASE RecordCheckpoint(p)
  BY <1>6, <1>8 DEF RecordCheckpoint
<1>9. CASE Settle(p)
  BY <1>1, <1>9 DEF Settle, Store!Next
<1>10. QED
  BY <1>2, <1>3, <1>4, <1>5, <1>7, <1>8, <1>9
     DEF ProcStep, Begin, ReadPositions, EnterLease, GiveUp, Send, BatchReturns,
         Persist, PollEnds, RecordAll, FetchFills, VerifyPositions, Finish

-----------------------------------------------------------------------------
(***************************************************************************)
(* The recovery process.                                                   *)
(***************************************************************************)
RecRec == [pc : {"idle", "next", "positions", "record", "checkpoint", "settle"},
           todo : SUBSET Jobs, job : Jobs \cup {None}, known : SUBSET Nat,
           expected : Inventories \cup {None}, errors : BOOLEAN]

\* A run in recovery was submitted, and the orders it looks at are saved.
Recovering == rec.pc \notin {"idle", "next"}
RecOK ==
    /\ rec \in RecRec
    /\ Recovering => /\ rec.job \in Jobs /\ run[rec.job].status \in Store!Submitted
                     /\ rec.known \subseteq DOMAIN saved[rec.job]

LEMMA RecoveryStore ==
    ASSUME RecOK, RecoveryStep
    PROVE  Store!Next \/ run' = run
<1>1. rec.errors \in BOOLEAN
  BY DEF RecOK, RecRec
<1>2. CASE RecoverCheckpoint
  <2>1. rec.job \in Jobs /\ (~rec.errors) \in BOOLEAN
    BY <1>1, <1>2 DEF RecOK, Recovering, RecoverCheckpoint
  <2>2. PICK outcome \in {"complete", "incomplete"} :
            Store!RecordReconciliation(rec.job, outcome, ~rec.errors)
    BY <1>2 DEF RecoverCheckpoint
  <2>3. QED
    BY <2>1, <2>2 DEF Store!Next, Store!Outcomes
<1>3. CASE RecoverSettle
  <2>1. rec.job \in Jobs
    BY <1>3 DEF RecOK, Recovering, RecoverSettle
  <2>2. QED
    BY <1>3, <2>1 DEF RecoverSettle, Store!Next
<1>4. QED
  BY <1>2, <1>3 DEF RecoveryStep, RecoverBegin, RecoverOrders, RecoverWith, RecoverPositions,
                    RecoverRecord, RecoverEnd

\* Every step of the day is an operation of the store or leaves it alone.
LEMMA NextStore ==
    ASSUME WorkTyped, \A p \in Procs : WorkOK(p), RecOK, [Next]_vars
    PROVE  Store!Next \/ run' = run
<1>1. ASSUME NEW p \in Procs, ProcStep(p) PROVE Store!Next \/ run' = run
  BY <1>1, ProcStore
<1>2. CASE RecoveryStep
  BY <1>2, RecoveryStore
<1>3. CASE ~RecoveryStep /\ ~(\E p \in Procs : ProcStep(p))
  BY <1>3 DEF Next, vars, Crash, RecoverCrash, LeaseExpires, LeaseLapses, Market,
              Expire, Fill
<1>4. QED
  BY <1>1, <1>2, <1>3

-----------------------------------------------------------------------------
(***************************************************************************)
(* What the rows of the store hold: the plan of a run is one that a        *)
(* process made, a submitted run has one, and the process that sends a run *)
(* sends the plan that is saved.                                           *)
(***************************************************************************)
RowOK(j) ==
    /\ run[j].intents # None =>
          /\ WellFormed(run[j].intents) /\ run[j].start \in Inventories
          /\ j \in CloseJobs => OnlyCloses(run[j].intents)
    /\ run[j].status \in Store!Submitted => run[j].intents # None

PlanSaved(p) ==
    pc[p] = "start" \/ Started(p) => run[JobOf[p]].intents = work[p].plan

\* The operations of the store and the columns they change.
SameRow(j) == /\ run'[j].intents = run[j].intents /\ run'[j].start = run[j].start
              /\ run'[j].checkpoint = run[j].checkpoint
NotSubmitted(j) ==
    run'[j].status \in Store!Submitted => run[j].status \in Store!Submitted

LEMMA PrepareRows ==
    ASSUME Store!TypeOK, NEW k \in Jobs, NEW d, Store!PrepareRun(k, d), NEW j \in Jobs
    PROVE  SameRow(j) /\ NotSubmitted(j)
<1>1. CASE Store!CreateRun(k, d)
  BY <1>1 DEF Store!CreateRun, Store!TypeOK, Store!Absent, SameRow, NotSubmitted,
              Store!Rows, Store!Submitted, Store!Ambiguous
<1>2. CASE Store!ResumeRun(k, d)
  BY <1>2 DEF Store!ResumeRun, Store!Transition, Store!TypeOK, SameRow, NotSubmitted,
              Store!Rows, Store!Submitted, Store!Ambiguous
<1>3. QED
  BY <1>1, <1>2 DEF Store!PrepareRun

LEMMA PlanRows ==
    ASSUME Store!TypeOK, NEW k \in Jobs, NEW d, NEW inv, Store!RecordPlan(k, d, inv)
    PROVE  /\ \A j \in Jobs : NotSubmitted(j) /\ run'[j].checkpoint = run[j].checkpoint
           /\ \A j \in Jobs \ {k} : SameRow(j)
           /\ run'[k].intents = d /\ run'[k].start = inv
BY DEF Store!RecordPlan, Store!TypeOK, SameRow, NotSubmitted, Store!Rows

LEMMA MarkRows ==
    ASSUME Store!TypeOK, NEW k \in Jobs, NEW allowed, NEW new,
           Store!Transition(k, allowed, new)
    PROVE  /\ \A j \in Jobs : SameRow(j)
           /\ \A j \in Jobs \ {k} : NotSubmitted(j)
BY DEF Store!Transition, Store!TypeOK, SameRow, NotSubmitted, Store!Rows

LEMMA CheckpointRows ==
    ASSUME Store!TypeOK, NEW k \in Jobs, NEW outcome, NEW clean,
           Store!RecordReconciliation(k, outcome, clean)
    PROVE  /\ \A j \in Jobs : /\ NotSubmitted(j) /\ run'[j].intents = run[j].intents
                              /\ run'[j].start = run[j].start
           /\ \A j \in Jobs \ {k} : SameRow(j)
           /\ run'[k].checkpoint = [outcome |-> outcome, clean |-> clean]
<1> DEFINE checkpoint == [outcome |-> outcome, clean |-> clean]
<1>1. run' = [run EXCEPT ![k].checkpoint = checkpoint]
  BY DEF Store!RecordReconciliation
<1> HIDE DEF checkpoint
<1>2. /\ \A j \in Jobs : /\ NotSubmitted(j) /\ run'[j].intents = run[j].intents
                         /\ run'[j].start = run[j].start
      /\ \A j \in Jobs \ {k} : SameRow(j)
      /\ run'[k].checkpoint = checkpoint
  BY <1>1 DEF Store!TypeOK, SameRow, NotSubmitted, Store!Rows
<1>3. QED
  BY <1>2 DEF checkpoint

\* The checkpoint that lets a run complete.
CleanComplete == [outcome |-> "complete", clean |-> TRUE]

\* Only record_plan changes a plan, only mark_submission_started submits a run
\* and only two steps write a checkpoint that lets it complete.
RowMoves(j) ==
    /\ NotSubmitted(j) \/ \E p \in Procs : StartSubmission(p) /\ JobOf[p] = j
    /\ \/ run'[j].intents = run[j].intents /\ run'[j].start = run[j].start
       \/ \E p \in Procs : RecordPlan(p) /\ JobOf[p] = j
    /\ run'[j].checkpoint = CleanComplete =>
          \/ run[j].checkpoint = CleanComplete
          \/ \E p \in Procs : RecordCheckpoint(p) /\ JobOf[p] = j /\ Confirmed(p)
          \/ RecoverCheckpoint /\ rec.job = j /\ ~rec.errors

LEMMA ProcRows ==
    ASSUME Store!TypeOK, NEW p \in Procs, ProcStep(p), NEW j \in Jobs,
           run[JobOf[p]].status \in Store!Submitted \/ ~Started(p)
    PROVE  RowMoves(j)
<1> DEFINE k == JobOf[p]
<1>0. k \in Jobs
  BY ExecutionAssumption
<1>1. CASE Prepare(p)
  BY <1>0, <1>1, PrepareRows DEF Prepare, RowMoves, SameRow
<1>2. CASE RecordPlan(p)
  <2>1. Store!RecordPlan(k, work[p].plan, work[p].start)
    BY <1>2 DEF RecordPlan
  <2>2. /\ NotSubmitted(j) /\ run'[j].checkpoint = run[j].checkpoint
        /\ j # k => SameRow(j)
    BY <1>0, <2>1, PlanRows
  <2>3. QED
    BY <1>2, <2>2 DEF RowMoves, SameRow
<1>3. CASE StartSubmission(p)
  <2>1. Store!Transition(k, {"prepared"}, "executing")
    BY <1>3 DEF StartSubmission, Store!MarkSubmissionStarted
  <2>2. SameRow(j) /\ (j # k => NotSubmitted(j))
    BY <1>0, <2>1, MarkRows
  <2>3. QED
    BY <1>3, <2>2 DEF RowMoves, SameRow
<1>4. CASE run' = run
  BY <1>4 DEF RowMoves, NotSubmitted
<1>5. ASSUME NEW allowed, NEW new, Store!Transition(k, allowed, new), pc[p] = "close"
      PROVE  RowMoves(j)
  <2>1. SameRow(j) /\ (j # k => NotSubmitted(j))
    BY <1>0, <1>5, MarkRows
  <2>2. run[k].status \in Store!Submitted
    BY <1>5 DEF Started
  <2>3. QED
    BY <2>1, <2>2 DEF RowMoves, SameRow, NotSubmitted
<1>6. CASE MarkIncomplete(p) \/ Settle(p)
  <2>1. pc[p] = "close"
    BY <1>6 DEF MarkIncomplete, Settle, AtStep
  <2>2. \/ run' = run
        \/ Store!Transition(k, {"prepared"} \cup Store!Submitted, "reconciliation_required")
        \/ Store!Transition(k, Store!Ambiguous, "completed")
    BY <1>6 DEF MarkIncomplete, Settle, Store!MarkReconciliationRequired, Store!MarkCompleted
  <2>3. QED
    BY <1>4, <1>5, <2>1, <2>2
<1>7. CASE Report(p)
  <2>1. PICK outcome \in {"pending", "incomplete"} :
            Store!RecordReconciliation(k, outcome, ~work[p].errors)
    BY <1>7 DEF Report
  <2> DEFINE checkpoint == [outcome |-> outcome, clean |-> ~work[p].errors]
  <2>2. /\ NotSubmitted(j) /\ run'[j].intents = run[j].intents
        /\ run'[j].start = run[j].start
        /\ j # k => SameRow(j)
        /\ run'[k].checkpoint = checkpoint
    BY <1>0, <2>1, CheckpointRows
  <2>3. checkpoint # CleanComplete
    <3>1. checkpoint.outcome # CleanComplete.outcome
      BY DEF CleanComplete
    <3>2. QED
      BY <3>1
  <2>4. QED
    BY <2>2, <2>3 DEF RowMoves, SameRow
<1>8. CASE RecordCheckpoint(p)
  <2>1. PICK outcome : /\ outcome = IF Confirmed(p) THEN "complete" ELSE "incomplete"
                       /\ Store!RecordReconciliation(k, outcome, ~work[p].errors)
    BY <1>8 DEF RecordCheckpoint
  <2> DEFINE checkpoint == [outcome |-> outcome, clean |-> ~work[p].errors]
  <2>2. /\ NotSubmitted(j) /\ run'[j].intents = run[j].intents
        /\ run'[j].start = run[j].start
        /\ j # k => SameRow(j)
        /\ run'[k].checkpoint = checkpoint
    BY <1>0, <2>1, CheckpointRows
  <2>3. checkpoint = CleanComplete => Confirmed(p)
    <3>1. checkpoint = CleanComplete => checkpoint.outcome = CleanComplete.outcome
      OBVIOUS
    <3>2. QED
      BY <2>1, <3>1 DEF CleanComplete
  <2>4. QED
    BY <1>8, <2>2, <2>3 DEF RowMoves, SameRow
<1>9. QED
  BY <1>1, <1>2, <1>3, <1>4, <1>6, <1>7, <1>8
     DEF ProcStep, Begin, ReadPositions, EnterLease, GiveUp, Send, BatchReturns,
         Persist, PollEnds, RecordAll, FetchFills, VerifyPositions, Finish

LEMMA NextRows ==
    ASSUME Store!TypeOK, RecOK, StartedInv, [Next]_vars, NEW j \in Jobs
    PROVE  RowMoves(j)
<1>1. ASSUME NEW p \in Procs, ProcStep(p) PROVE RowMoves(j)
  BY <1>1, ProcRows DEF StartedInv
<1>2. CASE run' = run
  BY <1>2 DEF RowMoves, NotSubmitted
<1>3. CASE RecoverCheckpoint
  <2>1. rec.job \in Jobs
    BY <1>3 DEF RecOK, Recovering, RecoverCheckpoint
  <2>2. PICK outcome : Store!RecordReconciliation(rec.job, outcome, ~rec.errors)
    BY <1>3 DEF RecoverCheckpoint
  <2> DEFINE checkpoint == [outcome |-> outcome, clean |-> ~rec.errors]
  <2>3. /\ NotSubmitted(j) /\ run'[j].intents = run[j].intents
        /\ run'[j].start = run[j].start
        /\ j # rec.job => SameRow(j)
        /\ run'[rec.job].checkpoint = checkpoint
    BY <2>1, <2>2, CheckpointRows
  <2>4. checkpoint = CleanComplete => ~rec.errors
    <3>1. checkpoint = CleanComplete => checkpoint.clean = CleanComplete.clean
      OBVIOUS
    <3>2. QED
      BY <3>1 DEF CleanComplete
  <2>5. QED
    BY <1>3, <2>3, <2>4 DEF RowMoves, SameRow
<1>4. CASE RecoverSettle
  <2>1. rec.job \in Jobs /\ run[rec.job].status \in Store!Submitted
    BY <1>4 DEF RecOK, Recovering, RecoverSettle
  <2>2. \/ run' = run
        \/ Store!Transition(rec.job, {"prepared"} \cup Store!Submitted, "reconciliation_required")
        \/ Store!Transition(rec.job, Store!Ambiguous, "completed")
    BY <1>4 DEF RecoverSettle, Store!MarkReconciliationRequired, Store!MarkCompleted
  <2>3. ASSUME NEW allowed, NEW new, Store!Transition(rec.job, allowed, new)
        PROVE  RowMoves(j)
    <3>1. SameRow(j) /\ (j # rec.job => NotSubmitted(j))
      BY <2>1, <2>3, MarkRows
    <3>2. QED
      BY <2>1, <3>1 DEF RowMoves, SameRow, NotSubmitted
  <2>4. QED
    BY <1>2, <2>2, <2>3
<1>5. CASE ~RecoverCheckpoint /\ ~RecoverSettle /\ ~(\E p \in Procs : ProcStep(p))
  BY <1>2, <1>5
     DEF Next, vars, Crash, RecoverCrash, LeaseExpires, LeaseLapses, Market, Expire, Fill,
         RecoveryStep, RecoverBegin, RecoverOrders, RecoverWith, RecoverPositions, RecoverRecord,
         RecoverEnd
<1>6. QED
  BY <1>1, <1>3, <1>4, <1>5

\* A process does not change its plan once it is saved.
LEMMA PlanMoves ==
    ASSUME PcTyped, WorkTyped, BookOK, NEW p \in Procs, WorkOK(p), ProcStep(p),
           pc'[p] = "start" \/ Started(p)'
    PROVE  \/ RecordPlan(p)
           \/ (pc[p] = "start" \/ Started(p)) /\ SamePlan(p)
<1>1. CASE Begin(p) \/ EnterLease(p) \/ Prepare(p)
  <2>1. PICK label : Goto(p, label) /\ label \in {"lease", "positions", "prepare", "plan"}
    BY <1>1 DEF Begin, EnterLease, Prepare
  <2>2. pc'[p] = label
    BY <2>1, GotoStep
  <2>3. QED
    BY <2>1, <2>2 DEF Started
<1>2. CASE ReadPositions(p)
  BY <1>2, ReadStep DEF Started
<1>3. CASE StartSubmission(p)
  BY <1>3, StartWork DEF StartSubmission
<1>4. CASE GiveUp(p) \/ Finish(p)
  BY <1>4, ExitStep DEF GiveUp, Finish, Started
<1>5. ASSUME NEW outcome \in SubmitOutcomes, NEW n \in Unanswered, Send(p, outcome, n)
      PROVE  Started(p) /\ SamePlan(p)
  <2>1. pc[p] = "send" /\ work[p].queue # <<>>
    BY <1>5 DEF Send, WorkOK
  <2>2. QED
    BY <1>5, <2>1, SendStep DEF Started
<1>6. CASE BatchReturns(p)
  BY <1>6, ReturnsStep DEF BatchReturns, Started
<1>7. CASE Persist(p)
  BY <1>7 DEF Persist, Started, SamePlan
<1>8. CASE PollEnds(p)
  <2>1. pc[p] = "poll" /\ work[p].queue # <<>>
    BY <1>8 DEF PollEnds, WorkOK
  <2>2. QED
    BY <1>8, <2>1, PollStep DEF Started
<1>9. CASE ClosingStep(p)
  <2>1. pc[p] = "close" /\ Planned(p) /\ Started(p)
    BY <1>9 DEF ClosingStep, RecordAll, MarkIncomplete, Report, FetchFills,
                VerifyPositions, RecordCheckpoint, Settle, AtStep, Planned, Started
  <2>2. work[p].start \in Inventories
    BY <2>1 DEF WorkOK
  <2>3. QED
    BY <1>9, <2>1, <2>2, ClosingStepMoves DEF ClosingMoves
<1>10. QED
  BY <1>1, <1>2, <1>3, <1>4, <1>5, <1>6, <1>7, <1>8, <1>9 DEF ProcStep, ClosingStep

\* A step moves one process, or none.
LEMMA WorkStep ==
    ASSUME PcTyped, WorkTyped, BookOK, \A p \in Procs : WorkOK(p), [Next]_vars
    PROVE  /\ WorkTyped' /\ \A p \in Procs : WorkOK(p)'
           /\ \/ pc' = pc /\ work' = work
              \/ \E p \in Procs : Alone(p) /\ (ProcStep(p) \/ Crash(p))
<1>1. ASSUME NEW p \in Procs, WorkTyped', Alone(p), WorkOK(p)', ProcStep(p) \/ Crash(p)
      PROVE  /\ WorkTyped' /\ \A q \in Procs : WorkOK(q)'
             /\ \E q \in Procs : Alone(q) /\ (ProcStep(q) \/ Crash(q))
  <2>1. \A q \in Procs \ {p} : pc'[q] = pc[q] /\ work'[q] = work[q]
    BY <1>1 DEF Alone
  <2>2. \A q \in Procs \ {p} : WorkOK(q)'
    BY <2>1, WorkFrame
  <2>3. QED
    BY <1>1, <2>2
<1>2. ASSUME NEW p \in Procs, ProcStep(p)
      PROVE  WorkTyped' /\ Alone(p) /\ WorkOK(p)'
  BY <1>2, StepOK
<1>3. ASSUME NEW p \in Procs, Crash(p)
      PROVE  WorkTyped' /\ Alone(p) /\ WorkOK(p)'
  <2>1. pc'[p] = "done" /\ \A q \in Procs \ {p} : pc'[q] = pc[q]
    BY <1>3, GotoStep DEF Crash
  <2>2. WorkTyped' /\ work'[p] = NoWork /\ \A q \in Procs \ {p} : work'[q] = work[q]
    BY <1>3, NoWorkType, WorkUpdate DEF Crash
  <2>3. QED
    BY <2>1, <2>2, ExitOK DEF Alone
<1>4. CASE pc' = pc /\ work' = work
  <2>1. \A p \in Procs : WorkOK(p)'
    BY <1>4, WorkFrame
  <2>2. QED
    BY <1>4, <2>1 DEF WorkTyped
<1>5. CASE ~(\E p \in Procs : ProcStep(p) \/ Crash(p))
  <2>1. pc' = pc /\ work' = work
    BY <1>5 DEF Next, vars, RecoverCrash, LeaseExpires, LeaseLapses, Market, Expire, Fill,
                RecoveryStep, RecoverBegin, RecoverOrders, RecoverWith, RecoverPositions, RecoverRecord,
                RecoverCheckpoint, RecoverSettle, RecoverEnd
  <2>2. QED
    BY <1>4, <2>1
<1>6. QED
  BY <1>1, <1>2, <1>3, <1>5

LEMMA RowsStep ==
    ASSUME PcTyped, WorkTyped, BookOK, \A p \in Procs : WorkOK(p), Store!TypeOK, RecOK,
           StartedInv, \A j \in Jobs : RowOK(j), \A p \in Procs : PlanSaved(p),
           [Next]_vars
    PROVE  /\ Store!TypeOK'
           /\ \A j \in Jobs : RowOK(j)'
           /\ \A p \in Procs : PlanSaved(p)'
<1>1. Store!Next \/ run' = run
  BY NextStore
<1>2. /\ Store!TypeOK'
      /\ \A j \in Jobs : run[j].status \in Store!Submitted =>
            run'[j].intents = run[j].intents /\ run'[j].start = run[j].start
      /\ \A j \in Jobs : run[j].intents # None => run'[j].intents = run[j].intents
  BY <1>1, StoreKeeps
<1>3. \A j \in Jobs : RowMoves(j)
  BY NextRows
<1>4. \A p \in Procs : JobOf[p] \in Jobs /\ work[p].plan # None
  BY ExecutionAssumption DEF WorkTyped, WorkRec
<1>5. ASSUME NEW p \in Procs, RecordPlan(p)
      PROVE  /\ run'[JobOf[p]].intents = work[p].plan /\ run'[JobOf[p]].start = work[p].start
             /\ WellFormed(work[p].plan) /\ work[p].start \in Inventories
             /\ IsClose(p) => OnlyCloses(work[p].plan)
             /\ work' = work
  <2>1. Store!RecordPlan(JobOf[p], work[p].plan, work[p].start) /\ Planned(p) /\ work' = work
    BY <1>5 DEF RecordPlan, Planned
  <2>2. QED
    BY <1>4, <2>1, PlanRows DEF WorkOK
<1>6. ASSUME NEW j \in Jobs PROVE RowOK(j)'
  <2>1. run'[j].intents # None =>
          /\ WellFormed(run'[j].intents) /\ run'[j].start \in Inventories
          /\ j \in CloseJobs => OnlyCloses(run'[j].intents)
    BY <1>3, <1>5 DEF RowMoves, RowOK, IsClose
  <2>2. run'[j].status \in Store!Submitted => run'[j].intents # None
    <3>1. CASE NotSubmitted(j)
      BY <1>2, <3>1 DEF NotSubmitted, RowOK
    <3>2. ASSUME NEW p \in Procs, StartSubmission(p), JobOf[p] = j
          PROVE  run'[j].intents # None
      <4>1. run[j].intents = work[p].plan
        BY <3>2 DEF PlanSaved, StartSubmission
      <4>2. QED
        BY <1>2, <1>4, <4>1
    <3>3. QED
      BY <1>3, <3>1, <3>2 DEF RowMoves
  <2>3. QED
    BY <2>1, <2>2 DEF RowOK
<1>7. ASSUME NEW p \in Procs PROVE PlanSaved(p)'
  <2>1. CASE pc'[p] = pc[p] /\ work'[p] = work[p]
    BY <1>2, <1>4, <2>1 DEF PlanSaved, Started
  <2>2. CASE ProcStep(p) /\ (pc'[p] = "start" \/ Started(p)')
    <3>1. RecordPlan(p) \/ ((pc[p] = "start" \/ Started(p)) /\ SamePlan(p))
      BY <2>2, PlanMoves
    <3>2. QED
      BY <1>2, <1>4, <1>5, <3>1 DEF PlanSaved, SamePlan
  <2>3. CASE Crash(p)
    <3>1. pc'[p] = "done"
      BY <2>3, GotoStep DEF Crash
    <3>2. QED
      BY <3>1 DEF PlanSaved, Started
  <2>4. \/ pc'[p] = pc[p] /\ work'[p] = work[p]
        \/ ProcStep(p) \/ Crash(p)
    BY WorkStep DEF Alone
  <2>5. QED
    BY <2>1, <2>2, <2>3, <2>4 DEF PlanSaved
<1>8. QED
  BY <1>2, <1>6, <1>7

-----------------------------------------------------------------------------
(***************************************************************************)
(* What processes and the store know of the orders at the broker.          *)
(***************************************************************************)

(***************************************************************************)
(* A result with an identifier is an order of the job at the broker b; one *)
(* that is reported filled is filled.                                      *)
(***************************************************************************)
ResultIn(b, j, r) ==
    /\ r.id # NoId => r.id \in DOMAIN b /\ b[r.id].job = j /\ Matches(r, b[r.id])
    /\ r.status = "SUBMITTED" => r.id # NoId
    /\ r.status = "FILLED" =>
          r.id # NoId /\ ~b[r.id].live /\ b[r.id].filled = b[r.id].qty

KindIn(b, kind, r) == r.id # NoId => r.id \in DOMAIN b /\ b[r.id].kind = kind

ResultsOK(p) ==
    /\ \A i \in DOMAIN work[p].results : ResultIn(book, JobOf[p], work[p].results[i])
    /\ \A i \in DOMAIN work[p].batch :
          /\ ResultIn(book, JobOf[p], work[p].batch[i])
          /\ KindIn(book, CurrentBatch(p).kind, work[p].batch[i])

LEMMA ResultGrows ==
    ASSUME BookGrows, NEW j, NEW r, NEW kind
    PROVE  /\ ResultIn(book, j, r) => ResultIn(book', j, r)
           /\ KindIn(book, kind, r) => KindIn(book', kind, r)
BY DEF BookGrows, ResultIn, KindIn, SameOrder, Matches

\* An order that appears at the broker is of a submitted run.
BookJobs == \A id \in DOMAIN book : run[book[id].job].status \in Store!Submitted

\* How often one call of the client may place an order: a request without an
\* answer is repeated.
Copies == IF "lost" \in SubmitOutcomes THEN Attempts ELSE 1

\* Everything a step of sending an order does.
SendMoves(p, n, r) ==
    /\ n <= Copies
    /\ pc[p] = "send" /\ pc'[p] = "send" /\ Started(p) /\ work[p].queue # <<>>
    /\ Len(work[p].batch) < Len(CurrentBatch(p).orders)
    /\ Alone(p) /\ SamePlan(p)
    /\ work'[p].queue = work[p].queue /\ work'[p].results = work[p].results
    /\ SendsOrders(p, n, r)
    /\ BookOK' /\ BookGrows /\ SentBy(p)
    /\ Len(book') = Len(book) + n /\ DOMAIN book' = 1 .. Len(book) + n
    /\ \A id \in DOMAIN book : book'[id] = book[id]
    /\ \A id \in (Len(book) + 1) .. (Len(book) + n) : book'[id] = Sent(p, NextOrder(p))
    /\ UNCHANGED <<run, saved, lease, rec, faults>>

LEMMA SendIs ==
    ASSUME WorkTyped, PcTyped, BookOK, NEW p \in Procs, WorkOK(p),
           NEW outcome \in SubmitOutcomes, NEW unanswered \in Unanswered,
           Send(p, outcome, unanswered)
    PROVE  \E n, r : SendMoves(p, n, r)
                     /\ n = unanswered + (IF outcome = "rejected" THEN 0 ELSE 1)
<1>1. /\ pc[p] = "send" /\ Len(work[p].batch) < Len(CurrentBatch(p).orders)
      /\ UNCHANGED <<run, saved, lease, rec, faults>>
  BY DEF Send
<1>2. work[p].queue # <<>> /\ Started(p)
  BY <1>1 DEF WorkOK, Started
<1>3. PICK n, r : /\ Alone(p) /\ pc'[p] = pc[p] /\ SamePlan(p)
                  /\ work'[p].queue = work[p].queue /\ work'[p].results = work[p].results
                  /\ SendsOrders(p, n, r)
                  /\ n = unanswered + (IF outcome = "rejected" THEN 0 ELSE 1)
  BY <1>2, SendStep
<1>4. /\ BookOK' /\ BookGrows /\ SentBy(p)
      /\ Len(book') = Len(book) + n /\ DOMAIN book' = 1 .. Len(book) + n
      /\ \A id \in DOMAIN book : book'[id] = book[id]
      /\ \A id \in (Len(book) + 1) .. (Len(book) + n) : book'[id] = Sent(p, NextOrder(p))
  BY <1>3, SendBook
<1>5. n <= Copies
  <2>1. n <= unanswered + 1 /\ unanswered \in Nat /\ n \in Nat
    BY <1>3 DEF Unanswered, Attempts
  <2>2. "lost" \in SubmitOutcomes => unanswered <= Attempts - 1 /\ Attempts \in Nat
    BY DEF Unanswered, Attempts
  <2>3. "lost" \notin SubmitOutcomes => unanswered = 0
    BY DEF Unanswered
  <2> HIDE DEF Attempts
  <2>4. QED
    BY <2>1, <2>2, <2>3 DEF Copies
<1>6. QED
  BY <1>1, <1>2, <1>3, <1>4, <1>5 DEF SendMoves

LEMMA BookStep ==
    ASSUME WorkTyped, PcTyped, BookOK, \A p \in Procs : WorkOK(p), [Next]_vars
    PROVE  /\ BookOK' /\ BookGrows
           /\ BookKept \/ \E p \in Procs : \E n, r : SendMoves(p, n, r)
<1>1. ASSUME NEW p \in Procs, NEW outcome \in SubmitOutcomes, NEW m \in Unanswered,
             Send(p, outcome, m)
      PROVE  BookOK' /\ BookGrows /\ \E n, r : SendMoves(p, n, r)
  <2>1. PICK n, r : SendMoves(p, n, r)
    BY <1>1, SendIs
  <2>2. BookOK' /\ BookGrows
    BY <2>1 DEF SendMoves
  <2>3. QED
    BY <2>1, <2>2
<1>2. ASSUME NEW p \in Procs, BatchReturns(p) PROVE BookOK' /\ BookKept
  BY <1>2, ReturnsStep
<1>5. BookKept => BookGrows
  BY DEF BookKept
<1>3. CASE Market
  BY <1>3, <1>5, MarketStep
<1>4. CASE book' = book
  BY <1>4, <1>5, BookSame
<1>6. CASE /\ ~Market /\ ~(\E p \in Procs : BatchReturns(p))
           /\ ~(\E p \in Procs, outcome \in SubmitOutcomes, m \in Unanswered :
                   Send(p, outcome, m))
  <2>1. ASSUME NEW p \in Procs, ProcStep(p) PROVE book' = book
    BY <1>6, <2>1 DEF ProcStep, Begin, ReadPositions, EnterLease, Prepare, RecordPlan,
          StartSubmission, GiveUp, Persist, PollEnds, RecordAll, MarkIncomplete, Report,
          FetchFills, VerifyPositions, RecordCheckpoint, Settle, Finish, AtStep
  <2>2. book' = book
    BY <1>6, <2>1 DEF Next, vars, Crash, RecoverCrash, LeaseExpires, LeaseLapses,
          RecoveryStep, RecoverBegin, RecoverOrders, RecoverWith, RecoverPositions, RecoverRecord,
          RecoverCheckpoint, RecoverSettle, RecoverEnd
  <2>3. QED
    BY <1>4, <1>5, <2>2
<1>7. QED
  BY <1>1, <1>2, <1>3, <1>5, <1>6

\* The kind of process step that changes neither results nor batch.
LEMMA ResultsFrame ==
    ASSUME NEW p \in Procs, ResultsOK(p), BookGrows,
           work'[p].queue = work[p].queue, work'[p].batch = work[p].batch,
           work'[p].results = work[p].results
    PROVE  ResultsOK(p)'
<1>1. CurrentBatch(p)' = CurrentBatch(p)
  BY DEF CurrentBatch
<1>2. ASSUME NEW i \in DOMAIN work'[p].results
      PROVE  ResultIn(book', JobOf[p], work'[p].results[i])
  BY ResultGrows DEF ResultsOK
<1>3. ASSUME NEW i \in DOMAIN work'[p].batch
      PROVE  /\ ResultIn(book', JobOf[p], work'[p].batch[i])
             /\ KindIn(book', CurrentBatch(p)'.kind, work'[p].batch[i])
  BY <1>1, ResultGrows DEF ResultsOK
<1>4. QED
  BY <1>2, <1>3 DEF ResultsOK

LEMMA ResultsNone ==
    ASSUME NEW p \in Procs, work'[p].batch = <<>>, work'[p].results = <<>>
    PROVE  ResultsOK(p)'
BY DEF ResultsOK

LEMMA ResultsSend ==
    ASSUME WorkTyped, BookOK, NEW p \in Procs, ResultsOK(p), NEW n, NEW r, SendMoves(p, n, r)
    PROVE  ResultsOK(p)'
<1> DEFINE old == work[p].batch
           new == work'[p].batch
           o == NextOrder(p)
<1>1. /\ BookGrows /\ SendsOrders(p, n, r) /\ work'[p].results = work[p].results
      /\ work'[p].queue = work[p].queue
      /\ DOMAIN book' = 1 .. Len(book) + n
      /\ \A id \in (Len(book) + 1) .. (Len(book) + n) : book'[id] = Sent(p, o)
  BY DEF SendMoves
<1>2. CurrentBatch(p)' = CurrentBatch(p)
  BY <1>1 DEF CurrentBatch
<1>3. old \in Seq(ResultRec) /\ new = Append(old, r) /\ r \in ResultRec
  BY <1>1 DEF WorkTyped, WorkRec, SendsOrders
<1>4. ResultIn(book', JobOf[p], r) /\ KindIn(book', CurrentBatch(p).kind, r)
  <2>1. /\ r.ticker = o.ticker /\ r.side = o.side /\ r.qty = o.qty
        /\ \/ r.id = NoId /\ r.status = "FAILED"
           \/ r.id = Len(book) + n /\ n > 0 /\ r.status = "SUBMITTED"
        /\ n \in Nat /\ Len(book) \in Nat
    BY <1>1 DEF SendsOrders, BookOK
  <2>2. CASE r.id = NoId
    <3>1. r.status = "FAILED"
      BY <2>1, <2>2 DEF NoId
    <3>2. QED
      BY <2>2, <3>1 DEF ResultIn, KindIn
  <2>3. CASE r.id = Len(book) + n /\ n > 0 /\ r.status = "SUBMITTED"
    <3>1. /\ r.id \in (Len(book) + 1) .. (Len(book) + n)
          /\ r.id \in 1 .. Len(book) + n
      BY <2>1, <2>3
    <3>2. r.id \in DOMAIN book' /\ book'[r.id] = Sent(p, o)
      BY <1>1, <3>1
    <3>3. /\ book'[r.id].job = JobOf[p] /\ book'[r.id].kind = CurrentBatch(p).kind
          /\ Matches(r, book'[r.id])
      BY <2>1, <3>2 DEF Sent, Matches
    <3>4. QED
      BY <2>1, <2>3, <3>2, <3>3 DEF ResultIn, KindIn, NoId
  <2>4. QED
    BY <2>1, <2>2, <2>3
<1>5. ASSUME NEW i \in DOMAIN new
      PROVE  /\ ResultIn(book', JobOf[p], new[i])
             /\ KindIn(book', CurrentBatch(p)'.kind, new[i])
  <2>1. (i \in DOMAIN old /\ new[i] = old[i]) \/ new[i] = r
    BY <1>3
  <2>2. CASE i \in DOMAIN old /\ new[i] = old[i]
    <3>1. ResultIn(book, JobOf[p], old[i]) /\ KindIn(book, CurrentBatch(p).kind, old[i])
      BY <2>2 DEF ResultsOK
    <3>2. QED
      BY <1>1, <1>2, <2>2, <3>1, ResultGrows
  <2>3. CASE new[i] = r
    BY <1>2, <1>4, <2>3
  <2>4. QED
    BY <2>1, <2>2, <2>3
<1>6. ASSUME NEW i \in DOMAIN work'[p].results
      PROVE  ResultIn(book', JobOf[p], work'[p].results[i])
  BY <1>1, ResultGrows DEF ResultsOK
<1>7. QED
  BY <1>5, <1>6 DEF ResultsOK

\* A result keeps what is said of it when its status becomes the true one of an
\* order that has ended, or cancelled.
LEMMA ResultRetold ==
    ASSUME BookGrows, NEW j, NEW kind, NEW r, NEW t,
           ResultIn(book, j, r), KindIn(book, kind, r),
           t.id = r.id, t.ticker = r.ticker, t.side = r.side, t.qty = r.qty,
           \/ t.status = r.status
           \/ t.status = "CANCELLED"
           \/ r.status = "SUBMITTED" /\ ~book[r.id].live /\ t.status = TrueStatus(r.id)
    PROVE  ResultIn(book', j, t) /\ KindIn(book', kind, t)
<1>1. ResultIn(book, j, t) /\ KindIn(book, kind, t)
  BY DEF ResultIn, KindIn, Matches, TrueStatus
<1>2. QED
  BY <1>1, ResultGrows

LEMMA ResultsReturns ==
    ASSUME WorkTyped, PcTyped, BookOK, NEW p \in Procs, ResultsOK(p), BatchReturns(p)
    PROVE  ResultsOK(p)'
<1>1. /\ work'[p].queue = work[p].queue /\ work'[p].results = work[p].results
      /\ BatchHandedBack(p) /\ BookGrows
  BY ReturnsStep DEF BookKept
<1>2. CurrentBatch(p)' = CurrentBatch(p)
  BY <1>1 DEF CurrentBatch
<1>3. ASSUME NEW k \in DOMAIN work'[p].batch
      PROVE  /\ ResultIn(book', JobOf[p], work'[p].batch[k])
             /\ KindIn(book', CurrentBatch(p)'.kind, work'[p].batch[k])
  <2>1. PICK i \in DOMAIN work[p].batch :
            /\ work'[p].batch[k].id = work[p].batch[i].id
            /\ work'[p].batch[k].ticker = work[p].batch[i].ticker
            /\ work'[p].batch[k].side = work[p].batch[i].side
            /\ work'[p].batch[k].qty = work[p].batch[i].qty
            /\ \/ work'[p].batch[k].status = work[p].batch[i].status
               \/ work'[p].batch[k].status = "CANCELLED"
    BY <1>1 DEF BatchHandedBack
  <2>2. /\ ResultIn(book, JobOf[p], work[p].batch[i])
        /\ KindIn(book, CurrentBatch(p).kind, work[p].batch[i])
    BY DEF ResultsOK
  <2>3. QED
    BY <1>1, <1>2, <2>1, <2>2, ResultRetold
<1>4. ASSUME NEW i \in DOMAIN work'[p].results
      PROVE  ResultIn(book', JobOf[p], work'[p].results[i])
  BY <1>1, ResultGrows DEF ResultsOK
<1>5. QED
  BY <1>3, <1>4 DEF ResultsOK

LEMMA ResultsPoll ==
    ASSUME WorkTyped, PcTyped, BookOK, NEW p \in Procs, WorkOK(p), ResultsOK(p), PollEnds(p)
    PROVE  ResultsOK(p)'
<1>1. pc[p] = "poll" /\ work[p].queue # <<>> /\ book' = book
  BY DEF PollEnds, WorkOK
<1>2. BookGrows
  BY <1>1, BookSame DEF BookKept
<1>3. PICK batch : /\ BatchPolled(work[p].batch, batch)
                   /\ work'[p].results = work[p].results \o batch
                   /\ work'[p].batch = <<>>
  BY <1>1, PollStep
<1>4. /\ work[p].results \in Seq(ResultRec) /\ work[p].batch \in Seq(ResultRec)
      /\ batch \in Seq(ResultRec) /\ DOMAIN batch = DOMAIN work[p].batch
  <2>1. work[p].results \in Seq(ResultRec) /\ work[p].batch \in Seq(ResultRec)
    BY DEF WorkTyped, WorkRec
  <2>2. batch \in Seq(ResultRec) /\ Len(batch) = Len(work[p].batch)
    BY <1>3 DEF BatchPolled
  <2>3. QED
    BY <2>1, <2>2
<1>5. ASSUME NEW k \in DOMAIN batch PROVE ResultIn(book', JobOf[p], batch[k])
  <2>1. /\ ResultIn(book, JobOf[p], work[p].batch[k])
        /\ KindIn(book, CurrentBatch(p).kind, work[p].batch[k])
    BY <1>4 DEF ResultsOK
  <2>2. /\ batch[k].id = work[p].batch[k].id /\ batch[k].ticker = work[p].batch[k].ticker
        /\ batch[k].side = work[p].batch[k].side /\ batch[k].qty = work[p].batch[k].qty
        /\ \/ batch[k].status = work[p].batch[k].status
           \/ /\ work[p].batch[k].status = "SUBMITTED" /\ ~book[work[p].batch[k].id].live
              /\ batch[k].status = TrueStatus(work[p].batch[k].id)
    BY <1>3, <1>4 DEF BatchPolled
  <2>3. QED
    BY <1>2, <2>1, <2>2, ResultRetold
<1>6. ASSUME NEW i \in DOMAIN work'[p].results
      PROVE  ResultIn(book', JobOf[p], work'[p].results[i])
  <2>1. \/ i \in DOMAIN work[p].results /\ work'[p].results[i] = work[p].results[i]
        \/ \E k \in DOMAIN batch : work'[p].results[i] = batch[k]
    <3> DEFINE a == work[p].results
               c == work'[p].results
    <3>1. a \in Seq(ResultRec) /\ batch \in Seq(ResultRec) /\ c = a \o batch
      BY <1>3, <1>4
    <3> HIDE DEF a, c
    <3>2. /\ DOMAIN c = 1 .. Len(a) + Len(batch)
          /\ \A m \in 1 .. Len(a) : c[m] = a[m]
          /\ \A m \in (Len(a) + 1) .. (Len(a) + Len(batch)) :
                 m - Len(a) \in 1 .. Len(batch) /\ c[m] = batch[m - Len(a)]
      BY <3>1, ConcatIs
    <3>3. i \in 1 .. Len(a) \/ i \in (Len(a) + 1) .. (Len(a) + Len(batch))
      <4>1. i \in 1 .. Len(a) + Len(batch) /\ Len(a) \in Nat /\ Len(batch) \in Nat
        BY <3>1, <3>2 DEF c
      <4>2. QED
        BY <4>1
    <3>4. DOMAIN a = 1 .. Len(a) /\ DOMAIN batch = 1 .. Len(batch)
      BY <3>1
    <3>5. (i \in DOMAIN a /\ c[i] = a[i]) \/ \E k \in DOMAIN batch : c[i] = batch[k]
      BY <3>2, <3>3, <3>4
    <3>6. QED
      BY <3>5 DEF a, c
  <2>2. QED
    BY <1>2, <1>5, <2>1, ResultGrows DEF ResultsOK
<1>7. QED
  BY <1>3, <1>6 DEF ResultsOK

\* Of a process that moves, the results stay orders of its job.
LEMMA ResultsMove ==
    ASSUME WorkTyped, PcTyped, BookOK, NEW p \in Procs, WorkOK(p), ResultsOK(p), BookGrows,
           ProcStep(p)
    PROVE  ResultsOK(p)'
<1>1. CASE Begin(p) \/ EnterLease(p) \/ Prepare(p) \/ RecordPlan(p) \/ Persist(p)
  BY <1>1, ResultsFrame DEF Begin, EnterLease, Prepare, RecordPlan, Persist
<1>2. CASE ReadPositions(p)
  <2>1. work'[p] = NoWork \/ SameOrders(p)
    BY <1>2, ReadStep
  <2>2. QED
    BY <2>1, ResultsFrame, ResultsNone DEF SameOrders, NoWork
<1>3. CASE StartSubmission(p)
  <2>1. work'[p].batch = <<>> /\ work'[p].results = <<>>
    BY <1>3, StartWork DEF StartSubmission, WorkOK, Started
  <2>2. QED
    BY <2>1, ResultsNone
<1>4. CASE GiveUp(p) \/ Finish(p)
  <2>1. work'[p] = NoWork
    BY <1>4, ExitStep DEF GiveUp, Finish
  <2>2. QED
    BY <2>1, ResultsNone DEF NoWork
<1>5. ASSUME NEW outcome \in SubmitOutcomes, NEW m \in Unanswered, Send(p, outcome, m)
      PROVE  ResultsOK(p)'
  <2>1. PICK n, r : SendMoves(p, n, r)
    BY <1>5, SendIs
  <2>2. QED
    BY <2>1, ResultsSend
<1>6. CASE BatchReturns(p)
  BY <1>6, ResultsReturns
<1>7. CASE PollEnds(p)
  BY <1>7, ResultsPoll
<1>8. CASE ClosingStep(p)
  <2>1. pc[p] = "close" /\ Planned(p)
    BY <1>8 DEF ClosingStep, RecordAll, MarkIncomplete, Report, FetchFills,
                VerifyPositions, RecordCheckpoint, Settle, AtStep, Planned, Started
  <2>2. work[p].start \in Inventories
    BY <2>1 DEF WorkOK
  <2>3. SameOrders(p)
    BY <1>8, <2>2, ClosingStepMoves DEF ClosingMoves
  <2>4. QED
    BY <2>3, ResultsFrame DEF SameOrders
<1>9. QED
  BY <1>1, <1>2, <1>3, <1>4, <1>5, <1>6, <1>7, <1>8 DEF ProcStep, ClosingStep

LEMMA ResultsStep ==
    ASSUME WorkTyped, PcTyped, BookOK, \A p \in Procs : WorkOK(p) /\ ResultsOK(p),
           [Next]_vars
    PROVE  \A p \in Procs : ResultsOK(p)'
<1>1. BookGrows
  BY BookStep
<1>2. ASSUME NEW p \in Procs, pc'[p] = pc[p], work'[p] = work[p] PROVE ResultsOK(p)'
  BY <1>1, <1>2, ResultsFrame
<1>3. ASSUME NEW p \in Procs, Crash(p) PROVE ResultsOK(p)'
  <2>1. work'[p] = NoWork
    BY <1>3 DEF Crash, WorkTyped
  <2>2. QED
    BY <2>1, ResultsNone DEF NoWork
<1>4. ASSUME NEW p \in Procs, ProcStep(p) PROVE ResultsOK(p)'
  BY <1>1, <1>4, ResultsMove
<1>5. \/ pc' = pc /\ work' = work
      \/ \E p \in Procs : Alone(p) /\ (ProcStep(p) \/ Crash(p))
  BY WorkStep
<1>6. QED
  BY <1>2, <1>3, <1>4, <1>5 DEF Alone

-----------------------------------------------------------------------------
(***************************************************************************)
(* The attributions in the store.                                          *)
(***************************************************************************)
\* s attributes orders of j at the broker b to intents of their ticker and side.
SavedIn(b, plan, s, j) ==
    /\ s = [id \in DOMAIN s |-> s[id]]
    /\ \A id \in DOMAIN s :
          /\ id # NoId /\ id \in DOMAIN b /\ b[id].job = j
          /\ s[id] = [intent |-> s[id].intent, qty |-> b[id].qty]
          /\ s[id].intent \in DOMAIN plan
          /\ plan[s[id].intent].ticker = b[id].ticker
          /\ plan[s[id].intent].side = b[id].side

SavedOK ==
    /\ saved = [j \in Jobs |-> saved[j]]
    /\ \A j \in Jobs : SavedIn(book, run[j].intents, saved[j], j)

\* No attribution of s is lost or changed in t.
KeptIn(s, t) == \A id \in DOMAIN s : id \in DOMAIN t /\ t[id] = s[id]

\* Recording identified orders of the job adds such attributions only.
LEMMA SavedRecords ==
    ASSUME NEW j, NEW plan, DOMAIN plan \subseteq Nat \ {0}, NEW s,
           SavedIn(book, plan, s, j), NEW results \in Seq(ResultRec),
           \A k \in DOMAIN results : ResultIn(book, j, results[k]),
           NEW t, t = RecordResultSet(plan, s, results)
    PROVE  SavedIn(book, plan, t, j) /\ KeptIn(s, t)
<1>1. s = [id \in DOMAIN s |-> s[id]]
  BY DEF SavedIn
<1>2. Extension(plan, s, results, t)
  BY <1>1, RecordingExtends
<1>3. ASSUME NEW id \in DOMAIN t
      PROVE  /\ id # NoId /\ id \in DOMAIN book /\ book[id].job = j
             /\ t[id] = [intent |-> t[id].intent, qty |-> book[id].qty]
             /\ t[id].intent \in DOMAIN plan
             /\ plan[t[id].intent].ticker = book[id].ticker
             /\ plan[t[id].intent].side = book[id].side
  <2>1. CASE id \in DOMAIN s
    BY <1>2, <2>1 DEF Extension, SavedIn
  <2>2. CASE id \notin DOMAIN s
    <3>1. /\ id # NoId /\ t[id] = [intent |-> t[id].intent, qty |-> t[id].qty]
          /\ \E k \in DOMAIN results :
                /\ results[k].id = id /\ t[id].qty = results[k].qty
                /\ t[id].intent \in DOMAIN plan
                /\ plan[t[id].intent].ticker = results[k].ticker
                /\ plan[t[id].intent].side = results[k].side
      BY <1>2, <2>2 DEF Extension
    <3>2. QED
      BY <3>1 DEF ResultIn, Matches
  <2>3. QED
    BY <2>1, <2>2
<1>4. t = [id \in DOMAIN t |-> t[id]]
  BY <1>2 DEF Extension
<1>5. QED
  BY <1>2, <1>3, <1>4 DEF SavedIn, Extension, KeptIn

LEMMA SavedGrows ==
    ASSUME BookGrows, NEW j, NEW plan, NEW s, SavedIn(book, plan, s, j)
    PROVE  SavedIn(book', plan, s, j)
BY DEF BookGrows, SavedIn, SameOrder

\* A run without order has no attribution.
LEMMA SavedNone ==
    ASSUME BookJobs, NEW j \in Jobs, NEW plan, NEW s, SavedIn(book, plan, s, j),
           run[j].status \notin Store!Submitted
    PROVE  \A b, other : SavedIn(b, other, s, j)
<1>1. DOMAIN s = {}
  BY DEF SavedIn, BookJobs
<1>2. QED
  BY <1>1 DEF SavedIn

\* record_result_set by a process: the first report of a batch, the results of
\* all batches at the end.
LEMMA SavedByProcess ==
    ASSUME WorkTyped, SavedOK, NEW p \in Procs, WorkOK(p), ResultsOK(p), PlanSaved(p),
           Persist(p) \/ RecordAll(p)
    PROVE  /\ saved' = [j \in Jobs |-> saved'[j]]
           /\ \A j \in Jobs :
                 SavedIn(book, run[j].intents, saved'[j], j) /\ KeptIn(saved[j], saved'[j])
<1> DEFINE k == JobOf[p]
           plan == run[k].intents
<1>1. /\ k \in Jobs /\ Started(p) /\ Planned(p)
      /\ work[p].results \in Seq(ResultRec) /\ work[p].batch \in Seq(ResultRec)
  BY ExecutionAssumption DEF Persist, RecordAll, AtStep, Started, Planned, WorkTyped, WorkRec
<1>2. plan \in Seq(Intent) /\ DOMAIN plan \subseteq Nat \ {0}
  BY <1>1 DEF PlanSaved, WorkOK, WellFormed
<1>3. PICK results \in Seq(ResultRec) :
            /\ RecordResults(p, results)
            /\ \A i \in DOMAIN results : ResultIn(book, k, results[i])
  <2>1. CASE RecordAll(p)
    BY <1>1, <2>1 DEF RecordAll, ResultsOK
  <2>2. CASE Persist(p)
    <3> DEFINE a == work[p].results
               b == work[p].batch
               c == a \o b
    <3>1. RecordResults(p, c) /\ a \in Seq(ResultRec) /\ b \in Seq(ResultRec)
      BY <1>1, <2>2 DEF Persist
    <3>2. /\ \A i \in DOMAIN a : ResultIn(book, k, a[i])
          /\ \A i \in DOMAIN b : ResultIn(book, k, b[i])
      BY DEF ResultsOK
    <3> HIDE DEF a, b
    <3>3. /\ c \in Seq(ResultRec) /\ DOMAIN c = 1 .. Len(a) + Len(b)
          /\ \A m \in 1 .. Len(a) : c[m] = a[m]
          /\ \A m \in (Len(a) + 1) .. (Len(a) + Len(b)) :
                 m - Len(a) \in 1 .. Len(b) /\ c[m] = b[m - Len(a)]
      BY <3>1, ConcatIs
    <3>4. DOMAIN a = 1 .. Len(a) /\ DOMAIN b = 1 .. Len(b) /\ Len(a) \in Nat /\ Len(b) \in Nat
      BY <3>1
    <3>5. \A i \in 1 .. Len(a) + Len(b) :
             i \in 1 .. Len(a) \/ i \in (Len(a) + 1) .. (Len(a) + Len(b))
      BY <3>4
    <3>6. \A i \in DOMAIN c : ResultIn(book, k, c[i])
      BY <3>2, <3>3, <3>4, <3>5
    <3>7. QED
      BY <3>1, <3>3, <3>6
  <2>3. QED
    BY <2>1, <2>2
<1> DEFINE t == RecordResultSet(plan, saved[k], results)
<1>4. SavedIn(book, plan, t, k) /\ KeptIn(saved[k], t)
  <2> DEFINE s == saved[k]
  <2>1. /\ SavedIn(book, plan, s, k) /\ DOMAIN plan \subseteq Nat \ {0}
        /\ results \in Seq(ResultRec)
        /\ \A i \in DOMAIN results : ResultIn(book, k, results[i])
        /\ t = RecordResultSet(plan, s, results)
    BY <1>1, <1>2, <1>3 DEF SavedOK
  <2> HIDE DEF s, t, plan, k
  <2>2. SavedIn(book, plan, t, k)
    BY <2>1, SavedRecords
  <2>4. KeptIn(s, t)
    BY <2>1, SavedRecords
  <2>3. QED
    BY <2>2, <2>4 DEF s
<1>5. saved' = [saved EXCEPT ![k] = t]
  BY <1>3 DEF RecordResults
<1> HIDE DEF t
<1>6. /\ saved' = [j \in Jobs |-> saved'[j]] /\ saved'[k] = t
      /\ \A j \in Jobs \ {k} : saved'[j] = saved[j]
  BY <1>1, <1>5 DEF SavedOK
<1>7. QED
  BY <1>4, <1>6 DEF SavedOK, KeptIn

\* Recovery records what it knows already.
LEMMA SavedByRecovery ==
    ASSUME BookOK, SavedOK, RecOK, \A j \in Jobs : RowOK(j), RecoverRecord
    PROVE  saved' = saved
<1> DEFINE j == rec.job
           all == [id \in DOMAIN book |-> Result(book[id], id, TrueStatus(id))]
           records == Entries(all, rec.known)
           plan == run[j].intents
<1>1. /\ j \in Jobs /\ rec.known \subseteq DOMAIN saved[j]
      /\ plan \in Seq(Intent) /\ DOMAIN plan \subseteq Nat \ {0}
  <2>1. j \in Jobs /\ rec.known \subseteq DOMAIN saved[j] /\ plan # None
    BY DEF RecOK, Recovering, RecoverRecord, RowOK
  <2>2. plan \in Seq(Intent)
    BY <2>1 DEF RowOK, WellFormed
  <2>3. QED
    BY <2>1, <2>2
<1>2. all \in Seq(ResultRec) /\ \A id \in DOMAIN all : all[id].id = id
  <2>1. ASSUME NEW id \in DOMAIN book
        PROVE  Result(book[id], id, TrueStatus(id)) \in ResultRec
    <3>1. book[id] \in BookOrder /\ id \in Nat
      BY DEF BookOK
    <3>2. TrueStatus(id) \in Statuses
      BY DEF TrueStatus, Statuses
    <3>3. QED
      BY <3>1, <3>2 DEF Result, ResultRec, BookOrder, Sides
  <2>2. DOMAIN book = 1 .. Len(book) /\ Len(book) \in Nat
    BY DEF BookOK
  <2>3. all \in Seq(ResultRec)
    BY <2>1, <2>2
  <2>4. QED
    BY <2>3 DEF Result
<1> HIDE DEF all
<1>3. /\ records \in Seq(ResultRec)
      /\ \A k \in DOMAIN records : records[k].id \in DOMAIN saved[j]
  <2>1. /\ records \in Seq(ResultRec)
        /\ \A k \in DOMAIN records :
              \E i \in DOMAIN all : i \in rec.known /\ records[k] = all[i]
    BY <1>2, EntriesOf
  <2>2. QED
    BY <1>1, <1>2, <2>1
<1>4. saved' = [saved EXCEPT ![j] = RecordResultSet(plan, saved[j], records)]
  BY DEF RecoverRecord, all
<1> HIDE DEF records
<1>5. RecordResultSet(plan, saved[j], records) = saved[j]
  <2>1. saved[j] = [id \in DOMAIN saved[j] |-> saved[j][id]]
    BY <1>1 DEF SavedOK, SavedIn
  <2>2. QED
    BY <1>1, <1>3, <2>1, RecordingKnown
<1>6. QED
  BY <1>1, <1>4, <1>5 DEF SavedOK

\* Attributions are only added to.
SavedGrow == \A j \in Jobs : KeptIn(saved[j], saved'[j])

LEMMA SavedStep ==
    ASSUME WorkTyped, PcTyped, BookOK, \A p \in Procs : WorkOK(p) /\ ResultsOK(p),
           Store!TypeOK, RecOK, StartedInv, \A j \in Jobs : RowOK(j),
           \A p \in Procs : PlanSaved(p), BookJobs, SavedOK, [Next]_vars
    PROVE  BookJobs' /\ SavedOK' /\ SavedGrow
<1>1. /\ Store!TypeOK'
      /\ \A j \in Jobs : run[j].status \in Store!Submitted =>
            /\ run'[j].intents = run[j].intents /\ run'[j].start = run[j].start
            /\ run'[j].status \in Store!Submitted
  BY NextStore, StoreKeeps
<1>2. /\ BookOK' /\ BookGrows
      /\ BookKept \/ \E p \in Procs : \E n, r : SendMoves(p, n, r)
  BY BookStep
<1>3. \A id \in DOMAIN book : book[id].job \in Jobs
  <2>1. \A id \in DOMAIN book : book[id] \in BookOrder
    BY DEF BookOK
  <2>2. QED
    BY <2>1 DEF BookOrder
<1>4. BookJobs'
  <2>1. ASSUME NEW id \in DOMAIN book
        PROVE  run'[book'[id].job].status \in Store!Submitted
    BY <1>1, <1>2, <1>3 DEF BookGrows, SameOrder, BookJobs
  <2>2. ASSUME NEW id \in DOMAIN book', id \notin DOMAIN book
        PROVE  run'[book'[id].job].status \in Store!Submitted
    <3>1. PICK p \in Procs : \E n, r : SendMoves(p, n, r)
      BY <1>2, <2>2 DEF BookKept
    <3>2. Started(p) /\ SentBy(p) /\ run' = run
      BY <3>1 DEF SendMoves
    <3>3. book'[id].job = JobOf[p]
      BY <2>2, <3>2 DEF SentBy, Sent
    <3>4. QED
      BY <3>2, <3>3 DEF StartedInv
  <2>3. QED
    BY <2>1, <2>2 DEF BookJobs, Store!Submitted, Store!Ambiguous
<1> DEFINE Recorded ==
               /\ saved' = [j \in Jobs |-> saved'[j]]
               /\ \A j \in Jobs :
                     SavedIn(book, run[j].intents, saved'[j], j) /\ KeptIn(saved[j], saved'[j])
<1>5. Recorded
  <2>1. ASSUME NEW p \in Procs, Persist(p) \/ RecordAll(p)
        PROVE  Recorded
    BY <2>1, SavedByProcess
  <2>2. CASE saved' = saved
    BY <2>2 DEF SavedOK, KeptIn
  <2>3. CASE RecoverRecord
    BY <2>2, <2>3, SavedByRecovery
  <2>4. CASE /\ ~RecoverRecord
             /\ ~(\E p \in Procs : Persist(p) \/ RecordAll(p))
    <3>1. ASSUME NEW p \in Procs, ProcStep(p) PROVE saved' = saved
      BY <2>4, <3>1
         DEF ProcStep, Begin, ReadPositions, EnterLease, Prepare, RecordPlan,
             StartSubmission, GiveUp, Send, BatchReturns, PollEnds, MarkIncomplete, Report,
             FetchFills, VerifyPositions, RecordCheckpoint, Settle, Finish
    <3>2. saved' = saved
      BY <2>4, <3>1
         DEF Next, vars, Crash, RecoverCrash, LeaseExpires, LeaseLapses, Market, Expire,
             Fill, RecoveryStep, RecoverBegin, RecoverOrders, RecoverWith, RecoverPositions,
             RecoverCheckpoint, RecoverSettle, RecoverEnd
    <3>3. QED
      BY <2>2, <3>2
  <2>5. QED
    BY <2>1, <2>3, <2>4
<1>6. ASSUME NEW j \in Jobs PROVE SavedIn(book', run'[j].intents, saved'[j], j)
  <2>1. CASE run[j].status \in Store!Submitted
    <3>1. SavedIn(book', run[j].intents, saved'[j], j)
      BY <1>2, <1>5, SavedGrows
    <3>2. QED
      BY <1>1, <2>1, <3>1
  <2>2. CASE run[j].status \notin Store!Submitted
    <3>1. SavedIn(book, run[j].intents, saved'[j], j)
      BY <1>5
    <3>2. QED
      BY <2>2, <3>1, SavedNone
  <2>3. QED
    BY <2>1, <2>2
<1>7. QED
  BY <1>4, <1>5, <1>6 DEF SavedOK, SavedGrow

-----------------------------------------------------------------------------
(***************************************************************************)
(* The types of the day as an inductive invariant.                         *)
(***************************************************************************)

LEMMA NoRecoveryType == NoRecovery \in RecRec
BY DEF NoRecovery, RecRec, Inventories

\* The recovery's variables, field by field.
LEMMA RecStep ==
    ASSUME BookOK, RecOK, SavedOK, SavedGrow, Store!TypeOK, Store!TypeOK',
           \A j \in Jobs : RowOK(j),
           \A j \in Jobs : run[j].status \in Store!Submitted
                               => run'[j].status \in Store!Submitted,
           [Next]_vars
    PROVE  RecOK'
<1>1. /\ rec \in RecRec
      /\ Recovering => /\ rec.job \in Jobs /\ run[rec.job].status \in Store!Submitted
                       /\ rec.known \subseteq DOMAIN saved[rec.job]
  BY DEF RecOK
<1>2. /\ rec.pc \in {"idle", "next", "positions", "record", "checkpoint", "settle"}
      /\ rec.todo \subseteq Jobs
  BY <1>1 DEF RecRec
<1>3. ASSUME rec'.job = rec.job, rec'.known = rec.known, rec' \in RecRec, Recovering
      PROVE  RecOK'
  <2>1. rec.known \subseteq DOMAIN saved'[rec.job]
    BY <1>1, <1>3 DEF SavedGrow, KeptIn
  <2>2. QED
    BY <1>1, <1>3, <2>1 DEF RecOK
<1>4. ASSUME rec' \in RecRec, rec'.pc \in {"idle", "next"} PROVE RecOK'
  BY <1>4 DEF RecOK, Recovering
<1>5. CASE rec' = rec
  <2>1. CASE Recovering
    BY <1>1, <1>3, <1>5, <2>1
  <2>2. CASE ~Recovering
    BY <1>1, <1>2, <1>4, <1>5, <2>2 DEF Recovering
  <2>3. QED
    BY <2>1, <2>2
<1>6. CASE RecoverBegin
  <2>1. rec' = [rec EXCEPT !.pc = "next", !.todo = Candidates] /\ Candidates \subseteq Jobs
    BY <1>6 DEF RecoverBegin, Candidates
  <2> HIDE DEF Candidates
  <2>2. rec' \in RecRec /\ rec'.pc = "next"
    BY <1>1, <2>1 DEF RecRec
  <2>3. QED
    BY <1>4, <2>2
<1>7. ASSUME NEW j \in Jobs, RecoverOrders(j) PROVE RecOK'
  <2>1. CASE run[j].status \notin Store!Ambiguous
    <3>1. rec' = [rec EXCEPT !.todo = @ \ {j}] /\ rec.pc = "next"
      BY <1>7, <2>1 DEF RecoverOrders, RecoverWith
    <3>2. rec' \in RecRec /\ rec'.pc = "next"
      BY <1>1, <3>1 DEF RecRec
    <3>3. QED
      BY <1>4, <3>2
  <2>2. CASE run[j].status \in Store!Ambiguous
    <3> DEFINE ids == DOMAIN saved[j]
               unproven == \/ ~FullyIdentified(run[j].intents, saved[j])
                           \/ \E id \in ids : book[id].live \/ Broker = "kabu"
               expected == Plus(run[j].start, FilledBy(ids))
    <3>1. PICK fails \in QueryFails :
              rec' = [pc |-> "positions", todo |-> rec.todo \ {j}, job |-> j,
                      known |-> ids, expected |-> expected, errors |-> unproven \/ fails]
      BY <1>7, <2>2 DEF RecoverOrders, RecoverWith
    <3>2. ids \subseteq Nat
      BY DEF SavedOK, SavedIn, BookOK
    <3>3. run[j].status \in Store!Submitted
      BY <2>2 DEF Store!Submitted
    <3>4. expected \in Inventories
      <4>1. run[j].start \in Inventories
        BY <3>3 DEF RowOK
      <4>2. FilledBy(ids) \in Inventories
        BY FilledByType DEF BookOK
      <4>3. QED
        BY <4>1, <4>2, PlusType
    <3>5. (unproven \/ fails) \in BOOLEAN
      OBVIOUS
    <3> HIDE DEF expected, unproven
    <3>6. rec' \in RecRec /\ rec'.job = j /\ rec'.known = ids
      BY <1>2, <3>1, <3>2, <3>4, <3>5 DEF RecRec
    <3>7. ids \subseteq DOMAIN saved'[j]
      BY DEF SavedGrow, KeptIn
    <3>8. QED
      BY <3>3, <3>6, <3>7 DEF RecOK
  <2>3. QED
    BY <2>1, <2>2
<1>8. CASE RecoverPositions
  <2>1. PICK fails \in QueryFails :
            rec' = [rec EXCEPT !.pc = "record",
                               !.errors = @ \/ fails \/ Position # rec.expected]
    BY <1>8 DEF RecoverPositions
  <2> DEFINE errors == rec.errors \/ fails \/ Position # rec.expected
  <2>2. errors \in BOOLEAN /\ rec' = [rec EXCEPT !.pc = "record", !.errors = errors]
    BY <1>1, <2>1 DEF RecRec
  <2> HIDE DEF errors
  <2>3. rec' \in RecRec /\ rec'.job = rec.job /\ rec'.known = rec.known
    BY <1>1, <2>2 DEF RecRec
  <2>4. Recovering
    BY <1>8 DEF RecoverPositions, Recovering
  <2>5. QED
    BY <1>3, <2>3, <2>4
<1>9. CASE RecoverRecord \/ RecoverCheckpoint
  <2>1. PICK label \in {"checkpoint", "settle"} : rec' = [rec EXCEPT !.pc = label]
    BY <1>9 DEF RecoverRecord, RecoverCheckpoint
  <2>2. rec' \in RecRec /\ rec'.job = rec.job /\ rec'.known = rec.known
    BY <1>1, <2>1 DEF RecRec
  <2>3. Recovering
    BY <1>9 DEF RecoverRecord, RecoverCheckpoint, Recovering
  <2>4. QED
    BY <1>3, <2>2, <2>3
<1>10. CASE RecoverSettle
  <2>1. rec' = [NoRecovery EXCEPT !.pc = "next", !.todo = rec.todo]
    BY <1>10 DEF RecoverSettle
  <2>2. rec' \in RecRec /\ rec'.pc = "next"
    BY <1>2, <2>1, NoRecoveryType DEF RecRec
  <2>3. QED
    BY <1>4, <2>2
<1>11. CASE RecoverEnd \/ RecoverCrash
  <2>1. rec' = NoRecovery /\ NoRecovery.pc = "idle"
    BY <1>11 DEF RecoverEnd, RecoverCrash, NoRecovery
  <2>2. QED
    BY <1>4, <2>1, NoRecoveryType
<1>12. CASE ~RecoveryStep /\ ~RecoverCrash
  <2>1. ASSUME NEW p \in Procs, ProcStep(p) PROVE rec' = rec
    BY <2>1 DEF ProcStep, Begin, ReadPositions, EnterLease, Prepare, RecordPlan,
                StartSubmission, GiveUp, Send, BatchReturns, Persist, PollEnds, RecordAll,
                MarkIncomplete, Report, FetchFills, VerifyPositions, RecordCheckpoint,
                Settle, Finish, AtStep
  <2>2. rec' = rec
    BY <1>12, <2>1 DEF Next, vars, Crash, LeaseExpires, LeaseLapses, Market, Expire, Fill
  <2>3. QED
    BY <1>5, <2>2
<1>13. QED
  BY <1>6, <1>7, <1>8, <1>9, <1>10, <1>11, <1>12 DEF RecoveryStep

\* Who may hold the lease, and the bound on faults.
Bounds == lease \in Procs \cup {Free, Recovery} /\ faults \in 0 .. MaxFaults

LEMMA BoundsStep == Bounds /\ [Next]_vars => Bounds'
<1> SUFFICES ASSUME Bounds, [Next]_vars PROVE Bounds'
  OBVIOUS
<1>1. ASSUME NEW p \in Procs, ProcStep(p)
      PROVE  faults' = faults /\ (lease' = lease \/ lease' \in {p, Free})
  <2>1. CASE ReadPositions(p)
    <3>1. CASE IsClose(p)
      <4>1. CASE ClosePlan(PositionList(Position)) = <<>>
        BY <2>1, <3>1, <4>1, ReadForms DEF Exit
      <4>2. CASE ClosePlan(PositionList(Position)) # <<>>
        BY <2>1, <3>1, <4>2, ReadForms
      <4>3. QED
        BY <4>1, <4>2
    <3>2. CASE ~IsClose(p)
      BY <2>1, <3>2, ReadForms
    <3>3. QED
      BY <3>1, <3>2
  <2>2. CASE Begin(p)
    BY <2>2 DEF Begin
  <2>3. CASE ~ReadPositions(p) /\ ~Begin(p)
    BY <1>1, <2>3 DEF ProcStep, EnterLease, Prepare, RecordPlan, StartSubmission, GiveUp,
          Send, BatchReturns, Persist, PollEnds, RecordAll, MarkIncomplete, Report,
          FetchFills, VerifyPositions, RecordCheckpoint, Settle, Finish, AtStep, Exit
  <2>4. QED
    BY <2>1, <2>2, <2>3
<1>2. CASE ~(\E p \in Procs : ProcStep(p))
  <2>1. /\ lease' \in {lease, Free, Recovery}
        /\ faults' = faults \/ (faults < MaxFaults /\ faults' = faults + 1)
    BY <1>2 DEF Next, vars, Crash, RecoverCrash, LeaseExpires, LeaseLapses, Market, Expire,
          Fill, RecoveryStep, RecoverBegin, RecoverOrders, RecoverWith, RecoverPositions,
          RecoverRecord, RecoverCheckpoint, RecoverSettle, RecoverEnd, Fault
  <2>2. QED
    BY <2>1, ExecutionAssumption DEF Bounds
<1>3. QED
  BY <1>1, <1>2 DEF Bounds

-----------------------------------------------------------------------------
(***************************************************************************)
(* All of it together.                                                     *)
(***************************************************************************)
TypesInv ==
    /\ IInv /\ WorkTyped /\ BookOK
    /\ \A p \in Procs : WorkOK(p) /\ PlanSaved(p) /\ ResultsOK(p)
    /\ Store!TypeOK /\ \A j \in Jobs : RowOK(j)
    /\ BookJobs /\ SavedOK /\ RecOK /\ Bounds

LEMMA InitTypesInv == Init => TypesInv
<1> SUFFICES ASSUME Init PROVE TypesInv
  OBVIOUS
<1>1. IInv
  BY InitIInv
<1>2. WorkTyped
  BY NoWorkType DEF Init, WorkTyped
<1>3. BookOK /\ BookJobs /\ book = <<>>
  BY DEF Init, BookOK, BookJobs
<1>4. ASSUME NEW p \in Procs PROVE WorkOK(p) /\ PlanSaved(p) /\ ResultsOK(p)
  <2>1. pc[p] = "idle" /\ work[p] = NoWork
    BY DEF Init
  <2>2. QED
    BY <2>1 DEF WorkOK, PlanSaved, ResultsOK, Planned, Started, NoWork
<1>5. run = [j \in Jobs |-> Store!Absent]
  BY DEF Init
<1>6. Store!TypeOK
  <2>1. Store!Init
    BY <1>5 DEF Store!Init
  <2>2. SP!Init => SP!TypeOK
    BY SP!InitType
  <2>3. QED
    BY <2>1, <2>2, StoreBridge DEF Store!Init, SP!Init, Store!Absent, SP!Absent,
       Store!NoCheckpoint, SP!NoCheckpoint
<1>7. ASSUME NEW j \in Jobs PROVE RowOK(j)
  BY <1>5 DEF RowOK, Store!Absent, Store!Submitted, Store!Ambiguous
<1>8. SavedOK
  <2>1. saved = [j \in Jobs |-> <<>>]
    BY DEF Init
  <2>2. DOMAIN <<>> = {} /\ <<>> = [id \in {} |-> id]
    OBVIOUS
  <2>3. \A j \in Jobs : SavedIn(book, run[j].intents, <<>>, j)
    BY <2>2 DEF SavedIn
  <2>4. QED
    BY <2>1, <2>3 DEF SavedOK
<1>9. RecOK
  BY NoRecoveryType DEF Init, RecOK, Recovering, NoRecovery
<1>10. Bounds
  BY ExecutionAssumption DEF Init, Bounds
<1>11. QED
  BY <1>1, <1>2, <1>3, <1>4, <1>6, <1>7, <1>8, <1>9, <1>10 DEF TypesInv

LEMMA NextTypesInv == TypesInv /\ [Next]_vars => TypesInv'
<1> SUFFICES ASSUME TypesInv, [Next]_vars PROVE TypesInv'
  OBVIOUS
<1>1. /\ IInv /\ WorkTyped /\ PcTyped /\ StartedInv /\ BookOK /\ Store!TypeOK /\ RecOK
      /\ BookJobs /\ SavedOK /\ Bounds
      /\ \A p \in Procs : WorkOK(p) /\ ResultsOK(p)
      /\ \A p \in Procs : WorkOK(p)
      /\ \A p \in Procs : PlanSaved(p)
      /\ \A j \in Jobs : RowOK(j)
  BY DEF TypesInv, IInv
<1>2. IInv'
  BY <1>1, NextIInv
<1>3. WorkTyped' /\ \A p \in Procs : WorkOK(p)'
  BY <1>1, WorkStep
<1>4. BookOK' /\ BookGrows
  BY <1>1, BookStep
<1>5. \A p \in Procs : ResultsOK(p)'
  BY <1>1, ResultsStep
<1>6. /\ Store!TypeOK'
      /\ \A j \in Jobs : RowOK(j)'
      /\ \A p \in Procs : PlanSaved(p)'
  BY <1>1, RowsStep
<1>7. BookJobs' /\ SavedOK' /\ SavedGrow
  BY <1>1, SavedStep
<1>8. \A j \in Jobs : run[j].status \in Store!Submitted => run'[j].status \in Store!Submitted
  BY <1>1, NextStore, StoreKeeps
<1>9. RecOK'
  BY <1>1, <1>6, <1>7, <1>8, RecStep
<1>10. Bounds'
  BY <1>1, BoundsStep
<1>11. QED
  BY <1>2, <1>3, <1>4, <1>5, <1>6, <1>7, <1>9, <1>10 DEF TypesInv

LEMMA TypesInvariant == Spec => []TypesInv
<1>1. Init => TypesInv
  BY InitTypesInv
<1>2. TypesInv /\ [Next]_vars => TypesInv'
  BY NextTypesInv
<1>3. QED
  BY <1>1, <1>2, PTL DEF Spec

\* Rows of the store hold plans and inventories, the book executable orders, and
\* every order the store attributes to a run is one of its own.
THEOREM DayTyped == Spec => []TypeOK
<1>1. TypesInv => TypeOK
  BY DEF TypesInv, Bounds, BookOK, SavedOK, SavedIn, TypeOK, OrdersOf
<1>2. QED
  BY <1>1, TypesInvariant, PTL

\* The day is a run of the store's specification: the processes and recovery
\* never bypass one of its operations.
THEOREM DayRefinesStore == Spec => Store!Spec
<1>1. Init => Store!Init
  BY DEF Init, Store!Init
<1>2. TypesInv /\ [Next]_vars => [Store!Next]_Store!vars
  <2> SUFFICES ASSUME TypesInv, [Next]_vars PROVE [Store!Next]_Store!vars
    OBVIOUS
  <2>1. Store!Next \/ run' = run
    BY NextStore DEF TypesInv
  <2>2. QED
    BY <2>1 DEF Store!vars
<1>3. QED
  BY <1>1, <1>2, TypesInvariant, PTL DEF Spec, Store!Spec

=============================================================================
