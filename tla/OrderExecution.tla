--------------------------- MODULE OrderExecution ---------------------------
(***************************************************************************)
(* Live order execution of one account and strategy on one trading day:    *)
(* decision and close processes, the store they share, the job lease, the  *)
(* broker's order book and the read-only recovery of interrupted runs.     *)
(*                                                                         *)
(* A process reads the broker's positions, builds a plan from them, opens  *)
(* a run in the store, sends its orders batch by batch (recording the      *)
(* responses of a batch before it waits for fills or sends another), and   *)
(* then confirms fills and positions before it completes the run.  Every   *)
(* store transaction and every broker call is a step of its own, and a     *)
(* process may die between any two of them.                                *)
(***************************************************************************)
EXTENDS OrderPlanning, ResultAssignment

CONSTANTS
    Jobs,            \* job keys of the day
    CloseJobs,       \* those of them that close positions
    Procs,           \* processes, each started once
    JobOf,           \* Procs -> Jobs
    Guarded,         \* those started by the batch guard, which takes the lease
    Broker,          \* "tachibana" or "kabu"
    SubmitOutcomes,  \* what sending an order may end in
    Overrun,         \* a live process may lose its lease
    QueryErrors,     \* recovery's and the checkpoint's queries may fail
    Targets,         \* inventories a decision may aim at
    Opening,         \* the inventory at the start of the day
    MaxFaults,       \* bound on the number of crashes and lapses
    None

Free == "free"
Recovery == "recovery"

ASSUME ExecutionAssumption ==
    /\ {Free, Recovery} \cap Procs = {}
    /\ CloseJobs \subseteq Jobs
    /\ JobOf \in [Procs -> Jobs]
    /\ Guarded \subseteq Procs
    /\ Overrun \in BOOLEAN /\ QueryErrors \in BOOLEAN
    /\ Broker \in {"tachibana", "kabu"}
    /\ SubmitOutcomes \subseteq {"accepted", "rejected", "lost"}
    /\ Targets \subseteq [TickerSet -> Int] /\ Opening \in [TickerSet -> Int]
    /\ None \notin Seq(Intent)
    /\ MaxFaults \in Nat

VARIABLES
    run,      \* Jobs -> the run's row in the store
    saved,    \* Jobs -> the run's attributed broker orders in the store
    lease,    \* the owner of the job lease, or Free
    pc,       \* Procs -> where a process is
    work,     \* Procs -> its local variables
    rec,      \* the recovery process: its pc and local variables
    book,     \* orders that reached the broker; an order's id is its index
    faults    \* number of crashes and lapses so far

vars == <<run, saved, lease, pc, work, rec, book, faults>>

-----------------------------------------------------------------------------
(***************************************************************************)
(* The broker's account                                                    *)
(***************************************************************************)
\* Fills of the orders whose ids are given, as a change of the inventory.
FilledBy(ids) ==
    [t \in TickerSet |->
        SumFunction([id \in DOMAIN book |->
                        IF id \in ids /\ book[id].ticker = t
                        THEN Signed([book[id] EXCEPT !.qty = book[id].filled])
                        ELSE 0])]

Plus(inventory, change) == [t \in TickerSet |-> inventory[t] + change[t]]

Position == Plus(Opening, FilledBy(DOMAIN book))

OrdersOf(j) == {id \in DOMAIN book : book[id].job = j}

\* The terminal or pending status get_order_status reports for an order.
TrueStatus(id) ==
    IF book[id].live THEN "SUBMITTED"
    ELSE IF book[id].filled = book[id].qty THEN "FILLED" ELSE "CANCELLED"

\* get_positions: one position per ticker held, in ticker order.
PositionList(held) == OrdersFor(held)

-----------------------------------------------------------------------------
(***************************************************************************)
(* Plans, and the batches they are sent in                                 *)
(***************************************************************************)
ClosePlan(positions) == Intents(DayCloseOrders(positions, 0, 0), "close")

Store == INSTANCE ExecutionState
            WITH Decisions <- Seq(Intent), Inventories <- [TickerSet -> Int]

Part(plan, purpose) ==
    Entries(plan, {i \in DOMAIN plan : plan[i].purpose = purpose})

Batch(kind, orders) == [kind |-> kind, orders |-> orders]

Batches(j, plan) ==
    LET closes == Part(plan, "close")
        news   == Part(plan, "new")
        all    == IF j \in CloseJobs
                  THEN <<Batch("close", Immediate(closes)),
                         Batch("delayed", Delayed(closes))>>
                  ELSE <<Batch("close", closes),
                         Batch("new", Immediate(news)),
                         Batch("delayed", Delayed(news))>>
    IN  Entries(all, {b \in DOMAIN all : all[b].orders # <<>>})

\* What a process still does after its last batch, in the order of the code.
Closing(j) ==
    IF j \in CloseJobs
    THEN <<"fills", "record", "report", "mark",
           "snapshot", "checkpoint", "settle">>
    ELSE <<"record", "mark", "report", "fills",
           "snapshot", "record", "checkpoint", "settle">>

-----------------------------------------------------------------------------
(***************************************************************************)
(* Processes                                                               *)
(***************************************************************************)
NoWork == [start |-> None, plan |-> <<>>, queue |-> <<>>, batch |-> <<>>,
           results |-> <<>>, expected |-> None, errors |-> FALSE,
           todo |-> <<>>]

NoRecovery == [pc |-> "idle", todo |-> {}, job |-> None, known |-> {},
               expected |-> None, errors |-> FALSE]

Init ==
    /\ run = [j \in Jobs |-> Store!Absent]
    /\ saved = [j \in Jobs |-> <<>>]
    /\ lease = Free
    /\ pc = [p \in Procs |-> "idle"]
    /\ work = [p \in Procs |-> NoWork]
    /\ rec = NoRecovery
    /\ book = <<>>
    /\ faults = 0

IsClose(p) == JobOf[p] \in CloseJobs

Goto(p, label) == pc' = [pc EXCEPT ![p] = label]

\* The process ends; the lease it holds is released (an ExitStack, a with
\* block or the guard's finally).
Exit(p) ==
    /\ Goto(p, "done")
    /\ work' = [work EXCEPT ![p] = NoWork]
    /\ lease' = IF lease = p THEN Free ELSE lease

\* The batch guard acquires the lease before it starts the job.
Begin(p) ==
    /\ pc[p] = "idle"
    /\ IF p \in Guarded
       THEN lease = Free /\ lease' = p
       ELSE UNCHANGED lease
    /\ Goto(p, IF IsClose(p) THEN "lease" ELSE "positions")
    /\ UNCHANGED <<run, saved, work, rec, book, faults>>

\* What a process may plan from the inventory it reads.
PlansFrom(p, held) ==
    IF IsClose(p)
    THEN {ClosePlan(list) : list \in {PositionList(held)}}
    ELSE {DecisionPlan(target, held) : target \in Targets}

\* fetch_current_positions comes before the lease in a decision and after it
\* in a close, which ends here when there is nothing to close.
ReadPositions(p) ==
    /\ pc[p] = "positions"
    /\ \E held \in {Position} : \E plan \in PlansFrom(p, held) :
          IF IsClose(p) /\ plan = <<>>
          THEN Exit(p)
          ELSE /\ work' = [work EXCEPT ![p].start = held, ![p].plan = plan]
               /\ Goto(p, IF IsClose(p) THEN "prepare" ELSE "lease")
               /\ UNCHANGED lease
    /\ UNCHANGED <<run, saved, rec, book, faults>>

\* execution_lease: a guarded job checks its guard's lease, a direct one
\* acquires it.
EnterLease(p) ==
    /\ pc[p] = "lease"
    /\ lease = IF p \in Guarded THEN p ELSE Free
    /\ lease' = p
    /\ Goto(p, IF IsClose(p) THEN "positions" ELSE "prepare")
    /\ UNCHANGED <<run, saved, work, rec, book, faults>>

Prepare(p) ==
    /\ pc[p] = "prepare"
    /\ Store!PrepareRun(JobOf[p], work[p].plan)
    /\ Goto(p, "plan")
    /\ UNCHANGED <<saved, lease, work, rec, book, faults>>

RecordPlan(p) ==
    /\ pc[p] = "plan"
    /\ Store!RecordPlan(JobOf[p], work[p].plan, work[p].start)
    /\ Goto(p, "start")
    /\ UNCHANGED <<saved, lease, work, rec, book, faults>>

\* mark_submission_started, the last commit before the broker is called.
Enqueue(p) ==
    LET queue == Batches(JobOf[p], work[p].plan)
    IN  /\ work' = [work EXCEPT ![p].queue = queue,
                                ![p].todo = Closing(JobOf[p])]
        /\ Goto(p, IF queue = <<>> THEN "close" ELSE "send")

StartSubmission(p) ==
    /\ pc[p] = "start"
    /\ Store!MarkSubmissionStarted(JobOf[p])
    /\ Enqueue(p)
    /\ UNCHANGED <<saved, lease, rec, book, faults>>

\* A failed query, a risk check or a conflict in the store stops a process
\* that has sent nothing.
GiveUp(p) ==
    /\ pc[p] \in {"positions", "lease", "prepare", "plan", "start"}
    /\ Exit(p)
    /\ UNCHANGED <<run, saved, rec, book, faults>>

-----------------------------------------------------------------------------
(***************************************************************************)
(* Sending a batch                                                         *)
(***************************************************************************)
CurrentBatch(p) == Head(work[p].queue)

Result(o, id, status) ==
    [id |-> id, ticker |-> o.ticker, side |-> o.side, qty |-> o.qty,
     status |-> status]

Sent(p, o) ==
    [job |-> JobOf[p], kind |-> CurrentBatch(p).kind, ticker |-> o.ticker,
     side |-> o.side, qty |-> o.qty, filled |-> 0, live |-> TRUE]

\* The kabu client repeats a request that failed in transport, an order too;
\* an attempt that got no answer may have reached the broker.
Attempts == IF Broker = "kabu" THEN 3 ELSE 1
Unanswered == IF "lost" \in SubmitOutcomes THEN 0 .. Attempts - 1 ELSE {0}

\* Mutant: a rejected order gets an identifier.
SendWithId(p, outcome, unanswered) ==
    LET o == CurrentBatch(p).orders[Len(work[p].batch) + 1]
        orders == unanswered + (IF outcome = "rejected" THEN 0 ELSE 1)
    IN  /\ pc[p] = "send"
        /\ Len(work[p].batch) < Len(CurrentBatch(p).orders)
        /\ book' = book \o [i \in 1 .. orders |-> Sent(p, o)]
        /\ work' = [work EXCEPT ![p].batch =
                       Append(@, Result(o, Len(book) + 1, "FAILED"))]
        /\ UNCHANGED <<run, saved, lease, pc, rec, faults>>

\* submit_order.  Lost responses look like a rejection: no identifier.
Send(p, outcome, unanswered) ==
    LET o == CurrentBatch(p).orders[Len(work[p].batch) + 1]
        orders == unanswered + (IF outcome = "rejected" THEN 0 ELSE 1)
        result == IF outcome = "accepted"
                  THEN Result(o, Len(book) + orders, "SUBMITTED")
                  ELSE Result(o, NoId, "FAILED")
    IN  /\ pc[p] = "send"
        /\ Len(work[p].batch) < Len(CurrentBatch(p).orders)
        /\ book' = book \o [i \in 1 .. orders |-> Sent(p, o)]
        /\ work' = [work EXCEPT ![p].batch = Append(@, result)]
        /\ UNCHANGED <<run, saved, lease, pc, rec, faults>>

Failures(p, side) ==
    {i \in DOMAIN work[p].batch : work[p].batch[i].status = "FAILED"
                                    /\ work[p].batch[i].side = side}

OfSide(p, side) ==
    {i \in DOMAIN work[p].batch : work[p].batch[i].side = side}

\* Tachibana rolls a batch of new orders back when half of a side failed,
\* kabu any batch when more than half did.
NeedsRollback(p) ==
    \E side \in {"BUY", "SELL"} :
        LET failed == 2 * Cardinality(Failures(p, side))
            total  == Cardinality(OfSide(p, side))
        IN  /\ total > 0
            /\ IF Broker = "kabu"
               THEN failed > total
               ELSE failed >= total /\ CurrentBatch(p).kind # "close" /\ ~IsClose(p)

\* A cancel request of the rollback fails when the order has ended, and kabu
\* sends none for an order with fills.
Cancellable(p) ==
    {id \in DOMAIN book :
        /\ \E i \in DOMAIN work[p].batch : work[p].batch[i].id = id
        /\ book[id].live
        /\ Broker = "kabu" => book[id].filled = 0}

\* submit_orders_batch returns: kabu leaves failed orders out of its answer
\* and answers nothing after a rollback; Tachibana then reports every order,
\* failed ones included, as cancelled.
ReturnedBatch(p, rollback) ==
    LET batch == work[p].batch
    IN  IF Broker = "kabu"
        THEN IF rollback THEN <<>>
             ELSE Entries(batch, {i \in DOMAIN batch :
                                     batch[i].status # "FAILED"})
        ELSE IF rollback
             THEN [i \in DOMAIN batch |->
                      [batch[i] EXCEPT !.status = "CANCELLED"]]
             ELSE batch

BatchReturns(p) ==
    /\ pc[p] = "send"
    /\ Len(work[p].batch) = Len(CurrentBatch(p).orders)
    /\ \E cancelled \in SUBSET Cancellable(p) :
          /\ ~NeedsRollback(p) => cancelled = {}
          /\ book' = [id \in DOMAIN book |->
                         IF id \in cancelled
                         THEN [book[id] EXCEPT !.live = FALSE]
                         ELSE book[id]]
    /\ work' = [work EXCEPT ![p].batch = ReturnedBatch(p, NeedsRollback(p))]
    /\ Goto(p, "persist")
    /\ UNCHANGED <<run, saved, lease, rec, faults>>

RecordResults(p, results) ==
    saved' = [saved EXCEPT ![JobOf[p]] =
                 RecordResultSet(run[JobOf[p]].intents, @, results)]

\* persist_submitted_observations, before polling or another batch.
Persist(p) ==
    /\ pc[p] = "persist"
    /\ RecordResults(p, work[p].results \o work[p].batch)
    /\ Goto(p, "poll")
    /\ UNCHANGED <<run, lease, work, rec, book, faults>>

-----------------------------------------------------------------------------
(***************************************************************************)
(* Waiting for fills, and the gate before the next batch                   *)
(***************************************************************************)
PendingIn(batch) == {i \in DOMAIN batch : batch[i].status = "SUBMITTED"}

Ended(batch) == {i \in PendingIn(batch) : ~book[batch[i].id].live}

\* The batch after polling.  An order that has ended may still be pending
\* here: it ended after its last query, or its queries failed.
Polled(batch, seen) ==
    [i \in DOMAIN batch |->
        IF i \in seen
        THEN [batch[i] EXCEPT !.status = TrueStatus(batch[i].id)]
        ELSE batch[i]]

AllFilled(batch) == \A i \in DOMAIN batch : batch[i].status = "FILLED"

\* Mutant: a gate that looks for rejected orders only.
GateOnRejection(p, before, after) ==
    \A i \in DOMAIN after : after[i].status # "FAILED"

\* A decision goes on unless an order failed or a polled batch is not filled;
\* a batch in which nothing was pending is not polled.  A close goes on only
\* when every order it asked for is filled.
GateOpen(p, before, after) ==
    IF IsClose(p)
    THEN Len(after) = Len(CurrentBatch(p).orders) /\ AllFilled(after)
    ELSE /\ \A i \in DOMAIN after : after[i].status # "FAILED"
         /\ PendingIn(before) # {} => AllFilled(after)

PollEnds(p) ==
    /\ pc[p] = "poll"
    /\ \E seen \in SUBSET Ended(work[p].batch) :
          LET batch == Polled(work[p].batch, seen)
              queue == IF GateOpen(p, work[p].batch, batch)
                       THEN Tail(work[p].queue)
                       ELSE <<>>
          IN  /\ work' = [work EXCEPT ![p].results = @ \o batch,
                                      ![p].batch = <<>>,
                                      ![p].queue = queue]
              /\ Goto(p, IF queue = <<>> THEN "close" ELSE "send")
    /\ UNCHANGED <<run, saved, lease, rec, book, faults>>

-----------------------------------------------------------------------------
(***************************************************************************)
(* Confirming and completing a run                                         *)
(***************************************************************************)
TotalQty(orders) == SumFunction([i \in DOMAIN orders |-> orders[i].qty])

FilledQty(results) ==
    SumFunction([i \in DOMAIN results |->
                    IF results[i].status = "FILLED" THEN results[i].qty ELSE 0])

\* Every order of the plan was reported filled.
Complete(p) == FilledQty(work[p].results) = TotalQty(work[p].plan)

ResultIds(p) ==
    {work[p].results[i].id : i \in DOMAIN work[p].results} \ {NoId}

QueryFails == IF QueryErrors THEN BOOLEAN ELSE {FALSE}

AtStep(p, step) ==
    /\ pc[p] = "close" /\ work[p].todo # <<>>
    /\ Head(work[p].todo) = step
    /\ UNCHANGED <<lease, pc, rec, book, faults>>

StepDone(p) == [work[p] EXCEPT !.todo = Tail(@)]

RecordAll(p) ==
    /\ AtStep(p, "record")
    /\ RecordResults(p, work[p].results)
    /\ work' = [work EXCEPT ![p] = StepDone(p)]
    /\ UNCHANGED run

MarkIncomplete(p) ==
    /\ AtStep(p, "mark")
    /\ IF Complete(p) /\ ~work[p].errors
       THEN UNCHANGED run
       ELSE Store!MarkReconciliationRequired(JobOf[p])
    /\ work' = [work EXCEPT ![p] = StepDone(p)]
    /\ UNCHANGED saved

\* The first checkpoint; an incomplete decision raises after it, and the
\* exception is one of the errors of the last checkpoint.
Report(p) ==
    LET ok == Complete(p) /\ ~work[p].errors
    IN  /\ AtStep(p, "report")
        /\ Store!RecordReconciliation(JobOf[p],
               IF ok THEN "pending" ELSE "incomplete", ~work[p].errors)
        /\ work' = [work EXCEPT ![p] = [StepDone(p) EXCEPT !.errors =
                                           @ \/ (~ok /\ ~IsClose(p))]]
        /\ UNCHANGED saved

\* fetch_fill_prices: what the start and the confirmed fills add up to.
FetchFills(p) ==
    /\ AtStep(p, "fills")
    /\ \E fails \in QueryFails :
          work' = [work EXCEPT ![p] = [StepDone(p) EXCEPT
                      !.expected = Plus(work[p].start, FilledBy(ResultIds(p))),
                      !.errors = @ \/ fails]]
    /\ UNCHANGED <<run, saved>>

\* Mutant: the snapshot is taken but not compared.
SnapshotOnly(p) ==
    /\ AtStep(p, "snapshot")
    /\ \E fails \in QueryFails :
          work' = [work EXCEPT ![p] = [StepDone(p) EXCEPT
                                          !.errors = @ \/ fails]]
    /\ UNCHANGED <<run, saved>>

\* save_position_snapshot and verify_position_checkpoint.  A result without
\* identifier has no confirmed fills; with kabu none has.
VerifyPositions(p) ==
    LET unconfirmed == \E i \in DOMAIN work[p].results :
                          work[p].results[i].id = NoId \/ Broker = "kabu"
    IN  /\ AtStep(p, "snapshot")
        /\ \E fails \in QueryFails :
              work' = [work EXCEPT ![p] = [StepDone(p) EXCEPT !.errors =
                          @ \/ fails \/ unconfirmed
                            \/ Position # work[p].expected]]
        /\ UNCHANGED <<run, saved>>

Confirmed(p) == Complete(p) /\ ~work[p].errors

RecordCheckpoint(p) ==
    /\ AtStep(p, "checkpoint")
    /\ Store!RecordReconciliation(JobOf[p],
           IF Confirmed(p) THEN "complete" ELSE "incomplete", ~work[p].errors)
    /\ work' = [work EXCEPT ![p] = StepDone(p)]
    /\ UNCHANGED saved

\* An exception of mark_completed is logged and the job goes on to its end.
Settle(p) ==
    /\ AtStep(p, "settle")
    /\ IF ~Confirmed(p) THEN Store!MarkReconciliationRequired(JobOf[p])
       ELSE IF Store!CanComplete(JobOf[p]) THEN Store!MarkCompleted(JobOf[p])
       ELSE UNCHANGED run
    /\ work' = [work EXCEPT ![p] = StepDone(p)]
    /\ UNCHANGED saved

Finish(p) ==
    /\ pc[p] = "close" /\ work[p].todo = <<>>
    /\ Exit(p)
    /\ UNCHANGED <<run, saved, rec, book, faults>>

-----------------------------------------------------------------------------
(***************************************************************************)
(* Recovery: reconcile --pending, read-only towards the broker             *)
(***************************************************************************)
Candidates == {j \in Jobs : run[j].status \in Store!Ambiguous}

RecoverBegin ==
    /\ rec.pc = "idle"
    /\ Candidates # {}
    /\ lease = Free
    /\ lease' = Recovery
    /\ rec' = [rec EXCEPT !.pc = "next", !.todo = Candidates]
    /\ UNCHANGED <<run, saved, pc, work, book, faults>>

\* reconcile_run refuses a run that was resolved meanwhile.  Of the others it
\* reads the saved orders, their statuses and their fills.
RecoverWith(j, unproven) ==
    /\ rec.pc = "next"
    /\ j \in rec.todo
    /\ rec' = IF run[j].status \in Store!Ambiguous
              THEN [pc |-> "positions", todo |-> rec.todo \ {j}, job |-> j,
                    known |-> DOMAIN saved[j],
                    expected |-> Plus(run[j].start, FilledBy(DOMAIN saved[j])),
                    errors |-> unproven]
              ELSE [rec EXCEPT !.todo = @ \ {j}]
    /\ UNCHANGED <<run, saved, lease, pc, work, book, faults>>

\* Mutants: recovery accepts orders that are still live, or none but filled
\* ones.
RecoverLiveOrders(j) ==
    RecoverWith(j, ~FullyIdentified(run[j].intents, saved[j]))
RecoverFilledOnly(j) ==
    RecoverWith(j, \/ ~FullyIdentified(run[j].intents, saved[j])
                   \/ \E id \in DOMAIN saved[j] : TrueStatus(id) # "FILLED")

\* On its own day an order is settled once it has ended; with kabu no fill is
\* ever confirmed.
RecoverOrders(j) ==
    \E fails \in QueryFails :
        RecoverWith(j, \/ ~FullyIdentified(run[j].intents, saved[j])
                       \/ \E id \in DOMAIN saved[j] :
                             book[id].live \/ Broker = "kabu"
                       \/ fails)

RecoverPositions ==
    /\ rec.pc = "positions"
    /\ \E fails \in QueryFails :
          rec' = [rec EXCEPT !.pc = "record",
                             !.errors = @ \/ fails \/ Position # rec.expected]
    /\ UNCHANGED <<run, saved, lease, pc, work, book, faults>>

RecoverRecord ==
    LET j == rec.job
        records == Entries([id \in DOMAIN book |->
                               Result(book[id], id, TrueStatus(id))], rec.known)
    IN  /\ rec.pc = "record"
        /\ saved' = [saved EXCEPT ![j] =
                        RecordResultSet(run[j].intents, @, records)]
        /\ rec' = [rec EXCEPT !.pc = "checkpoint"]
        /\ UNCHANGED <<run, lease, pc, work, book, faults>>

RecoverCheckpoint ==
    /\ rec.pc = "checkpoint"
    /\ Store!RecordReconciliation(rec.job,
           IF rec.errors THEN "incomplete" ELSE "complete", ~rec.errors)
    /\ rec' = [rec EXCEPT !.pc = "settle"]
    /\ UNCHANGED <<saved, lease, pc, work, book, faults>>

RecoverSettle ==
    /\ rec.pc = "settle"
    /\ IF rec.errors THEN Store!MarkReconciliationRequired(rec.job)
       ELSE IF Store!CanComplete(rec.job) THEN Store!MarkCompleted(rec.job)
       ELSE UNCHANGED run
    /\ rec' = [NoRecovery EXCEPT !.pc = "next", !.todo = rec.todo]
    /\ UNCHANGED <<saved, lease, pc, work, book, faults>>

RecoverEnd ==
    /\ rec.pc = "next" /\ rec.todo = {}
    /\ rec' = NoRecovery
    /\ lease' = IF lease = Recovery THEN Free ELSE lease
    /\ UNCHANGED <<run, saved, pc, work, book, faults>>

-----------------------------------------------------------------------------
(***************************************************************************)
(* Crashes, the lease's expiry and the market                              *)
(***************************************************************************)
Fault == faults < MaxFaults /\ faults' = faults + 1

\* A killed job, also one that a failing store write ends: its guard, when it
\* survives, releases the lease.
Crash(p) ==
    /\ pc[p] \notin {"idle", "done"}
    /\ Fault
    /\ Goto(p, "done")
    /\ work' = [work EXCEPT ![p] = NoWork]
    /\ lease' \in {lease, IF lease = p THEN Free ELSE lease}
    /\ UNCHANGED <<run, saved, rec, book>>

RecoverCrash ==
    /\ rec.pc # "idle"
    /\ Fault
    /\ rec' = NoRecovery
    /\ lease' \in {lease, IF lease = Recovery THEN Free ELSE lease}
    /\ UNCHANGED <<run, saved, pc, work, book>>

HolderAlive ==
    \/ lease = Recovery /\ rec.pc # "idle"
    \/ lease \in Procs /\ pc[lease] \notin {"idle", "done"}

\* A dead owner's row is as good as none once its ttl is over.
LeaseExpires ==
    /\ lease # Free /\ ~HolderAlive
    /\ lease' = Free
    /\ UNCHANGED <<run, saved, pc, work, rec, book, faults>>

\* A process goes on without its lease: its guard timed out and released it
\* while the process survived, or the process outlived the lease's ttl.
LeaseLapses ==
    /\ Overrun /\ HolderAlive
    /\ Fault
    /\ lease' = Free
    /\ UNCHANGED <<run, saved, pc, work, rec, book>>

Fill(id, qty) ==
    /\ book[id].live
    /\ qty \in 1 .. book[id].qty - book[id].filled
    /\ book' = [book EXCEPT ![id] =
                   [book[id] EXCEPT
                       !.filled = book[id].filled + qty,
                       !.live = book[id].filled + qty < book[id].qty]]
    /\ UNCHANGED <<run, saved, lease, pc, work, rec, faults>>

\* The rest of the order expires, or the exchange rejects it.
Expire(id) ==
    /\ book[id].live
    /\ book' = [book EXCEPT ![id].live = FALSE]
    /\ UNCHANGED <<run, saved, lease, pc, work, rec, faults>>

Market ==
    \E id \in DOMAIN book :
        Expire(id) \/ \E qty \in 1 .. book[id].qty : Fill(id, qty)

ProcStep(p) ==
    \/ Begin(p) \/ ReadPositions(p) \/ EnterLease(p)
    \/ Prepare(p) \/ RecordPlan(p) \/ StartSubmission(p) \/ GiveUp(p)
    \/ \E outcome \in SubmitOutcomes, n \in Unanswered : Send(p, outcome, n)
    \/ BatchReturns(p) \/ Persist(p) \/ PollEnds(p)
    \/ RecordAll(p) \/ MarkIncomplete(p) \/ Report(p)
    \/ FetchFills(p) \/ VerifyPositions(p)
    \/ RecordCheckpoint(p) \/ Settle(p) \/ Finish(p)

RecoveryStep ==
    \/ RecoverBegin \/ (\E j \in Jobs : RecoverOrders(j))
    \/ RecoverPositions \/ RecoverRecord
    \/ RecoverCheckpoint \/ RecoverSettle \/ RecoverEnd

Next ==
    \/ \E p \in Procs : ProcStep(p) \/ Crash(p)
    \/ RecoveryStep \/ RecoverCrash
    \/ LeaseExpires \/ LeaseLapses
    \/ Market

Spec == Init /\ [][Next]_vars

-----------------------------------------------------------------------------
(***************************************************************************)
(* Properties                                                              *)
(***************************************************************************)
BookOrder == [job : Jobs, kind : {"close", "new", "delayed"},
              ticker : TickerSet, side : {"BUY", "SELL"},
              qty : Nat \ {0}, filled : Nat, live : BOOLEAN]

\* Rows of the store hold plans and inventories, the book holds executable
\* orders, and the store attributes no order to a run but the run's own.
TypeOK ==
    /\ Store!TypeOK
    /\ lease \in Procs \cup {Free, Recovery}
    /\ book \in Seq(BookOrder)
    /\ \A id \in DOMAIN book :
          /\ book[id].filled <= book[id].qty
          /\ book[id].live => book[id].filled < book[id].qty
    /\ \A j \in Jobs : DOMAIN saved[j] \subseteq OrdersOf(j)
    /\ faults \in 0 .. MaxFaults

\* What has reached the broker for a job, of one ticker and side.
SentQty(j, t, side) ==
    SumFunction([id \in DOMAIN book |->
                    IF book[id].job = j /\ book[id].ticker = t
                       /\ book[id].side = side
                    THEN book[id].qty ELSE 0])

\* No order goes to the broker twice and none outside the plan: whatever
\* process is restarted, whatever response is lost and whoever holds the
\* lease, what a job has sent of a ticker and side stays within its plan.
NeverSentTwice ==
    \A j \in Jobs, t \in TickerSet, side \in {"BUY", "SELL"} :
        SentQty(j, t, side) > 0 =>
            /\ run[j].status \in Store!Submitted
            /\ SentQty(j, t, side) <= QtyIn(run[j].intents, t, side)

Sending(p) == pc[p] = "send" /\ Len(work[p].batch) < Len(CurrentBatch(p).orders)

\* Two processes are never both about to send an order, even when the lease of
\* the first has lapsed: the store admits the second only once the first run
\* is completed, and that is never before its last order.
SendingIsExclusive ==
    \A p, q \in Procs : Sending(p) /\ Sending(q) => p = q

\* A completed run has nothing left to send or to wait for: its whole plan
\* reached the broker, each order is attributed in the store, and none of them
\* can still fill.
CompletedMeansSettled ==
    \A j \in Jobs : run[j].status = "completed" =>
        /\ FullyIdentified(run[j].intents, saved[j])
        /\ DOMAIN saved[j] = OrdersOf(j)
        /\ \A id \in OrdersOf(j) : ~book[id].live

\* What has been filled of a job's batch.
FilledIn(j, kind, t, side) ==
    SumFunction([id \in DOMAIN book |->
                    IF book[id].job = j /\ book[id].kind = kind
                       /\ book[id].ticker = t /\ book[id].side = side
                    THEN book[id].filled ELSE 0])

BatchFilled(j, kind) ==
    LET batches == Batches(j, run[j].intents)
    IN  \A b \in DOMAIN batches : batches[b].kind = kind =>
            \A t \in TickerSet, side \in {"BUY", "SELL"} :
                FilledIn(j, kind, t, side) >= QtyIn(batches[b].orders, t, side)

HasSent(j, kind) == \E id \in OrdersOf(j) : book[id].kind = kind

\* A decision opens nothing before what it closes is repaid: when an order of
\* its new batches is at the broker, the whole close batch was sent and filled.
NewAfterCloses ==
    \A j \in Jobs \ CloseJobs :
        HasSent(j, "new") \/ HasSent(j, "delayed") => BatchFilled(j, "close")

\* The second half of a large close is only sent once the whole first batch is
\* filled.
DelayedCloseAfterFirst ==
    \A j \in CloseJobs : HasSent(j, "delayed") => BatchFilled(j, "close")

\* The same of the second half of a large new order: a failure in the first
\* batch skips it.
DelayedNewAfterFirst ==
    \A j \in Jobs \ CloseJobs : HasSent(j, "delayed") => BatchFilled(j, "new")

Phase(j) ==
    IF run[j].status \in Store!Ambiguous THEN "open"
    ELSE IF run[j].status = "completed" THEN "closed" ELSE "idle"

Day == INSTANCE TradingDay
           WITH Tickers   <- TickerSet,
                NotOpened <- None,
                phase     <- [j \in Jobs |-> Phase(j)],
                start     <- [j \in Jobs |-> IF Phase(j) = "idle"
                                             THEN None ELSE run[j].start],
                traded    <- [j \in Jobs |-> FilledBy(OrdersOf(j))],
                inventory <- Position

\* The processes, the store, the lease and the recovery together keep the
\* trading day's promise: one open run at a time, nothing moves the inventory
\* but the open run, and whoever completes a run, its process or recovery,
\* leaves behind no order or fill that its start and its own fills do not
\* explain, not even when it was planned from an old inventory.
ImplementsTradingDay == Day!Spec
=============================================================================
