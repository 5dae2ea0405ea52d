# A verification project for the live trading program

TLA+ specifications of NightManager's live side: how a trading day's orders are
planned, sent, recorded and reconciled, how the durable state keeps a job from
sending twice, how the batch guard bounds a job in time, and what the processes
of a day leave for each other in files and caches. TLC checks them on small
instances; TLAPS proves every safety property that the passing runs check, and
the refinements of the abstract specifications, for every value of the
constants. Paths are those of the repository; code in
`src/leadlag/` is named by its file alone where that is unambiguous.

## 1. Inventory

### The live path

A scheduler starts one of two jobs. The *decision* job (morning) computes a
target inventory, the *close* job (before the close) sells what is not kept
overnight. Both run as

    job_guard (lease, deadline)  ->  batch shell  ->  phase_deadline  ->  worker

and the worker talks to two shared parties: the SQLite **state store** and the
**broker**. A third job, at 15:40, starts with `reconcile --pending`, which is
read-only towards the broker and resolves runs whose outcome is ambiguous.

| Component | State | Operations | Interacts with |
|---|---|---|---|
| State store (`execution/state_store.py`) | a row per job and day: status, decision id, saved plan and starting inventory, intents, order observations, reconciliation checkpoints | `prepare_run`, `record_plan`, `mark_*`, `record_result_set`, `record_reconciliation` | all jobs; one SQLite transaction each, but for `record_result_set`: one per observation |
| Lease (same file) | a row per scope: owner, expiry (wall clock) | `acquire_lease`, `renew_lease`, `release_lease`, `owns_lease` | the guard, direct CLI jobs, reconcile |
| Planning (`broker_ops.py`, `close.py`, `post_decision.py`) | none | order deltas, split of large orders, overnight share, reduction-only test | store (intents), broker (orders) |
| Submission (`broker_ops.py`, `close.py`, `post_decision.py`, `v2_bridge.py`) | local results of a job | batches, polling, gates between batches, fill queries, position check, completion | store and broker |
| Polling (`order_lifecycle.py`) | none | poll until terminal or deadline | broker |
| Reconciliation (`reconcile.py`) | local results | order states, fills, positions, checkpoint, completion | store and broker |
| Broker adapters (`broker/tachibana`, `broker/kabu`) | session, request number | submit, batch with rollback, status, positions | jobs; the exchange |
| Guard and phase wrapper (`job_guard.py`, `scripts/tools/phase_deadline.py`) | process groups, timers, handlers | start, TERM, grace, KILL, forward a signal | lease, batch shell |
| Broker session (`tachibana/api.py`, `session_cache.py`) | URLs, `p_no`, a cache file shared by processes | login, restore, request, relogin | all jobs |
| Allocator (`core/allocator.py`), risk capital | none | lots within budgets, net balancing | decision |
| Quote snapshot (`data/quote_snapshot.py`) | one frozen file a day | freeze, read | publisher, decision |
| Market-data caches (`data/market_data_cache.py`) | raw prices and the execution frame built from them, each with metadata | save, compare, rebuild, fall back | publisher, decision |
| Gap store, publisher (`data/gap_store.py`, `pipeline/gap_publisher.py`) | a distribution by date and horizon, a rank signal | publish, verify, read | quotes, frame, decision |
| Distribution source (`models/v2/distribution_source.py`) | none | choose store, on demand or flat for a horizon | gap store, frame, quotes |
| Gap bundle (`utils/gap_matrix_io.py`) | two matrices, metadata and a manifest, four files | publish, read | research, legacy decision |
| Overlay artifact (`models/ml_overlay_artifact.py`) | version directories and `CURRENT` | publish, load | training, decision |
| Risk history (`var_history.py`, `var_worker.py`, `utils/threading.py`) | an input snapshot, threads, a cache writer | replay, write under a deadline | decision |
| PnL ledger (`core/pnl.py`) | open lots | FIFO matching | reports |
| Experiment registry (`experiment_registry.py`) | an append-only log | register, record, correct, select | research |
| Models, data, reports, backtest, config | data frames | numerical | decision |

### What is hard here

* **A lost response.** An order may be live although `submit_order` failed, and
  then has no identifier in the store.
* **A crash between two steps.** The commit before the broker call, the commit
  of a batch's responses and the final checkpoint are separate transactions.
* **Restart and retry.** The job is started again the same day; what was
  submitted must not be submitted again.
* **Two jobs.** The lease is a row with a wall-clock expiry that nobody renews;
  a process may outlive it, and the store must stop the second one.
* **Late fills.** A deadline passes while an order is filling; the gates between
  batches see what was polled, the account sees what was filled.
* **Partial failure of a batch**, with a rollback that races the fills and that
  the two brokers report differently.
* **Records in three orders**: batch by batch, as a summary, from recovery;
  each quantity must stay with its intent.
* **Time.** Two nested graces, signals during a termination, a worker outside
  the guard's process group.
* **Rounding** of halves and overnight shares in whole lots, and a greedy loop
  that must stop.
* **Several files that are one thing.** Matrices and their manifest, a version
  and its pointer, prices and the time of their metadata, the horizons of a
  distribution: writers overlap, fail and die between the parts, readers read
  them one after another.
* **Threads that outlive their call.** A timed-out call leaves a daemon thread
  that still holds the inputs and may still write.
* **A session file** that two processes restore, with a request number the
  broker requires to increase.

`PROJECT.json` lists each of these under `hazards` at its line, with the
properties that would catch it, or why none does yet.

### What makes each component correct

* Store: one run executes at a time; submission is for good; plan, starting
  inventory and intents are frozen by then; completion needs a clean latest
  checkpoint.
* Lease: no two owners; an unexpired lease is never taken.
* Planning: filled plans reach the target in whole lots, repay before they open
  anything, and never pass the target.
* Recording: an order keeps the intent it was given; a run counts as identified
  only when everything was sent and answered.
* Submission and recovery: nothing sent twice; later batches only after the
  earlier ones; a completed run is settled and explains the inventory; one open
  run at a time; the one recovery pass of a day completes what can be completed.
* Guard: it returns in time, within its lease, with its group dead; no worker
  runs on without a lease.
* Allocator: the balancing loop ends within the net limit and within budgets.
* Quotes, gap store, distribution source: a day has one set of quotes; whatever
  a decision blends was computed from one frame and one set of quotes, its own;
  a publication that passed its verification is served.
* Market-data caches: an undisturbed update reaches every later load that has a
  bound on the age.
* Gap bundle, overlay: a reader gets a whole version that was current during its
  call, or nothing; an undisturbed publication can be read.
* Broker session: a caller is told truly whether its request was executed, and
  a request is refused only where two processes share a session.
* Risk history: the call returns by its deadline, its inputs live as long as the
  replay that reads them, and it leaves no file, no writer and no late entry.
* Ledger: realized and unrealized profit with cash and fees is equity.
* Registry: a study is registered before its trials and selected after them.

## 2. Modules

| Module | Models | How state and actions correspond to the code |
|---|---|---|
| `ExecutionState` | run rows of the store | `run[j]` is the row of `execution_runs` with its plan, intents and latest checkpoint; one action per public operation; guards are the conflicts that the operations raise |
| `ExecutionLease` | the lease row | `asked[c]` is the clock an owner read *before* `BEGIN IMMEDIATE`, `held[c]` the expiry it believes in; `Die` is an owner that never releases |
| `OrderPlanning` | the pure order arithmetic | operators for `_build_order_deltas`, `build_execution_plan`, `split_large_orders`, `_build_close_order_plan`, `_is_reduction_only` |
| `Lists` | comprehensions that select from a list | `Entries`, used by the modules below |
| `PlannedFills` | an exchange that fills the planned batches in order, the orders of a batch in any order | reads `OrderPlanning` as the two jobs do |
| `ResultAssignment` | `record_result_set` | which intent a broker id is attributed to, and what recovery counts as identified |
| `ResultRecording` | a job that records cumulative results and recovery that records them again | batches, the summary in its other order, a crash at any point |
| `OrderExecution` | the whole day: processes, store, lease, broker, recovery | composes `OrderPlanning`, `ResultAssignment` and an instance `Store` of `ExecutionState` whose rows are `run`; `pc[p]` is a process's place, `work[p]` its local variables, `book` the orders that reached the broker; every store transaction and every broker call is one action |
| `ScheduledRecovery` | that day under the schedule of the batch scripts | adds `clock`: the session, the recovery pass at 15:40 and the passes of later days, whose status queries carry the wrong date (`RecoverLate`); every other step is one of `OrderExecution` |
| `TradingDay` | what the execution subsystem promises (abstract) | runs opened one at a time, trades only of the open one, closed for good and only when start and trades explain what is held |
| `JobGuard` | guard, shell, phase wrapper, worker | timers in ticks, process groups as Booleans, a pending TERM for the wrapper |
| `NetBalancing` | `allocate_capital` with its balancing loop | `lots`, `remaining`, `steps` are the loop's variables; money and weights are integers |
| `InventoryLedger` | `InventoryLedger.apply_fill` and its marks | `lots` is the FIFO queue, `realized` the profit so far; `cash` and `position` are the account that it must agree with |
| `GapPublication` | quote snapshot, gap publisher, distribution source of a decision | `quotes` and `frame` are the shared inputs, `bundle[h]` and `rank` the store; one action per transaction, file operation and read |
| `GapFiles` | the .npy gap bundle with its commit manifest | `file` is the directory; one action per rename, unlink and open |
| `OverlayArtifact` | publication and loading of an overlay version | `stored` are the renamed versions, `staged` the directories a saver fills, `current` the pointer |
| `BundleRegister` | what both of these promise (abstract): one atomic register | a read returns what was committed during the call, or nothing |
| `MarketCache` | raw prices and execution frame | `raw` and `frame` are versions, `rawAt` and `frameAt` the times of their metadata; data and metadata are two transactions |
| `BrokerSession` | login, restore, request, relogin, logout of the processes of a day | `cache` is the session file, `client[p]` a process's session and next `p_no`, `highest[s]` the last number the broker saw |
| `VarHistory` | one call of `get_hist_returns_for_risk` | `at` is the caller's place, `threads` the daemon threads, `box` the dictionary in which a thread leaves its result, `snapshot` and `owner` the temporary copy of the gap inputs and who removes it, `child` the cache writer |
| `ExperimentRegistry` | the log of studies, trials and records | `log` is the file, one call of the registry an action |
| `Artifacts` | the components that publish for other processes, together | `focus` names the one a behaviour explores, the others stay as they are |
| `Deadlines` | `JobGuard` and `VarHistory`, together | each runs with the other at rest |
| `Quantities` | `PlannedFills`, `ResultRecording`, `NetBalancing`, `InventoryLedger`, together | each is explored with the others at rest |
| `*_proofs` | theorems | section 5 |
| `MCExecutionState`, `MCExecutionLease`, `MCOrderExecution`, `MCScheduledRecovery`, `MCJobGuard`, `MCArtifacts`, `MCDeadlines`, `MCQuantities` | instances for TLC | values of the constants, symmetry |

The components of a composition share no state: a behaviour explores one of
them, so that the run's states are the sum of theirs and not the product.

`OrderExecution` implements `TradingDay`: its refinement mapping takes a run
that is executing or waits for reconciliation to *open*, a completed one to
*closed*, the fills of a job's orders to its trades and the broker's positions to
the inventory (`ImplementsTradingDay`).

Operators introduced by a comment that says *mutant* (`StartUnchecked`,
`GateOnRejection`, ...) are deliberate variants of the definition below them.
They take no part in a specification; they show that a property breaks when the
code breaks.

### Abstractions

* Prices, tax and account codes, messages, journals, mails and logs are left
  out. An order is ticker, side, quantity, purpose and state.
* A market order fills in any number of parts, or what is left of it expires.
* A polled status is the true one, or none (the query failed, or came too
  early): the code treats both as pending.
* A failed risk check, query or store conflict before submission ends a process
  (`GiveUp`); a store error afterwards is a crash, as `persist_submitted_observations`
  lets it propagate.
* The SQLite database loses nothing that was committed.
* `record_result_set` commits one observation at a time; the models take the
  call as one step. A crash inside it leaves the first observations of the list,
  the rows that a call leaves whose last responses were lost, which is included.
* `RecoverOrders` takes the reads of `reconcile_run` and its status and fill
  queries (reconcile.py:129-168) together, before `RecoverPositions`. The
  candidates are read before the lease is acquired (267 and 278); the model
  reads them with it, which differs only for runs that change in between, and
  those `reconcile_run` reads again.
* `OrderExecution` lists one position per ticker (`PositionList`). Tachibana
  returns one per lot (tachibana/client.py:335-382) and the close job plans an
  order for each; what several lots of a ticker do to the attribution is the
  subject of `ResultRecording`.
* An accepted order has an identifier. Tachibana's adapter would report an
  answer without `sOrderNumber` as submitted with an empty one
  (tachibana/client.py:447); for the store and recovery that is a lost response,
  but the job would poll it.
* In `ExperimentRegistry` a correction names the record it corrects, as
  `record_correction` sees to; `supersedes` lists of the caller
  (experiment_registry.py:595) and a `correction_of` set by hand in `record`
  (317-328) are left out.
* The lease in `OrderExecution` is its owner only: `LeaseExpires` frees the row
  of a dead owner, `LeaseLapses` lets a living process go on without it. Its
  clocks are the subject of `ExecutionLease`.
* Distributions, quotes and prices are identified by what they were computed
  from; their numbers are left out. A hash that is compared is the identity it
  was computed of.
* A clock that is read twice has moved on in between (`MarketCache`).
* A process that dies and one whose step raised before it changed anything look
  alike to the others; the models have one action for both.
* kabu's adapter has no call that confirms the fills of an order, so its runs are
  never completed automatically; the model says so
  (`Broker = "kabu"` in `VerifyPositions` and `RecoverOrders`).

## 3. Runs

| Run | Question | Bounds |
|---|---|---|
| `exec_state` | every order of store calls by two jobs | 2 jobs, 2 decisions, 2 inventories; the rows are finite, nothing is cut off |
| `lease` | slow acquirers, expiry, dead owners | 3 processes (two rivals and one between them), ttl 1 or 2, clock to 5, so that two leases in a row can expire |
| `quantities` | from money to profit | the planned orders: 2 tickers, one split from 4 shares in lots of 2 (10 and 100 in production), positions of at most 6, below, at and above the threshold and with an odd number of lots, overnight shares 0, 25, 50, 100 %; the recording: the same tickers, targets of 0 and ±6 from inventories of -6, -2, 0 and 6 (so that closes, new orders and both are split), closes of one lot of 1 to 7 and of two lots of one ticker, with the larger first or last and of one side or both, any crash; the allocator: 3 tickers, weights of -2 to 2, each worth 6, lots worth 0 (no price), 3 and 5, limits 0, 2 and 3, 14 steps (500 in production), which `EnoughSteps` allows for every budget here (at most 36, and 13 lots of 3 are 39); the ledger: 4 fills of 1 or 3 shares at 2 prices with or without a fee, enough to open, close in part, close several lots and reverse |
| `artifacts` | what processes leave for each other | gap bundle: 2 writers, a reader, 3 bundles, one without metadata; publication: 2 captures, 2 publishers, a decision, 2 horizons, 2 frames; overlay: 2 savers, a loader, 3 versions; session: 3 processes, 2 sessions, 1 request each; market data: 2 updaters, 2 loaders of which one bounds the age, 3 versions, 3 readings of the clock; registry: 1 study, 2 candidates, 5 lines |
| `deadlines` | timeouts | guard 5 + 2 ticks, phases of 3 and 4 (together longer than the guard's), wrapper grace 1 or 2, a worker that ignores TERM, signals at any moment, clock to 9 (past the lease's 8); the risk history is finite, nothing is cut off |
| `day` | the day's promise | a decision started by hand (it reads the positions before its lease) and a guarded close, 2 tickers (a split ETF and a reversed stock), every submission accepted, rejected or lost, failing queries, one crash |
| `overrun` | processes without their lease, a restart | a direct decision, its restart and a guarded close, submissions accepted or lost, one lapse or crash |
| `recovery` | the recovery pass of the day | a guarded decision and close of the split ETF, every submission outcome, two crashes (one of a job and one of the pass, or of both jobs), passes of later days |
| `rollback_delayed`, `kabu_new_after_closes`, `kabu_resend`, `job_guard_orphan` | one statement of the repository each, violated | section 4 |

In `day` one crash is enough to interrupt any process at any step, recovery included;
every interruption leads to the same recovery. A day of one batch of each kind
has every gate in it. Two shares make the split ETF two orders of one share; a
batch with two orders has a partial failure.

Two writers of which one is interrupted, a second reader of the pointer or of a
manifest, and a version more than there are writers are what a mix needs.
A third updater repeats what the second one does: each overwrites data and
metadata of the same two rows.

`CHECK_DEADLOCK FALSE` is set where the system may really stop: a day or a
guarded job ends, and every log, version and clock has its bound.

What the runs show beyond the single property:

* `day` has the strongest claim. `ImplementsTradingDay`: when any process
  completes a run, the account holds the starting inventory plus the run's own
  fills, and nothing else has moved it since, although a direct decision may
  plan from positions that the close has sold meanwhile (the position check
  stops its completion). `CompletedMeansSettled`: nothing of a completed run is
  live, unsent or unattributed, whichever of the job and recovery completed it.
  Both hold although fills, polls, crashes and lost responses interleave freely.
* `overrun` shows that the store, not the lease, is what keeps two processes
  from sending together and a restart from sending again: a process that has
  lost its lease has an unresolved run, and that is only completed after its
  last order. Without the lease `ImplementsTradingDay` can fail: a process that
  outlived it may reopen a run that recovery has completed
  (`mark_reconciliation_required` accepts `completed`). It is checked where it
  is promised.
* `artifacts` shows that the checks after a read are enough without any lock: a
  reader of the gap bundle that meets a writer reads its mix and rejects it; a
  decision rejects a distribution of another frame or other quotes whatever two
  publishers and a rebuild of the frame do in between. Two of its properties
  are about the undisturbed case only, because the code promises no more:
  `UndisturbedIsReadable` (a mix stays on disk until the next complete
  publication) and `UpdatedIsServed` (section 4).
* `deadlines` lets the guard's grace race the wrapper's and the risk history's
  daemon threads race the caller that has given them up. The thread that copies
  the gap inputs makes the temporary directory and owns it until its caller has
  it (var_inputs.py:299); a caller that gave up at the deadline leaves it to the
  thread, which removes it whenever it ends. The replay's thread owns it from
  before its start. What a thread puts in its dictionary late is read by nobody.
* `recovery` makes the pass of 15:40 once. A run that the jobs leave open with
  all its orders identified is then completed, unless the pass dies; after that
  nothing is promised, because the passes of later days ask for the orders under
  their own date and find them pending for ever.
* `quantities` records closes of two lots of one ticker and side. Where a split
  order is followed by such a close, first fit may give a part to the other
  intent (`InTurn` leaves that out of `PartsKeepTheirIntent`); what holds all the
  same is that a run found identified has every order sent and known.
* The violation runs have one guarded decision and no fault: the disagreements
  need no crash.

The passing runs of `OrderExecution` are of the Tachibana adapter, the one whose
quotes a live decision needs (docs/ARCHITECTURE.md:180); kabu, whose runs are
never completed automatically, appears in its two violation runs.

`overrun` is checked up to the exchange of the two direct decision processes
(`SYMMETRY`), which differ in their name only; it has no liveness property.

### Fairness

`recovery` assumes (`Schedule`): a living process takes its next step (`WF
SessionStep`; the guard bounds a stuck one); a dead owner's lease expires (`WF
LeaseExpires`; its ttl is finite); every order ends in the session (`WF
Settlement`; the orders are day orders, and the market closes at 15:30); the
pass of 15:40 is made and takes its steps (`WF PassBegins`, `WF PassStep`;
docs/SCHEDULER_SETUP.md:218). The pass is made once: it begins when the guarded
jobs are over, which they are (the close starts at 14:50, and 1800 seconds of
timeout, 10 of grace and 30 of margin end its lease before 15:21), and when it
dies it is not repeated. Nothing is assumed of later days. Crashes are bounded
by `MaxFaults`, the assumption that they do not go on for ever. No step is
strongly fair.

`deadlines` assumes of the guard that time passes and due timers fire; a worker
need not end by itself. Of the risk history it assumes that its deadline passes
(`WF DeadlinePasses`) and that the caller takes its next step (`WF Caller`): a
daemon thread need never end, and the cache writer may ignore TERM.

`IdentifiedRunsComplete` is stated for runs of guarded jobs whose orders are all
identified, with queries that are answered, and for as long as nothing dies
again. Each condition is needed:

* A quantity whose submission failed without an id leaves its run unresolved
  until a person repairs it, which is what the code intends ("unidentified
  submissions remain unresolved").
* A direct decision may plan from positions a close has sold meanwhile; its run
  is never completed (section 4). A direct close that dies holds its lease for
  six hours, past 15:40.
* A query that fails in the pass leaves the run open, and so does a pass that
  dies: there is no second one that day.
* On a later day every order of the run counts as pending
  (tachibana/client.py:476), so only a recovery started by hand on the day
  itself, which is no part of the model, could have helped.

## 4. Disagreements between the code and its own documentation

| Run | Statement | What the code does |
|---|---|---|
| `rollback_delayed` | broker_ops.py:464 "mark SKIPPED if first batch failed" | Tachibana's rollback reports every order `CANCELLED`; nothing is polled, nothing is `FAILED`, and the delayed orders are sent |
| `kabu_new_after_closes` | broker_ops.py:688 "skipping new order submission to avoid double exposure" | kabu returns only the orders that succeeded; a failed close is not among the results the test reads |
| `kabu_resend` | docs/ARCHITECTURE.md:238, compare orders before a resend | `_request` repeats `POST /sendorder` after a transport error |
| `job_guard_orphan` | phase_deadline.py:5-7, no worker is left behind | guard and wrapper have the same grace; the guard's KILL may reach the wrapper first |

Five more were met while modelling and are described in `hazards`; the passing
runs state what holds in spite of them. A direct decision reads the positions
before its lease (v2_bridge.py:873 against the comment of line 891); `day`
includes it and shows that such a run is never completed. Of lots of 200 and 50
of the split ETF the close job sends 100, 50 and then the other 100; first fit
puts the 100 and the 50 under the intent of 200 and finds no room for the last
100, so the run is never found identified although every order is known
(state_store.py:638 against the comment of line 620). `quantities` has such
closes: `FullyIdentifiedExactly` says of any lots that a run found identified
is, and the converse, as `PartsKeepTheirIntent`, of plans in which no split
order is followed by a close of its ticker and side (`InTurn`). A signal during
the guard's grace period unwinds it without the KILL (job_guard.py:75 against
docs/ARCHITECTURE.md:249); `GroupDeadOnReturn` and `WorkUnderLease` leave that
state, `"unwound"`, out. The correction of an untracked record may give a trial
that failed a second outcome (experiment_registry.py:323);
`StudiesArePreregistered` says of a selected trial only that it has a completed
one. The execution frame counts as fresh by the time at which metadata were
written (market_data_cache.py:233), so an update of prices that overlaps a
rebuild, or dies between its two transactions, is not served until the next one;
`UpdatedIsServed` is about the updates that overlap nothing.

## 5. Proofs

The modules of proofs check with `tlapm` and assume nothing but the named
assumptions of the modules they are about. What the configurations of the
passing runs check on small instances is proved here for every value of the
constants, all but the three liveness properties (`GuardReturns`,
`CallReturns`, `IdentifiedRunsComplete`), which stay with TLC; the table says
which module has the theorems for which properties.

| Module | Properties of the runs | Further theorems |
|---|---|---|
| `ExecutionState_proofs` | `AtMostOneExecuting`, `NeverSubmittableAgain`, `PlanFrozenOnceSubmitted`, `IntentsNeverReplaced` | `TypeCorrect`, `CompletedIsChecked` |
| `ExecutionLease_proofs` | `LeaseExclusive`, `LiveLeaseNotStolen` | `LeaseInvariant` |
| `Planning_proofs` | | `SplitConserves`, `RecordingExtends`, `RecordingKnown`, `RecordingPacks` |
| `OrderExecution_proofs` | `TypeOK` | `DayInvariant`, `OneRunAtATime`, `JobSentByOne`, `SubmittedForGood`, `DayRefinesStore` |
| `TradingDay_proofs` | `NeverSentTwice`, `NewAfterCloses`, `DelayedCloseAfterFirst`, `CompletedMeansSettled`, `SendingIsExclusive`, `ImplementsTradingDay` | `RepeatsBoundSends` |
| `Artifacts_proofs` | all eleven of `artifacts` | the invariants of its components |
| `Deadlines_proofs` | `GroupDeadOnReturn`, `WorkUnderLease`, `SnapshotOutlivesReplay`, `NothingLeftBehind`, `NothingPublishedLate` | `ShorterGraceLeavesNoOrphan` |
| `Quantities_proofs` | all eight of `quantities` | |

### The store and the lease

`ExecutionState_proofs`, for any sets of jobs, decisions and inventories:

* `TypeCorrect`: each operation writes a row of `Rows`.
* `ExecutingIsExclusive`: `AtMostOneExecuting` is inductive together with the
  type invariant: only `MarkSubmissionStarted` leads to `executing`, and its
  guard `UnresolvedRun` excludes another one.
* `StatusStep` (lemma): what a step may do to the status of one run. From it and
  the type invariant follow the action properties: `SubmittedForGood` (no step
  leads from a submitted status back to a submittable one, the reopening of a
  completed run included), `SubmittedPlanFrozen`, `IntentsKept` and
  `CompletedIsChecked`.

`ExecutionLease_proofs`, for any processes, ttls and clock bound:

* `IInv` is the inductive invariant. Exclusion alone is not inductive: a slow
  acquirer compares with the clock it read earlier. `IInv` adds that this clock
  is never ahead of the wall clock and that an unexpired grant *is* the row, so
  an old clock can only refuse more, and nobody else's row can be written over
  a live grant.
* `MutualExclusion` and `NotStolen` follow, the second from `IInv` and a case
  split on the action.

### Plans and their recording

`Planning_proofs` holds what the later modules need of the recursive
definitions, for every list. A sum over a finite set (`SumFunctionOnSet`), the
selection `Entries` and the loop of `RecordResultSet` are recursive functions.
The library's induction rules take an operator as a parameter and cannot be
used; `NatSetInduction` and `FiniteSetInduction` take a *set* instead, of the
numbers (or subsets) that have the property, and follow from the least member
of its complement (`LeastNat`, by `WFMin`). With them, that the recursion has a
value for each argument (`SumsExist`) and only one (`SumsAgree`) is proved first,
then its equations, then what it computes. On these rest

* `SplitConserves`: the two parts of a split submission ask together for what
  the unsplit orders do;
* `RecordingExtends` and `RecordingKnown`: a call of `record_result_set` takes
  nothing back and, when every order is known, changes nothing;
* `RecordingPacks`: first fit finds each order's own intent, under the condition
  `Packing`: the results fit their intents, and an earlier intent of the same
  ticker and side is used up by earlier results. The plans of the decision and
  of the close, sent in the order of their batches, satisfy it.

### The trading day

`OrderExecution_proofs` and `TradingDay_proofs`, for any tickers, plans, jobs,
processes, numbers of faults, lapses and outcomes of the broker's calls. A step
of the day is a step of `Store` or leaves its rows as they are
(`DayRefinesStore`), so what is proved of the store holds of the day
(`OneRunAtATime`, `SubmittedForGood`). The argument then adds one layer of
invariants at a time; each is inductive relative to those before it.

1. `IInv`: while leases last, the process past its acquisition is the lease's
   owner (`LeaseInv`); a process that has started to submit has a submitted run,
   and no other process has started for the same job (`StartedInv`).
   `mark_submission_started` refuses a run that is not prepared, which is why a
   restart cannot start beside the process it replaces. `JobSentByOne` follows.
2. `TypesInv`: what every local variable, every row, every order of the book and
   every attribution is (`DayTyped`). The plan of a process that sends is the
   one its run has saved, and its queue consists of parts of it.
3. `BudgetOK`: what has reached the broker for a job and what its process may
   still send amount together, for every ticker and side, to no more than the
   plan, each order counted as often as the client repeats a request.
   `RepeatsBoundSends` says so for both brokers; `SentOnce` (`NeverSentTwice`)
   is the case of one copy, and kabu is the broker whose copies are three
   (`kabu_resend`).
4. `GatesOK`: a process is past a gate, and a later order is in the book, only
   when the earlier batch is filled: `ClosesBeforeNew` for Tachibana (with kabu
   it is false: `kabu_new_after_closes`), `DelayedAfterFirst` for both.
5. `AccountsOK`: a process on Tachibana knows every order of its run with its
   intent, and the store has the same (through `RecordingPacks`).
6. `SettledOK`: a process that may complete, and a recovery without errors, has
   a run whose whole plan is at the broker, attributed, and at rest; and at most
   one process has anything left to send. `CompletedSettled` and `OneSender`
   follow. The second holds without the lease: the store admits a second
   submission only when the first run is settled, and its process has then
   nothing left.
7. `DayOK`, while no live process loses its lease: at most one run is open, what
   its process and recovery hold as read (positions, expected inventory) is
   still so when they act on it, and the positions have moved by its fills only.
   `DayRefinesTradingDay` is the refinement of `TradingDay` from it. The
   assumption `~Overrun` is needed: without the lease the promise fails, as
   section 3 says.

### What processes publish

`Artifacts_proofs`, of the composition `Artifacts`, with one invariant for each
of its components; the theorems are stated for `ArtifactsSpec`, the one the run
checks.

* Gap bundle, for any writers, readers and bundles: an invariant follows the
  only writer of an undisturbed publication file by file (`Readable`).
  `BundleIsRegister` is the refinement of `BundleRegister`: a reader returns a
  bundle that was committed during its call, because every file it read has the
  hash that the manifest it began with gives.
* Publication, for any captures, publishers, decisions, horizons and rebuilds of
  the frame, from `PublicationAssumption` (there is a horizon, and the values
  for a missing and an unfinished file name no capture): one capture is between
  creation and write and everybody holds the quotes of the file; what a process
  holds at each step; what the only publisher has saved stays. `OneSetOfQuotes`,
  `OneIdentity` and `UndisturbedIsServed` follow.
* Overlay, for any savers, loaders and versions, from `MissingIsFresh` (the value
  that stands for a missing file is no version): each saver has a version of its
  own, a stored version is complete and never changes, `CURRENT` names a stored
  one. `Loadable` and `OverlayIsRegister`, the refinement of the same
  `BundleRegister`, follow.
* Market data, for any updaters, loaders, bounds and clock. `UpdatedIsServed`
  needs two invariants. `OrderlyInv`: after an update that overlapped nothing,
  only its prices are built from, and an older frame has an older time than the
  update has written or is about to write. `CallInv`: a call that found the
  cache so keeps that, whatever overlaps and fails from then on, because times
  only come from a clock that goes on.
* Broker session, for any number of processes, sessions and requests, from
  `SessionAssumption` (no session is `NoSession`): of the processes that have
  not ended at most one holds a session that was never shared, and the next
  number it sends is new to the broker (`HolderInv`); a request that is not
  answered has not been executed (`OutcomeInv`). `OnlySharedRefused` and
  `OutcomesAreTrue` follow.
* Registry, for any studies, candidates and length of the log. `Trials` depends
  on the whole log, corrections included; the lemmas say what one appended line
  does to the current records, to the study of a record and to the trials.
  `Preregistered` follows.

### Timeouts

`Deadlines_proofs`. For the guard, any timeouts, graces and phases: the
inductive invariant says how late each deadline may be and that a TERM that was
sent is handled before time passes. `GroupDead` and `UnderLease` follow, and
`ShorterGraceLeavesNoOrphan`: the orphan that `job_guard_orphan` finds
disappears when the wrapper's grace is shorter than the guard's, which the batch
script does not arrange. For the risk history: who owns the snapshot in each
step of the caller and of the thread that makes it (`OwnerInv`), and that the
cache writer runs only while the caller is at it (`WriterInv`);
`ReplayKeepsInputs`, `LeavesNothing` and `NoLatePublication` follow.
`LeavesNothing` does not say that a call leaves no directory behind: one that
gave up while its inputs were copied, or replayed, leaves them to the thread,
and the theorem says that this thread is alive and removes them when it ends.

### Quantities

`Quantities_proofs`, of the composition `Quantities`; the theorems are stated
for `QuantitiesSpec`, the one the run checks. Each part has an inductive
invariant, and `QuantitiesInv` is their conjunction.

* Planned fills (`FillsInv`), for any tickers, lots, split threshold,
  inventories, targets and overnight shares, from `PlanningAssumption` and
  `FillsAssumption`: for every ticker the position and what the batches still
  ask for add up to where the plan leads (`LeadsToGoal`), all of it asks in one
  direction, for no more than the distance (`OneWay`), and is whole lots.
  `PlansExact` is the case in which nothing is asked for any more. While the
  close batch asks for something, nothing of a new batch has been filled
  (`NeverOvershoots`), so every position is between what was held and what the
  plan retains of it, and after that between that and its target;
  `ReductionsReduce` follows.
  That the split parts are whole lots and add up is `SplitConserves` with the
  arithmetic of the halves; that the close leaves no more than half a lot too
  much or too little is the arithmetic of `HoldTarget`.
* Recording (`RecordingInv`), for any targets, inventories and position lists,
  with any number of lots per ticker and side (`RecordingAssumption` gives types
  only), any loss of responses and any crash. `Progress`: what was sent and what
  is still to be sent of an intent amount to its quantity. `Known`: an order in
  the store is an identified result with its quantity, counted for an intent of
  the plan, so the store counts no more in all than was sent and answered. If it
  counts the whole plan, that leaves nothing unsent or unanswered: the first half
  of `IdentifiedExactly`, with no condition on the lots. `IntentsRetained` needs
  none either. The second half and `PartsAreAttributed` are about plans in turn
  (`InTurn`): there a result is sent only when the earlier intents of its ticker
  and side have been sent in full (`InOrder`), which is the condition `Packing`
  of `RecordingPacks`, so every identified result is stored under its own intent
  (`Stored`), and a call that lists known orders, in whatever order, changes
  nothing (`RecordingKnown`). `PlansAreInTurn` says which plans these are: every
  decision, and every close of one lot per ticker. Section 4 has a close of two
  lots that is not, and for which the second half is false.
* Balancing (`BalancingInv`), for any number of tickers, integer weights, lot
  prices, budgets and limits (`BalancingAssumption`): `remaining` is what the
  lots leave of each budget, and is not negative. `FewSteps` is the measure: if
  the lots are no coarser than the band, each move over the limit either ends
  within it or takes the price of a lot off the net, so the net and the cheapest
  lot times the number of moves stay within the larger budget. With
  `EnoughSteps` (no budget is worth more than `MaxSteps - 1` of the cheapest
  lots) the loop ends before its last iteration; without it `MaxSteps` may cut
  the loop short, so the assumption is part of the property. Termination itself
  is not needed: the property says how a loop that has ended has ended.
* Ledger (`LedgerInv`), for any fills (`LedgerAssumption`): the open lots are of
  one side, their net is the position, and *at any mark* the realized profit and
  the lots' worth are the cash and the position's value. `OldestFirst` says what
  first-in-first-out closes of a list of lots; per lot, the profit it realizes
  and the worth it loses differ by the closing share's own worth
  (`OneLotClosed`), and the sums follow. `LedgerIsEquity` is the invariant at
  the marks of the run.

### Only model-checked

`GuardReturns`, `CallReturns` and `IdentifiedRunsComplete`, which are liveness
properties, out of the prover's reach; nothing else is proved of
`ScheduledRecovery`, whose steps are those of `OrderExecution` but for the later
passes. The four violation runs show a
disagreement and have nothing to prove; `ShorterGraceLeavesNoOrphan` and
`RepeatsBoundSends` say under which condition the statement would hold for two
of them. `SelectSeq` and the operators `:>` and `@@` are opaque to the prover;
the modules that are proved about write `Entries` and functions instead.

## 6. Not modelled

The reasons are with each component in `PROJECT.json`. Most of the repository's
lines are outside the live program (research scripts, experiments, archived
code, one-off tools) or have no protocol to check: numerical models, features,
backtests, risk numbers and risk capital (floating point); downloads, parsing,
formatting, reports and mail; compliance auditors, which only read; the login
of kabu station (screen automation); configuration and command line.

Of the modelled components:

* Jobs and store: risk-report gates and JSON journals of the jobs, schema
  migration, the fill export of the store, recoveries started by hand, several
  lots of a ticker in `OrderExecution`. On later days `ScheduledRecovery` has the
  recovery passes only, not the jobs, which an open run blocks.
* Gap data: the import of a directory into the store, legacy single-matrix
  files, the alerts and audit records of the fallback.
* Caches: the twelve-hour rule of `download_data`, the comparison by file times
  before the first complete update, intraday bars, the point-in-time lake
  (immutable files), the in-memory caches.
* Session: encryption of the virtual URLs, the price caches.
* Risk history: the replayed numbers, cache identities, `account_risk`.
* Registry: statistics, filters, more writers than the one its rules allow.

## 7. Plan

The plan of the project and what of it is done, most important first.

1. *Done*: `ExecutionState`, `ExecutionLease`, `OrderPlanning`, `PlannedFills`,
   `ResultAssignment`, `ResultRecording`, `OrderExecution`, `TradingDay`,
   `JobGuard`.
2. *Done*: `GapFiles`, `GapPublication`, `BundleRegister`, `OverlayArtifact`,
   `MarketCache`: what processes publish for each other.
3. *Done*: `BrokerSession`, `VarHistory`.
4. *Done*: `NetBalancing`, `InventoryLedger`, `ExperimentRegistry`.
5. *Done*: the proofs of section 5: every safety property of the passing runs,
   and the refinements of `Store`, `TradingDay` and `BundleRegister`.
6. *Done*: `ScheduledRecovery`, the schedule of the recovery passes.
7. *Left*: later business days with their own jobs, and closes of several lots of
   a ticker, in `OrderExecution`.
