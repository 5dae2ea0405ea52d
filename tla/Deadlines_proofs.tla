-------------------------- MODULE Deadlines_proofs --------------------------
(***************************************************************************)
(* The proofs about the two timeouts of the production jobs: the job       *)
(* guard's, for every timeout, grace and margin, and the risk history's,   *)
(* whichever of its threads never end.                                     *)
(***************************************************************************)
EXTENDS Deadlines, TLAPS

-----------------------------------------------------------------------------
(***************************************************************************)
(* The job guard.                                                          *)
(***************************************************************************)
Deadline == GuardTimeout + GuardGrace

Booleans == shell \in BOOLEAN /\ worker \in BOOLEAN /\ pending \in BOOLEAN

TypeInv ==
    /\ now \in Nat /\ guardAt \in Nat /\ lease \in Nat
    /\ guard \in {"run", "term", "cleanup", "done", "unwound", "dead"}
    /\ phase \in Nat /\ phaseGrace \in PhaseGraces
    /\ wrapper \in {"none", "run", "term"} /\ wrapperAt \in Nat

\* Until it returns, the guard acts by its deadline, under its lease.
GuardInv ==
    /\ guard \notin {"done", "unwound"} => lease = Deadline + LeaseMargin
    /\ GuardWaits => now <= guardAt
    /\ guard = "run" => guardAt = GuardTimeout /\ ~pending
    /\ guard # "run" => guardAt <= Deadline /\ ~shell
    /\ guard = "done" => ~GroupAlive

\* A signalled wrapper ends its worker within its own grace, counted from the
\* moment the guard's grace began.
WrapperInv ==
    /\ wrapper # "none" => now <= wrapperAt
    /\ pending => wrapper # "none" /\ now + GuardGrace = guardAt
    /\ guard # "run" /\ wrapper # "none" /\ ~pending =>
          wrapper = "term" /\ wrapperAt + GuardGrace <= guardAt + phaseGrace
    /\ phaseGrace < GuardGrace => NoOrphan

IInv == Booleans /\ TypeInv /\ GuardInv /\ WrapperInv

USE DEF Deadline

\* A new job has a shell, a deadline and a lease that covers it.
LEMMA InitIInv == Init => IInv
<1> SUFFICES ASSUME Init PROVE IInv
  OBVIOUS
<1> USE GuardAssumption DEF GuardAssumption, Init
<1>1. Booleans
  BY DEF Booleans
<1>2. TypeInv
  BY DEF TypeInv
<1>3. GuardInv
  BY DEF GuardInv, GuardWaits, GroupAlive
<1>4. WrapperInv
  BY DEF WrapperInv, NoOrphan
<1>5. QED
  BY <1>1, <1>2, <1>3, <1>4 DEF IInv

\* The flags stay flags.
LEMMA NextBooleans == IInv /\ [Next]_vars => Booleans'
<1> SUFFICES ASSUME IInv, [Next]_vars PROVE Booleans'
  OBVIOUS
<1> USE GuardAssumption DEF GuardAssumption, IInv, Booleans, guardVars, groupVars
<1>1. CASE GuardTimesOut
  BY <1>1 DEF GuardTimesOut, StartTerminating, TermGroup
<1>2. CASE GuardInterrupted
  BY <1>2 DEF GuardInterrupted, StartTerminating, TermGroup
<1>3. CASE LeaderExited
  BY <1>3 DEF LeaderExited, StartTerminating, TermGroup
<1>4. CASE GroupGone
  BY <1>4 DEF GroupGone, Return
<1>5. CASE KillGroup
  BY <1>5 DEF KillGroup, Return
<1>6. CASE SignalWhileTerminating
  BY <1>6 DEF SignalWhileTerminating, Return
<1>7. CASE SignalWhileCleaningUp
  BY <1>7 DEF SignalWhileCleaningUp
<1>8. CASE StartPhase
  BY <1>8 DEF StartPhase
<1>9. CASE ShellExits
  BY <1>9 DEF ShellExits
<1>10. CASE WorkerEnds
  BY <1>10 DEF WorkerEnds
<1>11. CASE WrapperReturns
  BY <1>11 DEF WrapperReturns
<1>12. CASE PhaseTimesOut
  BY <1>12 DEF PhaseTimesOut, TermWorker
<1>13. CASE PhaseInterrupted
  BY <1>13 DEF PhaseInterrupted, TermWorker
<1>14. CASE KillWorker
  BY <1>14 DEF KillWorker
<1>15. CASE Tick
  BY <1>15 DEF Tick
<1>16. CASE UNCHANGED vars
  BY <1>16 DEF vars
<1>17. QED
  BY <1>1, <1>2, <1>3, <1>4, <1>5, <1>6, <1>7, <1>8, <1>9, <1>10, <1>11, <1>12, <1>13, <1>14, <1>15, <1>16 DEF Next

\* Clocks and deadlines stay numbers, and the states those of the code.
LEMMA NextTypeInv == IInv /\ [Next]_vars => TypeInv'
<1> SUFFICES ASSUME IInv, [Next]_vars PROVE TypeInv'
  OBVIOUS
<1> USE GuardAssumption DEF GuardAssumption, IInv, TypeInv, guardVars, groupVars
<1>1. CASE GuardTimesOut
  BY <1>1 DEF GuardTimesOut, StartTerminating, TermGroup
<1>2. CASE GuardInterrupted
  BY <1>2 DEF GuardInterrupted, StartTerminating, TermGroup
<1>3. CASE LeaderExited
  BY <1>3 DEF LeaderExited, StartTerminating, TermGroup
<1>4. CASE GroupGone
  BY <1>4 DEF GroupGone, Return
<1>5. CASE KillGroup
  BY <1>5 DEF KillGroup, Return
<1>6. CASE SignalWhileTerminating
  BY <1>6 DEF SignalWhileTerminating, Return
<1>7. CASE SignalWhileCleaningUp
  BY <1>7 DEF SignalWhileCleaningUp
<1>8. CASE StartPhase
  BY <1>8 DEF StartPhase
<1>9. CASE ShellExits
  BY <1>9 DEF ShellExits
<1>10. CASE WorkerEnds
  BY <1>10 DEF WorkerEnds
<1>11. CASE WrapperReturns
  BY <1>11 DEF WrapperReturns
<1>12. CASE PhaseTimesOut
  BY <1>12 DEF PhaseTimesOut, TermWorker
<1>13. CASE PhaseInterrupted
  BY <1>13 DEF PhaseInterrupted, TermWorker
<1>14. CASE KillWorker
  BY <1>14 DEF KillWorker
<1>15. CASE Tick
  BY <1>15 DEF Tick
<1>16. CASE UNCHANGED vars
  BY <1>16 DEF vars
<1>17. QED
  BY <1>1, <1>2, <1>3, <1>4, <1>5, <1>6, <1>7, <1>8, <1>9, <1>10, <1>11, <1>12, <1>13, <1>14, <1>15, <1>16 DEF Next

\* The guard acts in time and leaves nothing of its group behind.
LEMMA NextGuardInv == IInv /\ [Next]_vars => GuardInv'
<1> SUFFICES ASSUME IInv, [Next]_vars PROVE GuardInv'
  OBVIOUS
<1> USE GuardAssumption
    DEF GuardAssumption, IInv, Booleans, TypeInv, GuardInv, WrapperInv, GuardWaits,
        GroupAlive, guardVars, groupVars
<1>1. CASE GuardTimesOut
  BY <1>1 DEF GuardTimesOut, StartTerminating, TermGroup
<1>2. CASE GuardInterrupted
  BY <1>2 DEF GuardInterrupted, StartTerminating, TermGroup
<1>3. CASE LeaderExited
  BY <1>3 DEF LeaderExited, StartTerminating, TermGroup
<1>4. CASE GroupGone
  BY <1>4 DEF GroupGone, Return
<1>5. CASE KillGroup
  BY <1>5 DEF KillGroup, Return
<1>6. CASE SignalWhileTerminating
  BY <1>6 DEF SignalWhileTerminating, Return
<1>7. CASE SignalWhileCleaningUp
  BY <1>7 DEF SignalWhileCleaningUp
<1>8. CASE StartPhase
  BY <1>8 DEF StartPhase
<1>9. CASE ShellExits
  BY <1>9 DEF ShellExits
<1>10. CASE WorkerEnds
  BY <1>10 DEF WorkerEnds
<1>11. CASE WrapperReturns
  BY <1>11 DEF WrapperReturns
<1>12. CASE PhaseTimesOut
  BY <1>12 DEF PhaseTimesOut, TermWorker
<1>13. CASE PhaseInterrupted
  BY <1>13 DEF PhaseInterrupted, TermWorker
<1>14. CASE KillWorker
  BY <1>14 DEF KillWorker
<1>15. CASE Tick
  BY <1>15 DEF Tick
<1>16. CASE UNCHANGED vars
  BY <1>16 DEF vars
<1>17. QED
  BY <1>1, <1>2, <1>3, <1>4, <1>5, <1>6, <1>7, <1>8, <1>9, <1>10, <1>11, <1>12, <1>13, <1>14, <1>15, <1>16 DEF Next

\* The wrapper acts in time after a TERM.
LEMMA NextWrapperInv == IInv /\ [Next]_vars => WrapperInv'
<1> SUFFICES ASSUME IInv, [Next]_vars PROVE WrapperInv'
  OBVIOUS
<1> USE GuardAssumption
    DEF GuardAssumption, IInv, Booleans, TypeInv, GuardInv, WrapperInv, GuardWaits,
        GroupAlive, NoOrphan, guardVars, groupVars
<1>1. CASE GuardTimesOut
  BY <1>1 DEF GuardTimesOut, StartTerminating, TermGroup
<1>2. CASE GuardInterrupted
  BY <1>2 DEF GuardInterrupted, StartTerminating, TermGroup
<1>3. CASE LeaderExited
  BY <1>3 DEF LeaderExited, StartTerminating, TermGroup
<1>4. CASE GroupGone
  BY <1>4 DEF GroupGone, Return
<1>5. CASE KillGroup
  BY <1>5 DEF KillGroup, Return
<1>6. CASE SignalWhileTerminating
  BY <1>6 DEF SignalWhileTerminating, Return
<1>7. CASE SignalWhileCleaningUp
  BY <1>7 DEF SignalWhileCleaningUp
<1>8. CASE StartPhase
  BY <1>8 DEF StartPhase
<1>9. CASE ShellExits
  BY <1>9 DEF ShellExits
<1>10. CASE WorkerEnds
  BY <1>10 DEF WorkerEnds
<1>11. CASE WrapperReturns
  BY <1>11 DEF WrapperReturns
<1>12. CASE PhaseTimesOut
  BY <1>12 DEF PhaseTimesOut, TermWorker
<1>13. CASE PhaseInterrupted
  BY <1>13 DEF PhaseInterrupted, TermWorker
<1>14. CASE KillWorker
  BY <1>14 DEF KillWorker
<1>15. CASE Tick
  BY <1>15 DEF Tick
<1>16. CASE UNCHANGED vars
  BY <1>16 DEF vars
<1>17. QED
  BY <1>1, <1>2, <1>3, <1>4, <1>5, <1>6, <1>7, <1>8, <1>9, <1>10, <1>11, <1>12, <1>13, <1>14, <1>15, <1>16 DEF Next

\* The guard's deadlines, its lease and the wrapper's deadline stay in order.
THEOREM GuardInvariant == Spec => []IInv
<1>1. IInv /\ [Next]_vars => IInv'
  BY NextBooleans, NextTypeInv, NextGuardInv, NextWrapperInv DEF IInv
<1>2. QED
  BY InitIInv, <1>1, PTL DEF Spec

\* When run_guarded_command returns, nothing of the child's process group is
\* left, however timeouts, exits and signals coincide.
THEOREM GroupDead == Spec => []GroupDeadOnReturn
<1>1. IInv => GroupDeadOnReturn
  BY DEF IInv, GuardInv, GroupDeadOnReturn
<1>2. QED
  BY <1>1, GuardInvariant, PTL

\* The lease's ttl covers the guard's timeout and grace, and, if the wrapper's
\* grace is the shorter one, every moment of a worker's life.
THEOREM UnderLease == Spec => []WorkUnderLease
<1>1. IInv => WorkUnderLease
  <2> SUFFICES ASSUME IInv PROVE WorkUnderLease
    OBVIOUS
  <2> USE GuardAssumption
      DEF GuardAssumption, IInv, TypeInv, GuardInv, WrapperInv, GuardWaits, GroupAlive,
          NoOrphan
  <2>1. GuardWaits => now < lease
    OBVIOUS
  <2>2. ASSUME worker, phaseGrace < GuardGrace, guard # "unwound" PROVE now < lease
    <3>1. phaseGrace \in Nat
      OBVIOUS
    <3>2. wrapper # "none" /\ guard # "done"
      BY <2>2
    <3>3. CASE GuardWaits
      BY <3>3
    <3>4. CASE guard = "dead"
      BY <3>1, <3>2, <3>4, <2>2
    <3>5. QED
      BY <3>2, <3>3, <3>4, <2>2
  <2>3. QED
    BY <2>1, <2>2 DEF WorkUnderLease
<1>2. QED
  BY <1>1, GuardInvariant, PTL

\* The promise of phase_deadline.py, that no worker outlives its wrapper, holds
\* for every configuration whose wrapper has the shorter grace; the batch
\* scripts give both the same.
THEOREM ShorterGraceLeavesNoOrphan == Spec => [](phaseGrace < GuardGrace => NoOrphan)
<1>1. IInv => (phaseGrace < GuardGrace => NoOrphan)
  BY DEF IInv, WrapperInv
<1>2. QED
  BY <1>1, GuardInvariant, PTL

-----------------------------------------------------------------------------
(***************************************************************************)
(* The risk history's call, whichever of its threads never end.            *)
(***************************************************************************)
BeforeReplay ==
    at \in {"prepare", "snapshot", "plan", "lookup", "import"} \/ (at = "replay" /\ ~waiting)

CallTypes ==
    /\ at \in History!Timed \cup {"write", "terminate", "check", "final", "done"}
    /\ waiting \in BOOLEAN /\ late \in BOOLEAN
    /\ waiting => at \in History!Timed
    /\ threads \subseteq History!Timed

\* The snapshot step's thread has ended with a snapshot the caller will take.
Handover == at = "snapshot" /\ waiting /\ box = "value" /\ "snapshot" \notin threads

\* The thread that makes the snapshot removes it while it runs, the caller from
\* then until the replay runs, and the replay after that.
OwnerInv ==
    /\ owner \in {"none", "thread", "caller", "worker"}
    /\ owner = "none" => snapshot # "present"
    /\ "snapshot" \in threads =>
          /\ (at = "snapshot" /\ waiting) \/ at = "done"
          /\ "replay" \notin threads
    /\ at = "prepare" \/ (at = "snapshot" /\ ~waiting) => snapshot = "none" /\ owner = "none"
    /\ owner = "thread" => snapshot = "present" /\ ("snapshot" \in threads \/ Handover)
    /\ Handover => snapshot # "removed"
    /\ BeforeReplay => "replay" \notin threads
    /\ BeforeReplay /\ at # "snapshot" => snapshot # "removed"
    /\ owner = "caller" => BeforeReplay /\ at # "snapshot" /\ snapshot = "present"
    /\ owner = "worker" => "replay" \in threads
    /\ "replay" \in threads => snapshot # "removed"

\* The cache writer runs only while the caller is at it, and what it has
\* written stays.
WriterInv ==
    /\ at \in History!Timed => child = "none"
    /\ child = "running" => at \in {"write", "terminate"}
    /\ child = "exited" => cached = "fresh"
    /\ at \in {"check", "final"} => child = "exited"
    /\ result = "returns" => cached = "fresh"

HistoryInv == CallTypes /\ OwnerInv /\ WriterInv

HistoryStep == [History!Next]_historyVars

\* A call begins without threads, snapshot and writer; one at rest has none.
LEMMA InitHistory == History!Init \/ HistoryAtRest => HistoryInv
BY DEF History!Init, HistoryAtRest, HistoryInv, CallTypes, OwnerInv, Handover, WriterInv,
       BeforeReplay, History!Timed

\* How a call ends: the caller's snapshot is removed, one it has handed over is
\* not touched.
Ends(value) ==
    /\ at' = "done" /\ result' = value
    /\ History!Cleanup
    /\ UNCHANGED <<threads, child, cached>>

LEMMA EndsKeeps ==
    ASSUME HistoryInv, NEW value, Ends(value), child # "running", ~Handover,
           value = "returns" => cached = "fresh", waiting' = FALSE, late' = late
    PROVE  HistoryInv'
<1> USE DEF HistoryInv, CallTypes, OwnerInv, Handover, WriterInv, BeforeReplay, Ends,
            History!Cleanup, History!Timed
<1>1. CallTypes'
  OBVIOUS
<1>2. OwnerInv'
  OBVIOUS
<1>3. WriterInv'
  OBVIOUS
<1>4. QED
  BY <1>1, <1>2, <1>3

\* How it ends after the replay: the writer is not running.
WritingEnds(value) ==
    /\ at \in {"write", "terminate", "check", "final"}
    /\ at' = "done" /\ waiting' = FALSE /\ result' = value
    /\ child' \in {child, "dead"} /\ child' # "running"
    /\ value = "returns" => cached = "fresh"
    /\ UNCHANGED <<late, threads, snapshot, owner, cached>>

LEMMA WritingEndsKeeps ==
    ASSUME HistoryInv, NEW value, WritingEnds(value)
    PROVE  HistoryInv'
BY DEF WritingEnds, HistoryInv, CallTypes, OwnerInv, Handover, WriterInv, BeforeReplay,
       History!Timed

\* The steps of the call keep the invariant.
LEMMA NextHistoryInv == HistoryInv /\ HistoryStep => HistoryInv'
<1> SUFFICES ASSUME HistoryInv, HistoryStep PROVE HistoryInv'
  OBVIOUS
<1>1. ASSUME at \in History!Timed, ~Handover, History!TimesOut, late' = late
      PROVE  HistoryInv'
  <2>1. child # "running"
    BY <1>1 DEF HistoryInv, WriterInv
  <2>2. Ends("empty") /\ waiting' = FALSE
    BY <1>1 DEF History!TimesOut, History!Return, Ends
  <2>3. QED
    BY <1>1, <2>1, <2>2, EndsKeeps
<1>2. ASSUME at \in History!Timed, ~Handover, History!Fails, late' = late
      PROVE  HistoryInv'
  <2>1. child # "running"
    BY <1>2 DEF HistoryInv, WriterInv
  <2>2. PICK value \in {"raised", "empty"} : History!Return(value)
    BY <1>2 DEF History!Fails
  <2>3. Ends(value) /\ waiting' = FALSE
    BY <1>2, <2>2 DEF History!Fails, History!Return, Ends
  <2>4. QED
    BY <1>2, <2>1, <2>2, <2>3, EndsKeeps
<1>3. CASE History!DeadlinePasses
  BY <1>3 DEF History!DeadlinePasses, History!callerVars, HistoryInv, CallTypes, OwnerInv, Handover,
              WriterInv, BeforeReplay
<1>4. CASE History!StartThread
  <2>1. CASE late /\ History!TimesOut
    BY <1>4, <2>1, <1>1 DEF History!StartThread, Handover
  <2>2. CASE /\ ~late
             /\ waiting' = TRUE
             /\ threads' = threads \cup {at}
             /\ History!Transfer
             /\ UNCHANGED <<at, box, snapshot, child, cached, result>>
    <3> USE <1>4, <2>2 DEF History!StartThread, History!Transfer, HistoryInv, CallTypes,
                           OwnerInv, Handover, WriterInv, BeforeReplay, History!Timed
    <3>1. CallTypes' /\ WriterInv'
      OBVIOUS
    <3>2. CASE at = "replay"
      BY <3>1, <3>2
    <3>3. CASE at # "replay"
      BY <3>1, <3>3
    <3>4. QED
      BY <3>2, <3>3
  <2>3. QED
    BY <1>4, <2>1, <2>2 DEF History!StartThread
<1>5. CASE History!Abandon
  BY <1>5, <1>1 DEF History!Abandon, HistoryInv, CallTypes, Handover
<1>6. CASE History!ThreadFailed
  BY <1>6, <1>1, <1>2
     DEF History!ThreadFailed, History!Joined, HistoryInv, CallTypes, Handover
<1>7. CASE History!StepDone
  <2> USE DEF HistoryInv, CallTypes, OwnerInv, Handover, WriterInv, BeforeReplay, History!Timed
  <2>1. /\ waiting /\ at \in History!Timed /\ at \notin threads
        /\ at' = History!AfterStep[at] /\ waiting' = FALSE
        /\ UNCHANGED <<result, late, threads, child, cached>>
    BY <1>7 DEF History!StepDone, History!Joined, History!Proceed
  <2>2. CASE at = "snapshot"
    <3>1. at' = "plan" /\ "replay" \notin threads
      BY <2>1, <2>2 DEF History!AfterStep
    <3>2. /\ snapshot' = snapshot
          /\ owner' = IF owner = "thread" THEN "caller" ELSE owner
      BY <1>7, <2>2 DEF History!StepDone, History!TakeSnapshot
    <3>5. Handover
      BY <1>7, <2>1, <2>2 DEF History!StepDone, Handover
    <3>3. CallTypes' /\ WriterInv'
      BY <2>1, <2>2, <3>1
    <3>4. OwnerInv'
      BY <2>1, <2>2, <3>1, <3>2, <3>5
    <3>6. QED
      BY <3>3, <3>4
  <2>3. CASE at \in {"prepare", "plan", "lookup", "import"}
    <3>1. UNCHANGED <<snapshot, owner>>
      BY <1>7, <2>3 DEF History!StepDone, History!TakeSnapshot
    <3>2. /\ at = "prepare" => at' = "snapshot"
          /\ at # "prepare" => at' \in {"lookup", "import", "replay"}
      BY <2>1, <2>3 DEF History!AfterStep
    <3>3. QED
      BY <2>1, <2>3, <3>1, <3>2
  <2>4. CASE at = "replay"
    <3>1. UNCHANGED <<snapshot, owner>> /\ at' = "write"
      BY <1>7, <2>1, <2>4 DEF History!StepDone, History!AfterStep, History!TakeSnapshot
    <3>2. QED
      BY <2>1, <2>4, <3>1
  <2>5. QED
    BY <2>1, <2>2, <2>3, <2>4
<1>8. CASE History!CacheHit
  <2>1. PICK value \in {"empty", "returns"} : History!Return(value)
    BY <1>8 DEF History!CacheHit
  <2>2. Ends(value) /\ waiting' = FALSE /\ late' = late /\ cached = "fresh"
    BY <1>8, <2>1 DEF History!CacheHit, History!Return, Ends
  <2>3. child # "running"
    BY <1>8 DEF History!CacheHit, HistoryInv, WriterInv, History!Timed
  <2>4. ~Handover
    BY <1>8 DEF History!CacheHit, Handover
  <2>5. QED
    BY <2>2, <2>3, <2>4, EndsKeeps
<1>9. ASSUME NEW step \in {"terminate", "check", "final"}, History!To(step),
              at \in {"write", "check"}, History!Rest, UNCHANGED <<child, cached>>,
              step = "terminate" => at = "write",
              step # "terminate" => child = "exited"
       PROVE  HistoryInv'
  BY <1>9 DEF History!To, History!Rest, HistoryInv, CallTypes, OwnerInv, Handover, WriterInv,
               BeforeReplay, History!Timed
<1>10. CASE History!StartChild
  <2>1. CASE late /\ History!Return("empty") /\ UNCHANGED child
    <3>1. WritingEnds("empty")
      BY <1>10, <2>1 DEF WritingEnds, History!StartChild, History!Return, History!Rest
    <3>2. QED
      BY <3>1, WritingEndsKeeps
  <2>2. CASE ~late /\ child' = "running" /\ UNCHANGED History!callerVars
    BY <1>10, <2>2
       DEF History!StartChild, History!callerVars, History!Rest, HistoryInv, CallTypes,
           OwnerInv, Handover, WriterInv, BeforeReplay, History!Timed
  <2>3. QED
    BY <1>10, <2>1, <2>2 DEF History!StartChild
<1>11. CASE History!Child
  <2> USE DEF History!callerVars, History!Rest, HistoryInv, CallTypes, OwnerInv, Handover,
              WriterInv, BeforeReplay
  <2>1. child = "running" /\ at \in {"write", "terminate"}
        /\ UNCHANGED <<at, waiting, box, result, late, threads, snapshot, owner>>
    BY <1>11 DEF History!Child, History!ChildCommits, History!ChildExits
  <2>2. CASE History!ChildCommits
    BY <2>1, <2>2 DEF History!ChildCommits, History!Timed
  <2>3. CASE History!ChildExits
    <3>1. child' # "running" /\ cached' = cached /\ (child' = "exited" => cached = "fresh")
      BY <2>3 DEF History!ChildExits
    <3>2. QED
      BY <2>1, <3>1 DEF History!Timed
  <2>4. QED
    BY <1>11, <2>2, <2>3 DEF History!Child
<1>12. CASE History!ChildSeen
  <2>1. CASE child = "exited" /\ History!To("check")
    BY <1>12, <2>1, <1>9 DEF History!ChildSeen
  <2>2. CASE child = "dead" /\ History!Return("raised")
    <3>1. WritingEnds("raised")
      BY <1>12, <2>2 DEF WritingEnds, History!ChildSeen, History!Return, History!Rest
    <3>2. QED
      BY <3>1, WritingEndsKeeps
  <2>3. QED
    BY <1>12, <2>1, <2>2 DEF History!ChildSeen
<1>13. CASE History!Terminate
  BY <1>13, <1>9 DEF History!Terminate
<1>14. CASE History!Kill
  <2>1. WritingEnds("empty")
    BY <1>14 DEF WritingEnds, History!Kill, History!Return, History!Rest
  <2>2. QED
    BY <2>1, WritingEndsKeeps
<1>15. CASE History!Check
  <2>1. child = "exited" /\ cached = "fresh"
    BY <1>15 DEF History!Check, HistoryInv, WriterInv
  <2>2. CASE History!To("final")
    <3>1. at \in {"check"} /\ History!Rest /\ UNCHANGED <<child, cached>>
      BY <1>15, <2>2 DEF History!Check, History!To, History!Return
    <3>2. QED
      BY <2>1, <2>2, <3>1, <1>9
  <2>3. ASSUME NEW value \in {"empty", "raised", "returns"}, History!Return(value)
        PROVE  HistoryInv'
    <3>1. WritingEnds(value)
      BY <1>15, <2>1, <2>3 DEF WritingEnds, History!Check, History!Return, History!Rest
    <3>2. QED
      BY <3>1, WritingEndsKeeps
  <2>4. QED
    BY <1>15, <2>2, <2>3 DEF History!Check
<1>16. ASSUME NEW step \in History!Timed, History!ThreadEnds(step) PROVE HistoryInv'
  <2> USE DEF HistoryInv, CallTypes, OwnerInv, Handover, WriterInv, BeforeReplay
  <2>1. threads' = threads \ {step} /\ UNCHANGED <<at, waiting, late, child, cached, result>>
    BY <1>16 DEF History!ThreadEnds
  <2>2. step \in threads /\ (~(waiting /\ at = step) => box' = box)
    BY <1>16 DEF History!ThreadEnds
  <2>3. CASE step = "replay"
    BY <1>16, <2>1, <2>2, <2>3 DEF History!ThreadEnds, History!Timed
  <2>4. CASE step = "snapshot"
    <3>1. CASE waiting /\ at = step /\ box' = "value"
      BY <1>16, <2>1, <2>2, <2>4, <3>1 DEF History!ThreadEnds, History!Timed
    <3>2. CASE ~(waiting /\ at = step /\ box' = "value")
      BY <1>16, <2>1, <2>2, <2>4, <3>2 DEF History!ThreadEnds, History!Timed
    <3>3. QED
      BY <3>1, <3>2
  <2>5. CASE step \notin {"replay", "snapshot"}
    BY <1>16, <2>1, <2>2, <2>5 DEF History!ThreadEnds, History!Timed
  <2>6. QED
    BY <2>3, <2>4, <2>5
<1>17. CASE History!MakeSnapshot
  BY <1>17 DEF History!MakeSnapshot, History!callerVars, HistoryInv, CallTypes, OwnerInv,
               Handover, WriterInv, BeforeReplay, History!Timed
<1>18. CASE UNCHANGED historyVars
  BY <1>18 DEF historyVars, HistoryInv, CallTypes, OwnerInv, Handover, WriterInv, BeforeReplay
<1>19. QED
  BY <1>3, <1>4, <1>5, <1>6, <1>7, <1>8, <1>10, <1>11, <1>12, <1>13, <1>14, <1>15, <1>16, <1>17,
     <1>18
     DEF HistoryStep, History!Next, History!Caller

\* The two timeouts share no state: a step of one leaves the other alone.
THEOREM HistoryInvariant == DeadlinesSpec => []HistoryInv
<1>1. DeadlinesInit => HistoryInv
  BY InitHistory DEF DeadlinesInit
<1>2. [DeadlinesNext]_<<vars, historyVars>> => HistoryStep
  BY DEF DeadlinesNext, HistoryStep
<1>3. QED
  BY <1>1, <1>2, NextHistoryInv, PTL DEF DeadlinesSpec

\* The replay's temporary inputs are removed only after its thread has ended,
\* whether the caller still waits for it or has given it up at the deadline.
THEOREM ReplayKeepsInputs == DeadlinesSpec => []SnapshotOutlivesReplay
<1>1. HistoryInv => SnapshotOutlivesReplay
  BY DEF HistoryInv, OwnerInv, SnapshotOutlivesReplay, History!SnapshotOutlivesReplay
<1>2. QED
  BY <1>1, HistoryInvariant, PTL

\* However the call ends, every snapshot it leaves is owned by a thread that still
\* runs and removes it at its end, the replay's or the one that copies it; no
\* cache writer runs on, and returns given to the risk check are in the cache.
THEOREM LeavesNothing == DeadlinesSpec => []NothingLeftBehind
<1>1. HistoryInv => NothingLeftBehind
  BY DEF HistoryInv, CallTypes, OwnerInv, Handover, WriterInv, BeforeReplay, History!Timed,
         NothingLeftBehind, History!NothingLeftBehind
<1>2. QED
  BY <1>1, HistoryInvariant, PTL

\* Once the risk check has its answer, no thread or process that the call left
\* behind changes the cache.
THEOREM NoLatePublication == DeadlinesSpec => NothingPublishedLate
<1>1. HistoryInv /\ HistoryStep /\ at = "done" => cached' = cached
  <2> SUFFICES ASSUME HistoryInv, HistoryStep, at = "done" PROVE cached' = cached
    OBVIOUS
  <2>1. child # "running"
    BY DEF HistoryInv, WriterInv
  <2>2. CASE History!Caller
    BY <2>2 DEF History!Caller, History!StartThread, History!TimesOut, History!Abandon,
                History!ThreadFailed, History!Fails, History!StepDone, History!CacheHit,
                History!StartChild, History!ChildSeen, History!Terminate, History!Kill,
                History!Check
  <2>3. CASE History!Child
    BY <2>1, <2>3 DEF History!Child, History!ChildCommits, History!ChildExits
  <2>4. CASE History!DeadlinePasses \/ UNCHANGED historyVars
    BY <2>4 DEF History!DeadlinePasses, historyVars
  <2>5. ASSUME NEW step \in History!Timed, History!ThreadEnds(step) PROVE cached' = cached
    BY <2>5 DEF History!ThreadEnds
  <2>6. CASE History!MakeSnapshot
    BY <2>6 DEF History!MakeSnapshot
  <2>7. QED
    BY <2>2, <2>3, <2>4, <2>5, <2>6 DEF HistoryStep, History!Next
<1>2. [DeadlinesNext]_<<vars, historyVars>> => HistoryStep
  BY DEF DeadlinesNext, HistoryStep
<1>3. HistoryInv /\ [DeadlinesNext]_<<vars, historyVars>>
        => [at = "done" => cached' = cached]_historyVars
  BY <1>1, <1>2
<1>4. [][at = "done" => cached' = cached]_historyVars => NothingPublishedLate
  BY PTL DEF NothingPublishedLate, History!NothingPublishedLate, historyVars, History!vars
<1>5. QED
  BY <1>3, <1>4, HistoryInvariant, PTL DEF DeadlinesSpec
=============================================================================
