------------------------------ MODULE VarHistory ------------------------------
(***************************************************************************)
(* One call of get_hist_returns_for_risk, with a single deadline for all   *)
(* its steps.  Each timed step runs in a daemon thread (run_with_timeout)  *)
(* the caller stops waiting for at the deadline and cannot cancel; one of  *)
(* them copies the gap inputs into a temporary snapshot, the replay reads  *)
(* it, and somebody has to remove it; the result is written to the return  *)
(* cache by a child process that can be killed.                            *)
(*                                                                         *)
(* The loads of _prepare_var_history_source before its snapshot are one    *)
(* step here, "prepare", and so are the calls of                           *)
(* _build_var_history_replay_plan, "plan": a step of either ends alike.    *)
(***************************************************************************)
EXTENDS Naturals, FiniteSets

VARIABLES
    at,        \* the caller's step
    waiting,   \* the step's thread has been started
    box,       \* how that thread ended: "open", "value", "error", "timeout"
    late,      \* the deadline has passed
    threads,   \* steps whose thread is alive, waited for or abandoned
    snapshot,  \* the temporary inputs: "none", "present" or "removed"
    owner,     \* who removes them: "none", "thread" (of the snapshot step),
               \* "caller" or "worker" (the replay's thread)
    child,     \* the cache writer: "none", "running", "exited" or "dead"
    cached,    \* the cache entry: "none", "unusable" or "fresh"
    result     \* "open", "returns", "empty" or "raised"

vars == <<at, waiting, box, late, threads, snapshot, owner, child, cached, result>>

callerVars == <<at, waiting, box, result>>

Timed == {"prepare", "snapshot", "plan", "lookup", "import", "replay"}
AfterStep == [prepare |-> "snapshot", snapshot |-> "plan", plan |-> "lookup",
              lookup |-> "import", import |-> "replay", replay |-> "write"]

Init ==
    /\ at = "prepare" /\ waiting = FALSE /\ box = "open"
    /\ late = FALSE
    /\ threads = {}
    /\ snapshot = "none" /\ owner = "none"
    /\ child = "none"
    /\ cached \in {"none", "unusable", "fresh"}
    /\ result = "open"

DeadlinePasses ==
    /\ ~late
    /\ late' = TRUE
    /\ UNCHANGED <<callerVars, threads, snapshot, owner, child, cached>>

-----------------------------------------------------------------------------
(* How the call ends.                                                      *)

Return(value) ==
    /\ at' = "done" /\ waiting' = FALSE /\ box' = "open"
    /\ result' = value

\* Mutant: a handler that forgets the snapshot.
NoCleanup == UNCHANGED <<snapshot, owner>>

\* cleanup_snapshot removes the snapshot while the caller still owns it.
Cleanup ==
    /\ snapshot' = IF owner = "caller" THEN "removed" ELSE snapshot
    /\ owner' = IF owner = "caller" THEN "none" ELSE owner

\* A TimeoutError of a timed step; it blocks the risk check.
TimesOut ==
    /\ Return("empty")
    /\ Cleanup
    /\ UNCHANGED <<threads, child, cached>>

\* Another exception is the caller's caller's, except that stale inputs and an
\* unstable snapshot are answered with an empty series.
Fails ==
    /\ \/ Return("raised")
       \/ at \in {"prepare", "snapshot"} /\ Return("empty")
    /\ Cleanup
    /\ UNCHANGED <<threads, child, cached>>

-----------------------------------------------------------------------------
(* run_with_timeout and _timed_call.                                       *)

\* Mutant: the caller keeps the snapshot it has given the worker.
KeepOwnership == UNCHANGED owner

\* The snapshot is handed over to the worker before the replay starts.
Transfer ==
    IF at = "replay" /\ owner = "caller" THEN owner' = "worker"
                                         ELSE UNCHANGED owner

StartThread ==
    /\ at \in Timed /\ ~waiting
    /\ \/ late /\ TimesOut
       \/ /\ ~late
          /\ waiting' = TRUE
          /\ threads' = threads \cup {at}
          /\ Transfer
          /\ UNCHANGED <<at, box, snapshot, child, cached, result>>
    /\ UNCHANGED late

\* The snapshot step makes the directory in its thread and copies into it; it
\* starts afresh, three times at most, when a writer was met.
MakeSnapshot ==
    /\ "snapshot" \in threads
    /\ \/ owner = "none" /\ snapshot' = "present" /\ owner' = "thread"
       \/ owner = "thread" /\ snapshot' = "removed" /\ owner' = "none"
    /\ UNCHANGED <<callerVars, late, threads, child, cached>>

\* A thread ends with a value or an exception; nobody reads the box of one
\* that has been abandoned.  The replay's removes the snapshot it owns, and the
\* snapshot step's removes its own unless the caller gets it: its handlers do,
\* or the last reference to the directory goes with the thread.
ThreadEnds(step) ==
    LET awaited == waiting /\ at = step
        keeps   == step = "snapshot" /\ awaited /\ box' = "value"
        owns    == \/ step = "replay" /\ owner = "worker"
                   \/ step = "snapshot" /\ owner = "thread"
    IN  /\ step \in threads
        /\ threads' = threads \ {step}
        /\ box' \in IF awaited THEN {"value", "error", "timeout"} ELSE {box}
        /\ keeps => snapshot # "removed"
        /\ IF owns /\ ~keeps
           THEN snapshot' = "removed" /\ owner' = "none"
           ELSE UNCHANGED <<snapshot, owner>>
        /\ UNCHANGED <<at, waiting, late, child, cached, result>>

Abandon ==
    /\ waiting /\ at \in threads
    /\ late
    /\ TimesOut
    /\ UNCHANGED late

Joined == waiting /\ at \notin threads

ThreadFailed ==
    /\ Joined
    /\ \/ box = "timeout" /\ TimesOut
       \/ box = "error" /\ Fails
    /\ UNCHANGED late

\* The step's value, when the thread ended in time or was seen to have ended.
Proceed ==
    /\ at' = AfterStep[at] /\ waiting' = FALSE /\ box' = "open"
    /\ UNCHANGED result

\* The caller owns the snapshot it is given; without a gap input there is none.
TakeSnapshot ==
    owner' = IF at = "snapshot" /\ owner = "thread" THEN "caller" ELSE owner

StepDone ==
    /\ Joined /\ box = "value"
    /\ at = "lookup" => cached # "fresh"
    /\ Proceed
    /\ TakeSnapshot
    /\ UNCHANGED <<late, threads, snapshot, child, cached>>

\* Fresh cached returns, unless the deadline has passed meanwhile.
CacheHit ==
    /\ Joined /\ box = "value" /\ at = "lookup" /\ cached = "fresh"
    /\ Return(IF late THEN "empty" ELSE "returns")
    /\ Cleanup
    /\ UNCHANGED <<late, threads, child, cached>>

-----------------------------------------------------------------------------
(* _set_cache_with_deadline and the last two looks at the deadline.        *)

Rest == UNCHANGED <<late, threads, snapshot, owner>>

To(step) == at' = step /\ UNCHANGED <<waiting, box, result>>

StartChild ==
    /\ at = "write" /\ child = "none"
    /\ \/ late /\ Return("empty") /\ UNCHANGED child
       \/ ~late /\ child' = "running" /\ UNCHANGED callerVars
    /\ Rest /\ UNCHANGED cached

\* One transaction of SqliteCacheStore.set; a child that is being terminated
\* may still commit.
ChildCommits ==
    /\ child = "running"
    /\ cached' = "fresh"
    /\ Rest /\ UNCHANGED <<callerVars, child>>

\* With code 0 the entry is written; other exits come with an exception.
ChildExits ==
    /\ child = "running"
    /\ child' \in IF cached = "fresh" THEN {"exited", "dead"} ELSE {"dead"}
    /\ Rest /\ UNCHANGED <<callerVars, cached>>

ChildSeen ==
    /\ at = "write"
    /\ \/ child = "exited" /\ To("check")
       \/ child = "dead" /\ Return("raised")
    /\ Rest /\ UNCHANGED <<child, cached>>

\* Mutant: the writer is left to itself, as a daemon thread would be.
LeaveChild ==
    /\ at = "write" /\ child = "running" /\ late
    /\ Return("empty")
    /\ Rest /\ UNCHANGED <<child, cached>>

Terminate ==
    /\ at = "write" /\ child = "running" /\ late
    /\ To("terminate")
    /\ Rest /\ UNCHANGED <<child, cached>>

\* Mutant: the join after terminate() has no timeout and no kill follows.
JoinTerminated ==
    /\ at = "terminate" /\ child # "running"
    /\ Return("empty")
    /\ Rest /\ UNCHANGED <<child, cached>>

\* The child dies of the TERM in the second it is given, or is killed.
Kill ==
    /\ at = "terminate"
    /\ child' = IF child = "running" THEN "dead" ELSE child
    /\ Return("empty")
    /\ Rest /\ UNCHANGED cached

Check ==
    /\ \/ at = "check" /\ (IF late THEN Return("empty") ELSE To("final"))
       \/ at = "final" /\ Return(IF late THEN "raised" ELSE "returns")
    /\ Rest /\ UNCHANGED <<child, cached>>

-----------------------------------------------------------------------------
Caller ==
    \/ StartThread \/ Abandon \/ ThreadFailed \/ StepDone \/ CacheHit
    \/ StartChild \/ ChildSeen \/ Terminate \/ Kill \/ Check

Child == ChildCommits \/ ChildExits

Next ==
    \/ DeadlinePasses
    \/ Caller
    \/ Child
    \/ MakeSnapshot
    \/ \E step \in Timed : ThreadEnds(step)

\* Time passes and the caller is scheduled.  No thread need ever end, and the
\* child may ignore the TERM.
Fairness == WF_vars(DeadlinePasses) /\ WF_vars(Caller)

Spec == Init /\ [][Next]_vars /\ Fairness

-----------------------------------------------------------------------------
\* The replay never loses its inputs: "the worker retains its inputs even
\* after its caller's deadline expires".
SnapshotOutlivesReplay == "replay" \in threads => snapshot # "removed"

\* When the call is over its temporary inputs are removed or owned by a thread
\* that still runs and removes them at its end: the replay, or a snapshot step
\* given up while it copied.  No cache writer is left, and returns that the call
\* gave to the risk check are in the cache.
NothingLeftBehind ==
    at = "done" =>
        /\ snapshot = "present" =>
              \/ owner = "worker" /\ "replay" \in threads
              \/ owner = "thread" /\ "snapshot" \in threads
        /\ child # "running"
        /\ result = "returns" => cached = "fresh"

\* The cache changes only while the call lasts: no replay or writer that came
\* late publishes to the shared database after the risk check was blocked.
NothingPublishedLate == [][at = "done" => cached' = cached]_vars

\* Whatever hangs, the call ends.
CallReturns == <>(at = "done")
=============================================================================
