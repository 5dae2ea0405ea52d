-------------------------- MODULE ScheduledRecovery --------------------------
(***************************************************************************)
(* Order execution under the schedule of the batch jobs: `reconcile        *)
(* --pending` runs once, at 15:40, first in the batch of the report.       *)
(*                                                                         *)
(* The guarded jobs of the day are over by then (the close starts at 14:50 *)
(* and its lease lasts 1840 seconds), and so are the day orders (at        *)
(* 15:30).  A pass that is refused or dies is not repeated; those of later *)
(* days ask for the orders of this day under another date, which the       *)
(* Tachibana client answers with SUBMITTED.  A recovery started by hand is *)
(* not part of the schedule.                                               *)
(***************************************************************************)
EXTENDS OrderExecution

ASSUME ScheduleAssumption == Procs = Guarded /\ ~Overrun

VARIABLE clock   \* "session", the day's "pass", or "later" days

scheduledVars == <<vars, clock>>

ScheduledInit == Init /\ clock = "session"

During(time) == clock = time /\ UNCHANGED clock

SessionStep(p) == During("session") /\ ProcStep(p)

Settlement == During("session") /\ Market

\* Neither a job nor an order outlives the session.
SessionOver ==
    /\ \A p \in Procs : pc[p] \in {"idle", "done"}
    /\ \A id \in DOMAIN book : ~book[id].live

\* Without a candidate the pass ends before it takes the lease.
PassBegins ==
    /\ clock = "session" /\ clock' = "pass"
    /\ SessionOver
    /\ RecoverBegin

RecoverRest ==
    RecoverPositions \/ RecoverRecord \/ RecoverCheckpoint \/ RecoverSettle

PassStep ==
    \/ During("pass") /\ ((\E j \in Jobs : RecoverOrders(j)) \/ RecoverRest)
    \/ clock = "pass" /\ clock' = "later" /\ RecoverEnd

PassDies == clock = "pass" /\ clock' = "later" /\ RecoverCrash

\* get_order_status of an order of an earlier day: the detail of today is not
\* found, and the order counts as pending.  Its fills are asked for under the
\* date of the run.
RecoverLate(j) ==
    \E fails \in QueryFails :
        RecoverWith(j, \/ ~FullyIdentified(run[j].intents, saved[j])
                       \/ DOMAIN saved[j] # {}
                       \/ fails)

LaterStep ==
    /\ During("later")
    /\ \/ RecoverBegin \/ (\E j \in Jobs : RecoverLate(j))
       \/ RecoverRest \/ RecoverEnd \/ RecoverCrash

ScheduledNext ==
    \/ \E p \in Procs : SessionStep(p) \/ (During("session") /\ Crash(p))
    \/ Settlement
    \/ LeaseExpires /\ UNCHANGED clock
    \/ PassBegins \/ PassStep \/ PassDies
    \/ LaterStep

\* Living processes go on, the market settles every order by the close, a dead
\* owner's lease runs out, and the pass of the day is made.  Nothing is assumed
\* of the passes of later days.
Schedule ==
    /\ \A p \in Procs : WF_scheduledVars(SessionStep(p))
    /\ WF_scheduledVars(Settlement)
    /\ WF_scheduledVars(LeaseExpires /\ UNCHANGED clock)
    /\ WF_scheduledVars(PassBegins)
    /\ WF_scheduledVars(PassStep)

ScheduledSpec == ScheduledInit /\ [][ScheduledNext]_scheduledVars /\ Schedule

-----------------------------------------------------------------------------
(***************************************************************************)
(* Properties                                                              *)
(***************************************************************************)
\* One pass is enough: a run that is left open with every order identified,
\* after a crash, an order that filled too late or a cancelled part, is
\* completed on its day, by its process or by the pass, unless a process or
\* the pass dies after that.  It is stated of jobs that read the positions
\* under their guard's lease, with queries that are answered: a failed query,
\* a decision built on stale positions, a lost identifier and a part that was
\* not sent leave the run open, and so does every pass of a later day.
IdentifiedRunsComplete ==
    \A j \in Jobs, n \in 0 .. MaxFaults :
        (/\ clock # "later" /\ faults = n
         /\ run[j].status \in Store!Ambiguous
         /\ FullyIdentified(run[j].intents, saved[j]))
            ~> (run[j].status = "completed" \/ faults > n)
=============================================================================
