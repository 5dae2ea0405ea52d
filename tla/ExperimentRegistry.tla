-------------------------- MODULE ExperimentRegistry --------------------------
(***************************************************************************)
(* The append-only registry of experiments.  A study is registered with    *)
(* its candidates before any of them is tried, every trial is started      *)
(* before it is evaluated and gets an outcome, outcomes are corrected by   *)
(* further records, and a selection closes the study.                      *)
(*                                                                         *)
(* Every call reads the file, decides and appends a line.  Nothing in the  *)
(* code keeps two processes apart; the study rules demand a single writer  *)
(* (docs/decisions/2026-10-08-study-governance.md:14), so that a call is   *)
(* one step.  A trial and a record are named by their line, a call that is *)
(* refused changes nothing, and a correction supersedes only the record it *)
(* corrects.                                                               *)
(***************************************************************************)
EXTENDS Naturals, Sequences, FiniteSetsExt

CONSTANTS
    Studies,
    Candidates,
    LastLine,   \* bound on the lines of the file
    None        \* no study, no trial, no record

VARIABLES log   \* the lines of the file

Statuses == {"completed", "failed"}

Init == log = <<>>

-----------------------------------------------------------------------------
(* What a call finds in the file.                                          *)

Lines(kind) == {i \in DOMAIN log : log[i].kind = kind}
LinesOf(kind, study) == {i \in Lines(kind) : log[i].study = study}

\* get_study: the first registration.
Registration(study) ==
    CHOOSE i \in LinesOf("study", study) : \A j \in LinesOf("study", study) : i <= j

\* iter_current_records: the records no other one corrects.
Current == Lines("record") \ {log[i].of : i \in Lines("record")}

\* The original at the end of a chain of corrections.
Original[i \in DOMAIN log] ==
    IF log[i].kind # "record" \/ log[i].of = None THEN i ELSE Original[log[i].of]

\* The study a record was moved to by its current corrections, the last one
\* in the file if there are several.
CorrectedStudy(i) ==
    LET Moves == {j \in Current : log[j].of # None /\ Original[j] = i /\ log[j].study # None}
    IN  IF Moves = {} THEN None ELSE log[Max(Moves)].study

\* count_trials: starts, and original records of no started trial.
Trials(study) ==
    LinesOf("start", study) \cup
    {i \in Lines("record") :
        /\ log[i].of = None /\ log[i].trial = None
        /\ study \in {log[i].study, CorrectedStudy(i)}}

-----------------------------------------------------------------------------
AppendLine(line) == Len(log) < LastLine /\ log' = Append(log, line)

\* Mutant: only other registrations are looked for.
RegisterUnlessRegistered(study, candidates) ==
    /\ LinesOf("study", study) = {}
    /\ AppendLine([kind |-> "study", study |-> study, candidates |-> candidates])

RegisterStudy(study, candidates) ==
    /\ LinesOf("study", study) = {} /\ Trials(study) = {}
    /\ AppendLine([kind |-> "study", study |-> study, candidates |-> candidates])

StartTrial(study, candidate) ==
    /\ LinesOf("study", study) # {}
    /\ candidate \in log[Registration(study)].candidates
    /\ LinesOf("selection", study) = {}
    /\ AppendLine([kind |-> "start", study |-> study, candidate |-> candidate])

\* record without a trial: nothing is checked.
RecordUntracked(study, status) ==
    AppendLine([kind |-> "record", study |-> study, trial |-> None,
                status |-> status, of |-> None])

\* record of the outcome of a started trial.
RecordOutcome(trial, status) ==
    /\ \A i \in Lines("record") : log[i].trial # trial
    /\ AppendLine([kind |-> "record", study |-> log[trial].study, trial |-> trial,
                   status |-> status, of |-> None])

\* A correction keeps the trial and the status of its original; one of an
\* untracked record may name another study, and a trial of that study.
RecordCorrection(original, study, trial, status) ==
    /\ log[original].trial # None =>
          trial = log[original].trial /\ status = log[original].status
    /\ trial # None => study = log[trial].study
    /\ AppendLine([kind |-> "record", study |-> study, trial |-> trial,
                   status |-> status, of |-> original])

\* Every started trial must have an outcome, and the selected one must be
\* completed; of several current outcomes of a trial the last counts.
SelectStudy(study, selected) ==
    LET Outcomes == {i \in Current : log[i].study = study /\ log[i].trial # None}
        Concluded == {log[i].trial : i \in Outcomes}
        Status(trial) == log[Max({i \in Outcomes : log[i].trial = trial})].status
    IN  /\ LinesOf("study", study) # {} /\ LinesOf("selection", study) = {}
        /\ LinesOf("start", study) \subseteq Concluded
        /\ selected # None => selected \in Concluded /\ Status(selected) = "completed"
        /\ AppendLine([kind |-> "selection", study |-> study, selected |-> selected,
                       trials |-> LinesOf("start", study)])

Next ==
    \/ \E s \in Studies :
          \/ \E cs \in SUBSET Candidates \ {{}} : RegisterStudy(s, cs)
          \/ \E c \in Candidates : StartTrial(s, c)
          \/ \E t \in Lines("start") \cup {None} : SelectStudy(s, t)
    \/ \E s \in Studies \cup {None}, status \in Statuses :
          \/ RecordUntracked(s, status)
          \/ \E i \in Lines("record"), t \in Lines("start") \cup {None} :
                RecordCorrection(i, s, t, status)
    \/ \E t \in Lines("start"), status \in Statuses : RecordOutcome(t, status)

Spec == Init /\ [][Next]_log

-----------------------------------------------------------------------------
(* What the rules of a study forbid of two lines, the first before the     *)
(* second.                                                                 *)

StudyAfterTrial(i, j) ==
    /\ log[j].kind = "study"
    /\ \/ log[i].kind \in {"study", "start"}
       \/ log[i].kind = "record" /\ (log[i].of = None \/ log[i].trial # None)

TrialAfterSelection(i, j) ==
    log[i].kind = "selection" /\ log[j].kind \in {"start", "selection"}

\* Left out, or without an outcome in the file when the study was selected.
TrialSelectedAway(i, j) ==
    /\ log[i].kind = "start" /\ log[j].kind = "selection"
    /\ \/ i \notin log[j].trials
       \/ \A k \in 1 .. j - 1 : log[k].kind = "record" => log[k].trial # i

\* A study is preregistered and closed whatever calls and corrections come
\* before, between and after: its one registration precedes its trials and its
\* records, tracked or not, and its one selection follows all of its trials,
\* names them, and finds an outcome of each; a trial is of a candidate
\* registered before, and the trial a selection chose has been completed.
StudiesArePreregistered ==
    /\ \A i, j \in DOMAIN log : i < j /\ log[i].study = log[j].study =>
          ~(StudyAfterTrial(i, j) \/ TrialAfterSelection(i, j) \/ TrialSelectedAway(i, j))
    /\ \A i \in Lines("start") : \E j \in LinesOf("study", log[i].study) :
          j < i /\ log[i].candidate \in log[j].candidates
    /\ \A i \in Lines("selection") : log[i].selected # None =>
          \E j \in Lines("record") :
             /\ j < i /\ log[j].trial = log[i].selected
             /\ log[j].study = log[i].study /\ log[j].status = "completed"
=============================================================================
