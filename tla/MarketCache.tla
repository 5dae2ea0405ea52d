----------------------------- MODULE MarketCache -----------------------------
(***************************************************************************)
(* The two market-data caches of market_data_cache.py: the raw prices that *)
(* download_data saves and the execution frame that loaders build from     *)
(* them.  Both are saved as data and then metadata, in two transactions;   *)
(* the frame counts as fresh while its metadata are not older than those   *)
(* of the raw prices.  Processes overlap and may fail or die at every      *)
(* step.                                                                   *)
(*                                                                         *)
(* Prices are numbered in the order they are saved and a frame is the      *)
(* number of the prices it was built from.  The clock goes on between two  *)
(* of its readings.  Both caches exist from an earlier day.                *)
(***************************************************************************)
EXTENDS Naturals

CONSTANTS
    Updaters, Loaders,
    Bounded,      \* loaders that pass max_stale_bdays
    FreshFrom,    \* the oldest frame the staleness check accepts
    LastVersion,  \* bound: prices that may be saved
    LastStamp,    \* bound on the clock
    None

VARIABLES
    raw, rawAt,      \* the raw prices, and updated_at of their metadata
    frame, frameAt,  \* the same of the frame
    now,
    updater,  \* each updater's next step and time
    loader,   \* each loader's next step, time and the prices it has loaded
    served,   \* what each loader's last call returned; None when it raised
    orderly,  \* the last update was complete and overlapped nothing (history)
    asked     \* the prices of an orderly cache a call began with (history)

vars == <<raw, rawAt, frame, frameAt, now, updater, loader, served, orderly, asked>>

Saved == [at |-> "idle", time |-> 0]
Idle == [at |-> "idle", time |-> 0, source |-> 0]

Init ==
    /\ raw = 1 /\ rawAt = 0
    /\ frame = 1 /\ frameAt = 1
    /\ now = 1
    /\ updater = [u \in Updaters |-> Saved]
    /\ loader = [l \in Loaders |-> Idle]
    /\ served = [l \in Loaders |-> None]
    /\ orderly = TRUE
    /\ asked = [l \in Loaders |-> None]

UpdatersRest == \A u \in Updaters : updater[u].at = "idle"

-----------------------------------------------------------------------------
(* save_raw_cache.                                                         *)

SaveRaw(u) ==
    /\ updater[u].at = "idle" /\ raw < LastVersion
    /\ raw' = raw + 1
    /\ updater' = [updater EXCEPT ![u].at = "time"]
    /\ orderly' = /\ UpdatersRest
                  /\ \A l \in Loaders : loader[l].at \notin {"save", "time", "commit"}
    /\ UNCHANGED <<rawAt, frame, frameAt, now, loader, served, asked>>

TimeUpdate(u) ==
    /\ updater[u].at = "time" /\ now < LastStamp
    /\ now' = now + 1
    /\ updater' = [updater EXCEPT ![u] = [at |-> "commit", time |-> now']]
    /\ UNCHANGED <<raw, rawAt, frame, frameAt, loader, served, orderly, asked>>

SaveRawMeta(u) ==
    /\ updater[u].at = "commit"
    /\ rawAt' = updater[u].time
    /\ updater' = [updater EXCEPT ![u] = Saved]
    /\ UNCHANGED <<raw, frame, frameAt, now, loader, served, orderly, asked>>

\* The second transaction fails or the process dies before it.
FailUpdate(u) ==
    /\ updater[u].at # "idle"
    /\ updater' = [updater EXCEPT ![u] = Saved]
    /\ orderly' = FALSE
    /\ UNCHANGED <<raw, rawAt, frame, frameAt, now, loader, served, asked>>

-----------------------------------------------------------------------------
(* load_df_exec_from_local_cache.                                          *)

Accepts(l, version) == l \in Bounded => version >= FreshFrom

Returns(l, version) ==
    /\ loader' = [loader EXCEPT ![l] = Idle]
    /\ served' = [served EXCEPT ![l] = version]

\* is_df_exec_cache_valid reads the metadata of the frame and then those of
\* the prices.
ReadFrameMeta(l) ==
    /\ loader[l].at = "idle"
    /\ loader' = [loader EXCEPT ![l] = [at |-> "compare", time |-> frameAt, source |-> 0]]
    /\ served' = [served EXCEPT ![l] = None]
    /\ asked' = [asked EXCEPT ![l] = IF orderly /\ UpdatersRest THEN raw ELSE None]
    /\ UNCHANGED <<raw, rawAt, frame, frameAt, now, updater, orderly>>

\* Mutant: a frame of the current contract is used whatever its age.
CompareContract(l) ==
    /\ loader[l].at = "compare"
    /\ loader' = [loader EXCEPT ![l].at = "frame"]
    /\ UNCHANGED <<raw, rawAt, frame, frameAt, now, updater, served, orderly, asked>>

Compare(l) ==
    /\ loader[l].at = "compare"
    /\ loader' = [loader EXCEPT ![l].at =
                     IF loader[l].time < rawAt THEN "raw" ELSE "frame"]
    /\ UNCHANGED <<raw, rawAt, frame, frameAt, now, updater, served, orderly, asked>>

\* A frame that is too old for the caller is built again.
ReadFrame(l) ==
    /\ loader[l].at = "frame"
    /\ IF Accepts(l, frame)
       THEN Returns(l, frame)
       ELSE loader' = [loader EXCEPT ![l].at = "raw"] /\ UNCHANGED served
    /\ UNCHANGED <<raw, rawAt, frame, frameAt, now, updater, orderly, asked>>

ReadRaw(l) ==
    /\ loader[l].at = "raw"
    /\ loader' = [loader EXCEPT ![l] = [at |-> "save", time |-> 0, source |-> raw]]
    /\ UNCHANGED <<raw, rawAt, frame, frameAt, now, updater, served, orderly, asked>>

\* The check or the frame cannot be read.
CheckFails(l) ==
    /\ loader[l].at \in {"compare", "frame"}
    /\ loader' = [loader EXCEPT ![l].at = "raw"]
    /\ UNCHANGED <<raw, rawAt, frame, frameAt, now, updater, served, orderly, asked>>

\* The prices cannot be read or preprocess_data rejects them: only a caller
\* without a bound is given the frame as it is.
Fallback(l) ==
    /\ loader[l].at \in {"raw", "save"}
    /\ Returns(l, IF l \in Bounded THEN None ELSE frame)
    /\ UNCHANGED <<raw, rawAt, frame, frameAt, now, updater, orderly, asked>>

\* save_df_exec_to_local_cache.
SaveFrame(l) ==
    /\ loader[l].at = "save"
    /\ frame' = loader[l].source
    /\ loader' = [loader EXCEPT ![l].at = "time"]
    /\ UNCHANGED <<raw, rawAt, frameAt, now, updater, served, orderly, asked>>

TimeFrame(l) ==
    /\ loader[l].at = "time" /\ now < LastStamp
    /\ now' = now + 1
    /\ loader' = [loader EXCEPT ![l] =
                     [at |-> "commit", time |-> now', source |-> loader[l].source]]
    /\ UNCHANGED <<raw, rawAt, frame, frameAt, updater, served, orderly, asked>>

\* What was built is returned, also when saving it has failed.
ReturnBuilt(l) ==
    /\ loader[l].at \in {"save", "time", "commit"}
    /\ frameAt' \in IF loader[l].at = "commit" THEN {frameAt, loader[l].time} ELSE {frameAt}
    /\ Returns(l, IF Accepts(l, loader[l].source) THEN loader[l].source ELSE None)
    /\ UNCHANGED <<raw, rawAt, frame, now, updater, orderly, asked>>

\* A loader that dies, or whose fallback fails as well.
FailLoad(l) ==
    /\ loader[l].at # "idle"
    /\ Returns(l, None)
    /\ UNCHANGED <<raw, rawAt, frame, frameAt, now, updater, orderly, asked>>

-----------------------------------------------------------------------------
Update(u) == SaveRaw(u) \/ TimeUpdate(u) \/ SaveRawMeta(u) \/ FailUpdate(u)

Load(l) ==
    \/ ReadFrameMeta(l) \/ Compare(l) \/ ReadFrame(l) \/ CheckFails(l)
    \/ ReadRaw(l) \/ Fallback(l) \/ SaveFrame(l) \/ TimeFrame(l) \/ ReturnBuilt(l) \/ FailLoad(l)

Next == (\E u \in Updaters : Update(u)) \/ (\E l \in Loaders : Load(l))

Spec == Init /\ [][Next]_vars

-----------------------------------------------------------------------------
\* A caller with a bound on the age is never served older prices than those of
\* an update that was complete when it called and had overlapped no rebuild and
\* no other update, whatever overlaps and fails from then on.
UpdatedIsServed ==
    \A l \in Loaders \cap Bounded :
        loader[l].at = "idle" /\ asked[l] # None /\ served[l] # None
            => served[l] >= asked[l]
=============================================================================
