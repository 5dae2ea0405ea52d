--------------------------- MODULE OverlayArtifact ---------------------------
(***************************************************************************)
(* The trained overlay model and its provenance.  save_overlay_model fills *)
(* a staging directory, renames it to a new version directory and then     *)
(* replaces CURRENT; load_overlay_model follows CURRENT.  Savers and       *)
(* loaders run concurrently and a saver may fail or die at every step.     *)
(*                                                                         *)
(* Versions are named by a fresh random id; here by their number.  A file  *)
(* is the version it was written for, and its digest and provenance are    *)
(* that version's.                                                         *)
(***************************************************************************)
EXTENDS Naturals

CONSTANTS
    Savers, Loaders,
    LastVersion,  \* bound: versions that may be begun
    Missing       \* no file, no pointer, nothing loaded

VARIABLES
    current,   \* CURRENT
    staged,    \* [version -> its staging directory: model and metadata]
    stored,    \* [version -> its directory below versions]
    versions,  \* versions begun so far
    saver,     \* each saver's next step and version
    loader,    \* each loader's next step, pointer and model bytes
    loaded,    \* what each loader's last call returned
    begun      \* CURRENT when it was called (history)

vars == <<current, staged, stored, versions, saver, loader, loaded, begun>>

Versions == 1 .. LastVersion
Files == [model : Versions \cup {Missing}, metadata : Versions \cup {Missing}]
NoFiles == [model |-> Missing, metadata |-> Missing]

\* What the theorems assume of the constants: "Missing" is nothing else.
MissingIsFresh == LastVersion \in Nat /\ Missing \notin Versions \cup Files

Idle == [at |-> "idle", version |-> Missing, model |-> Missing]

Init ==
    /\ current = Missing
    /\ staged = [v \in Versions |-> Missing]
    /\ stored = [v \in Versions |-> Missing]
    /\ versions = 0
    /\ saver = [s \in Savers |-> [at |-> "idle", version |-> Missing]]
    /\ loader = [l \in Loaders |-> Idle]
    /\ loaded = [l \in Loaders |-> Missing]
    /\ begun = [l \in Loaders |-> Missing]

-----------------------------------------------------------------------------
(* save_overlay_model.                                                     *)

BeginSave(s) ==
    /\ saver[s].at = "idle" /\ versions < LastVersion
    /\ versions' = versions + 1
    /\ staged' = [staged EXCEPT ![versions'] = NoFiles]
    /\ saver' = [saver EXCEPT ![s] = [at |-> "model", version |-> versions']]
    /\ UNCHANGED <<current, stored, loader, loaded, begun>>

WriteModel(s) ==
    /\ saver[s].at = "model"
    /\ LET v == saver[s].version
       IN  /\ staged' = [staged EXCEPT ![v] =
                            [model |-> v, metadata |-> staged[v].metadata]]
           /\ saver' = [saver EXCEPT ![s] = [at |-> "metadata", version |-> v]]
    /\ UNCHANGED <<current, stored, versions, loader, loaded, begun>>

WriteMetadata(s) ==
    /\ saver[s].at = "metadata"
    /\ LET v == saver[s].version
       IN  /\ staged' = [staged EXCEPT ![v] =
                            [model |-> staged[v].model, metadata |-> v]]
           /\ saver' = [saver EXCEPT ![s] = [at |-> "rename", version |-> v]]
    /\ UNCHANGED <<current, stored, versions, loader, loaded, begun>>

RenameStaging(s) ==
    /\ saver[s].at = "rename"
    /\ LET v == saver[s].version
       IN  /\ stored' = [stored EXCEPT ![v] = staged[v]]
           /\ staged' = [staged EXCEPT ![v] = Missing]
           /\ saver' = [saver EXCEPT ![s] = [at |-> "current", version |-> v]]
    /\ UNCHANGED <<current, versions, loader, loaded, begun>>

\* Mutant: the pointer is replaced before the directory is in place.
ReplaceCurrentFirst(s) ==
    /\ saver[s].at = "rename"
    /\ current' = saver[s].version
    /\ UNCHANGED <<staged, stored, versions, saver, loader, loaded, begun>>

ReplaceCurrent(s) ==
    /\ saver[s].at = "current"
    /\ current' = saver[s].version
    /\ saver' = [saver EXCEPT ![s] = [at |-> "idle", version |-> Missing]]
    /\ UNCHANGED <<staged, stored, versions, loader, loaded, begun>>

\* A write raises or the process dies; its directories stay.
FailSave(s) ==
    /\ saver[s].at # "idle"
    /\ saver' = [saver EXCEPT ![s] = [at |-> "idle", version |-> Missing]]
    /\ UNCHANGED <<current, staged, stored, versions, loader, loaded, begun>>

-----------------------------------------------------------------------------
(* load_overlay_model; a call that raises has loaded nothing.              *)

\* Mutant: a load that fails returns the model of the last one.
BeginLoadKeepingLast(l) ==
    /\ loader[l].at = "idle"
    /\ loader' = [loader EXCEPT ![l] = [Idle EXCEPT !.at = "current"]]
    /\ begun' = [begun EXCEPT ![l] = current]
    /\ UNCHANGED <<current, staged, stored, versions, saver, loaded>>

BeginLoad(l) ==
    /\ loader[l].at = "idle"
    /\ loader' = [loader EXCEPT ![l] = [Idle EXCEPT !.at = "current"]]
    /\ loaded' = [loaded EXCEPT ![l] = Missing]
    /\ begun' = [begun EXCEPT ![l] = current]
    /\ UNCHANGED <<current, staged, stored, versions, saver>>

ReadCurrent(l) ==
    /\ loader[l].at = "current"
    /\ loader' = [loader EXCEPT ![l] =
          IF current = Missing
          THEN Idle
          ELSE [at |-> "model", version |-> current, model |-> Missing]]
    /\ UNCHANGED <<current, staged, stored, versions, saver, loaded, begun>>

ReadModel(l) ==
    /\ loader[l].at = "model"
    /\ LET v == loader[l].version
           directory == stored[v]
       IN  loader' = [loader EXCEPT ![l] =
              IF directory = Missing \/ directory.model = Missing
              THEN Idle
              ELSE [at |-> "metadata", version |-> v, model |-> directory.model]]
    /\ UNCHANGED <<current, staged, stored, versions, saver, loaded, begun>>

\* The metadata must name the version of the pointer and the digest of the
\* model bytes, and agree with the metadata inside the model.
ReadMetadata(l) ==
    /\ loader[l].at = "metadata"
    /\ LET v == loader[l].version
           metadata == stored[v].metadata
       IN  loaded' = [loaded EXCEPT ![l] =
              IF metadata = v /\ loader[l].model = metadata THEN v ELSE Missing]
    /\ loader' = [loader EXCEPT ![l] = Idle]
    /\ UNCHANGED <<current, staged, stored, versions, saver, begun>>

-----------------------------------------------------------------------------
Save(s) ==
    BeginSave(s) \/ WriteModel(s) \/ WriteMetadata(s) \/ RenameStaging(s)
        \/ ReplaceCurrent(s) \/ FailSave(s)

Load(l) == BeginLoad(l) \/ ReadCurrent(l) \/ ReadModel(l) \/ ReadMetadata(l)

Next == (\E s \in Savers : Save(s)) \/ (\E l \in Loaders : Load(l))

Spec == Init /\ [][Next]_vars

-----------------------------------------------------------------------------
\* A load that finds a pointer succeeds, whatever savers do or have failed to
\* do meanwhile: CURRENT names complete, immutable versions only.
PublishedIsLoadable ==
    \A l \in Loaders :
        begun[l] # Missing /\ loader[l].at = "idle" => loaded[l] # Missing

(* A call returns nothing or the version CURRENT named at one moment of it, *)
(* also when savers replace CURRENT between its reads.                     *)
Register == INSTANCE BundleRegister WITH
    Readers <- Loaders,
    Bundles <- Versions,
    NoBundle <- Missing,
    current <- current,
    looked <- [l \in Loaders |-> loader[l].version],
    answer <- loaded

LoadsAreAtomic == Register!Spec
=============================================================================
