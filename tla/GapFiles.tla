------------------------------ MODULE GapFiles ------------------------------
(***************************************************************************)
(* The .npy gap bundle of one date and horizon: mu, omega and metadata are *)
(* three files, each replaced atomically, and a fourth, the manifest, names *)
(* the digests of the three.  save_gap_matrices replaces it last, as the   *)
(* commit marker; load_gap_bundle reads it first.  Nothing keeps two       *)
(* writers, or a writer and a reader, apart, and a writer may fail or die  *)
(* between any two files.                                                  *)
(*                                                                         *)
(* Equal content has equal digests, and unequal content unequal ones.      *)
(***************************************************************************)
CONSTANTS
    Writers,   \* processes that may call save_gap_matrices
    Readers,   \* processes that may call load_gap_bundle
    Bundles,   \* bundles they may write: records of mu, omega and meta
    NoFile,    \* the content of a file that does not exist
    NoBundle   \* no manifest, no result

ASSUME BundlesAssumption ==
    /\ NoBundle \notin Bundles
    /\ \A b \in Bundles :
          /\ b = [mu |-> b.mu, omega |-> b.omega, meta |-> b.meta]
          /\ b.mu # NoFile /\ b.omega # NoFile

VARIABLES
    file,      \* the three data files
    manifest,  \* the bundle whose digests the manifest names
    writer,    \* each writer's next step and its bundle
    reader,    \* each reader's next step and what it has read
    result,    \* what each reader's last call returned
    alone,     \* writers no other publication has overlapped (history)
    whole,     \* the bundle an undisturbed publication left (history)
    due        \* what a reader that nothing disturbs must return (history)

code == <<file, manifest, writer, reader, result>>
history == <<alone, whole, due>>
vars == <<code, history>>

NoRead == [mu |-> NoFile, omega |-> NoFile, meta |-> NoFile,
           manifest |-> NoBundle, at |-> "idle"]

Init ==
    /\ file = [mu |-> NoFile, omega |-> NoFile, meta |-> NoFile]
    /\ manifest = NoBundle
    /\ writer = [w \in Writers |-> [at |-> "idle", bundle |-> NoBundle]]
    /\ reader = [r \in Readers |-> NoRead]
    /\ result = [r \in Readers |-> NoBundle]
    /\ alone = {}
    /\ whole = NoBundle
    /\ due = [r \in Readers |-> NoBundle]

Writing == {w \in Writers : writer[w].at # "idle"}

-----------------------------------------------------------------------------
(* save_gap_matrices.                                                      *)

BeginSave(w, b) ==
    /\ writer[w].at = "idle"
    /\ writer' = [writer EXCEPT ![w] = [at |-> "mu", bundle |-> b]]
    /\ alone' = IF Writing = {} THEN {w} ELSE {}
    /\ whole' = NoBundle
    /\ due' = [r \in Readers |-> NoBundle]
    /\ UNCHANGED <<file, manifest, reader, result>>

After(at) == CASE at = "mu" -> "omega"
               [] at = "omega" -> "meta"
               [] at = "meta" -> "manifest"

\* Mutant: metadata the bundle does not have are left where they are.
WriteFileKeepingMeta(w) ==
    /\ writer[w].at \in {"mu", "omega", "meta"}
    /\ file' = IF writer[w].bundle[writer[w].at] = NoFile THEN file
               ELSE [file EXCEPT ![writer[w].at] = writer[w].bundle[writer[w].at]]
    /\ writer' = [writer EXCEPT ![w].at = After(writer[w].at)]
    /\ UNCHANGED <<manifest, reader, result, history>>

\* One file is replaced through a temporary one; metadata a bundle does not
\* have is unlinked.
WriteFile(w) ==
    /\ writer[w].at \in {"mu", "omega", "meta"}
    /\ file' = [file EXCEPT ![writer[w].at] = writer[w].bundle[writer[w].at]]
    /\ writer' = [writer EXCEPT ![w].at = After(writer[w].at)]
    /\ UNCHANGED <<manifest, reader, result, history>>

WriteManifest(w) ==
    /\ writer[w].at = "manifest"
    /\ manifest' = writer[w].bundle
    /\ writer' = [writer EXCEPT ![w] = [at |-> "idle", bundle |-> NoBundle]]
    /\ whole' = IF w \in alone THEN writer[w].bundle ELSE whole
    /\ UNCHANGED <<file, reader, result, alone, due>>

\* A write raises and the call returns False, or the process dies: the files
\* replaced so far stay.
FailSave(w) ==
    /\ writer[w].at # "idle"
    /\ writer' = [writer EXCEPT ![w] = [at |-> "idle", bundle |-> NoBundle]]
    /\ alone' = alone \ {w}
    /\ UNCHANGED <<file, manifest, reader, result, whole, due>>

-----------------------------------------------------------------------------
(* load_gap_bundle.                                                        *)

\* mu and omega must exist before the manifest is looked for.
BeginLoad(r) ==
    /\ reader[r].at = "idle"
    /\ reader' = [reader EXCEPT ![r] =
          IF NoFile \in {file.mu, file.omega} THEN NoRead
                                              ELSE [NoRead EXCEPT !.at = "manifest"]]
    /\ result' = [result EXCEPT ![r] = NoBundle]
    /\ due' = [due EXCEPT ![r] = IF Writing = {} THEN whole ELSE NoBundle]
    /\ UNCHANGED <<file, manifest, writer, alone, whole>>

\* Mutant: the files are read without a manifest, too.
ReadManifestIfAny(r) ==
    /\ reader[r].at = "manifest"
    /\ reader' = [reader EXCEPT ![r] =
                     [NoRead EXCEPT !.at = "mu", !.manifest = manifest]]
    /\ UNCHANGED <<file, manifest, writer, result, history>>

ReadManifest(r) ==
    /\ reader[r].at = "manifest"
    /\ reader' = [reader EXCEPT ![r] =
          IF manifest = NoBundle
          THEN NoRead
          ELSE [NoRead EXCEPT !.at = "mu", !.manifest = manifest]]
    /\ UNCHANGED <<file, manifest, writer, result, history>>

ReadFile(r) ==
    /\ \/ /\ reader[r].at = "mu"
          /\ reader' = [reader EXCEPT ![r] =
                           [reader[r] EXCEPT !.mu = file.mu, !.at = "omega"]]
       \/ /\ reader[r].at = "omega"
          /\ reader' = [reader EXCEPT ![r] =
                           [reader[r] EXCEPT !.omega = file.omega, !.at = "exists"]]
    /\ UNCHANGED <<file, manifest, writer, result, history>>

MetadataExists(r) ==
    /\ reader[r].at = "exists"
    /\ reader' = [reader EXCEPT ![r] = [reader[r] EXCEPT
          !.at = IF file.meta = NoFile THEN "validate" ELSE "meta"]]
    /\ UNCHANGED <<file, manifest, writer, result, history>>

\* The metadata that existed a moment ago may have been unlinked: the read
\* raises, and the call returns nothing.
ReadMetadata(r) ==
    /\ reader[r].at = "meta"
    /\ reader' = [reader EXCEPT ![r] =
          IF file.meta = NoFile
          THEN NoRead
          ELSE [reader[r] EXCEPT !.meta = file.meta, !.at = "validate"]]
    /\ UNCHANGED <<file, manifest, writer, result, history>>

Loaded(r) == [mu |-> reader[r].mu, omega |-> reader[r].omega,
              meta |-> reader[r].meta]

\* Mutant: the digest of the metadata is not looked at.
ValidateMatrices(r) ==
    /\ reader[r].at = "validate"
    /\ result' = [result EXCEPT ![r] =
          IF /\ reader[r].mu = reader[r].manifest.mu
             /\ reader[r].omega = reader[r].manifest.omega
          THEN Loaded(r) ELSE NoBundle]
    /\ reader' = [reader EXCEPT ![r] = NoRead]
    /\ UNCHANGED <<file, manifest, writer, history>>

\* The bytes whose digests agree with the manifest are the ones decoded.
Validate(r) ==
    /\ reader[r].at = "validate"
    /\ result' = [result EXCEPT ![r] =
          IF Loaded(r) = reader[r].manifest THEN Loaded(r) ELSE NoBundle]
    /\ reader' = [reader EXCEPT ![r] = NoRead]
    /\ UNCHANGED <<file, manifest, writer, history>>

-----------------------------------------------------------------------------
Save(w) ==
    \/ \E b \in Bundles : BeginSave(w, b)
    \/ WriteFile(w)
    \/ WriteManifest(w)
    \/ FailSave(w)

Load(r) ==
    \/ BeginLoad(r)
    \/ ReadManifest(r)
    \/ ReadFile(r)
    \/ MetadataExists(r)
    \/ ReadMetadata(r)
    \/ Validate(r)

Next == (\E w \in Writers : Save(w)) \/ (\E r \in Readers : Load(r))

Spec == Init /\ [][Next]_vars

-----------------------------------------------------------------------------
Contents == {b.mu : b \in Bundles} \cup {b.omega : b \in Bundles}
              \cup {b.meta : b \in Bundles} \cup {NoFile}

Files == [mu : Contents, omega : Contents, meta : Contents]

Writers_ ==
    [at : {"idle", "mu", "omega", "meta", "manifest"},
     bundle : Bundles \cup {NoBundle}]

Readers_ ==
    [mu : Contents, omega : Contents, meta : Contents,
     manifest : Bundles \cup {NoBundle},
     at : {"idle", "manifest", "mu", "omega", "exists", "meta", "validate"}]

\* The variables have the values of their declarations; a writer has a bundle
\* exactly while it writes, and a reader past the manifest has found one.
TypeOK ==
    /\ file \in Files
    /\ manifest \in Bundles \cup {NoBundle}
    /\ writer \in [Writers -> Writers_]
    /\ \A w \in Writers : writer[w].at # "idle" => writer[w].bundle \in Bundles
    /\ reader \in [Readers -> Readers_]
    /\ \A r \in Readers :
          reader[r].at \notin {"idle", "manifest"} => reader[r].manifest \in Bundles
    /\ result \in [Readers -> Bundles \cup {NoBundle}]
    /\ alone \subseteq Writers
    /\ whole \in Bundles \cup {NoBundle}
    /\ due \in [Readers -> Bundles \cup {NoBundle}]

-----------------------------------------------------------------------------
(* The inductive invariant of the proofs.                                  *)

\* A call that lasts has returned nothing yet, and has no metadata until it
\* has read them.
ReaderInvOf(r) ==
    /\ reader[r].at = "idle" => reader[r] = NoRead
    /\ reader[r].at # "idle" => result[r] = NoBundle
    /\ reader[r].at = "manifest" => reader[r].manifest = NoBundle
    /\ reader[r].at # "validate" => reader[r].meta = NoFile

ReaderInv == \A r \in Readers : ReaderInvOf(r)

\* What a writer that is alone has replaced stays replaced.
AloneInv ==
    \A w \in alone \cap Writing :
        /\ Writing = {w}
        /\ writer[w].at # "mu" => file.mu = writer[w].bundle.mu
        /\ writer[w].at \notin {"mu", "omega"} => file.omega = writer[w].bundle.omega
        /\ writer[w].at = "manifest" => file = writer[w].bundle

\* The bundle of an undisturbed publication is in the files.
WholeInv ==
    whole # NoBundle => Writing = {} /\ file = whole /\ manifest = whole

\* A reader nothing disturbs has read parts of that bundle only.
DueInvOf(r) ==
    due[r] # NoBundle =>
        /\ whole = due[r]
        /\ reader[r].at = "idle" => result[r] = whole
        /\ reader[r].at \notin {"idle", "manifest"} => reader[r].manifest = whole
        /\ reader[r].at \notin {"idle", "manifest", "mu"} => reader[r].mu = whole.mu
        /\ reader[r].at \in {"exists", "meta", "validate"} =>
              reader[r].omega = whole.omega
        /\ reader[r].at = "meta" => whole.meta # NoFile
        /\ reader[r].at = "validate" => reader[r].meta = whole.meta

DueInv == \A r \in Readers : DueInvOf(r)

IInv == TypeOK /\ ReaderInv /\ AloneInv /\ WholeInv /\ DueInv

-----------------------------------------------------------------------------
(* load_gap_bundle decodes "the same bytes whose digests were verified", so *)
(* that a concurrent writer never makes it combine two generations: a       *)
(* call returns nothing or the bundle that was committed when it read the   *)
(* manifest.                                                                *)
Register == INSTANCE BundleRegister WITH
    current <- manifest,
    looked <- [r \in Readers |-> reader[r].manifest],
    answer <- result

ReadsAreAtomic == Register!Spec

\* A publication no other one overlapped, and that did not fail, is readable:
\* a reader that runs after it, before the next one begins, has been given
\* that bundle when its call is over.
UndisturbedIsReadable ==
    \A r \in Readers :
        due[r] # NoBundle /\ reader[r].at = "idle" => result[r] = due[r]
=============================================================================
