-------------------------- MODULE Artifacts_proofs --------------------------
(***************************************************************************)
(* What the processes leave for each other, for any processes, identities, *)
(* horizons and numbers of versions: the inductive invariant of each       *)
(* component, and what it means for every behaviour of all of them.        *)
(***************************************************************************)
EXTENDS Artifacts, SequenceTheorems, FiniteSetTheorems, WellFoundedInduction, TLAPS

\* Each component takes its own steps, and none while another is explored.
LEMMA Components ==
    ArtifactsSpec =>
        /\ Spec
        /\ Publication!Spec /\ Overlay!Spec /\ Session!Spec
        /\ Registry!Spec /\ Market!Spec
<1>1. ArtifactsInit =>
        /\ Init /\ Publication!Init /\ Overlay!Init /\ Session!Init
        /\ Registry!Init /\ Market!Init
  BY DEF ArtifactsInit
<1> DEFINE all == <<focus, vars, publicationVars, overlayVars, sessionVars, log, marketVars>>
<1>2. [ArtifactsNext]_all =>
        /\ [Next]_vars /\ [Publication!Next]_(Publication!vars)
        /\ [Overlay!Next]_(Overlay!vars) /\ [Session!Next]_(Session!vars)
        /\ [Registry!Next]_log /\ [Market!Next]_(Market!vars)
  BY DEF ArtifactsNext, publicationVars, overlayVars, sessionVars, marketVars,
         Publication!vars, Overlay!vars, Session!vars, Market!vars
<1>3. QED
  BY <1>1, <1>2, PTL
     DEF ArtifactsSpec, Spec, Publication!Spec, Overlay!Spec, Session!Spec,
         Registry!Spec, Market!Spec

-----------------------------------------------------------------------------

USE BundlesAssumption

\* The initial state satisfies the inductive invariant.
LEMMA InitBundle == Init => IInv
BY DEF Init, IInv, TypeOK, ReaderInv, ReaderInvOf, AloneInv, WholeInv, DueInv,
       DueInvOf, NoRead,
       Files, Contents, Writers_, Readers_, Writing

\* Each step keeps the variables in their types.
LEMMA NextBundleTypes == TypeOK /\ [Next]_vars => TypeOK'
<1> SUFFICES ASSUME TypeOK, [Next]_vars PROVE TypeOK'
  OBVIOUS
<1> USE DEF TypeOK, Writers_, Readers_, Files
<1>0. /\ NoFile \in Contents
      /\ \A b \in Bundles : b.mu \in Contents /\ b.omega \in Contents /\ b.meta \in Contents
  BY DEF Contents
<1>1. ASSUME NEW w \in Writers, NEW b \in Bundles, BeginSave(w, b)
      PROVE  TypeOK'
  BY <1>1 DEF BeginSave
<1>2. ASSUME NEW w \in Writers, WriteFile(w)
      PROVE  TypeOK'
  BY <1>0, <1>2 DEF WriteFile, After, history
<1>3. ASSUME NEW w \in Writers, WriteManifest(w) \/ FailSave(w)
      PROVE  TypeOK'
  BY <1>3 DEF WriteManifest, FailSave
<1>4. ASSUME NEW r \in Readers, BeginLoad(r)
      PROVE  TypeOK'
  BY <1>0, <1>4 DEF BeginLoad, NoRead
<1>5. ASSUME NEW r \in Readers, ReadManifest(r)
      PROVE  TypeOK'
  BY <1>0, <1>5 DEF ReadManifest, NoRead, history
<1>6. ASSUME NEW r \in Readers, ReadFile(r)
      PROVE  TypeOK'
  <2>1. CASE reader[r].at = "mu"
    <3> DEFINE new == [reader[r] EXCEPT !.mu = file.mu, !.at = "omega"]
    <3>1. reader[r] \in Readers_ /\ file.mu \in Contents /\ file.omega \in Contents /\ file.meta \in Contents
      OBVIOUS
    <3>2. new \in Readers_ /\ new.manifest = reader[r].manifest
      BY <3>1
    <3>3. reader' = [reader EXCEPT ![r] = new]
      BY <1>6, <2>1 DEF ReadFile
    <3> HIDE DEF new
    <3>4. QED
      BY <1>6, <2>1, <3>2, <3>3 DEF ReadFile, history
  <2>2. CASE reader[r].at = "omega"
    <3> DEFINE new == [reader[r] EXCEPT !.omega = file.omega, !.at = "exists"]
    <3>1. reader[r] \in Readers_ /\ file.mu \in Contents /\ file.omega \in Contents /\ file.meta \in Contents
      OBVIOUS
    <3>2. new \in Readers_ /\ new.manifest = reader[r].manifest
      BY <3>1
    <3>3. reader' = [reader EXCEPT ![r] = new]
      BY <1>6, <2>2 DEF ReadFile
    <3> HIDE DEF new
    <3>4. QED
      BY <1>6, <2>2, <3>2, <3>3 DEF ReadFile, history
  <2>3. QED
    BY <1>6, <2>1, <2>2 DEF ReadFile
<1>7. ASSUME NEW r \in Readers, MetadataExists(r)
      PROVE  TypeOK'
  BY <1>7 DEF MetadataExists, history
<1>8. ASSUME NEW r \in Readers, ReadMetadata(r)
      PROVE  TypeOK'
  <2>1. CASE file.meta # NoFile
    <3> DEFINE new == [reader[r] EXCEPT !.meta = file.meta, !.at = "validate"]
    <3>1. reader[r] \in Readers_ /\ file.mu \in Contents /\ file.omega \in Contents /\ file.meta \in Contents
      OBVIOUS
    <3>2. new \in Readers_ /\ new.manifest = reader[r].manifest
      BY <3>1
    <3>3. reader' = [reader EXCEPT ![r] = new]
      BY <1>8, <2>1 DEF ReadMetadata
    <3> HIDE DEF new
    <3>4. QED
      BY <1>8, <2>1, <3>2, <3>3 DEF ReadMetadata, history
  <2>2. CASE file.meta = NoFile
    BY <1>0, <1>8, <2>2 DEF ReadMetadata, NoRead, history
  <2>3. QED
    BY <2>1, <2>2
<1>9. ASSUME NEW r \in Readers, Validate(r)
      PROVE  TypeOK'
  BY <1>0, <1>9 DEF Validate, Loaded, NoRead, history
<1>10. CASE UNCHANGED vars
  BY <1>10 DEF vars, code, history
<1>11. QED
  BY <1>1, <1>2, <1>3, <1>4, <1>5, <1>6, <1>7, <1>8, <1>9, <1>10 DEF Next, Save, Load

\* What ReadFile does to the record of the reader, field by field.
LEMMA ReadFileEffect ==
  ASSUME TypeOK, NEW r \in Readers, ReadFile(r)
  PROVE  /\ \A s \in Readers \ {r} : reader'[s] = reader[s]
         /\ reader'[r].meta = reader[r].meta
         /\ reader'[r].manifest = reader[r].manifest
         /\ reader[r].at = "mu" =>
               reader'[r].at = "omega" /\ reader'[r].mu = file.mu
         /\ reader[r].at = "omega" =>
               /\ reader'[r].at = "exists"
               /\ reader'[r].mu = reader[r].mu
               /\ reader'[r].omega = file.omega
<1> USE DEF TypeOK, Readers_, Files
<1>0. reader[r] \in Readers_
  OBVIOUS
<1>1. CASE reader[r].at = "mu"
  <2>1. reader' = [reader EXCEPT ![r] =
                      [reader[r] EXCEPT !.mu = file.mu, !.at = "omega"]]
    BY <1>1 DEF ReadFile
  <2>2. reader'[r] = [reader[r] EXCEPT !.mu = file.mu, !.at = "omega"]
    BY <2>1
  <2>3. \A s \in Readers \ {r} : reader'[s] = reader[s]
    BY <2>1
  <2> HIDE DEF TypeOK
  <2>4. QED
    BY <1>0, <1>1, <2>2, <2>3
<1>2. CASE reader[r].at = "omega"
  <2>1. reader' = [reader EXCEPT ![r] =
                      [reader[r] EXCEPT !.omega = file.omega, !.at = "exists"]]
    BY <1>2 DEF ReadFile
  <2>2. reader'[r] = [reader[r] EXCEPT !.omega = file.omega, !.at = "exists"]
    BY <2>1
  <2>3. \A s \in Readers \ {r} : reader'[s] = reader[s]
    BY <2>1
  <2> HIDE DEF TypeOK
  <2>4. QED
    BY <1>0, <1>2, <2>2, <2>3
<1>3. QED
  BY <1>1, <1>2 DEF ReadFile

\* A reader's record is empty until the part concerned has been read.
LEMMA NextReaderInv == IInv /\ [Next]_vars => ReaderInv'
<1> SUFFICES ASSUME IInv, [Next]_vars PROVE ReaderInv'
  OBVIOUS
<1> USE DEF IInv, TypeOK, Readers_, ReaderInv, ReaderInvOf, NoRead
<1>1. ASSUME NEW w \in Writers, NEW b \in Bundles, BeginSave(w, b)
      PROVE  ReaderInv'
  BY <1>1 DEF BeginSave
<1>2. ASSUME NEW w \in Writers, WriteFile(w)
      PROVE  ReaderInv'
  BY <1>2 DEF WriteFile, history
<1>3. ASSUME NEW w \in Writers, WriteManifest(w)
      PROVE  ReaderInv'
  BY <1>3 DEF WriteManifest
<1>4. ASSUME NEW w \in Writers, FailSave(w)
      PROVE  ReaderInv'
  BY <1>4 DEF FailSave
<1>5. ASSUME NEW r \in Readers, BeginLoad(r)
      PROVE  ReaderInv'
  BY <1>5 DEF BeginLoad
<1>6. ASSUME NEW r \in Readers, ReadManifest(r)
      PROVE  ReaderInv'
  BY <1>6 DEF ReadManifest, history
<1>7. ASSUME NEW r \in Readers, ReadFile(r)
      PROVE  ReaderInv'
  <2>1. UNCHANGED <<file, manifest, writer, result, history>>
    BY <1>7 DEF ReadFile
  <2>2. /\ \A s \in Readers \ {r} : reader'[s] = reader[s]
        /\ reader'[r].meta = reader[r].meta
        /\ reader'[r].manifest = reader[r].manifest
        /\ \/ /\ reader[r].at = "mu" /\ reader'[r].at = "omega"
              /\ reader'[r].mu = file.mu
           \/ /\ reader[r].at = "omega" /\ reader'[r].at = "exists"
              /\ reader'[r].mu = reader[r].mu
              /\ reader'[r].omega = file.omega
    BY <1>7, ReadFileEffect DEF ReadFile
  <2>3. ASSUME NEW s \in Readers
        PROVE  ReaderInvOf(s)'
    <3>1. CASE s = r
      BY <2>1, <2>2, <3>1 DEF history
    <3>2. CASE s # r
      BY <2>1, <2>2, <3>2 DEF history
    <3>3. QED
      BY <3>1, <3>2
  <2>4. QED
    BY <2>3
<1>8. ASSUME NEW r \in Readers, MetadataExists(r)
      PROVE  ReaderInv'
  BY <1>8 DEF MetadataExists, history
<1>9. ASSUME NEW r \in Readers, ReadMetadata(r)
      PROVE  ReaderInv'
  BY <1>9 DEF ReadMetadata, history
<1>10. ASSUME NEW r \in Readers, Validate(r)
      PROVE  ReaderInv'
  BY <1>10 DEF Validate, history
<1>11. CASE UNCHANGED vars
  BY <1>11 DEF vars, code, history
<1>12. QED
  BY <1>1, <1>2, <1>3, <1>4, <1>5, <1>6, <1>7, <1>8, <1>9, <1>10, <1>11
     DEF Next, Save, Load

\* No other writer replaces a file while a writer is alone.
LEMMA NextAloneInv == IInv /\ [Next]_vars => AloneInv'
<1> SUFFICES ASSUME IInv, [Next]_vars PROVE AloneInv'
  OBVIOUS
<1> USE DEF IInv, TypeOK, Writers_, AloneInv, Writing, After, Files
<1>1. ASSUME NEW w \in Writers, NEW b \in Bundles, BeginSave(w, b)
      PROVE  AloneInv'
  BY <1>1 DEF BeginSave
<1>2. ASSUME NEW w \in Writers, WriteFile(w)
      PROVE  AloneInv'
  <2>1. CASE writer[w].at = "mu"
    BY <1>2, <2>1 DEF WriteFile, history
  <2>2. CASE writer[w].at = "omega"
    BY <1>2, <2>2 DEF WriteFile, history
  <2>3. CASE writer[w].at = "meta"
    <3>1. writer[w].bundle \in Bundles
      BY <2>3
    <3>2. file' = [file EXCEPT !.meta = writer[w].bundle.meta]
      BY <1>2, <2>3 DEF WriteFile
    <3>3. w \in alone => file' = [mu |-> writer[w].bundle.mu, omega |-> writer[w].bundle.omega,
                                  meta |-> writer[w].bundle.meta]
      BY <2>3, <3>2
    <3>4. QED
      BY <1>2, <2>3, <3>1, <3>3 DEF WriteFile, history
  <2>4. QED
    BY <1>2, <2>1, <2>2, <2>3 DEF WriteFile
<1>3. ASSUME NEW w \in Writers, WriteManifest(w)
      PROVE  AloneInv'
  BY <1>3 DEF WriteManifest
<1>4. ASSUME NEW w \in Writers, FailSave(w)
      PROVE  AloneInv'
  BY <1>4 DEF FailSave
<1>5. ASSUME NEW r \in Readers, BeginLoad(r)
      PROVE  AloneInv'
  BY <1>5 DEF BeginLoad
<1>6. ASSUME NEW r \in Readers, ReadManifest(r)
      PROVE  AloneInv'
  BY <1>6 DEF ReadManifest, history
<1>7. ASSUME NEW r \in Readers, ReadFile(r)
      PROVE  AloneInv'
  BY <1>7 DEF ReadFile, history
<1>8. ASSUME NEW r \in Readers, MetadataExists(r)
      PROVE  AloneInv'
  BY <1>8 DEF MetadataExists, history
<1>9. ASSUME NEW r \in Readers, ReadMetadata(r)
      PROVE  AloneInv'
  BY <1>9 DEF ReadMetadata, history
<1>10. ASSUME NEW r \in Readers, Validate(r)
      PROVE  AloneInv'
  BY <1>10 DEF Validate, history
<1>11. CASE UNCHANGED vars
  BY <1>11 DEF vars, code, history
<1>12. QED
  BY <1>1, <1>2, <1>3, <1>4, <1>5, <1>6, <1>7, <1>8, <1>9, <1>10, <1>11
     DEF Next, Save, Load

\* The files change only while somebody writes.
LEMMA NextWholeInv == IInv /\ [Next]_vars => WholeInv'
<1> SUFFICES ASSUME IInv, [Next]_vars PROVE WholeInv'
  OBVIOUS
<1> USE DEF IInv, TypeOK, Writers_, AloneInv, WholeInv, Writing, Files
<1>1. ASSUME NEW w \in Writers, NEW b \in Bundles, BeginSave(w, b)
      PROVE  WholeInv'
  BY <1>1 DEF BeginSave
<1>2. ASSUME NEW w \in Writers, WriteFile(w)
      PROVE  WholeInv'
  BY <1>2 DEF WriteFile, history
<1>3. ASSUME NEW w \in Writers, WriteManifest(w)
      PROVE  WholeInv'
  BY <1>3 DEF WriteManifest
<1>4. ASSUME NEW w \in Writers, FailSave(w)
      PROVE  WholeInv'
  BY <1>4 DEF FailSave
<1>5. ASSUME NEW r \in Readers, BeginLoad(r)
      PROVE  WholeInv'
  BY <1>5 DEF BeginLoad
<1>6. ASSUME NEW r \in Readers, ReadManifest(r)
      PROVE  WholeInv'
  BY <1>6 DEF ReadManifest, history
<1>7. ASSUME NEW r \in Readers, ReadFile(r)
      PROVE  WholeInv'
  BY <1>7 DEF ReadFile, history
<1>8. ASSUME NEW r \in Readers, MetadataExists(r)
      PROVE  WholeInv'
  BY <1>8 DEF MetadataExists, history
<1>9. ASSUME NEW r \in Readers, ReadMetadata(r)
      PROVE  WholeInv'
  BY <1>9 DEF ReadMetadata, history
<1>10. ASSUME NEW r \in Readers, Validate(r)
      PROVE  WholeInv'
  BY <1>10 DEF Validate, history
<1>11. CASE UNCHANGED vars
  BY <1>11 DEF vars, code, history
<1>12. QED
  BY <1>1, <1>2, <1>3, <1>4, <1>5, <1>6, <1>7, <1>8, <1>9, <1>10, <1>11
     DEF Next, Save, Load

\* A reader copies what an undisturbed publication left.
LEMMA NextDueInv == IInv /\ [Next]_vars => DueInv'
<1> SUFFICES ASSUME IInv, [Next]_vars PROVE DueInv'
  OBVIOUS
<1> USE DEF IInv, TypeOK, Readers_, ReaderInv, ReaderInvOf, WholeInv,
            DueInv, DueInvOf, Writing, NoRead, Loaded
<1>1. ASSUME NEW w \in Writers, NEW b \in Bundles, BeginSave(w, b)
      PROVE  DueInv'
  BY <1>1 DEF BeginSave
<1>2. ASSUME NEW w \in Writers, WriteFile(w)
      PROVE  DueInv'
  BY <1>2 DEF WriteFile, history
<1>3. ASSUME NEW w \in Writers, WriteManifest(w)
      PROVE  DueInv'
  BY <1>3 DEF WriteManifest
<1>4. ASSUME NEW w \in Writers, FailSave(w)
      PROVE  DueInv'
  BY <1>4 DEF FailSave
<1>5. ASSUME NEW r \in Readers, BeginLoad(r)
      PROVE  DueInv'
  BY <1>5 DEF BeginLoad
<1>6. ASSUME NEW r \in Readers, ReadManifest(r)
      PROVE  DueInv'
  BY <1>6 DEF ReadManifest, history
<1>7. ASSUME NEW r \in Readers, ReadFile(r)
      PROVE  DueInv'
  <2>1. UNCHANGED <<file, manifest, writer, result, history>>
    BY <1>7 DEF ReadFile
  <2>2. /\ \A s \in Readers \ {r} : reader'[s] = reader[s]
        /\ reader'[r].meta = reader[r].meta
        /\ reader'[r].manifest = reader[r].manifest
        /\ \/ /\ reader[r].at = "mu" /\ reader'[r].at = "omega"
              /\ reader'[r].mu = file.mu
           \/ /\ reader[r].at = "omega" /\ reader'[r].at = "exists"
              /\ reader'[r].mu = reader[r].mu
              /\ reader'[r].omega = file.omega
    BY <1>7, ReadFileEffect DEF ReadFile
  <2>3. ASSUME NEW s \in Readers
        PROVE  DueInvOf(s)'
    <3>1. CASE s = r
      BY <2>1, <2>2, <3>1 DEF history
    <3>2. CASE s # r
      BY <2>1, <2>2, <3>2 DEF history
    <3>3. QED
      BY <3>1, <3>2
  <2>4. QED
    BY <2>3
<1>8. ASSUME NEW r \in Readers, MetadataExists(r)
      PROVE  DueInv'
  <2>1. /\ UNCHANGED <<file, manifest, writer, result, history>>
        /\ reader[r].at = "exists"
        /\ reader'[r] = [reader[r] EXCEPT
              !.at = IF file.meta = NoFile THEN "validate" ELSE "meta"]
        /\ \A s \in Readers \ {r} : reader'[s] = reader[s]
    BY <1>8 DEF MetadataExists
  <2>2. DueInvOf(r)'
    <3>1. CASE file.meta = NoFile
      BY <2>1, <3>1 DEF history
    <3>2. CASE file.meta # NoFile
      BY <2>1, <3>2 DEF history
    <3>3. QED
      BY <3>1, <3>2
  <2>3. ASSUME NEW s \in Readers \ {r}
        PROVE  DueInvOf(s)'
    BY <2>1 DEF history
  <2>4. QED
    BY <2>2, <2>3
<1>9. ASSUME NEW r \in Readers, ReadMetadata(r)
      PROVE  DueInv'
  BY <1>9 DEF ReadMetadata, history
<1>10. ASSUME NEW r \in Readers, Validate(r)
      PROVE  DueInv'
  BY <1>10 DEF Validate, history
<1>11. CASE UNCHANGED vars
  BY <1>11 DEF vars, code, history
<1>12. QED
  BY <1>1, <1>2, <1>3, <1>4, <1>5, <1>6, <1>7, <1>8, <1>9, <1>10, <1>11
     DEF Next, Save, Load

\* The inductive invariant of the bundle: types, what a reader past the manifest
\* has read, and what an undisturbed writer has left for it on disk.
THEOREM BundleInvariant == Spec => []IInv
<1>1. IInv /\ [Next]_vars => IInv'
  BY NextBundleTypes, NextReaderInv, NextAloneInv, NextWholeInv, NextDueInv DEF IInv
<1>2. QED
  BY InitBundle, <1>1, PTL DEF Spec

(* The variables of the .npy bundle keep their types: a reader past the     *)
(* manifest has found one, and a writer has a bundle exactly while it writes *)
(* (save_gap_matrices, load_gap_bundle).                                    *)
THEOREM TypeCorrect == Spec => []TypeOK
<1>1. IInv => TypeOK
  BY DEF IInv
<1>2. QED
  BY BundleInvariant, <1>1, PTL

\* A publication nothing disturbed is returned by every load that nothing
\* disturbs.
THEOREM Readable == ArtifactsSpec => []UndisturbedIsReadable
<1>1. IInv => UndisturbedIsReadable
  BY DEF IInv, WholeInv, DueInv, DueInvOf, UndisturbedIsReadable
<1>2. QED
  BY <1>1, Components, BundleInvariant, PTL

\* The files implement the register: a load returns nothing or the bundle
\* that was current when it read the manifest.
THEOREM BundleIsRegister == ArtifactsSpec => ReadsAreAtomic
<1> USE DEF IInv, TypeOK, Readers_, Writers_, Files, ReaderInv, ReaderInvOf,
            Register!vars, NoRead
<1>1. Init => Register!Init
  BY DEF Init, Register!Init
<1>2. IInv /\ [Next]_vars => [Register!Next]_(Register!vars)
  <2> SUFFICES ASSUME IInv, [Next]_vars
               PROVE  Register!Next \/ UNCHANGED Register!vars
    OBVIOUS
  <2>1. ASSUME NEW w \in Writers, NEW b \in Bundles, BeginSave(w, b)
        PROVE  UNCHANGED Register!vars
    BY <2>1 DEF BeginSave
  <2>2. ASSUME NEW w \in Writers, WriteFile(w) \/ FailSave(w)
        PROVE  UNCHANGED Register!vars
    BY <2>2 DEF WriteFile, FailSave
  <2>3. ASSUME NEW w \in Writers, WriteManifest(w)
        PROVE  Register!Publish
    BY <2>3 DEF WriteManifest, Register!Publish
  <2>4. ASSUME NEW r \in Readers, BeginLoad(r)
        PROVE  Register!Call(r)
    BY <2>4 DEF BeginLoad, Register!Call
  <2>5. ASSUME NEW r \in Readers, ReadManifest(r)
        PROVE  Register!Look(r)
    BY <2>5 DEF ReadManifest, Register!Look
  <2>6. ASSUME NEW r \in Readers, ReadFile(r)
        PROVE  UNCHANGED Register!vars
    <3>1. \A s \in Readers : reader'[s].manifest = reader[s].manifest
      BY <2>6, ReadFileEffect
    <3>2. QED
      BY <2>6, <3>1 DEF ReadFile
  <2>7. ASSUME NEW r \in Readers, MetadataExists(r)
        PROVE  UNCHANGED Register!vars
    BY <2>7 DEF MetadataExists
  <2>8. ASSUME NEW r \in Readers, ReadMetadata(r)
        PROVE  Register!Answer(r) \/ UNCHANGED Register!vars
    BY <2>8 DEF ReadMetadata, Register!Answer
  <2>9. ASSUME NEW r \in Readers, Validate(r)
        PROVE  Register!Answer(r)
    <3>1. reader[r].manifest # NoBundle /\ reader' = [reader EXCEPT ![r] = NoRead]
      BY <2>9 DEF Validate
    <3>2. [s \in Readers |-> reader'[s].manifest] =
             [[s \in Readers |-> reader[s].manifest] EXCEPT ![r] = NoBundle]
      BY <3>1
    <3>3. CASE Loaded(r) = reader[r].manifest
      BY <2>9, <3>1, <3>2, <3>3 DEF Validate, Register!Answer
    <3>4. CASE Loaded(r) # reader[r].manifest
      <4>1. result' = result
        BY <2>9, <3>4 DEF Validate
      <4>2. QED
        BY <2>9, <3>1, <3>2, <4>1 DEF Validate, Register!Answer
    <3>5. QED
      BY <3>3, <3>4
  <2>10. CASE UNCHANGED vars
    BY <2>10 DEF vars, code
  <2>11. QED
    BY <2>1, <2>2, <2>3, <2>4, <2>5, <2>6, <2>7, <2>8, <2>9, <2>10
       DEF Next, Save, Load, Register!Next
<1>3. QED
  BY <1>1, <1>2, Components, BundleInvariant, PTL DEF Spec, ReadsAreAtomic, Register!Spec

HIDE BundlesAssumption

-----------------------------------------------------------------------------

Identities == [frame : Nat, quotes : Captures]

PublisherTypes ==
    [at : {"idle", "quotes", "save", "rank", "verify", "passed", "failed"},
     frame : Nat \cup {None}, quotes : Captures \cup {None}, next : DOMAIN Horizons]

DeciderTypes ==
    [at : {"idle", "frame", "rank", "blend", "decided", "raised", "flat"},
     frame : Nat \cup {None}, quotes : Captures \cup {None},
     rank : Nat \cup {None}, blend : Seq(Identities), cached : Nat]

PublicationTypes ==
    /\ quotes \in Captures \cup {None, Partial}
    /\ frame \in Nat
    /\ bundle \in [DOMAIN Horizons -> Identities \cup {None}]
    /\ rank \in Nat \cup {None}
    /\ capture \in [Captures -> {"idle", "created", "done", "failed"}]
    /\ publisher \in [Publishers -> PublisherTypes]
    /\ decider \in [Deciders -> DeciderTypes]
    /\ onTime \in SUBSET Deciders

\* What a publisher and a decision hold at each of their steps.
HeldInv ==
    /\ \A p \in Publishers :
          /\ publisher[p].at \in {"idle", "quotes"} =>
                publisher[p].quotes = None /\ publisher[p].next = 1
          /\ publisher[p].at \in {"save", "rank", "verify", "passed"} =>
                publisher[p].quotes # None
          /\ publisher[p].at \in {"quotes", "save", "rank", "verify", "passed"} =>
                publisher[p].frame \in Nat
    /\ \A d \in Deciders :
          /\ decider[d].at \in {"frame", "rank", "blend", "decided", "flat"} =>
                decider[d].quotes # None
          /\ decider[d].at \in {"rank", "blend", "decided", "flat"} =>
                decider[d].frame \in Nat
          /\ decider[d].at \in {"idle", "frame", "rank"} =>
                decider[d].blend = <<>> /\ decider[d].cached = 0
          /\ decider[d].at = "blend" => Len(decider[d].blend) < Len(Horizons)

\* One capture creates the file; nothing else writes it.
QuoteInv ==
    /\ \A c, e \in Captures : capture[c] = "created" /\ capture[e] = "created" => c = e
    /\ \A c \in Captures : capture[c] = "created" => quotes = Partial
    /\ \A p \in Publishers : publisher[p].quotes \in {None, quotes}
    /\ \A d \in Deciders : decider[d].quotes \in {None, quotes}

\* p is the only publisher that saves.
Sole(p) ==
    /\ publisher[p].quotes # None
    /\ \A q \in Publishers : publisher[q].quotes # None => q = p

\* What the only publisher has saved stays.
StoreInv ==
    \A p \in Publishers : Sole(p) =>
        /\ publisher[p].at = "save" => \A h \in DOMAIN Horizons :
              h < publisher[p].next => bundle[h] = Publication!Identity(publisher[p])
        /\ publisher[p].at \in {"rank", "verify", "passed"} => \A h \in DOMAIN Horizons :
              bundle[h] = Publication!Identity(publisher[p])
        /\ publisher[p].at \in {"verify", "passed"} => rank = publisher[p].frame

\* A decision that began to resolve after a publisher had passed.
OnTimeInv ==
    \A d \in onTime :
        /\ decider[d].at \in {"blend", "decided", "flat"}
        /\ \E p \in Publishers : publisher[p].at = "passed"
        /\ \A p \in Publishers :
              Sole(p) /\ publisher[p].frame = decider[d].frame =>
                 /\ decider[d].at # "flat"
                 /\ decider[d].rank = publisher[p].frame
                 /\ decider[d].cached = Len(decider[d].blend)

PublicationInv ==
    /\ PublicationTypes /\ HeldInv /\ QuoteInv
    /\ Publication!BlendIsOfOneIdentity /\ StoreInv /\ OnTimeInv

PublicationStep == [Publication!Next]_(Publication!vars)

\* At first there is nothing.
LEMMA InitPublication == Publication!Init => PublicationInv
BY PublicationAssumption
   DEF Publication!PublicationAssumption, Publication!Init, PublicationInv,
       PublicationTypes, HeldInv, QuoteInv, StoreInv, OnTimeInv,
       Publication!BlendIsOfOneIdentity, Sole, PublisherTypes, DeciderTypes, Identities

\* The decision with one more horizon of its own identity.
LEMMA ResolvedFields ==
    ASSUME PublicationInv, NEW d \in Deciders, decider[d].at = "blend",
           NEW cached \in Nat
    PROVE  LET mine == Publication!Identity(decider[d])
               new == Publication!Resolved(d, mine, cached)
           IN  /\ new \in DeciderTypes
               /\ new.at \in {"blend", "decided"}
               /\ new.frame = decider[d].frame /\ new.quotes = decider[d].quotes
               /\ new.rank = decider[d].rank
               /\ new.blend = Append(decider[d].blend, mine)
               /\ new.cached = decider[d].cached + cached
               /\ new.at = "blend" => Len(new.blend) < Len(Horizons)
<1> DEFINE mine == Publication!Identity(decider[d])
           blend == Append(decider[d].blend, mine)
           at == IF Len(blend) = Len(Horizons) THEN "decided" ELSE "blend"
           total == decider[d].cached + cached
           new == [decider[d] EXCEPT !.blend = blend, !.cached = total, !.at = at]
<1>1. decider[d] \in DeciderTypes /\ decider[d].frame \in Nat /\ decider[d].quotes \in Captures
  BY DEF PublicationInv, PublicationTypes, HeldInv, DeciderTypes
<1>2. mine \in Identities
  BY <1>1 DEF Publication!Identity, Identities
<1>3. /\ Len(decider[d].blend) < Len(Horizons) /\ Len(Horizons) \in Nat
      /\ decider[d].blend \in Seq(Identities)
  BY <1>1, PublicationAssumption
     DEF Publication!PublicationAssumption, PublicationInv, HeldInv, DeciderTypes
<1>4. blend \in Seq(Identities) /\ Len(blend) = Len(decider[d].blend) + 1
  BY <1>2, <1>3
<1>5. at \in {"decided", "blend"} /\ (at = "blend" => Len(blend) < Len(Horizons))
  BY <1>3, <1>4
<1>6. Publication!Resolved(d, mine, cached) = new
  BY DEF Publication!Resolved
<1>7. total \in Nat
  BY <1>1 DEF DeciderTypes
<1> HIDE DEF mine, blend, at, total
<1>8. /\ new.at = at /\ new.blend = blend /\ new.cached = total
      /\ new.frame = decider[d].frame /\ new.quotes = decider[d].quotes
      /\ new.rank = decider[d].rank
  BY <1>1 DEF DeciderTypes
<1>9. at \in {"idle", "frame", "rank", "blend", "decided", "raised", "flat"}
  BY <1>5
<1>10. new \in DeciderTypes
  BY <1>1, <1>4, <1>7, <1>9 DEF DeciderTypes
<1>11. QED
  BY <1>5, <1>6, <1>8, <1>10 DEF mine, blend, total

\* A horizon is resolved with the identity of the decision, from the store if
\* it has that; only otherwise may the decision be flat.
LEMMA ResolveEffect ==
    ASSUME PublicationInv, NEW d \in Deciders, Publication!ResolveHorizon(d)
    PROVE  LET h == Len(decider[d].blend) + 1
               mine == Publication!Identity(decider[d])
           IN  /\ decider[d].at = "blend" /\ h \in DOMAIN Horizons
               /\ UNCHANGED <<quotes, frame, bundle, rank, capture, publisher, onTime>>
               /\ \E new \in DeciderTypes :
                     /\ decider' = [decider EXCEPT ![d] = new]
                     /\ new.frame = decider[d].frame /\ new.quotes = decider[d].quotes
                     /\ new.rank = decider[d].rank
                     /\ \/ /\ new.at = "flat" /\ bundle[h] # mine
                           /\ new.blend = decider[d].blend
                        \/ /\ new.at \in {"blend", "decided"}
                           /\ new.blend = Append(decider[d].blend, mine)
                           /\ new.at = "blend" => Len(new.blend) < Len(Horizons)
                           /\ bundle[h] = mine => new.cached = decider[d].cached + 1
<1> DEFINE h == Len(decider[d].blend) + 1
           mine == Publication!Identity(decider[d])
<1>1. decider[d].at = "blend" /\ decider[d] \in DeciderTypes
  BY DEF Publication!ResolveHorizon, PublicationInv, PublicationTypes
<1>2. h \in DOMAIN Horizons
  BY <1>1, PublicationAssumption
     DEF Publication!PublicationAssumption, PublicationInv, HeldInv, DeciderTypes
<1>3. UNCHANGED <<quotes, frame, bundle, rank, capture, publisher, onTime>>
  BY DEF Publication!ResolveHorizon
<1>4. \/ bundle[h] = mine /\ decider' = [decider EXCEPT ![d] = Publication!Resolved(d, mine, 1)]
      \/ bundle[h] # mine /\ decider' = [decider EXCEPT ![d] = Publication!Resolved(d, mine, 0)]
      \/ bundle[h] # mine /\ decider' = [decider EXCEPT ![d].at = "flat"]
  BY DEF Publication!ResolveHorizon, Publication!Servable
<1> HIDE DEF h, mine
<1>5. ASSUME NEW cached \in Nat, decider' = [decider EXCEPT ![d] = Publication!Resolved(d, mine, cached)],
             bundle[h] = mine => cached = 1
      PROVE  \E new \in DeciderTypes :
                /\ decider' = [decider EXCEPT ![d] = new]
                /\ new.frame = decider[d].frame /\ new.quotes = decider[d].quotes
                /\ new.rank = decider[d].rank
                /\ new.at \in {"blend", "decided"}
                /\ new.blend = Append(decider[d].blend, mine)
                /\ new.at = "blend" => Len(new.blend) < Len(Horizons)
                /\ bundle[h] = mine => new.cached = decider[d].cached + 1
  <2> DEFINE new == Publication!Resolved(d, mine, cached)
  <2>1. /\ new \in DeciderTypes
        /\ new.at \in {"blend", "decided"}
        /\ new.frame = decider[d].frame /\ new.quotes = decider[d].quotes
        /\ new.rank = decider[d].rank
        /\ new.blend = Append(decider[d].blend, mine)
        /\ new.cached = decider[d].cached + cached
        /\ new.at = "blend" => Len(new.blend) < Len(Horizons)
    BY <1>1, ResolvedFields DEF mine
  <2>2. decider' = [decider EXCEPT ![d] = new]
    BY <1>5
  <2> HIDE DEF new
  <2>3. QED
    BY <1>5, <2>1, <2>2
<1>6. ASSUME decider' = [decider EXCEPT ![d].at = "flat"]
      PROVE  \E new \in DeciderTypes :
                /\ decider' = [decider EXCEPT ![d] = new]
                /\ new.frame = decider[d].frame /\ new.quotes = decider[d].quotes
                /\ new.rank = decider[d].rank
                /\ new.at = "flat" /\ new.blend = decider[d].blend
  <2> DEFINE new == [decider[d] EXCEPT !.at = "flat"]
  <2>1. /\ new \in DeciderTypes /\ new.at = "flat" /\ new.blend = decider[d].blend
        /\ new.frame = decider[d].frame /\ new.quotes = decider[d].quotes
        /\ new.rank = decider[d].rank
    BY <1>1 DEF DeciderTypes
  <2>2. decider' = [decider EXCEPT ![d] = new]
    BY <1>6
  <2> HIDE DEF new
  <2>3. QED
    BY <2>1, <2>2
<1>7. QED
  BY <1>1, <1>2, <1>3, <1>4, <1>5, <1>6 DEF h, mine

\* Each step keeps the variables in their types.
LEMMA NextPublicationTypes == PublicationInv /\ PublicationStep => PublicationTypes'
<1> SUFFICES ASSUME PublicationInv, PublicationStep PROVE PublicationTypes'
  OBVIOUS
<1> USE DEF PublicationInv, PublicationTypes
<1>1. ASSUME NEW c \in Captures, Publication!CreateQuotes(c) PROVE PublicationTypes'
  BY <1>1 DEF Publication!CreateQuotes
<1>2. ASSUME NEW c \in Captures, Publication!WriteQuotes(c) PROVE PublicationTypes'
  BY <1>2 DEF Publication!WriteQuotes
<1>3. ASSUME NEW c \in Captures, Publication!KeepQuotes(c) PROVE PublicationTypes'
  BY <1>3 DEF Publication!KeepQuotes
<1>4. ASSUME NEW c \in Captures, Publication!CrashCapture(c) PROVE PublicationTypes'
  BY <1>4 DEF Publication!CrashCapture
<1>5. CASE Publication!RebuildFrame
  BY <1>5 DEF Publication!RebuildFrame
<1>6. ASSUME NEW p \in Publishers, Publication!LoadInputs(p) PROVE PublicationTypes'
  <2> DEFINE new == [publisher[p] EXCEPT !.at = "quotes", !.frame = frame]
  <2>1. new \in PublisherTypes
    BY <1>6 DEF PublisherTypes
  <2>2. publisher' = [publisher EXCEPT ![p] = new]
    BY <1>6 DEF Publication!LoadInputs
  <2> HIDE DEF new
  <2>3. QED
    BY <1>6, <2>1, <2>2 DEF Publication!LoadInputs
<1>7. ASSUME NEW p \in Publishers, Publication!Compute(p) PROVE PublicationTypes'
  <2> DEFINE new == IF quotes \in Captures
                    THEN [publisher[p] EXCEPT !.at = "save", !.quotes = quotes]
                    ELSE [publisher[p] EXCEPT !.at = "failed"]
  <2>1. new \in PublisherTypes
    <3>1. quotes \in Captures => [publisher[p] EXCEPT !.at = "save", !.quotes = quotes] \in PublisherTypes
      BY <1>7 DEF PublisherTypes
    <3>2. [publisher[p] EXCEPT !.at = "failed"] \in PublisherTypes
      BY <1>7 DEF PublisherTypes
    <3>3. QED
      BY <3>1, <3>2
  <2>2. publisher' = [publisher EXCEPT ![p] = new]
    BY <1>7 DEF Publication!Compute
  <2> HIDE DEF new
  <2>3. QED
    BY <1>7, <2>1, <2>2 DEF Publication!Compute
<1>8. ASSUME NEW p \in Publishers, Publication!SaveHorizon(p) PROVE PublicationTypes'
  <2> DEFINE h == publisher[p].next
             new == IF h = Len(Horizons)
                    THEN [publisher[p] EXCEPT !.at = "rank", !.next = 1]
                    ELSE [publisher[p] EXCEPT !.next = h + 1]
  <2>1. publisher[p] \in PublisherTypes /\ publisher[p].at = "save"
    BY <1>8 DEF Publication!SaveHorizon
  <2>2. h \in 1 .. Len(Horizons) /\ Len(Horizons) \in Nat /\ 1 \in DOMAIN Horizons
        /\ DOMAIN Horizons = 1 .. Len(Horizons)
    BY <2>1, PublicationAssumption DEF Publication!PublicationAssumption, PublisherTypes
  <2>3. new \in PublisherTypes
    <3>1. CASE h = Len(Horizons)
      BY <2>1, <2>2, <3>1 DEF PublisherTypes
    <3>2. CASE h # Len(Horizons)
      <4>1. h + 1 \in DOMAIN Horizons
        BY <2>2, <3>2
      <4>2. QED
        BY <2>1, <4>1, <3>2 DEF PublisherTypes
    <3>3. QED
      BY <3>1, <3>2
  <2>4. Publication!Identity(publisher[p]) \in Identities
    BY <2>1 DEF HeldInv, PublisherTypes, Publication!Identity, Identities
  <2>5. /\ publisher' = [publisher EXCEPT ![p] = new]
        /\ bundle' = [bundle EXCEPT ![h] = Publication!Identity(publisher[p])]
        /\ UNCHANGED <<quotes, frame, rank, capture, decider, onTime>>
    BY <1>8 DEF Publication!SaveHorizon
  <2> HIDE DEF new, h
  <2>6. QED
    BY <2>3, <2>4, <2>5
<1>9. ASSUME NEW p \in Publishers, Publication!SaveRank(p) PROVE PublicationTypes'
  BY <1>9 DEF Publication!SaveRank, HeldInv, PublisherTypes
<1>10. ASSUME NEW p \in Publishers, Publication!Verify(p) PROVE PublicationTypes'
  <2> DEFINE h == publisher[p].next
             new == IF ~Publication!Servable(h, publisher[p])
                    THEN [publisher[p] EXCEPT !.at = "failed"]
                    ELSE IF h = Len(Horizons)
                         THEN [publisher[p] EXCEPT !.at = "passed"]
                         ELSE [publisher[p] EXCEPT !.next = h + 1]
  <2>1. publisher[p] \in PublisherTypes
    BY <1>10
  <2>2. h \in 1 .. Len(Horizons) /\ Len(Horizons) \in Nat
        /\ DOMAIN Horizons = 1 .. Len(Horizons)
    BY <2>1, PublicationAssumption DEF Publication!PublicationAssumption, PublisherTypes
  <2>3. h # Len(Horizons) => h + 1 \in DOMAIN Horizons
    BY <2>2
  <2>4. new \in PublisherTypes
    <3>1. [publisher[p] EXCEPT !.at = "failed"] \in PublisherTypes
      BY <2>1 DEF PublisherTypes
    <3>2. [publisher[p] EXCEPT !.at = "passed"] \in PublisherTypes
      BY <2>1 DEF PublisherTypes
    <3>3. h # Len(Horizons) => [publisher[p] EXCEPT !.next = h + 1] \in PublisherTypes
      BY <2>1, <2>3 DEF PublisherTypes
    <3>4. QED
      BY <3>1, <3>2, <3>3
  <2>5. publisher' = [publisher EXCEPT ![p] = new]
        /\ UNCHANGED <<quotes, frame, bundle, rank, capture, decider, onTime>>
    BY <1>10 DEF Publication!Verify
  <2> HIDE DEF new
  <2>6. QED
    BY <2>4, <2>5
<1>11. ASSUME NEW p \in Publishers, Publication!FailPublisher(p) PROVE PublicationTypes'
  BY <1>11 DEF Publication!FailPublisher, PublisherTypes
<1>12. ASSUME NEW d \in Deciders, Publication!LoadQuotes(d) PROVE PublicationTypes'
  <2> DEFINE new == IF quotes \in Captures
                    THEN [decider[d] EXCEPT !.at = "frame", !.quotes = quotes]
                    ELSE [decider[d] EXCEPT !.at = "raised"]
  <2>1. new \in DeciderTypes
    <3>1. quotes \in Captures => [decider[d] EXCEPT !.at = "frame", !.quotes = quotes] \in DeciderTypes
      BY <1>12 DEF DeciderTypes
    <3>2. [decider[d] EXCEPT !.at = "raised"] \in DeciderTypes
      BY <1>12 DEF DeciderTypes
    <3>3. QED
      BY <3>1, <3>2
  <2>2. decider' = [decider EXCEPT ![d] = new]
    BY <1>12 DEF Publication!LoadQuotes
  <2> HIDE DEF new
  <2>3. QED
    BY <1>12, <2>1, <2>2 DEF Publication!LoadQuotes
<1>13. ASSUME NEW d \in Deciders, Publication!LoadFrame(d) PROVE PublicationTypes'
  <2> DEFINE new == [decider[d] EXCEPT !.at = "rank", !.frame = frame]
  <2>1. new \in DeciderTypes
    BY <1>13 DEF DeciderTypes
  <2>2. decider' = [decider EXCEPT ![d] = new]
    BY <1>13 DEF Publication!LoadFrame
  <2> HIDE DEF new
  <2>3. QED
    BY <1>13, <2>1, <2>2 DEF Publication!LoadFrame
<1>14. ASSUME NEW d \in Deciders, Publication!LoadRank(d) PROVE PublicationTypes'
  <2> DEFINE new == [decider[d] EXCEPT !.at = "blend", !.rank = rank]
  <2>1. new \in DeciderTypes
    BY <1>14 DEF DeciderTypes
  <2>2. decider' = [decider EXCEPT ![d] = new]
    BY <1>14 DEF Publication!LoadRank
  <2> HIDE DEF new
  <2>3. QED
    BY <1>14, <2>1, <2>2 DEF Publication!LoadRank
<1>15. ASSUME NEW d \in Deciders, Publication!ResolveHorizon(d) PROVE PublicationTypes'
  <2> DEFINE h == Len(decider[d].blend) + 1
             mine == Publication!Identity(decider[d])
  <2>1. /\ decider[d].at = "blend" /\ h \in DOMAIN Horizons
        /\ UNCHANGED <<quotes, frame, bundle, rank, capture, publisher, onTime>>
    BY <1>15, ResolveEffect
  <2>2. PICK new \in DeciderTypes :
           /\ decider' = [decider EXCEPT ![d] = new]
           /\ new.frame = decider[d].frame /\ new.quotes = decider[d].quotes
           /\ new.rank = decider[d].rank
           /\ \/ /\ new.at = "flat" /\ bundle[h] # mine
                 /\ new.blend = decider[d].blend
              \/ /\ new.at \in {"blend", "decided"}
                 /\ new.blend = Append(decider[d].blend, mine)
                 /\ new.at = "blend" => Len(new.blend) < Len(Horizons)
                 /\ bundle[h] = mine => new.cached = decider[d].cached + 1
    BY <1>15, ResolveEffect
  <2>3. QED
    BY <2>1, <2>2
<1>16. CASE UNCHANGED Publication!vars
  BY <1>16 DEF Publication!vars
<1>17. QED
  BY <1>1, <1>2, <1>3, <1>4, <1>5, <1>6, <1>7, <1>8,
     <1>9, <1>10, <1>11, <1>12, <1>13, <1>14, <1>15, <1>16
     DEF PublicationStep, Publication!Next, Publication!Capture, Publication!Publish,
         Publication!Decide

\* Each step leaves with its process what the next one needs.
LEMMA NextHeldInv == PublicationInv /\ PublicationStep => HeldInv'
<1> SUFFICES ASSUME PublicationInv, PublicationStep PROVE HeldInv'
  OBVIOUS
<1> USE PublicationAssumption
   DEF Publication!PublicationAssumption, PublicationInv, PublicationTypes,
       PublisherTypes, DeciderTypes, HeldInv
<1>1. ASSUME NEW c \in Captures, Publication!CreateQuotes(c) PROVE HeldInv'
  BY <1>1 DEF Publication!CreateQuotes
<1>2. ASSUME NEW c \in Captures, Publication!WriteQuotes(c) PROVE HeldInv'
  BY <1>2 DEF Publication!WriteQuotes
<1>3. ASSUME NEW c \in Captures, Publication!KeepQuotes(c) PROVE HeldInv'
  BY <1>3 DEF Publication!KeepQuotes
<1>4. ASSUME NEW c \in Captures, Publication!CrashCapture(c) PROVE HeldInv'
  BY <1>4 DEF Publication!CrashCapture
<1>5. CASE Publication!RebuildFrame
  BY <1>5 DEF Publication!RebuildFrame
<1>6. ASSUME NEW p \in Publishers, Publication!LoadInputs(p) PROVE HeldInv'
  BY <1>6 DEF Publication!LoadInputs
<1>7. ASSUME NEW p \in Publishers, Publication!Compute(p) PROVE HeldInv'
  BY <1>7 DEF Publication!Compute
<1>8. ASSUME NEW p \in Publishers, Publication!SaveHorizon(p) PROVE HeldInv'
  BY <1>8 DEF Publication!SaveHorizon, Publication!Identity
<1>9. ASSUME NEW p \in Publishers, Publication!SaveRank(p) PROVE HeldInv'
  BY <1>9 DEF Publication!SaveRank
<1>10. ASSUME NEW p \in Publishers, Publication!Verify(p) PROVE HeldInv'
  BY <1>10 DEF Publication!Verify, Publication!Servable
<1>11. ASSUME NEW p \in Publishers, Publication!FailPublisher(p) PROVE HeldInv'
  BY <1>11 DEF Publication!FailPublisher
<1>12. ASSUME NEW d \in Deciders, Publication!LoadQuotes(d) PROVE HeldInv'
  BY <1>12 DEF Publication!LoadQuotes
<1>13. ASSUME NEW d \in Deciders, Publication!LoadFrame(d) PROVE HeldInv'
  BY <1>13 DEF Publication!LoadFrame
<1>14. ASSUME NEW d \in Deciders, Publication!LoadRank(d) PROVE HeldInv'
  <2>1. Len(<<>>) < Len(Horizons)
    OBVIOUS
  <2>2. QED
    BY <1>14, <2>1 DEF Publication!LoadRank
<1>15. ASSUME NEW d \in Deciders, Publication!ResolveHorizon(d) PROVE HeldInv'
  <2> DEFINE h == Len(decider[d].blend) + 1
             mine == Publication!Identity(decider[d])
  <2>1. /\ decider[d].at = "blend" /\ h \in DOMAIN Horizons
        /\ UNCHANGED <<quotes, frame, bundle, rank, capture, publisher, onTime>>
    BY <1>15, ResolveEffect
  <2>2. PICK new \in DeciderTypes :
           /\ decider' = [decider EXCEPT ![d] = new]
           /\ new.frame = decider[d].frame /\ new.quotes = decider[d].quotes
           /\ new.rank = decider[d].rank
           /\ \/ /\ new.at = "flat" /\ bundle[h] # mine
                 /\ new.blend = decider[d].blend
              \/ /\ new.at \in {"blend", "decided"}
                 /\ new.blend = Append(decider[d].blend, mine)
                 /\ new.at = "blend" => Len(new.blend) < Len(Horizons)
                 /\ bundle[h] = mine => new.cached = decider[d].cached + 1
    BY <1>15, ResolveEffect
  <2> HIDE DEF h, mine
  <2>3. \A e \in Deciders \ {d} : decider'[e] = decider[e]
    BY <2>2
  <2>4. decider'[d] = new /\ publisher' = publisher
    BY <2>1, <2>2
  <2>5. decider[d].quotes # None /\ decider[d].frame \in Nat
        /\ Len(decider[d].blend) < Len(Horizons)
    BY <2>1
  <2> HIDE DEF DeciderTypes, PublisherTypes
  <2>6. QED
    BY <2>2, <2>3, <2>4, <2>5
<1>16. CASE UNCHANGED Publication!vars
  BY <1>16 DEF Publication!vars
<1>17. QED
  BY <1>1, <1>2, <1>3, <1>4, <1>5, <1>6, <1>7, <1>8,
     <1>9, <1>10, <1>11, <1>12, <1>13, <1>14, <1>15, <1>16
     DEF PublicationStep, Publication!Next, Publication!Capture, Publication!Publish,
         Publication!Decide

\* The first file that is written is the last.
LEMMA NextQuoteInv == PublicationInv /\ PublicationStep => QuoteInv'
<1> SUFFICES ASSUME PublicationInv, PublicationStep PROVE QuoteInv'
  OBVIOUS
<1> USE PublicationAssumption
   DEF Publication!PublicationAssumption, PublicationInv, PublicationTypes,
       PublisherTypes, DeciderTypes, HeldInv, QuoteInv
<1>1. ASSUME NEW c \in Captures, Publication!CreateQuotes(c) PROVE QuoteInv'
  BY <1>1 DEF Publication!CreateQuotes
<1>2. ASSUME NEW c \in Captures, Publication!WriteQuotes(c) PROVE QuoteInv'
  BY <1>2 DEF Publication!WriteQuotes
<1>3. ASSUME NEW c \in Captures, Publication!KeepQuotes(c) PROVE QuoteInv'
  BY <1>3 DEF Publication!KeepQuotes
<1>4. ASSUME NEW c \in Captures, Publication!CrashCapture(c) PROVE QuoteInv'
  BY <1>4 DEF Publication!CrashCapture
<1>5. CASE Publication!RebuildFrame
  BY <1>5 DEF Publication!RebuildFrame
<1>6. ASSUME NEW p \in Publishers, Publication!LoadInputs(p) PROVE QuoteInv'
  BY <1>6 DEF Publication!LoadInputs
<1>7. ASSUME NEW p \in Publishers, Publication!Compute(p) PROVE QuoteInv'
  BY <1>7 DEF Publication!Compute
<1>8. ASSUME NEW p \in Publishers, Publication!SaveHorizon(p) PROVE QuoteInv'
  BY <1>8 DEF Publication!SaveHorizon, Publication!Identity
<1>9. ASSUME NEW p \in Publishers, Publication!SaveRank(p) PROVE QuoteInv'
  BY <1>9 DEF Publication!SaveRank
<1>10. ASSUME NEW p \in Publishers, Publication!Verify(p) PROVE QuoteInv'
  BY <1>10 DEF Publication!Verify, Publication!Servable
<1>11. ASSUME NEW p \in Publishers, Publication!FailPublisher(p) PROVE QuoteInv'
  BY <1>11 DEF Publication!FailPublisher
<1>12. ASSUME NEW d \in Deciders, Publication!LoadQuotes(d) PROVE QuoteInv'
  BY <1>12 DEF Publication!LoadQuotes
<1>13. ASSUME NEW d \in Deciders, Publication!LoadFrame(d) PROVE QuoteInv'
  BY <1>13 DEF Publication!LoadFrame
<1>14. ASSUME NEW d \in Deciders, Publication!LoadRank(d) PROVE QuoteInv'
  BY <1>14 DEF Publication!LoadRank
<1>15. ASSUME NEW d \in Deciders, Publication!ResolveHorizon(d) PROVE QuoteInv'
  <2> DEFINE h == Len(decider[d].blend) + 1
             mine == Publication!Identity(decider[d])
  <2>1. /\ decider[d].at = "blend" /\ h \in DOMAIN Horizons
        /\ UNCHANGED <<quotes, frame, bundle, rank, capture, publisher, onTime>>
    BY <1>15, ResolveEffect
  <2>2. PICK new \in DeciderTypes :
           /\ decider' = [decider EXCEPT ![d] = new]
           /\ new.frame = decider[d].frame /\ new.quotes = decider[d].quotes
           /\ new.rank = decider[d].rank
           /\ \/ /\ new.at = "flat" /\ bundle[h] # mine
                 /\ new.blend = decider[d].blend
              \/ /\ new.at \in {"blend", "decided"}
                 /\ new.blend = Append(decider[d].blend, mine)
                 /\ new.at = "blend" => Len(new.blend) < Len(Horizons)
                 /\ bundle[h] = mine => new.cached = decider[d].cached + 1
    BY <1>15, ResolveEffect
  <2> HIDE DEF h, mine
  <2>3. QED
    BY <2>1, <2>2
<1>16. CASE UNCHANGED Publication!vars
  BY <1>16 DEF Publication!vars
<1>17. QED
  BY <1>1, <1>2, <1>3, <1>4, <1>5, <1>6, <1>7, <1>8,
     <1>9, <1>10, <1>11, <1>12, <1>13, <1>14, <1>15, <1>16
     DEF PublicationStep, Publication!Next, Publication!Capture, Publication!Publish,
         Publication!Decide

\* Only what carries the identity of the inputs of a decision enters its blend.
LEMMA NextBlend == PublicationInv /\ PublicationStep => Publication!BlendIsOfOneIdentity'
<1> SUFFICES ASSUME PublicationInv, PublicationStep
             PROVE  Publication!BlendIsOfOneIdentity'
  OBVIOUS
<1> USE PublicationAssumption
   DEF Publication!PublicationAssumption, PublicationInv, PublicationTypes, HeldInv,
       Publication!BlendIsOfOneIdentity, Publication!Identity
<1>1. ASSUME NEW c \in Captures, Publication!CreateQuotes(c)
      PROVE  Publication!BlendIsOfOneIdentity'
  BY <1>1 DEF Publication!CreateQuotes
<1>2. ASSUME NEW c \in Captures, Publication!WriteQuotes(c)
      PROVE  Publication!BlendIsOfOneIdentity'
  BY <1>2 DEF Publication!WriteQuotes
<1>3. ASSUME NEW c \in Captures, Publication!KeepQuotes(c)
      PROVE  Publication!BlendIsOfOneIdentity'
  BY <1>3 DEF Publication!KeepQuotes
<1>4. ASSUME NEW c \in Captures, Publication!CrashCapture(c)
      PROVE  Publication!BlendIsOfOneIdentity'
  BY <1>4 DEF Publication!CrashCapture
<1>5. CASE Publication!RebuildFrame
  BY <1>5 DEF Publication!RebuildFrame
<1>6. ASSUME NEW p \in Publishers, Publication!LoadInputs(p)
      PROVE  Publication!BlendIsOfOneIdentity'
  BY <1>6 DEF Publication!LoadInputs
<1>7. ASSUME NEW p \in Publishers, Publication!Compute(p)
      PROVE  Publication!BlendIsOfOneIdentity'
  BY <1>7 DEF Publication!Compute
<1>8. ASSUME NEW p \in Publishers, Publication!SaveHorizon(p)
      PROVE  Publication!BlendIsOfOneIdentity'
  BY <1>8 DEF Publication!SaveHorizon, Publication!Identity
<1>9. ASSUME NEW p \in Publishers, Publication!SaveRank(p)
      PROVE  Publication!BlendIsOfOneIdentity'
  BY <1>9 DEF Publication!SaveRank
<1>10. ASSUME NEW p \in Publishers, Publication!Verify(p)
       PROVE  Publication!BlendIsOfOneIdentity'
  BY <1>10 DEF Publication!Verify, Publication!Servable
<1>11. ASSUME NEW p \in Publishers, Publication!FailPublisher(p)
       PROVE  Publication!BlendIsOfOneIdentity'
  BY <1>11 DEF Publication!FailPublisher
<1>12. ASSUME NEW d \in Deciders, Publication!LoadQuotes(d)
       PROVE  Publication!BlendIsOfOneIdentity'
  BY <1>12 DEF Publication!LoadQuotes
<1>13. ASSUME NEW d \in Deciders, Publication!LoadFrame(d)
       PROVE  Publication!BlendIsOfOneIdentity'
  BY <1>13 DEF Publication!LoadFrame
<1>14. ASSUME NEW d \in Deciders, Publication!LoadRank(d)
       PROVE  Publication!BlendIsOfOneIdentity'
  BY <1>14 DEF Publication!LoadRank
<1>15. ASSUME NEW d \in Deciders, Publication!ResolveHorizon(d)
       PROVE  Publication!BlendIsOfOneIdentity'
  <2> DEFINE h == Len(decider[d].blend) + 1
             mine == Publication!Identity(decider[d])
  <2>1. /\ decider[d].at = "blend" /\ h \in DOMAIN Horizons
        /\ UNCHANGED <<quotes, frame, bundle, rank, capture, publisher, onTime>>
    BY <1>15, ResolveEffect
  <2>2. PICK new \in DeciderTypes :
           /\ decider' = [decider EXCEPT ![d] = new]
           /\ new.frame = decider[d].frame /\ new.quotes = decider[d].quotes
           /\ new.rank = decider[d].rank
           /\ \/ /\ new.at = "flat" /\ bundle[h] # mine
                 /\ new.blend = decider[d].blend
              \/ /\ new.at \in {"blend", "decided"}
                 /\ new.blend = Append(decider[d].blend, mine)
                 /\ new.at = "blend" => Len(new.blend) < Len(Horizons)
                 /\ bundle[h] = mine => new.cached = decider[d].cached + 1
    BY <1>15, ResolveEffect
  <2>3. decider[d].blend \in Seq(Identities) /\ Publication!Identity(new) = mine
    BY <2>2 DEF Publication!Identity, DeciderTypes
  <2>4. \A i \in DOMAIN new.blend : new.blend[i] = mine
    <3>1. \A i \in DOMAIN decider[d].blend : decider[d].blend[i] = mine
      BY DEF mine
    <3> HIDE DEF mine, h
    <3>2. CASE new.blend = decider[d].blend
      BY <3>1, <3>2
    <3>3. CASE new.blend = Append(decider[d].blend, mine)
      BY <2>3, <3>1, <3>3
    <3>4. QED
      BY <2>2, <3>2, <3>3
  <2> HIDE DEF mine, h
  <2>5. QED
    BY <2>2, <2>3, <2>4
<1>16. CASE UNCHANGED Publication!vars
  BY <1>16 DEF Publication!vars
<1>17. QED
  BY <1>1, <1>2, <1>3, <1>4, <1>5, <1>6, <1>7, <1>8,
     <1>9, <1>10, <1>11, <1>12, <1>13, <1>14, <1>15, <1>16
     DEF PublicationStep, Publication!Next, Publication!Capture, Publication!Publish,
         Publication!Decide

\* The only publisher writes everything that is in the store.
LEMMA NextStoreInv == PublicationInv /\ PublicationStep => StoreInv'
<1> SUFFICES ASSUME PublicationInv, PublicationStep PROVE StoreInv'
  OBVIOUS
<1> USE PublicationAssumption
   DEF Publication!PublicationAssumption, PublicationInv, PublicationTypes, HeldInv,
       QuoteInv, StoreInv, Sole, Publication!Identity
<1>1. ASSUME NEW c \in Captures, Publication!CreateQuotes(c) PROVE StoreInv'
  BY <1>1 DEF Publication!CreateQuotes
<1>2. ASSUME NEW c \in Captures, Publication!WriteQuotes(c) PROVE StoreInv'
  BY <1>2 DEF Publication!WriteQuotes
<1>3. ASSUME NEW c \in Captures, Publication!KeepQuotes(c) PROVE StoreInv'
  BY <1>3 DEF Publication!KeepQuotes
<1>4. ASSUME NEW c \in Captures, Publication!CrashCapture(c) PROVE StoreInv'
  BY <1>4 DEF Publication!CrashCapture
<1>5. CASE Publication!RebuildFrame
  BY <1>5 DEF Publication!RebuildFrame
<1>6. ASSUME NEW p \in Publishers, Publication!LoadInputs(p) PROVE StoreInv'
  BY <1>6 DEF Publication!LoadInputs
<1>7. ASSUME NEW p \in Publishers, Publication!Compute(p) PROVE StoreInv'
  BY <1>7 DEF Publication!Compute
<1>8. ASSUME NEW p \in Publishers, Publication!SaveHorizon(p) PROVE StoreInv'
  <2> DEFINE h == publisher[p].next
             mine == [frame |-> publisher[p].frame, quotes |-> publisher[p].quotes]
  <2>1. /\ publisher[p].at = "save" /\ h \in DOMAIN Horizons
        /\ bundle' = [bundle EXCEPT ![h] = mine] /\ rank' = rank
    BY <1>8 DEF Publication!SaveHorizon, PublisherTypes
  <2>2. /\ \A q \in Publishers \ {p} : publisher'[q] = publisher[q]
        /\ publisher'[p].frame = publisher[p].frame
        /\ publisher'[p].quotes = publisher[p].quotes
        /\ \/ h = Len(Horizons) /\ publisher'[p].at = "rank"
           \/ h # Len(Horizons) /\ publisher'[p].at = "save" /\ publisher'[p].next = h + 1
    <3>1. CASE h = Len(Horizons)
      BY <1>8, <3>1 DEF Publication!SaveHorizon
    <3>2. CASE h # Len(Horizons)
      BY <1>8, <3>2 DEF Publication!SaveHorizon
    <3>3. QED
      BY <3>1, <3>2
  <2>3. DOMAIN Horizons = 1 .. Len(Horizons) /\ Len(Horizons) \in Nat
    OBVIOUS
  <2>4. \A q \in Publishers : Sole(q)' => q = p /\ Sole(p)
    <3>1. publisher[p].quotes # None /\ \A q \in Publishers : publisher'[q].quotes = publisher[q].quotes
      BY <2>1, <2>2
    <3>2. QED
      BY <3>1
  <2>5. Sole(p) => \A i \in DOMAIN Horizons : i <= h => bundle'[i] = mine
    <3>1. SUFFICES ASSUME Sole(p), NEW i \in DOMAIN Horizons, i <= h
                   PROVE  bundle'[i] = mine
      OBVIOUS
    <3>2. CASE i = h
      BY <2>1, <3>2
    <3>3. CASE i # h
      <4>1. i < h
        BY <2>1, <2>3, <3>1, <3>3
      <4>2. bundle[i] = mine
        BY <2>1, <3>1, <4>1
      <4>3. QED
        BY <2>1, <3>3, <4>2
    <3>4. QED
      BY <3>2, <3>3
  <2> HIDE DEF h, mine
  <2>6. SUFFICES ASSUME Sole(p)
                 PROVE  /\ publisher'[p].at = "save" => \A i \in DOMAIN Horizons :
                              i < publisher'[p].next => bundle'[i] = mine
                        /\ publisher'[p].at = "rank" => \A i \in DOMAIN Horizons :
                              bundle'[i] = mine
    BY <2>2, <2>4 DEF mine
  <2>7. QED
    BY <2>1, <2>2, <2>3, <2>5, <2>6
<1>9. ASSUME NEW p \in Publishers, Publication!SaveRank(p) PROVE StoreInv'
  <2>1. \A q \in Publishers : Sole(q)' => q = p /\ Sole(p)
    BY <1>9 DEF Publication!SaveRank
  <2>2. /\ publisher[p].at = "rank" /\ publisher'[p].at = "verify" /\ bundle' = bundle
        /\ rank' = publisher[p].frame /\ publisher'[p].frame = publisher[p].frame
        /\ publisher'[p].quotes = publisher[p].quotes
    BY <1>9 DEF Publication!SaveRank
  <2>3. Sole(p) => \A h \in DOMAIN Horizons :
           bundle[h] = [frame |-> publisher[p].frame, quotes |-> publisher[p].quotes]
    BY <2>2
  <2>4. QED
    BY <2>1, <2>2, <2>3
<1>10. ASSUME NEW p \in Publishers, Publication!Verify(p) PROVE StoreInv'
  BY <1>10 DEF Publication!Verify, Publication!Servable
<1>11. ASSUME NEW p \in Publishers, Publication!FailPublisher(p) PROVE StoreInv'
  <2>1. /\ publisher'[p].at = "failed" /\ UNCHANGED <<bundle, rank>>
        /\ \A q \in Publishers \ {p} : publisher'[q] = publisher[q]
    BY <1>11 DEF Publication!FailPublisher
  <2>2. publisher'[p].quotes = publisher[p].quotes
    BY <1>11 DEF Publication!FailPublisher, PublisherTypes
  <2>3. \A q \in Publishers : publisher'[q].quotes = publisher[q].quotes
    BY <2>1, <2>2
  <2>4. \A q \in Publishers : Sole(q)' = Sole(q)
    BY ONLY <2>3 DEF Sole
  <2> HIDE DEF Sole
  <2>5. ASSUME NEW q \in Publishers, Sole(q), q # p
        PROVE  /\ publisher'[q] = publisher[q]
               /\ bundle' = bundle /\ rank' = rank
    BY <2>1, <2>5
  <2>6. QED
    BY <2>1, <2>4, <2>5
<1>12. ASSUME NEW d \in Deciders, Publication!LoadQuotes(d) PROVE StoreInv'
  BY <1>12 DEF Publication!LoadQuotes
<1>13. ASSUME NEW d \in Deciders, Publication!LoadFrame(d) PROVE StoreInv'
  BY <1>13 DEF Publication!LoadFrame
<1>14. ASSUME NEW d \in Deciders, Publication!LoadRank(d) PROVE StoreInv'
  BY <1>14 DEF Publication!LoadRank
<1>15. ASSUME NEW d \in Deciders, Publication!ResolveHorizon(d) PROVE StoreInv'
  <2>1. UNCHANGED <<bundle, rank, publisher>>
    BY <1>15, ResolveEffect
  <2>2. QED
    BY <2>1
<1>16. CASE UNCHANGED Publication!vars
  BY <1>16 DEF Publication!vars
<1>17. QED
  BY <1>1, <1>2, <1>3, <1>4, <1>5, <1>6, <1>7, <1>8,
     <1>9, <1>10, <1>11, <1>12, <1>13, <1>14, <1>15, <1>16
     DEF PublicationStep, Publication!Next, Publication!Capture, Publication!Publish,
         Publication!Decide

\* The decision finds what the publisher has left, and finds it servable.
LEMMA NextOnTimeInv == PublicationInv /\ PublicationStep => OnTimeInv'
<1> SUFFICES ASSUME PublicationInv, PublicationStep PROVE OnTimeInv'
  OBVIOUS
<1> USE PublicationAssumption
   DEF Publication!PublicationAssumption, PublicationInv, PublicationTypes, HeldInv,
       QuoteInv, StoreInv, OnTimeInv, Sole, Publication!Identity
<1>1. ASSUME NEW c \in Captures, Publication!CreateQuotes(c) PROVE OnTimeInv'
  BY <1>1 DEF Publication!CreateQuotes
<1>2. ASSUME NEW c \in Captures, Publication!WriteQuotes(c) PROVE OnTimeInv'
  BY <1>2 DEF Publication!WriteQuotes
<1>3. ASSUME NEW c \in Captures, Publication!KeepQuotes(c) PROVE OnTimeInv'
  BY <1>3 DEF Publication!KeepQuotes
<1>4. ASSUME NEW c \in Captures, Publication!CrashCapture(c) PROVE OnTimeInv'
  BY <1>4 DEF Publication!CrashCapture
<1>5. CASE Publication!RebuildFrame
  BY <1>5 DEF Publication!RebuildFrame
<1>6. ASSUME NEW p \in Publishers, Publication!LoadInputs(p) PROVE OnTimeInv'
  BY <1>6 DEF Publication!LoadInputs
<1>7. ASSUME NEW p \in Publishers, Publication!Compute(p) PROVE OnTimeInv'
  <2>1. /\ publisher[p].at = "quotes" /\ publisher[p].quotes = None
        /\ \A q \in Publishers \ {p} : publisher'[q] = publisher[q]
        /\ UNCHANGED <<decider, onTime>>
    BY <1>7 DEF Publication!Compute
  <2>2. ASSUME NEW d \in onTime, NEW q \in Publishers, Sole(q)'
        PROVE  q # p /\ Sole(q)
    <3>1. PICK r \in Publishers : publisher[r].at = "passed"
      OBVIOUS
    <3>2. r # p /\ publisher'[r] = publisher[r] /\ publisher[r].quotes # None
      BY <2>1, <3>1
    <3>3. q = r
      BY <2>2, <3>2
    <3>4. QED
      BY <2>1, <2>2, <3>2, <3>3
  <2>3. \A d \in onTime : \E r \in Publishers : publisher'[r].at = "passed"
    BY <2>1
  <2>4. QED
    BY <2>1, <2>2, <2>3
<1>8. ASSUME NEW p \in Publishers, Publication!SaveHorizon(p) PROVE OnTimeInv'
  BY <1>8 DEF Publication!SaveHorizon, Publication!Identity
<1>9. ASSUME NEW p \in Publishers, Publication!SaveRank(p) PROVE OnTimeInv'
  BY <1>9 DEF Publication!SaveRank
<1>10. ASSUME NEW p \in Publishers, Publication!Verify(p) PROVE OnTimeInv'
  BY <1>10 DEF Publication!Verify, Publication!Servable
<1>11. ASSUME NEW p \in Publishers, Publication!FailPublisher(p) PROVE OnTimeInv'
  BY <1>11 DEF Publication!FailPublisher
<1>12. ASSUME NEW d \in Deciders, Publication!LoadQuotes(d) PROVE OnTimeInv'
  <2>1. d \notin onTime
    BY <1>12 DEF Publication!LoadQuotes
  <2>2. \A e \in Deciders \ {d} : decider'[e] = decider[e]
    BY <1>12 DEF Publication!LoadQuotes
  <2>3. UNCHANGED <<publisher, onTime>>
    BY <1>12 DEF Publication!LoadQuotes
  <2>4. \A e \in onTime' : e \in onTime /\ decider'[e] = decider[e]
    BY <2>1, <2>2, <2>3
  <2>5. \A p \in Publishers : Sole(p)' = Sole(p) /\ publisher'[p] = publisher[p]
    BY <2>3
  <2> HIDE DEF Sole
  <2>6. QED
    BY <2>4, <2>5
<1>13. ASSUME NEW d \in Deciders, Publication!LoadFrame(d) PROVE OnTimeInv'
  <2>1. d \notin onTime
    BY <1>13 DEF Publication!LoadFrame
  <2>2. \A e \in Deciders \ {d} : decider'[e] = decider[e]
    BY <1>13 DEF Publication!LoadFrame
  <2>3. QED
    BY <1>13, <2>1, <2>2 DEF Publication!LoadFrame
<1>14. ASSUME NEW d \in Deciders, Publication!LoadRank(d) PROVE OnTimeInv'
  <2>1. d \notin onTime
    BY <1>14 DEF Publication!LoadRank
  <2>2. /\ \A e \in Deciders \ {d} : decider'[e] = decider[e]
        /\ decider'[d].at = "blend" /\ decider'[d].rank = rank
        /\ decider'[d].cached = 0 /\ decider'[d].blend = <<>>
        /\ UNCHANGED <<bundle, rank, publisher>>
    BY <1>14 DEF Publication!LoadRank
  <2>3. ASSUME NEW e \in onTime', e # d
        PROVE  /\ e \in onTime /\ decider'[e] = decider[e]
    BY <1>14, <2>2, <2>3 DEF Publication!LoadRank
  <2>4. ASSUME d \in onTime'
        PROVE  /\ \E p \in Publishers : publisher[p].at = "passed"
               /\ \A p \in Publishers : Sole(p) => rank = publisher[p].frame
    <3>1. PICK q \in Publishers : publisher[q].at = "passed"
      BY <1>14, <2>1, <2>4 DEF Publication!LoadRank
    <3>2. \A p \in Publishers : Sole(p) => q = p
      BY <3>1
    <3>3. QED
      BY <3>1, <3>2
  <2>5. Len(<<>>) = 0
    OBVIOUS
  <2>6. SUFFICES ASSUME NEW e \in onTime'
                 PROVE  /\ decider'[e].at \in {"blend", "decided", "flat"}
                        /\ \E p \in Publishers : publisher[p].at = "passed"
                        /\ \A p \in Publishers :
                              Sole(p) /\ publisher[p].frame = decider'[e].frame =>
                                 /\ decider'[e].at # "flat"
                                 /\ decider'[e].rank = publisher[p].frame
                                 /\ decider'[e].cached = Len(decider'[e].blend)
    BY <2>2
  <2>7. CASE e = d
    BY <2>2, <2>4, <2>5, <2>6, <2>7
  <2>8. CASE e # d
    BY <2>3, <2>6, <2>8
  <2>9. QED
    BY <2>7, <2>8
<1>15. ASSUME NEW d \in Deciders, Publication!ResolveHorizon(d) PROVE OnTimeInv'
  <2> DEFINE h == Len(decider[d].blend) + 1
             mine == Publication!Identity(decider[d])
  <2>1. /\ decider[d].at = "blend" /\ h \in DOMAIN Horizons
        /\ UNCHANGED <<quotes, frame, bundle, rank, capture, publisher, onTime>>
    BY <1>15, ResolveEffect
  <2>2. PICK new \in DeciderTypes :
           /\ decider' = [decider EXCEPT ![d] = new]
           /\ new.frame = decider[d].frame /\ new.quotes = decider[d].quotes
           /\ new.rank = decider[d].rank
           /\ \/ /\ new.at = "flat" /\ bundle[h] # mine
                 /\ new.blend = decider[d].blend
              \/ /\ new.at \in {"blend", "decided"}
                 /\ new.blend = Append(decider[d].blend, mine)
                 /\ new.at = "blend" => Len(new.blend) < Len(Horizons)
                 /\ bundle[h] = mine => new.cached = decider[d].cached + 1
    BY <1>15, ResolveEffect
  <2>3. /\ \A e \in Deciders \ {d} : decider'[e] = decider[e]
        /\ decider'[d] = new
    BY <2>2
  <2>4. decider[d].blend \in Seq(Identities)
        /\ Len(Append(decider[d].blend, mine)) = Len(decider[d].blend) + 1
    BY DEF DeciderTypes
  <2>5. ASSUME d \in onTime, NEW p \in Publishers, Sole(p),
               publisher[p].frame = decider[d].frame
        PROVE  bundle[h] = mine
    <3>1. publisher[p].at = "passed"
      BY <2>5
    <3>2. publisher[p].quotes = decider[d].quotes
      BY <2>1, <2>5
    <3>3. bundle[h] = [frame |-> publisher[p].frame, quotes |-> publisher[p].quotes]
      BY <2>1, <2>5, <3>1
    <3>4. QED
      BY <2>5, <3>2, <3>3
  <2> HIDE DEF h, mine
  <2>6. ASSUME d \in onTime, NEW p \in Publishers, Sole(p),
               publisher[p].frame = new.frame
        PROVE  new.at # "flat" /\ new.rank = publisher[p].frame /\ new.cached = Len(new.blend)
    <3>1. bundle[h] = mine /\ publisher[p].frame = decider[d].frame
      BY <2>2, <2>5, <2>6
    <3>2. decider[d].rank = publisher[p].frame /\ decider[d].cached = Len(decider[d].blend)
      BY <2>6, <3>1
    <3>3. QED
      BY <2>2, <2>4, <3>1, <3>2
  <2>7. new.at \in {"blend", "decided", "flat"}
    BY <2>2
  <2>8. onTime' = onTime /\ publisher' = publisher /\ \A p \in Publishers : Sole(p)' = Sole(p)
    BY <2>1
  <2> HIDE DEF Sole
  <2>9. ASSUME NEW e \in onTime
        PROVE  /\ decider'[e].at \in {"blend", "decided", "flat"}
               /\ \E p \in Publishers : publisher[p].at = "passed"
               /\ \A p \in Publishers :
                     Sole(p) /\ publisher[p].frame = decider'[e].frame =>
                        /\ decider'[e].at # "flat"
                        /\ decider'[e].rank = publisher[p].frame
                        /\ decider'[e].cached = Len(decider'[e].blend)
    <3>1. \E p \in Publishers : publisher[p].at = "passed"
      BY <2>9
    <3>2. CASE e = d
      BY <2>3, <2>6, <2>7, <2>9, <3>1, <3>2
    <3>3. CASE e # d
      <4>1. decider'[e] = decider[e]
        BY <2>3, <2>9, <3>3
      <4>2. QED
        BY <2>9, <4>1
    <3>4. QED
      BY <3>2, <3>3
  <2>10. QED
    BY <2>8, <2>9
<1>16. CASE UNCHANGED Publication!vars
  BY <1>16 DEF Publication!vars
<1>17. QED
  BY <1>1, <1>2, <1>3, <1>4, <1>5, <1>6, <1>7, <1>8,
     <1>9, <1>10, <1>11, <1>12, <1>13, <1>14, <1>15, <1>16
     DEF PublicationStep, Publication!Next, Publication!Capture, Publication!Publish,
         Publication!Decide

\* The invariant holds in every state of the day.
THEOREM PublicationInvariant == Publication!Spec => []PublicationInv
<1>1. Publication!Init => PublicationInv
  BY InitPublication
<1>2. PublicationInv /\ PublicationStep => PublicationInv'
  BY NextPublicationTypes, NextHeldInv, NextQuoteInv, NextBlend, NextStoreInv,
     NextOnTimeInv
     DEF PublicationInv
<1>3. QED
  BY <1>1, <1>2, PTL DEF Publication!Spec, PublicationStep

\* All publishers and decisions of a day use the same complete quotes.
THEOREM OneSetOfQuotes == ArtifactsSpec => []QuoteAgreement
<1>1. PublicationInv => QuoteAgreement
  BY DEF PublicationInv, PublicationTypes, QuoteInv, QuoteAgreement,
         Publication!QuoteAgreement, PublisherTypes, DeciderTypes
<1>2. QED
  BY Components, PublicationInvariant, <1>1, PTL

\* Whatever is in the store, a decision blends distributions of its own inputs.
THEOREM OneIdentity == ArtifactsSpec => []BlendIsOfOneIdentity
<1>1. PublicationInv => BlendIsOfOneIdentity
  BY DEF PublicationInv, BlendIsOfOneIdentity
<1>2. QED
  BY Components, PublicationInvariant, <1>1, PTL

\* A publication that nobody else disturbs and that has passed serves every
\* horizon of every decision that begins after it.
THEOREM UndisturbedIsServed == ArtifactsSpec => []PassedIsServed
<1>1. ASSUME PublicationInv, NEW p \in Publishers, Publication!Saved = {p} PROVE Sole(p)
  BY <1>1 DEF Publication!Saved, Sole
<1>2. PublicationInv => PassedIsServed
  BY <1>1 DEF PublicationInv, OnTimeInv, PassedIsServed, Publication!PassedIsServed
<1>3. QED
  BY Components, PublicationInvariant, <1>2, PTL

-----------------------------------------------------------------------------

Complete(v) == [model |-> v, metadata |-> v]

OverlayTypes ==
    /\ current \in Overlay!Versions \cup {Missing}
    /\ staged \in [Overlay!Versions -> Overlay!Files \cup {Missing}]
    /\ stored \in [Overlay!Versions -> Overlay!Files \cup {Missing}]
    /\ versions \in 0 .. LastVersion
    /\ saver \in [Savers -> [at : {"idle", "model", "metadata", "rename", "current"},
                             version : Overlay!Versions \cup {Missing}]]
    /\ loader \in [Loaders -> [at : {"idle", "current", "model", "metadata"},
                               version : Overlay!Versions \cup {Missing},
                               model : Overlay!Versions \cup {Missing}]]
    /\ loaded \in [Loaders -> Overlay!Versions \cup {Missing}]
    /\ begun \in [Loaders -> Overlay!Versions \cup {Missing}]

\* Each saver works on a version of its own, and has written what comes before
\* its next step.
SaverInv ==
    /\ \A s \in Savers : saver[s].at # "idle" => saver[s].version \in 1 .. versions
    /\ \A s, t \in Savers :
          saver[s].at # "idle" /\ saver[t].at # "idle"
              /\ saver[s].version = saver[t].version => s = t
    /\ \A s \in Savers : LET v == saver[s].version IN
          /\ saver[s].at \in {"model", "metadata"} => staged[v] # Missing
          /\ saver[s].at = "metadata" => staged[v].model = v
          /\ saver[s].at = "rename" => staged[v] = Complete(v)
          /\ saver[s].at = "current" => stored[v] = Complete(v)

\* A version directory is complete, and CURRENT names one.
StoredInv ==
    /\ \A v \in Overlay!Versions : stored[v] # Missing => stored[v] = Complete(v)
    /\ current # Missing => stored[current] # Missing

\* A loader that has found CURRENT follows a stored version.
LoaderInv ==
    \A l \in Loaders :
        /\ loader[l].at \in {"idle", "current"} => loader[l].version = Missing
        /\ loader[l].at \in {"model", "metadata"} =>
              /\ loader[l].version # Missing
              /\ stored[loader[l].version] # Missing
        /\ loader[l].at = "metadata" => loader[l].model = loader[l].version
        /\ loader[l].at # "idle" => loaded[l] = Missing
        /\ loader[l].at = "current" /\ begun[l] # Missing => current # Missing
        /\ loader[l].at = "idle" /\ begun[l] # Missing => loaded[l] # Missing

OverlayInv == OverlayTypes /\ SaverInv /\ StoredInv /\ LoaderInv

OverlayStep == [Overlay!Next]_(Overlay!vars)

\* At first nothing is stored and nobody saves or loads.
LEMMA InitOverlay == Overlay!Init => OverlayInv
<1> SUFFICES ASSUME Overlay!Init PROVE OverlayInv
  OBVIOUS
<1> USE MissingIsFresh
   DEF Overlay!MissingIsFresh, Overlay!Init, Overlay!Versions, Overlay!Idle
<1>1. OverlayTypes
  BY DEF OverlayTypes
<1>2. SaverInv /\ StoredInv /\ LoaderInv
  BY DEF SaverInv, StoredInv, LoaderInv
<1>3. QED
  BY <1>1, <1>2 DEF OverlayInv

\* The variables keep their types.
LEMMA NextOverlayTypes == OverlayInv /\ OverlayStep => OverlayTypes'
<1> SUFFICES ASSUME OverlayInv, OverlayStep PROVE OverlayTypes'
  OBVIOUS
<1> USE MissingIsFresh
   DEF Overlay!MissingIsFresh, OverlayInv, OverlayTypes, SaverInv, Overlay!Versions,
       Overlay!Files, Overlay!NoFiles, Overlay!Idle
<1>1. ASSUME NEW s \in Savers, Overlay!BeginSave(s) PROVE OverlayTypes'
  BY <1>1 DEF Overlay!BeginSave
<1>2. ASSUME NEW s \in Savers, Overlay!WriteModel(s) PROVE OverlayTypes'
  <2>1. saver[s].version \in Overlay!Versions /\ staged[saver[s].version] \in Overlay!Files
    BY <1>2 DEF Overlay!WriteModel
  <2>2. staged' \in [Overlay!Versions -> Overlay!Files \cup {Missing}]
    BY <1>2, <2>1 DEF Overlay!WriteModel
  <2>3. QED
    BY <1>2, <2>1, <2>2 DEF Overlay!WriteModel
<1>3. ASSUME NEW s \in Savers, Overlay!WriteMetadata(s) PROVE OverlayTypes'
  <2>1. saver[s].version \in Overlay!Versions /\ staged[saver[s].version] \in Overlay!Files
    BY <1>3 DEF Overlay!WriteMetadata
  <2>2. staged' \in [Overlay!Versions -> Overlay!Files \cup {Missing}]
    BY <1>3, <2>1 DEF Overlay!WriteMetadata
  <2>3. QED
    BY <1>3, <2>1, <2>2 DEF Overlay!WriteMetadata
<1>4. ASSUME NEW s \in Savers, Overlay!RenameStaging(s) PROVE OverlayTypes'
  <2>1. saver[s].version \in Overlay!Versions
    BY <1>4 DEF Overlay!RenameStaging
  <2>2. staged[saver[s].version] \in Overlay!Files \cup {Missing}
    BY <2>1
  <2>3. /\ staged' \in [Overlay!Versions -> Overlay!Files \cup {Missing}]
        /\ stored' \in [Overlay!Versions -> Overlay!Files \cup {Missing}]
    BY <1>4, <2>1, <2>2 DEF Overlay!RenameStaging
  <2>4. QED
    BY <1>4, <2>1, <2>3 DEF Overlay!RenameStaging
<1>5. ASSUME NEW s \in Savers, Overlay!ReplaceCurrent(s) PROVE OverlayTypes'
  BY <1>5 DEF Overlay!ReplaceCurrent
<1>6. ASSUME NEW s \in Savers, Overlay!FailSave(s) PROVE OverlayTypes'
  BY <1>6 DEF Overlay!FailSave
<1>7. ASSUME NEW l \in Loaders, Overlay!BeginLoad(l) PROVE OverlayTypes'
  BY <1>7 DEF Overlay!BeginLoad
<1>8. ASSUME NEW l \in Loaders, Overlay!ReadCurrent(l) PROVE OverlayTypes'
  BY <1>8 DEF Overlay!ReadCurrent
<1>9. ASSUME NEW l \in Loaders, Overlay!ReadModel(l) PROVE OverlayTypes'
  <2>1. loader[l].version \in Overlay!Versions
    BY <1>9 DEF Overlay!ReadModel, LoaderInv
  <2>2. CASE stored[loader[l].version] = Missing \/ stored[loader[l].version].model = Missing
    BY <1>9, <2>2 DEF Overlay!ReadModel
  <2>3. CASE ~(stored[loader[l].version] = Missing
                  \/ stored[loader[l].version].model = Missing)
    <3>1. stored[loader[l].version].model \in Overlay!Versions
      BY <2>1, <2>3
    <3>2. QED
      BY <1>9, <2>1, <2>3, <3>1 DEF Overlay!ReadModel
  <2>4. QED
    BY <2>2, <2>3
<1>10. ASSUME NEW l \in Loaders, Overlay!ReadMetadata(l) PROVE OverlayTypes'
  BY <1>10 DEF Overlay!ReadMetadata
<1>11. CASE UNCHANGED Overlay!vars
  BY <1>11 DEF Overlay!vars
<1>12. QED
  BY <1>1, <1>2, <1>3, <1>4, <1>5, <1>6, <1>7, <1>8, <1>9, <1>10, <1>11
     DEF OverlayStep, Overlay!Next, Overlay!Save, Overlay!Load

\* No saver touches the version of another one.
LEMMA NextSaverInv == OverlayInv /\ OverlayStep => SaverInv'
<1> SUFFICES ASSUME OverlayInv, OverlayStep PROVE SaverInv'
  OBVIOUS
<1> USE MissingIsFresh
   DEF Overlay!MissingIsFresh, OverlayInv, OverlayTypes, SaverInv, Overlay!Versions,
       Overlay!Files, Complete
<1>1. ASSUME NEW s \in Savers, Overlay!BeginSave(s) PROVE SaverInv'
  <2> DEFINE new == versions + 1
  <2>1. /\ new \in Overlay!Versions /\ versions' = new
        /\ staged' = [staged EXCEPT ![new] = Overlay!NoFiles]
        /\ saver' = [saver EXCEPT ![s] = [at |-> "model", version |-> new]]
        /\ stored' = stored
    BY <1>1 DEF Overlay!BeginSave
  <2>2. Overlay!NoFiles # Missing
    BY DEF Overlay!NoFiles
  <2>3. \A t \in Savers : saver[t].at # "idle" => saver[t].version # new
    OBVIOUS
  <2> HIDE DEF new
  <2>4. \A t \in Savers : t # s => saver'[t] = saver[t]
    BY <2>1
  <2>5. saver'[s] = [at |-> "model", version |-> new]
    BY <2>1
  <2>6. \A v \in Overlay!Versions : v # new => staged'[v] = staged[v]
    BY <2>1
  <2>7. staged'[new] = Overlay!NoFiles
    BY <2>1
  <2>8. \A t \in Savers : saver'[t].at # "idle" => saver'[t].version \in 1 .. versions'
    BY <2>1, <2>4, <2>5 DEF new
  <2>9. \A t, u \in Savers :
          saver'[t].at # "idle" /\ saver'[u].at # "idle"
              /\ saver'[t].version = saver'[u].version => t = u
    <3> SUFFICES ASSUME NEW t \in Savers, NEW u \in Savers,
                        saver'[t].at # "idle", saver'[u].at # "idle",
                        saver'[t].version = saver'[u].version
                 PROVE  t = u
      OBVIOUS
    <3>1. CASE t = s /\ u # s
      BY <3>1, <2>3, <2>4, <2>5
    <3>2. CASE t # s /\ u = s
      BY <3>2, <2>3, <2>4, <2>5
    <3>3. CASE t # s /\ u # s
      BY <3>3, <2>4
    <3>4. QED
      BY <3>1, <3>2, <3>3
  <2>10. ASSUME NEW t \in Savers
         PROVE  LET v == saver'[t].version IN
                  /\ saver'[t].at \in {"model", "metadata"} => staged'[v] # Missing
                  /\ saver'[t].at = "metadata" => staged'[v].model = v
                  /\ saver'[t].at = "rename" => staged'[v] = Complete(v)
                  /\ saver'[t].at = "current" => stored'[v] = Complete(v)
    <3>1. CASE t = s
      BY <3>1, <2>2, <2>5, <2>7
    <3>2. CASE t # s
      BY <3>2, <2>1, <2>3, <2>4, <2>6
    <3>3. QED
      BY <3>1, <3>2
  <2>11. QED
    BY <2>8, <2>9, <2>10
<1>2. ASSUME NEW s \in Savers, Overlay!WriteModel(s) PROVE SaverInv'
  BY <1>2 DEF Overlay!WriteModel
<1>3. ASSUME NEW s \in Savers, Overlay!WriteMetadata(s) PROVE SaverInv'
  BY <1>3 DEF Overlay!WriteMetadata
<1>4. ASSUME NEW s \in Savers, Overlay!RenameStaging(s) PROVE SaverInv'
  BY <1>4 DEF Overlay!RenameStaging
<1>5. ASSUME NEW s \in Savers, Overlay!ReplaceCurrent(s) PROVE SaverInv'
  BY <1>5 DEF Overlay!ReplaceCurrent
<1>6. ASSUME NEW s \in Savers, Overlay!FailSave(s) PROVE SaverInv'
  BY <1>6 DEF Overlay!FailSave
<1>7. ASSUME NEW l \in Loaders, Overlay!BeginLoad(l) PROVE SaverInv'
  BY <1>7 DEF Overlay!BeginLoad
<1>8. ASSUME NEW l \in Loaders, Overlay!ReadCurrent(l) PROVE SaverInv'
  BY <1>8 DEF Overlay!ReadCurrent
<1>9. ASSUME NEW l \in Loaders, Overlay!ReadModel(l) PROVE SaverInv'
  BY <1>9 DEF Overlay!ReadModel
<1>10. ASSUME NEW l \in Loaders, Overlay!ReadMetadata(l) PROVE SaverInv'
  BY <1>10 DEF Overlay!ReadMetadata
<1>11. CASE UNCHANGED Overlay!vars
  BY <1>11 DEF Overlay!vars
<1>12. QED
  BY <1>1, <1>2, <1>3, <1>4, <1>5, <1>6, <1>7, <1>8, <1>9, <1>10, <1>11
     DEF OverlayStep, Overlay!Next, Overlay!Save, Overlay!Load

\* A directory is renamed when it is complete, and stays.
LEMMA NextStoredInv == OverlayInv /\ OverlayStep => StoredInv'
<1> SUFFICES ASSUME OverlayInv, OverlayStep PROVE StoredInv'
  OBVIOUS
<1> USE MissingIsFresh
   DEF Overlay!MissingIsFresh, OverlayInv, OverlayTypes, SaverInv, StoredInv,
       Overlay!Versions, Complete
<1>1. ASSUME NEW s \in Savers, Overlay!BeginSave(s) PROVE StoredInv'
  BY <1>1 DEF Overlay!BeginSave
<1>2. ASSUME NEW s \in Savers, Overlay!WriteModel(s) PROVE StoredInv'
  BY <1>2 DEF Overlay!WriteModel
<1>3. ASSUME NEW s \in Savers, Overlay!WriteMetadata(s) PROVE StoredInv'
  BY <1>3 DEF Overlay!WriteMetadata
<1>4. ASSUME NEW s \in Savers, Overlay!RenameStaging(s) PROVE StoredInv'
  BY <1>4 DEF Overlay!RenameStaging
<1>5. ASSUME NEW s \in Savers, Overlay!ReplaceCurrent(s) PROVE StoredInv'
  <2>1. saver[s].version \in Overlay!Versions /\ stored[saver[s].version] # Missing
    <3>1. saver[s].version \in Overlay!Versions
      BY <1>5 DEF Overlay!ReplaceCurrent
    <3>2. stored[saver[s].version] = Complete(saver[s].version)
      BY <1>5 DEF Overlay!ReplaceCurrent
    <3>3. Complete(saver[s].version) \in Overlay!Files
      BY <3>1 DEF Overlay!Files
    <3>4. QED
      BY <3>1, <3>2, <3>3
  <2>2. QED
    BY <1>5, <2>1 DEF Overlay!ReplaceCurrent
<1>6. ASSUME NEW s \in Savers, Overlay!FailSave(s) PROVE StoredInv'
  BY <1>6 DEF Overlay!FailSave
<1>7. ASSUME NEW l \in Loaders, Overlay!BeginLoad(l) PROVE StoredInv'
  BY <1>7 DEF Overlay!BeginLoad
<1>8. ASSUME NEW l \in Loaders, Overlay!ReadCurrent(l) PROVE StoredInv'
  BY <1>8 DEF Overlay!ReadCurrent
<1>9. ASSUME NEW l \in Loaders, Overlay!ReadModel(l) PROVE StoredInv'
  BY <1>9 DEF Overlay!ReadModel
<1>10. ASSUME NEW l \in Loaders, Overlay!ReadMetadata(l) PROVE StoredInv'
  BY <1>10 DEF Overlay!ReadMetadata
<1>11. CASE UNCHANGED Overlay!vars
  BY <1>11 DEF Overlay!vars
<1>12. QED
  BY <1>1, <1>2, <1>3, <1>4, <1>5, <1>6, <1>7, <1>8, <1>9, <1>10, <1>11
     DEF OverlayStep, Overlay!Next, Overlay!Save, Overlay!Load

\* A loader finds complete versions only.
LEMMA NextLoaderInv == OverlayInv /\ OverlayStep => LoaderInv'
<1> SUFFICES ASSUME OverlayInv, OverlayStep PROVE LoaderInv'
  OBVIOUS
<1> USE MissingIsFresh
   DEF Overlay!MissingIsFresh, OverlayInv, OverlayTypes, SaverInv, StoredInv, LoaderInv,
       Overlay!Versions, Overlay!Idle, Complete
<1>1. ASSUME NEW s \in Savers, Overlay!BeginSave(s) PROVE LoaderInv'
  BY <1>1 DEF Overlay!BeginSave
<1>2. ASSUME NEW s \in Savers, Overlay!WriteModel(s) PROVE LoaderInv'
  BY <1>2 DEF Overlay!WriteModel
<1>3. ASSUME NEW s \in Savers, Overlay!WriteMetadata(s) PROVE LoaderInv'
  BY <1>3 DEF Overlay!WriteMetadata
<1>4. ASSUME NEW s \in Savers, Overlay!RenameStaging(s) PROVE LoaderInv'
  BY <1>4 DEF Overlay!RenameStaging
<1>5. ASSUME NEW s \in Savers, Overlay!ReplaceCurrent(s) PROVE LoaderInv'
  BY <1>5 DEF Overlay!ReplaceCurrent
<1>6. ASSUME NEW s \in Savers, Overlay!FailSave(s) PROVE LoaderInv'
  BY <1>6 DEF Overlay!FailSave
<1>7. ASSUME NEW l \in Loaders, Overlay!BeginLoad(l) PROVE LoaderInv'
  BY <1>7 DEF Overlay!BeginLoad
<1>8. ASSUME NEW l \in Loaders, Overlay!ReadCurrent(l) PROVE LoaderInv'
  BY <1>8 DEF Overlay!ReadCurrent
<1>9. ASSUME NEW l \in Loaders, Overlay!ReadModel(l) PROVE LoaderInv'
  BY <1>9 DEF Overlay!ReadModel
<1>10. ASSUME NEW l \in Loaders, Overlay!ReadMetadata(l) PROVE LoaderInv'
  BY <1>10 DEF Overlay!ReadMetadata
<1>11. CASE UNCHANGED Overlay!vars
  BY <1>11 DEF Overlay!vars
<1>12. QED
  BY <1>1, <1>2, <1>3, <1>4, <1>5, <1>6, <1>7, <1>8, <1>9, <1>10, <1>11
     DEF OverlayStep, Overlay!Next, Overlay!Save, Overlay!Load

\* The inductive invariant of the overlay's directories.
THEOREM OverlayInvariant == Overlay!Spec => []OverlayInv
<1>1. Overlay!Init => OverlayInv
  BY InitOverlay
<1>2. OverlayInv /\ OverlayStep => OverlayInv'
  BY NextOverlayTypes, NextSaverInv, NextStoredInv, NextLoaderInv DEF OverlayInv
<1>3. QED
  BY <1>1, <1>2, PTL DEF Overlay!Spec, OverlayStep

\* A load that finds a pointer succeeds, whatever the savers do or have failed
\* to do meanwhile.
THEOREM Loadable == ArtifactsSpec => []PublishedIsLoadable
<1>1. OverlayInv => PublishedIsLoadable
  BY DEF OverlayInv, LoaderInv, PublishedIsLoadable, Overlay!PublishedIsLoadable
<1>2. QED
  BY <1>1, Components, OverlayInvariant, PTL

\* A load returns nothing or the version that CURRENT named when the load read
\* it: loaders see the overlay as one register that savers replace.
THEOREM OverlayIsRegister == ArtifactsSpec => LoadsAreAtomic
<1> USE MissingIsFresh DEF Overlay!MissingIsFresh
<1>1. Overlay!Init => Overlay!Register!Init
  BY DEF Overlay!Init, Overlay!Idle, Overlay!Register!Init
<1>2. OverlayInv /\ OverlayStep => [Overlay!Register!Next]_(Overlay!Register!vars)
  <2> SUFFICES ASSUME OverlayInv, OverlayStep
               PROVE  [Overlay!Register!Next]_(Overlay!Register!vars)
    OBVIOUS
  <2> USE DEF Overlay!Register!vars, Overlay!Register!Next
  <2>1. ASSUME NEW s \in Savers, Overlay!Save(s)
        PROVE  [Overlay!Register!Next]_(Overlay!Register!vars)
    <3>1. CASE Overlay!ReplaceCurrent(s)
      <4>1. saver[s].version \in Overlay!Versions
        BY <3>1
           DEF Overlay!ReplaceCurrent, OverlayInv, OverlayTypes, SaverInv,
               Overlay!Versions
      <4>2. QED
        BY <3>1, <4>1 DEF Overlay!ReplaceCurrent, Overlay!Register!Publish
    <3>2. CASE ~Overlay!ReplaceCurrent(s)
      BY <2>1, <3>2
         DEF Overlay!Save, Overlay!BeginSave, Overlay!WriteModel, Overlay!WriteMetadata,
             Overlay!RenameStaging, Overlay!FailSave
    <3>3. QED
      BY <3>1, <3>2
  <2>2. ASSUME NEW l \in Loaders, Overlay!BeginLoad(l)
        PROVE  [Overlay!Register!Next]_(Overlay!Register!vars)
    BY <2>2
       DEF Overlay!BeginLoad, Overlay!Register!Call, Overlay!Idle, OverlayInv,
           OverlayTypes, LoaderInv
  <2>3. ASSUME NEW l \in Loaders, Overlay!ReadCurrent(l)
        PROVE  [Overlay!Register!Next]_(Overlay!Register!vars)
    BY <2>3
       DEF Overlay!ReadCurrent, Overlay!Register!Look, Overlay!Idle, OverlayInv,
           OverlayTypes, LoaderInv
  <2>4. ASSUME NEW l \in Loaders, Overlay!ReadModel(l)
        PROVE  [Overlay!Register!Next]_(Overlay!Register!vars)
    <3>1. /\ loader[l].version # Missing
          /\ UNCHANGED <<current, loaded>>
      BY <2>4 DEF Overlay!ReadModel, OverlayInv, LoaderInv
    <3>2. CASE loader' = [loader EXCEPT ![l] = Overlay!Idle]
      BY <3>1, <3>2 DEF Overlay!Register!Answer, Overlay!Idle, OverlayInv, OverlayTypes
    <3>3. CASE \E m \in Overlay!Versions \cup {Missing} :
                 loader' = [loader EXCEPT ![l] =
                              [at |-> "metadata", version |-> loader[l].version, model |-> m]]
      <4>1. [k \in Loaders |-> loader[k].version]' = [k \in Loaders |-> loader[k].version]
        BY <3>3 DEF OverlayInv, OverlayTypes
      <4>2. QED
        BY <3>1, <4>1
    <3>4. QED
      BY <2>4, <3>2, <3>3
         DEF Overlay!ReadModel, OverlayInv, OverlayTypes, LoaderInv, StoredInv, Complete
  <2>5. ASSUME NEW l \in Loaders, Overlay!ReadMetadata(l)
        PROVE  [Overlay!Register!Next]_(Overlay!Register!vars)
    BY <2>5
       DEF Overlay!ReadMetadata, Overlay!Register!Answer, Overlay!Idle, OverlayInv,
           OverlayTypes, LoaderInv
  <2>6. CASE UNCHANGED Overlay!vars
    BY <2>6 DEF Overlay!vars
  <2>7. QED
    BY <2>1, <2>2, <2>3, <2>4, <2>5, <2>6 DEF OverlayStep, Overlay!Next, Overlay!Load
<1>3. QED
  BY <1>1, <1>2, Components, OverlayInvariant, PTL
     DEF OverlayStep, Overlay!Spec, LoadsAreAtomic, Overlay!LoadsAreAtomic,
         Overlay!Register!Spec

-----------------------------------------------------------------------------

Building == {"save", "time", "commit"}

MarketTypes ==
    /\ raw \in Nat /\ rawAt \in Nat /\ execFrame \in Nat /\ frameAt \in Nat /\ now \in Nat
    /\ updater \in [Updaters -> [at : {"idle", "time", "commit"}, time : Nat]]
    /\ frameLoader \in [FrameLoaders -> [at : {"idle", "compare", "frame", "raw"} \cup Building,
                               time : Nat, source : Nat]]
    /\ served \in [FrameLoaders -> Nat \cup {None}]
    /\ orderly \in BOOLEAN
    /\ asked \in [FrameLoaders -> Nat \cup {None}]

\* No time that was written or read is ahead of the clock.
ClockInv ==
    /\ rawAt <= now /\ frameAt <= now
    /\ \A u \in Updaters : updater[u].time <= now
    /\ \A l \in FrameLoaders : frameLoader[l].time <= now

\* What follows an orderly update is built from its prices, and a frame of older
\* prices is older than the time the update has written or is about to write.
OrderlyInv ==
    orderly =>
        /\ \A l \in FrameLoaders :
              /\ frameLoader[l].at \in Building => frameLoader[l].source = raw
              /\ frameLoader[l].at \in {"time", "commit"} => execFrame = raw
        /\ \A u, v \in Updaters :
              updater[u].at # "idle" /\ updater[v].at # "idle" => u = v
        /\ Market!UpdatersRest => execFrame = raw \/ frameAt < rawAt
        /\ \A u \in Updaters :
              updater[u].at = "commit" => execFrame = raw \/ frameAt < updater[u].time

\* A call that found an orderly cache keeps what its answer rests on: nobody
\* builds from older prices any more, and the time it has read can still tell
\* it that the frame is stale.
CallInv ==
    \A l \in FrameLoaders : asked[l] # None =>
        /\ raw >= asked[l]
        /\ frameLoader[l].at # "idle" => \A m \in FrameLoaders :
              frameLoader[m].at \in Building => frameLoader[m].source >= asked[l]
        /\ frameLoader[l].at = "compare" =>
              \/ execFrame >= asked[l]
              \/ /\ frameLoader[l].time < rawAt
                 /\ \A u \in Updaters :
                       updater[u].at = "commit" => frameLoader[l].time < updater[u].time
        /\ frameLoader[l].at = "frame" => execFrame >= asked[l]
        /\ l \in Bounded /\ frameLoader[l].at = "idle" /\ served[l] # None
              => served[l] >= asked[l]

MarketInv == MarketTypes /\ ClockInv /\ OrderlyInv /\ CallInv

MarketStep == [Market!Next]_(Market!vars)

\* The caches of an earlier day belong together.
LEMMA InitMarket == Market!Init => MarketInv
BY DEF Market!Init, MarketInv, MarketTypes, ClockInv, OrderlyInv, CallInv, Market!Saved,
       Market!Idle, Market!UpdatersRest,
       Building
\* Each step keeps the variables in their types.
LEMMA NextMarketTypes == MarketInv /\ MarketStep => MarketTypes'
<1> SUFFICES ASSUME MarketInv, MarketStep PROVE MarketTypes'
  OBVIOUS
<1> USE DEF MarketInv, MarketTypes, Building
<1>1. ASSUME NEW u \in Updaters, Market!SaveRaw(u) PROVE MarketTypes'
  BY <1>1 DEF Market!SaveRaw
<1>2. ASSUME NEW u \in Updaters, Market!TimeUpdate(u) PROVE MarketTypes'
  BY <1>2 DEF Market!TimeUpdate
<1>3. ASSUME NEW u \in Updaters, Market!SaveRawMeta(u) PROVE MarketTypes'
  BY <1>3 DEF Market!SaveRawMeta, Market!Saved
<1>4. ASSUME NEW u \in Updaters, Market!FailUpdate(u) PROVE MarketTypes'
  BY <1>4 DEF Market!FailUpdate, Market!Saved
<1>5. ASSUME NEW l \in FrameLoaders, Market!ReadFrameMeta(l) PROVE MarketTypes'
  BY <1>5 DEF Market!ReadFrameMeta
<1>6. ASSUME NEW l \in FrameLoaders, Market!Compare(l) PROVE MarketTypes'
  BY <1>6 DEF Market!Compare
<1>7. ASSUME NEW l \in FrameLoaders, Market!ReadFrame(l) PROVE MarketTypes'
  <2>1. CASE Market!Accepts(l, execFrame)
    <3>1. /\ frameLoader' = [frameLoader EXCEPT ![l] = Market!Idle]
          /\ served' = [served EXCEPT ![l] = execFrame]
      BY <1>7, <2>1 DEF Market!ReadFrame, Market!Returns
    <3>2. QED
      BY <1>7, <3>1 DEF Market!ReadFrame, Market!Idle
  <2>2. CASE ~Market!Accepts(l, execFrame)
    <3> DEFINE next == [at |-> "raw", time |-> frameLoader[l].time, source |-> frameLoader[l].source]
    <3>1. [frameLoader[l] EXCEPT !.at = "raw"] = next
      OBVIOUS
    <3>2. frameLoader' = [frameLoader EXCEPT ![l] = next]
      BY <1>7, <2>2, <3>1 DEF Market!ReadFrame
    <3>3. QED
      BY <1>7, <2>2, <3>2 DEF Market!ReadFrame
  <2>3. QED
    BY <2>1, <2>2
<1>8. ASSUME NEW l \in FrameLoaders, Market!CheckFails(l) PROVE MarketTypes'
  BY <1>8 DEF Market!CheckFails
<1>9. ASSUME NEW l \in FrameLoaders, Market!ReadRaw(l) PROVE MarketTypes'
  BY <1>9 DEF Market!ReadRaw
<1>10. ASSUME NEW l \in FrameLoaders, Market!Fallback(l) PROVE MarketTypes'
  BY <1>10 DEF Market!Fallback, Market!Returns, Market!Idle
<1>11. ASSUME NEW l \in FrameLoaders, Market!SaveFrame(l) PROVE MarketTypes'
  BY <1>11 DEF Market!SaveFrame
<1>12. ASSUME NEW l \in FrameLoaders, Market!TimeFrame(l) PROVE MarketTypes'
  BY <1>12 DEF Market!TimeFrame
<1>13. ASSUME NEW l \in FrameLoaders, Market!ReturnBuilt(l) PROVE MarketTypes'
  BY <1>13 DEF Market!ReturnBuilt, Market!Returns, Market!Accepts, Market!Idle
<1>14. ASSUME NEW l \in FrameLoaders, Market!FailLoad(l) PROVE MarketTypes'
  BY <1>14 DEF Market!FailLoad, Market!Returns, Market!Idle
<1>15. CASE UNCHANGED Market!vars
  BY <1>15 DEF Market!vars
<1>16. QED
  BY <1>1, <1>2, <1>3, <1>4, <1>5, <1>6, <1>7, <1>8, <1>9, <1>10, <1>11, <1>12, <1>13,
     <1>14, <1>15
     DEF MarketStep, Market!Next, Market!Update, Market!Load

\* Only a reading of the clock makes a time, and it moves the clock on.
LEMMA NextClockInv == MarketInv /\ MarketStep => ClockInv'
<1> SUFFICES ASSUME MarketInv, MarketStep PROVE ClockInv'
  OBVIOUS
<1> USE DEF MarketInv, MarketTypes, ClockInv, Building
<1>1. ASSUME NEW u \in Updaters, Market!SaveRaw(u) PROVE ClockInv'
  BY <1>1 DEF Market!SaveRaw
<1>2. ASSUME NEW u \in Updaters, Market!TimeUpdate(u) PROVE ClockInv'
  BY <1>2 DEF Market!TimeUpdate
<1>3. ASSUME NEW u \in Updaters, Market!SaveRawMeta(u) PROVE ClockInv'
  BY <1>3 DEF Market!SaveRawMeta, Market!Saved
<1>4. ASSUME NEW u \in Updaters, Market!FailUpdate(u) PROVE ClockInv'
  BY <1>4 DEF Market!FailUpdate, Market!Saved
<1>5. ASSUME NEW l \in FrameLoaders, Market!ReadFrameMeta(l) PROVE ClockInv'
  BY <1>5 DEF Market!ReadFrameMeta
<1>6. ASSUME NEW l \in FrameLoaders, Market!Compare(l) PROVE ClockInv'
  BY <1>6 DEF Market!Compare
<1>7. ASSUME NEW l \in FrameLoaders, Market!ReadFrame(l) PROVE ClockInv'
  <2>1. CASE Market!Accepts(l, execFrame)
    BY <1>7, <2>1 DEF Market!ReadFrame, Market!Returns, Market!Idle
  <2>2. CASE ~Market!Accepts(l, execFrame)
    BY <1>7, <2>2 DEF Market!ReadFrame
  <2>3. QED
    BY <2>1, <2>2
<1>8. ASSUME NEW l \in FrameLoaders, Market!CheckFails(l) PROVE ClockInv'
  BY <1>8 DEF Market!CheckFails
<1>9. ASSUME NEW l \in FrameLoaders, Market!ReadRaw(l) PROVE ClockInv'
  BY <1>9 DEF Market!ReadRaw
<1>10. ASSUME NEW l \in FrameLoaders, Market!Fallback(l) PROVE ClockInv'
  BY <1>10 DEF Market!Fallback, Market!Returns, Market!Idle
<1>11. ASSUME NEW l \in FrameLoaders, Market!SaveFrame(l) PROVE ClockInv'
  BY <1>11 DEF Market!SaveFrame
<1>12. ASSUME NEW l \in FrameLoaders, Market!TimeFrame(l) PROVE ClockInv'
  BY <1>12 DEF Market!TimeFrame
<1>13. ASSUME NEW l \in FrameLoaders, Market!ReturnBuilt(l) PROVE ClockInv'
  BY <1>13 DEF Market!ReturnBuilt, Market!Returns, Market!Accepts, Market!Idle
<1>14. ASSUME NEW l \in FrameLoaders, Market!FailLoad(l) PROVE ClockInv'
  BY <1>14 DEF Market!FailLoad, Market!Returns, Market!Idle
<1>15. CASE UNCHANGED Market!vars
  BY <1>15 DEF Market!vars
<1>16. QED
  BY <1>1, <1>2, <1>3, <1>4, <1>5, <1>6, <1>7, <1>8, <1>9, <1>10, <1>11, <1>12, <1>13,
     <1>14, <1>15
     DEF MarketStep, Market!Next, Market!Update, Market!Load

\* An update is orderly only if nothing is being built when it saves its prices.
LEMMA NextOrderlyInv == MarketInv /\ MarketStep => OrderlyInv'
<1> SUFFICES ASSUME MarketInv, MarketStep PROVE OrderlyInv'
  OBVIOUS
<1> USE DEF MarketInv, MarketTypes, ClockInv, OrderlyInv, Building, Market!UpdatersRest
<1>1. ASSUME NEW u \in Updaters, Market!SaveRaw(u) PROVE OrderlyInv'
  <2>1. /\ orderly' => Market!UpdatersRest /\ \A l \in FrameLoaders : frameLoader[l].at \notin Building
        /\ frameLoader' = frameLoader
    BY <1>1 DEF Market!SaveRaw
  <2>2. updater'[u].at = "time" /\ \A v \in Updaters \ {u} : updater'[v] = updater[v]
    BY <1>1 DEF Market!SaveRaw
  <2>3. QED
    BY <2>1, <2>2
<1>2. ASSUME NEW u \in Updaters, Market!TimeUpdate(u) PROVE OrderlyInv'
  BY <1>2 DEF Market!TimeUpdate
<1>3. ASSUME NEW u \in Updaters, Market!SaveRawMeta(u) PROVE OrderlyInv'
  BY <1>3 DEF Market!SaveRawMeta, Market!Saved
<1>4. ASSUME NEW u \in Updaters, Market!FailUpdate(u) PROVE OrderlyInv'
  BY <1>4 DEF Market!FailUpdate, Market!Saved
<1>5. ASSUME NEW l \in FrameLoaders, Market!ReadFrameMeta(l) PROVE OrderlyInv'
  BY <1>5 DEF Market!ReadFrameMeta
<1>6. ASSUME NEW l \in FrameLoaders, Market!Compare(l) PROVE OrderlyInv'
  BY <1>6 DEF Market!Compare
<1>7. ASSUME NEW l \in FrameLoaders, Market!ReadFrame(l) PROVE OrderlyInv'
  <2>1. CASE Market!Accepts(l, execFrame)
    BY <1>7, <2>1 DEF Market!ReadFrame, Market!Returns, Market!Idle
  <2>2. CASE ~Market!Accepts(l, execFrame)
    BY <1>7, <2>2 DEF Market!ReadFrame
  <2>3. QED
    BY <2>1, <2>2
<1>8. ASSUME NEW l \in FrameLoaders, Market!CheckFails(l) PROVE OrderlyInv'
  BY <1>8 DEF Market!CheckFails
<1>9. ASSUME NEW l \in FrameLoaders, Market!ReadRaw(l) PROVE OrderlyInv'
  BY <1>9 DEF Market!ReadRaw
<1>10. ASSUME NEW l \in FrameLoaders, Market!Fallback(l) PROVE OrderlyInv'
  BY <1>10 DEF Market!Fallback, Market!Returns, Market!Idle
<1>11. ASSUME NEW l \in FrameLoaders, Market!SaveFrame(l) PROVE OrderlyInv'
  BY <1>11 DEF Market!SaveFrame
<1>12. ASSUME NEW l \in FrameLoaders, Market!TimeFrame(l) PROVE OrderlyInv'
  BY <1>12 DEF Market!TimeFrame
<1>13. ASSUME NEW l \in FrameLoaders, Market!ReturnBuilt(l) PROVE OrderlyInv'
  BY <1>13 DEF Market!ReturnBuilt, Market!Returns, Market!Accepts, Market!Idle
<1>14. ASSUME NEW l \in FrameLoaders, Market!FailLoad(l) PROVE OrderlyInv'
  BY <1>14 DEF Market!FailLoad, Market!Returns, Market!Idle
<1>15. CASE UNCHANGED Market!vars
  BY <1>15 DEF Market!vars
<1>16. QED
  BY <1>1, <1>2, <1>3, <1>4, <1>5, <1>6, <1>7, <1>8, <1>9, <1>10, <1>11, <1>12, <1>13,
     <1>14, <1>15
     DEF MarketStep, Market!Next, Market!Update, Market!Load

\* The cache never goes back behind what a call has found.
LEMMA NextCallInv == MarketInv /\ MarketStep => CallInv'
<1> SUFFICES ASSUME MarketInv, MarketStep PROVE CallInv'
  OBVIOUS
<1> USE DEF MarketInv, MarketTypes, ClockInv, OrderlyInv, CallInv, Building,
            Market!UpdatersRest
<1>1. ASSUME NEW u \in Updaters, Market!SaveRaw(u) PROVE CallInv'
  BY <1>1 DEF Market!SaveRaw
<1>2. ASSUME NEW u \in Updaters, Market!TimeUpdate(u) PROVE CallInv'
  BY <1>2 DEF Market!TimeUpdate
<1>3. ASSUME NEW u \in Updaters, Market!SaveRawMeta(u) PROVE CallInv'
  BY <1>3 DEF Market!SaveRawMeta, Market!Saved
<1>4. ASSUME NEW u \in Updaters, Market!FailUpdate(u) PROVE CallInv'
  BY <1>4 DEF Market!FailUpdate, Market!Saved
<1>5. ASSUME NEW l \in FrameLoaders, Market!ReadFrameMeta(l) PROVE CallInv'
  BY <1>5 DEF Market!ReadFrameMeta
<1>6. ASSUME NEW l \in FrameLoaders, Market!Compare(l) PROVE CallInv'
  BY <1>6 DEF Market!Compare
<1>7. ASSUME NEW l \in FrameLoaders, Market!ReadFrame(l) PROVE CallInv'
  <2>1. /\ frameLoader[l].at = "frame"
        /\ \A m \in FrameLoaders \ {l} : frameLoader'[m] = frameLoader[m] /\ served'[m] = served[m]
        /\ UNCHANGED <<raw, rawAt, execFrame, updater, asked>>
    <3>1. CASE Market!Accepts(l, execFrame)
      BY <1>7, <3>1 DEF Market!ReadFrame, Market!Returns
    <3>2. CASE ~Market!Accepts(l, execFrame)
      BY <1>7, <3>2 DEF Market!ReadFrame
    <3>3. QED
      BY <3>1, <3>2
  <2>2. \/ frameLoader'[l].at = "idle" /\ served'[l] = execFrame
        \/ frameLoader'[l].at = "raw"
    <3>1. CASE Market!Accepts(l, execFrame)
      BY <1>7, <3>1 DEF Market!ReadFrame, Market!Returns, Market!Idle
    <3>2. CASE ~Market!Accepts(l, execFrame)
      BY <1>7, <3>2 DEF Market!ReadFrame
    <3>3. QED
      BY <3>1, <3>2
  <2>3. QED
    BY <2>1, <2>2
<1>8. ASSUME NEW l \in FrameLoaders, Market!CheckFails(l) PROVE CallInv'
  BY <1>8 DEF Market!CheckFails
<1>9. ASSUME NEW l \in FrameLoaders, Market!ReadRaw(l) PROVE CallInv'
  BY <1>9 DEF Market!ReadRaw
<1>10. ASSUME NEW l \in FrameLoaders, Market!Fallback(l) PROVE CallInv'
  BY <1>10 DEF Market!Fallback, Market!Returns, Market!Idle
<1>11. ASSUME NEW l \in FrameLoaders, Market!SaveFrame(l) PROVE CallInv'
  BY <1>11 DEF Market!SaveFrame
<1>12. ASSUME NEW l \in FrameLoaders, Market!TimeFrame(l) PROVE CallInv'
  BY <1>12 DEF Market!TimeFrame
<1>13. ASSUME NEW l \in FrameLoaders, Market!ReturnBuilt(l) PROVE CallInv'
  BY <1>13 DEF Market!ReturnBuilt, Market!Returns, Market!Accepts, Market!Idle
<1>14. ASSUME NEW l \in FrameLoaders, Market!FailLoad(l) PROVE CallInv'
  BY <1>14 DEF Market!FailLoad, Market!Returns, Market!Idle
<1>15. CASE UNCHANGED Market!vars
  BY <1>15 DEF Market!vars
<1>16. QED
  BY <1>1, <1>2, <1>3, <1>4, <1>5, <1>6, <1>7, <1>8, <1>9, <1>10, <1>11, <1>12, <1>13,
     <1>14, <1>15
     DEF MarketStep, Market!Next, Market!Update, Market!Load

\* The invariant holds in every state of the caches.
THEOREM CacheInvariant == Market!Spec => []MarketInv
<1>1. MarketInv /\ MarketStep => MarketInv'
  BY NextMarketTypes, NextClockInv, NextOrderlyInv, NextCallInv DEF MarketInv
<1>2. QED
  BY InitMarket, <1>1, PTL DEF Market!Spec, MarketStep

\* A loader with a bound on the age is never served prices from before an
\* undisturbed update that was complete when it called.
THEOREM UpdateReachesLoads == ArtifactsSpec => []UpdatedIsServed
<1>1. MarketInv => UpdatedIsServed
  BY DEF MarketInv, CallInv, UpdatedIsServed, Market!UpdatedIsServed
<1>2. QED
  BY Components, CacheInvariant, <1>1, PTL

-----------------------------------------------------------------------------
(***************************************************************************)
(* The broker session, for any number of processes, sessions and calls.    *)
(***************************************************************************)
ClientTypes ==
    [at : {"new", "probe", "reprobe", "ready", "call", "recall", "ended"},
     session : Session!Sessions \cup {NoSession}, pno : Nat, restored : BOOLEAN,
     calls : Nat]

SessionTypes ==
    /\ cache \in [session : Session!Sessions, pno : Nat] \cup {NoSession}
    /\ opened \in 0 .. LastSession
    /\ highest \in [Session!Sessions -> Nat]
    /\ client \in [Session!Processes -> ClientTypes]
    /\ call \in [Session!Processes ->
                   [answer : {"none", "open", "ok", "unknown", "refused"}, executed : Nat]]

\* A call that is not answered has not been executed, and what the caller
\* learns at the end is true.
OutcomeInv ==
    \A p \in Session!Processes :
        /\ Session!Calling(p) => call[p].answer = "open" /\ call[p].executed = 0
        /\ call[p].executed <= 1
        /\ call[p].answer = "ok" => call[p].executed = 1
        /\ call[p].answer \in {"open", "refused"} => call[p].executed = 0

\* A session in use or in the file has been opened.
OpenedInv ==
    /\ cache # NoSession => cache.session <= opened
    /\ \A p \in Session!Processes :
          client[p].session # NoSession => client[p].session <= opened

\* Of the processes that have not ended at most one holds a session that was
\* never shared, and once its health check has passed the next number it sends
\* is new to the server.
HolderInv ==
    /\ refused \subseteq shared
    /\ \A p, q \in Session!Processes :
          /\ client[p].at # "ended" /\ client[q].at # "ended"
          /\ client[p].session = client[q].session
          /\ client[p].session # NoSession /\ client[p].session \notin shared
          => p = q
    /\ \A p \in Session!Processes :
          /\ client[p].at \in {"ready", "call", "recall"}
          /\ client[p].session # NoSession /\ client[p].session \notin shared
          => client[p].pno > highest[client[p].session]

SessionInv == SessionTypes /\ OutcomeInv /\ OpenedInv /\ HolderInv

SessionStep == [Session!Next]_(Session!vars)

\* At first no session is open and no process has started.
LEMMA InitSession == Session!Init => SessionInv
BY SessionAssumption
   DEF Session!SessionAssumption, Session!Init, SessionInv, SessionTypes, OutcomeInv,
       OpenedInv, HolderInv, ClientTypes, Session!NoCall, Session!Calling

\* What a failed request or login leaves of its process.
FailedAs(p, new, answer, executed) ==
    /\ client' = [client EXCEPT ![p] = new]
    /\ new.pno = client[p].pno + 1
    /\ \/ /\ Session!Probing(p) /\ new.at = "probe" /\ new.session = NoSession
          /\ cache' = NoSession /\ call' = call
       \/ /\ Session!Probing(p) /\ new.at = "ended" /\ new.session = client[p].session
          /\ cache' = cache /\ call' = call
       \/ /\ Session!Calling(p) /\ new.at = "ready" /\ new.session = client[p].session
          /\ cache' = cache
          /\ call' = [call EXCEPT ![p] =
                        [answer |-> answer, executed |-> @.executed + executed]]

\* A failed health check gives its session up or its process, a failed call
\* only the call.
LEMMA FailEffect ==
    ASSUME SessionInv, NEW p \in Session!Processes, NEW answer, NEW executed,
           Session!Fail(p, answer, executed)
    PROVE  \E new \in ClientTypes : FailedAs(p, new, answer, executed)
<1> DEFINE old == client[p]
           spent == [old EXCEPT !.pno = @ + 1]
<1>1. old \in ClientTypes
  BY DEF SessionInv, SessionTypes
<1>2. spent \in ClientTypes /\ spent.pno = old.pno + 1 /\ spent.session = old.session
  BY <1>1 DEF ClientTypes
<1>3. CASE Session!Probing(p) /\ client' = [client EXCEPT ![p] =
                 IF client[p].restored
                 THEN [spent EXCEPT !.at = "probe", !.session = NoSession,
                                    !.restored = FALSE]
                 ELSE [spent EXCEPT !.at = "ended"]]
           /\ cache' = (IF client[p].restored THEN NoSession ELSE cache)
           /\ UNCHANGED call
  <2>1. CASE client[p].restored
    <3> DEFINE new == [spent EXCEPT !.at = "probe", !.session = NoSession, !.restored = FALSE]
    <3>1. new \in ClientTypes /\ new.pno = spent.pno /\ new.at = "probe" /\ new.session = NoSession
      BY <1>2 DEF ClientTypes
    <3>2. QED
      BY <1>2, <1>3, <2>1, <3>1 DEF FailedAs
  <2>2. CASE ~client[p].restored
    <3> DEFINE new == [spent EXCEPT !.at = "ended"]
    <3>1. new \in ClientTypes /\ new.pno = spent.pno /\ new.at = "ended"
          /\ new.session = spent.session
      BY <1>2 DEF ClientTypes
    <3>2. QED
      BY <1>2, <1>3, <2>2, <3>1 DEF FailedAs
  <2>3. QED
    BY <2>1, <2>2
<1>4. CASE /\ Session!Calling(p)
           /\ client' = [client EXCEPT ![p] = [spent EXCEPT !.at = "ready"]]
           /\ call' = [call EXCEPT ![p] =
                 [answer |-> answer, executed |-> @.executed + executed]]
           /\ UNCHANGED cache
  <2> DEFINE new == [spent EXCEPT !.at = "ready"]
  <2>1. new \in ClientTypes /\ new.pno = spent.pno /\ new.at = "ready"
        /\ new.session = spent.session
    BY <1>2 DEF ClientTypes
  <2>2. QED
    BY <1>2, <1>4, <2>1 DEF FailedAs
<1>5. QED
  BY <1>3, <1>4 DEF Session!Fail

\* A process that logs in, has been answered, repeats its request or calls.
LEMMA ClientMoves ==
    \A c \in ClientTypes :
        /\ c.pno \in Nat /\ c.calls \in Nat
        /\ \A s \in Session!Sessions :
              [c EXCEPT !.session = s, !.pno = @ + 1] \in ClientTypes
        /\ [c EXCEPT !.at = "ready", !.pno = @ + 1] \in ClientTypes
        /\ \A at \in {"reprobe", "recall"} :
              [[c EXCEPT !.at = at, !.pno = @ + 1] EXCEPT !.session = NoSession]
                 \in ClientTypes
        /\ [c EXCEPT !.at = "call", !.calls = @ + 1] \in ClientTypes
<1> SUFFICES ASSUME NEW c \in ClientTypes
    PROVE /\ c.pno \in Nat /\ c.calls \in Nat
          /\ \A s \in Session!Sessions :
              [c EXCEPT !.session = s, !.pno = @ + 1] \in ClientTypes
          /\ [c EXCEPT !.at = "ready", !.pno = @ + 1] \in ClientTypes
          /\ \A at \in {"reprobe", "recall"} :
              [[c EXCEPT !.at = at, !.pno = @ + 1] EXCEPT !.session = NoSession]
                 \in ClientTypes
          /\ [c EXCEPT !.at = "call", !.calls = @ + 1] \in ClientTypes
  OBVIOUS
<1> USE DEF ClientTypes
<1>1. c.pno \in Nat /\ c.calls \in Nat
  OBVIOUS
<1>2. c.pno + 1 \in Nat /\ c.calls + 1 \in Nat
  BY <1>1
<1>3. QED
  BY <1>1, <1>2

\* A process starts with the session of the file or without one.
StartedAs(p, new) ==
    /\ client' = [client EXCEPT ![p] = new]
    /\ new.at = "probe"
    /\ \/ /\ cache # NoSession /\ cache' = cache
          /\ new.session = cache.session
          /\ shared' = IF Session!Holders(cache.session) = {} THEN shared
                       ELSE shared \cup {cache.session}
       \/ /\ new.session = client[p].session
          /\ cache' = NoSession /\ shared' = shared

LEMMA StartEffect ==
    ASSUME SessionInv, NEW p \in Session!Processes, Session!Start(p)
    PROVE  \E new \in ClientTypes : StartedAs(p, new)
<1>1. client[p] \in ClientTypes
  BY DEF SessionInv, SessionTypes
<1>2. CASE /\ cache # NoSession
           /\ client' = [client EXCEPT ![p] =
                 [@ EXCEPT !.at = "probe", !.session = cache.session,
                           !.pno = cache.pno, !.restored = TRUE]]
           /\ shared' = IF Session!Holders(cache.session) = {} THEN shared
                                                  ELSE shared \cup {cache.session}
           /\ UNCHANGED cache
  <2> DEFINE new == [client[p] EXCEPT !.at = "probe", !.session = cache.session,
                                      !.pno = cache.pno, !.restored = TRUE]
  <2>1. cache \in [session : Session!Sessions, pno : Nat]
    BY <1>2 DEF SessionInv, SessionTypes
  <2>2. new \in ClientTypes /\ new.at = "probe" /\ new.session = cache.session
    BY <1>1, <2>1 DEF ClientTypes
  <2>3. QED
    BY <1>2, <2>2 DEF StartedAs, SessionInv, SessionTypes
<1>3. CASE /\ client' = [client EXCEPT ![p].at = "probe"]
           /\ cache' = NoSession
           /\ UNCHANGED shared
  <2> DEFINE new == [client[p] EXCEPT !.at = "probe"]
  <2>1. new \in ClientTypes /\ new.at = "probe" /\ new.session = client[p].session
    BY <1>1 DEF ClientTypes
  <2>2. QED
    BY <1>3, <2>1 DEF StartedAs, SessionInv, SessionTypes
<1>4. QED
  BY <1>2, <1>3 DEF Session!Start

\* A process that finds its session expired fails or logs in and repeats.
RepeatedAs(p, new) ==
    /\ client' = [client EXCEPT ![p] = new]
    /\ new.session = NoSession
    /\ \/ client[p].at = "probe" /\ new.at = "reprobe"
       \/ client[p].at = "call" /\ new.at = "recall"
    /\ UNCHANGED <<cache, call>>

LEMMA ExpiredEffect ==
    ASSUME SessionInv, NEW p \in Session!Processes, Session!SessionExpired(p)
    PROVE  \/ Session!Fail(p, "refused", 0)
           \/ \E new \in ClientTypes : RepeatedAs(p, new)
<1> DEFINE at == IF client[p].at = "probe" THEN "reprobe" ELSE "recall"
           new == [Session!Advance(p, at) EXCEPT !.session = NoSession]
<1>1. client[p] \in ClientTypes
  BY DEF SessionInv, SessionTypes
<1>2. new \in ClientTypes
  BY <1>1, ClientMoves DEF Session!Advance
<1>3. new.session = NoSession /\ new.at = at
  BY <1>1 DEF Session!Advance, ClientTypes
<1>4. QED
  BY <1>2, <1>3 DEF Session!SessionExpired, RepeatedAs, SessionInv, SessionTypes

\* The variables keep their types.
LEMMA NextSessionTypes == SessionInv /\ SessionStep => SessionTypes'
<1> SUFFICES ASSUME SessionInv, SessionStep PROVE SessionTypes'
  OBVIOUS
<1> USE SessionAssumption DEF Session!SessionAssumption, SessionInv, SessionTypes
<1>1. \A p \in Session!Processes : client[p] \in ClientTypes
  OBVIOUS
<1>2. ASSUME NEW p \in Session!Processes, NEW new \in ClientTypes
      PROVE  [client EXCEPT ![p] = new] \in [Session!Processes -> ClientTypes]
  OBVIOUS
<1>3. ASSUME NEW p \in Session!Processes, NEW executed \in {0, 1},
             NEW answer \in {"unknown", "refused"}, Session!Fail(p, answer, executed),
             highest' \in [Session!Sessions -> Nat], opened' = opened
      PROVE  SessionTypes'
  <2>1. PICK new \in ClientTypes : FailedAs(p, new, answer, executed)
    BY <1>3, FailEffect
  <2>2. client' \in [Session!Processes -> ClientTypes]
    BY <2>1, <1>2 DEF FailedAs
  <2>3. call' \in [Session!Processes ->
                   [answer : {"none", "open", "ok", "unknown", "refused"}, executed : Nat]]
    BY <2>1, <1>3 DEF FailedAs
  <2>4. cache' \in [session : Session!Sessions, pno : Nat] \cup {NoSession}
    BY <2>1 DEF FailedAs
  <2>5. QED
    BY <2>2, <2>3, <2>4, <1>3
<1>4. ASSUME NEW s \in Session!Sessions, Session!Expire(s) PROVE SessionTypes'
  BY <1>4 DEF Session!Expire
<1>5. ASSUME NEW p \in Session!Processes, Session!Start(p) PROVE SessionTypes'
  <2>1. [client[p] EXCEPT !.at = "probe"] \in ClientTypes
    BY <1>1 DEF ClientTypes
  <2>2. cache # NoSession =>
           [client[p] EXCEPT !.at = "probe", !.session = cache.session,
                             !.pno = cache.pno, !.restored = TRUE] \in ClientTypes
    BY <1>1 DEF ClientTypes
  <2>3. QED
    BY <1>5, <2>1, <2>2, <1>2, SMTT(30) DEF Session!Start
<1>6. ASSUME NEW p \in Session!Processes, Session!Login(p) PROVE SessionTypes'
  <2>1. opened' \in 1 .. LastSession
    BY <1>6 DEF Session!Login
  <2>2. [client[p] EXCEPT !.session = opened', !.pno = @ + 1] \in ClientTypes
    BY <1>1, <2>1, ClientMoves DEF Session!Sessions
  <2>3. client[p].pno \in Nat
    BY <1>1 DEF ClientTypes
  <2>4. client' = [client EXCEPT ![p] = [client[p] EXCEPT !.session = opened', !.pno = @ + 1]]
    BY <1>6 DEF Session!Login
  <2>5. highest' \in [Session!Sessions -> Nat]
    BY <1>6, <2>3 DEF Session!Login
  <2>6. client' \in [Session!Processes -> ClientTypes]
    BY <2>2, <2>4, <1>2
  <2>7. opened' \in 0 .. LastSession /\ cache' = cache /\ call' = call
    BY <1>6, <2>1 DEF Session!Login
  <2>8. QED
    BY <2>5, <2>6, <2>7
<1>7. ASSUME NEW p \in Session!Processes, Session!LoginFails(p) PROVE SessionTypes'
  BY <1>7, <1>3 DEF Session!LoginFails
<1> DEFINE Counted(p) == [highest EXCEPT ![client[p].session] = client[p].pno]
<1>8. ASSUME NEW p \in Session!Processes, Session!Sending(p)
      PROVE  Counted(p) \in [Session!Sessions -> Nat]
  BY <1>1, <1>8 DEF Session!Sending, Session!NeedsLogin, ClientTypes
<1>9. ASSUME NEW p \in Session!Processes, Session!Answered(p) PROVE SessionTypes'
  <2>1. Session!Advance(p, "ready") \in ClientTypes
    BY <1>1, ClientMoves DEF Session!Advance
  <2>2. call' \in [Session!Processes ->
                   [answer : {"none", "open", "ok", "unknown", "refused"}, executed : Nat]]
    BY <1>9 DEF Session!Answered
  <2>3. QED
    BY <1>9, <2>1, <2>2, <1>2, <1>8 DEF Session!Answered
<1>10. ASSUME NEW p \in Session!Processes,
            Session!TransportFails(p) \/ Session!BusinessRefuses(p)
     PROVE  SessionTypes'
  BY <1>10, <1>3, <1>8 DEF Session!TransportFails, Session!BusinessRefuses
<1>11. ASSUME NEW p \in Session!Processes, Session!SessionExpired(p) PROVE SessionTypes'
  <2>1. ASSUME NEW at \in {"reprobe", "recall"}
        PROVE  [Session!Advance(p, at) EXCEPT !.session = NoSession] \in ClientTypes
    BY <1>1, ClientMoves DEF Session!Advance
  <2>2. QED
    BY <1>11, <2>1, <1>2, <1>3, SMTT(30) DEF Session!SessionExpired
<1>12. ASSUME NEW p \in Session!Processes, Session!PnoRefused(p) PROVE SessionTypes'
  BY <1>12, <1>3 DEF Session!PnoRefused
<1>13. ASSUME NEW p \in Session!Processes, Session!BeginCall(p) PROVE SessionTypes'
  <2>1. [client[p] EXCEPT !.at = "call", !.calls = @ + 1] \in ClientTypes
    BY <1>1, ClientMoves
  <2>2. client' = [client EXCEPT ![p] = [client[p] EXCEPT !.at = "call", !.calls = @ + 1]]
    BY <1>13 DEF Session!BeginCall
  <2>3. QED
    BY <1>13, <2>1, <2>2, <1>2 DEF Session!BeginCall
<1>14. ASSUME NEW p \in Session!Processes,
              Session!Release(p) \/ Session!Close(p) \/ Session!Crash(p)
       PROVE  SessionTypes'
  <2>1. [client[p] EXCEPT !.at = "ended"] \in ClientTypes
    BY <1>1 DEF ClientTypes
  <2>2. client' = [client EXCEPT ![p] = [client[p] EXCEPT !.at = "ended"]]
    BY <1>14 DEF Session!Release, Session!Close, Session!Crash, Session!Ended
  <2>3. ~Session!NeedsLogin(p) =>
           [session |-> client[p].session, pno |-> client[p].pno]
              \in [session : Session!Sessions, pno : Nat]
    BY <1>1 DEF ClientTypes, Session!NeedsLogin
  <2>4. cache' \in [session : Session!Sessions, pno : Nat] \cup {NoSession}
    BY <1>14, <2>3 DEF Session!Release, Session!Close, Session!Crash
  <2>5. QED
    BY <1>14, <2>1, <2>2, <2>4, <1>2 DEF Session!Release, Session!Close, Session!Crash
<1>15. CASE UNCHANGED Session!vars
  BY <1>15 DEF Session!vars
<1>16. QED
  BY <1>4, <1>5, <1>6, <1>7, <1>9, <1>10, <1>11, <1>12, <1>13, <1>14, <1>15
     DEF SessionStep, Session!Next

\* A call ends once, with what happened to it.
LEMMA NextOutcomeInv == SessionInv /\ SessionStep => OutcomeInv'
<1> SUFFICES ASSUME SessionInv, SessionStep PROVE OutcomeInv'
  OBVIOUS
<1> USE DEF SessionInv, SessionTypes, OutcomeInv, ClientTypes, Session!Calling,
            Session!Probing
<1>1. ASSUME NEW p \in Session!Processes, NEW answer \in {"unknown", "refused"},
             NEW executed \in {0, 1}, answer = "refused" => executed = 0,
             Session!Fail(p, answer, executed)
      PROVE  OutcomeInv'
  <2>1. PICK new \in ClientTypes : FailedAs(p, new, answer, executed)
    BY <1>1, FailEffect
  <2>2. client' = [client EXCEPT ![p] = new] /\ new.at \notin {"call", "recall"}
    BY <2>1 DEF FailedAs
  <2>3. \/ call' = call
        \/ call[p].executed = 0
           /\ call' = [call EXCEPT ![p] = [answer |-> answer, executed |-> 0 + executed]]
    BY <2>1 DEF FailedAs
  <2>4. QED
    BY <2>2, <2>3, <1>1
<1>2. ASSUME NEW p \in Session!Processes, Session!Start(p) PROVE OutcomeInv'
  <2>1. PICK new \in ClientTypes : StartedAs(p, new)
    BY <1>2, StartEffect
  <2>2. call' = call
    BY <1>2 DEF Session!Start
  <2>3. QED
    BY <2>1, <2>2 DEF StartedAs
<1>3. ASSUME NEW p \in Session!Processes, Session!Login(p) PROVE OutcomeInv'
  <2>1. \A q \in Session!Processes : client'[q].at = client[q].at
    BY <1>3 DEF Session!Login
  <2>2. QED
    BY <1>3, <2>1 DEF Session!Login
<1>4. ASSUME NEW p \in Session!Processes, Session!LoginFails(p) PROVE OutcomeInv'
  BY <1>4, <1>1 DEF Session!LoginFails
<1>5. ASSUME NEW p \in Session!Processes, Session!Answered(p) PROVE OutcomeInv'
  <2>1. client' = [client EXCEPT ![p] = Session!Advance(p, "ready")]
        /\ Session!Advance(p, "ready").at = "ready"
    BY <1>5 DEF Session!Answered, Session!Advance
  <2>2. \/ call' = call
        \/ /\ call[p].executed = 0
           /\ call' = [call EXCEPT ![p] = [answer |-> "ok", executed |-> 0 + 1]]
    BY <1>5 DEF Session!Answered
  <2>3. QED
    BY <2>1, <2>2
<1>6. ASSUME NEW p \in Session!Processes,
            Session!TransportFails(p) \/ Session!BusinessRefuses(p)
     PROVE  OutcomeInv'
  BY <1>6, <1>1 DEF Session!TransportFails, Session!BusinessRefuses
<1>7. ASSUME NEW p \in Session!Processes, Session!SessionExpired(p) PROVE OutcomeInv'
  <2>1. CASE Session!Fail(p, "refused", 0)
    BY <1>7, <2>1, <1>1 DEF Session!SessionExpired
  <2>2. ASSUME NEW new \in ClientTypes, RepeatedAs(p, new) PROVE OutcomeInv'
    BY <1>7, <2>2 DEF Session!SessionExpired, RepeatedAs
  <2>3. QED
    BY <1>7, <2>1, <2>2, ExpiredEffect
<1>8. ASSUME NEW p \in Session!Processes, Session!PnoRefused(p) PROVE OutcomeInv'
  BY <1>8, <1>1 DEF Session!PnoRefused
<1>9. ASSUME NEW p \in Session!Processes, Session!BeginCall(p) PROVE OutcomeInv'
  BY <1>9 DEF Session!BeginCall
<1>10. ASSUME NEW p \in Session!Processes,
              Session!Release(p) \/ Session!Close(p) \/ Session!Crash(p)
       PROVE  OutcomeInv'
  BY <1>10 DEF Session!Release, Session!Close, Session!Crash, Session!Ended
<1>11. CASE (\E s \in Session!Sessions : Session!Expire(s)) \/ UNCHANGED Session!vars
  BY <1>11 DEF Session!vars, Session!Expire
<1>12. QED
  BY <1>2, <1>3, <1>4, <1>5, <1>6, <1>7, <1>8, <1>9, <1>10, <1>11
     DEF SessionStep, Session!Next

\* Sessions are opened one after the other.
LEMMA NextOpenedInv == SessionInv /\ SessionStep => OpenedInv'
<1> SUFFICES ASSUME SessionInv, SessionStep PROVE OpenedInv'
  OBVIOUS
<1> USE DEF SessionInv, SessionTypes, OpenedInv, ClientTypes, Session!Sessions
<1>1. ASSUME NEW p \in Session!Processes, NEW answer, NEW executed,
             Session!Fail(p, answer, executed), opened' = opened
      PROVE  OpenedInv'
  <2>1. PICK new \in ClientTypes : FailedAs(p, new, answer, executed)
    BY <1>1, FailEffect
  <2>2. client' = [client EXCEPT ![p] = new] /\ new.session \in {NoSession, client[p].session}
        /\ cache' \in {cache, NoSession}
    BY <2>1 DEF FailedAs
  <2>3. QED
    BY <2>2, <1>1
<1>2. ASSUME NEW p \in Session!Processes, Session!Start(p) PROVE OpenedInv'
  <2>1. PICK new \in ClientTypes : StartedAs(p, new)
    BY <1>2, StartEffect
  <2>2. opened' = opened
    BY <1>2 DEF Session!Start
  <2>3. QED
    BY <2>1, <2>2 DEF StartedAs
<1>3. ASSUME NEW p \in Session!Processes, Session!Login(p) PROVE OpenedInv'
  <2>1. \A q \in Session!Processes :
           client'[q].session = IF q = p THEN opened + 1 ELSE client[q].session
    BY <1>3 DEF Session!Login
  <2>2. QED
    BY <1>3, <2>1 DEF Session!Login
<1>4. ASSUME NEW p \in Session!Processes, Session!LoginFails(p) PROVE OpenedInv'
  BY <1>4, <1>1 DEF Session!LoginFails
<1>5. ASSUME NEW p \in Session!Processes, Session!Answered(p) PROVE OpenedInv'
  <2>1. \A q \in Session!Processes : client'[q].session = client[q].session
    BY <1>5 DEF Session!Answered, Session!Advance
  <2>2. QED
    BY <1>5, <2>1 DEF Session!Answered
<1>6. ASSUME NEW p \in Session!Processes,
            Session!TransportFails(p) \/ Session!BusinessRefuses(p)
     PROVE  OpenedInv'
  BY <1>6, <1>1 DEF Session!TransportFails, Session!BusinessRefuses
<1>7. ASSUME NEW p \in Session!Processes, Session!SessionExpired(p) PROVE OpenedInv'
  <2>1. CASE Session!Fail(p, "refused", 0)
    BY <1>7, <2>1, <1>1 DEF Session!SessionExpired
  <2>2. ASSUME NEW new \in ClientTypes, RepeatedAs(p, new) PROVE OpenedInv'
    BY <1>7, <2>2 DEF Session!SessionExpired, RepeatedAs
  <2>3. QED
    BY <1>7, <2>1, <2>2, ExpiredEffect
<1>8. ASSUME NEW p \in Session!Processes, Session!PnoRefused(p) PROVE OpenedInv'
  BY <1>8, <1>1 DEF Session!PnoRefused
<1>9. ASSUME NEW p \in Session!Processes, Session!BeginCall(p) PROVE OpenedInv'
  <2>1. \A q \in Session!Processes : client'[q].session = client[q].session
    BY <1>9 DEF Session!BeginCall
  <2>2. QED
    BY <1>9, <2>1 DEF Session!BeginCall
<1>10. ASSUME NEW p \in Session!Processes,
              Session!Release(p) \/ Session!Close(p) \/ Session!Crash(p)
       PROVE  OpenedInv'
  <2>1. \A q \in Session!Processes : client'[q].session = client[q].session
    <3>1. client' = [client EXCEPT ![p].at = "ended"]
      BY <1>10 DEF Session!Release, Session!Close, Session!Crash, Session!Ended
    <3>2. QED
      BY <3>1
  <2>2. \/ cache' \in {cache, NoSession}
        \/ cache' = [session |-> client[p].session, pno |-> client[p].pno]
           /\ client[p].session # NoSession
    BY <1>10 DEF Session!Release, Session!Close, Session!Crash, Session!NeedsLogin
  <2>3. opened' = opened
    BY <1>10 DEF Session!Release, Session!Close, Session!Crash
  <2>4. QED
    BY <2>1, <2>2, <2>3
<1>11. CASE (\E s \in Session!Sessions : Session!Expire(s)) \/ UNCHANGED Session!vars
  BY <1>11 DEF Session!vars, Session!Expire
<1>12. QED
  BY <1>2, <1>3, <1>4, <1>5, <1>6, <1>7, <1>8, <1>9, <1>10, <1>11
     DEF SessionStep, Session!Next

\* A session only its holder has used is used by that one process, which knows
\* the next number of it.
LEMMA NextHolderInv == SessionInv /\ SessionStep => HolderInv'
<1> SUFFICES ASSUME SessionInv, SessionStep PROVE HolderInv'
  OBVIOUS
<1> USE DEF SessionInv, SessionTypes, HolderInv, ClientTypes, Session!Sessions
<1>1. ASSUME NEW p \in Session!Processes, NEW new \in ClientTypes,
             client' = [client EXCEPT ![p] = new],
             new.session \in {NoSession, client[p].session},
             new.at # "ended" => client[p].at # "ended",
             \/ new.at \notin {"ready", "call", "recall"}
             \/ new.session = NoSession
             \/ client[p].at \in {"ready", "call", "recall"}
                   /\ new.pno >= client[p].pno
             \/ new.pno > highest'[new.session],
             \/ highest' = highest
             \/ /\ client[p].at # "ended" /\ client[p].session # NoSession
                /\ highest' = [highest EXCEPT ![client[p].session] = client[p].pno]
                /\ new.pno > client[p].pno,
             shared' = shared, refused' \subseteq shared
      PROVE  HolderInv'
  <2>1. ASSUME NEW q \in Session!Processes, NEW r \in Session!Processes,
               client'[q].at # "ended", client'[r].at # "ended",
               client'[q].session = client'[r].session,
               client'[q].session # NoSession, client'[q].session \notin shared
        PROVE  q = r
    <3>1. ASSUME NEW m \in {q, r}
          PROVE  client[m].at # "ended" /\ client'[m].session = client[m].session
      BY <1>1, <2>1
    <3>2. QED
      BY <2>1, <3>1
  <2>2. ASSUME NEW q \in Session!Processes, client'[q].at \in {"ready", "call", "recall"},
               client'[q].session # NoSession, client'[q].session \notin shared
        PROVE  client'[q].pno > highest'[client'[q].session]
    <3>1. CASE q = p
      <4>1. client'[q] = new /\ new.session = client[p].session
        BY <3>1, <1>1, <2>2
      <4>2. CASE new.pno > highest'[new.session]
        BY <4>1, <4>2
      <4>3. CASE client[p].at \in {"ready", "call", "recall"} /\ new.pno >= client[p].pno
        <5>1. client[p].pno > highest[client[p].session]
          BY <4>1, <4>3, <2>2
        <5>2. client[p].pno \in Nat /\ new.pno \in Nat /\ client[p].session \in Session!Sessions
          BY <4>1, <2>2
        <5>3. highest \in [Session!Sessions -> Nat]
          OBVIOUS
        <5>4. CASE highest' = highest
          BY <4>1, <4>3, <5>1, <5>2, <5>3, <5>4
        <5>5. CASE /\ highest' = [highest EXCEPT ![client[p].session] = client[p].pno]
                   /\ new.pno > client[p].pno
          BY <4>1, <5>2, <5>3, <5>5
        <5>6. QED
          BY <5>4, <5>5, <1>1
      <4>4. QED
        BY <4>1, <4>2, <4>3, <1>1, <2>2
    <3>2. CASE q # p
      <4>1. client'[q] = client[q]
        BY <3>2, <1>1
      <4>2. highest'[client[q].session] = highest[client[q].session]
        BY <3>2, <4>1, <1>1, <2>2
      <4>3. QED
        BY <4>1, <4>2, <2>2
    <3>3. QED
      BY <3>1, <3>2
  <2>3. QED
    BY <2>1, <2>2, <1>1
<1>2. ASSUME NEW p \in Session!Processes, NEW answer, NEW executed,
             Session!Fail(p, answer, executed),
             \/ highest' = highest
             \/ /\ client[p].session # NoSession
                /\ highest' = [highest EXCEPT ![client[p].session] = client[p].pno],
             shared' = shared, refused' \subseteq shared
      PROVE  HolderInv'
  <2>1. PICK new \in ClientTypes : FailedAs(p, new, answer, executed)
    BY <1>2, FailEffect
  <2>2. /\ new.pno > client[p].pno /\ new.pno >= client[p].pno
        /\ client[p].at # "ended"
    BY <2>1 DEF FailedAs, Session!Probing, Session!Calling
  <2>3. /\ client' = [client EXCEPT ![p] = new]
        /\ new.session \in {NoSession, client[p].session}
        /\ \/ new.at \notin {"ready", "call", "recall"}
           \/ client[p].at \in {"ready", "call", "recall"}
    BY <2>1 DEF FailedAs, Session!Calling
  <2>4. QED
    BY <2>2, <2>3, <1>1, <1>2
<1>3. ASSUME NEW p \in Session!Processes, Session!Start(p) PROVE HolderInv'
  <2>1. PICK new \in ClientTypes : StartedAs(p, new)
    BY <1>3, StartEffect
  <2>2. client' = [client EXCEPT ![p] = new] /\ new.at = "probe" /\ client[p].at = "new"
    BY <2>1, <1>3 DEF StartedAs, Session!Start
  <2>3. highest' = highest /\ refused' = refused
    BY <1>3 DEF Session!Start
  <2>4. CASE new.session = client[p].session /\ shared' = shared
    BY <2>2, <2>3, <2>4, <1>1
  <2>5. CASE /\ cache # NoSession /\ new.session = cache.session
             /\ shared' = IF Session!Holders(cache.session) = {} THEN shared
                          ELSE shared \cup {cache.session}
    <3>1. ASSUME NEW q \in Session!Processes, q # p,
                 client'[q].at # "ended", client'[q].session = new.session,
                 new.session \notin shared'
          PROVE  FALSE
      <4>1. q \in Session!Holders(cache.session)
        BY <2>2, <2>5, <3>1 DEF Session!Holders
      <4>2. QED
        BY <2>5, <3>1, <4>1
    <3>2. \A q \in Session!Processes : q # p => client'[q] = client[q]
      BY <2>2
    <3>3. client'[p] = new /\ shared \subseteq shared'
      BY <2>2, <2>5
    <3>4. refused' \subseteq shared'
      BY <2>3, <3>3
    <3>5. ASSUME NEW q \in Session!Processes, NEW r \in Session!Processes,
                 client'[q].at # "ended", client'[r].at # "ended",
                 client'[q].session = client'[r].session,
                 client'[q].session # NoSession, client'[q].session \notin shared'
          PROVE  q = r
      <4>1. CASE q = p \/ r = p
        BY <3>1, <3>3, <3>5, <4>1
      <4>2. CASE q # p /\ r # p
        BY <3>2, <3>3, <3>5, <4>2
      <4>3. QED
        BY <4>1, <4>2
    <3>6. ASSUME NEW q \in Session!Processes,
                 client'[q].at \in {"ready", "call", "recall"},
                 client'[q].session # NoSession, client'[q].session \notin shared'
          PROVE  client'[q].pno > highest'[client'[q].session]
      <4>1. q # p
        BY <2>2, <3>3, <3>6
      <4>2. QED
        BY <2>3, <3>2, <3>3, <3>6, <4>1
    <3>7. QED
      BY <3>4, <3>5, <3>6
  <2>6. QED
    BY <2>1, <2>4, <2>5 DEF StartedAs
<1>4. ASSUME NEW p \in Session!Processes, Session!Login(p) PROVE HolderInv'
  <2> DEFINE new == [client[p] EXCEPT !.session = opened', !.pno = @ + 1]
  <2>0. client' = [client EXCEPT ![p] = new]
    BY <1>4 DEF Session!Login
  <2>1. opened' = opened + 1 /\ opened' \in Session!Sessions
    BY <1>4, SessionAssumption DEF Session!Login, Session!SessionAssumption
  <2>2. /\ new.session = opened' /\ new.pno > client[p].pno /\ new.at = client[p].at
        /\ new.at # "ended" /\ client[p].pno \in Nat
    BY <1>4 DEF Session!Login, Session!Probing, Session!Calling
  <2>3. highest' = [highest EXCEPT ![opened'] = client[p].pno]
        /\ shared' = shared /\ refused' = refused
    BY <1>4 DEF Session!Login
  <2>4. \A q \in Session!Processes :
           q # p => client'[q] = client[q] /\ client[q].session # opened'
    BY <2>0, <2>1, SessionAssumption DEF OpenedInv, Session!SessionAssumption
  <2>5. client'[p] = new /\ highest'[opened'] = client[p].pno
    BY <2>0, <2>1, <2>3
  <2>6. \A q \in Session!Processes : q # p /\ client[q].session # NoSession =>
           highest'[client[q].session] = highest[client[q].session]
    BY <2>3, <2>4
  <2> HIDE DEF new
  <2>7. ASSUME NEW q \in Session!Processes, NEW r \in Session!Processes,
               client'[q].at # "ended", client'[r].at # "ended",
               client'[q].session = client'[r].session,
               client'[q].session # NoSession, client'[q].session \notin shared
        PROVE  q = r
    <3>1. CASE q # p /\ r # p
      <4>1. client'[q] = client[q] /\ client'[r] = client[r]
        BY <3>1, <2>4
      <4>2. QED
        BY <4>1, <2>7
    <3>2. ASSUME NEW m \in {q, r}, m # p
          PROVE  client'[m].session # client'[p].session
      BY <3>2, <2>2, <2>4, <2>5
    <3>3. QED
      BY <3>1, <3>2, <2>7
  <2>8. ASSUME NEW q \in Session!Processes, client'[q].at \in {"ready", "call", "recall"},
               client'[q].session # NoSession, client'[q].session \notin shared
        PROVE  client'[q].pno > highest'[client'[q].session]
    <3>1. CASE q = p
      BY <3>1, <2>2, <2>5
    <3>2. CASE q # p
      BY <3>2, <2>4, <2>6, <2>8
    <3>3. QED
      BY <3>1, <3>2
  <2>9. QED
    BY <2>3, <2>7, <2>8
<1>5. ASSUME NEW p \in Session!Processes, Session!LoginFails(p) PROVE HolderInv'
  BY <1>5, <1>2 DEF Session!LoginFails
<1>6. ASSUME NEW p \in Session!Processes, Session!Answered(p) PROVE HolderInv'
  <2> DEFINE new == Session!Advance(p, "ready")
  <2>1. client[p] \in ClientTypes
    OBVIOUS
  <2>2. new \in ClientTypes
    BY <2>1, ClientMoves, ZenonT(30) DEF Session!Advance
  <2>3. new.session = client[p].session /\ new.pno > client[p].pno
        /\ client[p].pno \in Nat
    BY <2>1 DEF Session!Advance
  <2>4. client[p].at # "ended" /\ client[p].session # NoSession
    BY <1>6 DEF Session!Answered, Session!Sending, Session!Probing, Session!Calling,
                Session!NeedsLogin
  <2>5. /\ client' = [client EXCEPT ![p] = new] /\ shared' = shared /\ refused' = refused
        /\ highest' = [highest EXCEPT ![client[p].session] = client[p].pno]
    BY <1>6 DEF Session!Answered
  <2>6. new.pno > highest'[new.session]
    BY <2>3, <2>4, <2>5
  <2> HIDE DEF new
  <2>7. QED
    BY <2>2, <2>3, <2>4, <2>5, <2>6, <1>1
<1>7. ASSUME NEW p \in Session!Processes,
            Session!TransportFails(p) \/ Session!BusinessRefuses(p)
     PROVE  HolderInv'
  <2>1. client[p].session # NoSession
    BY <1>7 DEF Session!TransportFails, Session!BusinessRefuses, Session!Sending, Session!NeedsLogin
  <2>2. QED
    BY <2>1, <1>7, <1>2 DEF Session!TransportFails, Session!BusinessRefuses
<1>8. ASSUME NEW p \in Session!Processes, Session!SessionExpired(p) PROVE HolderInv'
  <2>1. shared' = shared /\ refused' = refused /\ highest' = highest
    BY <1>8 DEF Session!SessionExpired
  <2>2. CASE Session!Fail(p, "refused", 0)
    BY <2>1, <2>2, <1>2
  <2>3. ASSUME NEW new \in ClientTypes, RepeatedAs(p, new) PROVE HolderInv'
    BY <2>1, <2>3, <1>1 DEF RepeatedAs
  <2>4. QED
    BY <1>8, <2>2, <2>3, ExpiredEffect
<1>9. ASSUME NEW p \in Session!Processes, Session!PnoRefused(p) PROVE HolderInv'
  <2>1. refused' \subseteq shared
    <3>1. CASE Session!Calling(p)
      <4>1. client[p].session # NoSession
            /\ ~(client[p].pno > highest[client[p].session])
        BY <1>9 DEF Session!PnoRefused, Session!Accepted, Session!Sending,
                    Session!NeedsLogin
      <4>2. client[p].session \in shared
        BY <3>1, <4>1 DEF Session!Calling
      <4>3. QED
        BY <4>2, <1>9 DEF Session!PnoRefused
    <3>2. CASE ~Session!Calling(p)
      BY <3>2, <1>9 DEF Session!PnoRefused
    <3>3. QED
      BY <3>1, <3>2
  <2>2. QED
    BY <2>1, <1>9, <1>2 DEF Session!PnoRefused
<1>10. ASSUME NEW p \in Session!Processes, Session!BeginCall(p) PROVE HolderInv'
  <2> DEFINE new == [client[p] EXCEPT !.at = "call", !.calls = @ + 1]
  <2>1. client[p] \in ClientTypes
    OBVIOUS
  <2>2. new \in ClientTypes
    BY <2>1, ClientMoves, ZenonT(30)
  <2>3. new.session = client[p].session /\ new.pno = client[p].pno /\ new.pno \in Nat
    BY <2>1
  <2>4. /\ client' = [client EXCEPT ![p] = new] /\ client[p].at = "ready"
        /\ shared' = shared /\ refused' = refused /\ highest' = highest
    BY <1>10 DEF Session!BeginCall
  <2> HIDE DEF new
  <2>5. QED
    BY <2>2, <2>3, <2>4, <1>1
<1>11. ASSUME NEW p \in Session!Processes,
              Session!Release(p) \/ Session!Close(p) \/ Session!Crash(p)
       PROVE  HolderInv'
  <2> DEFINE new == [client[p] EXCEPT !.at = "ended"]
  <2>1. client[p] \in ClientTypes
    OBVIOUS
  <2>2. new \in ClientTypes /\ new.at = "ended" /\ new.session = client[p].session
    BY <2>1
  <2>3. /\ client' = [client EXCEPT ![p] = new]
        /\ shared' = shared /\ refused' = refused /\ highest' = highest
    BY <1>11 DEF Session!Release, Session!Close, Session!Crash, Session!Ended
  <2> HIDE DEF new
  <2>4. QED
    BY <2>2, <2>3, <1>1
<1>12. CASE (\E s \in Session!Sessions : Session!Expire(s)) \/ UNCHANGED Session!vars
  BY <1>12 DEF Session!vars, Session!Expire
<1>13. QED
  BY <1>3, <1>4, <1>5, <1>6, <1>7, <1>8, <1>9, <1>10, <1>11, <1>12
     DEF SessionStep, Session!Next

\* The inductive invariant of the session: types, sessions and their holders, and
\* that a call in hand has not been executed.
LEMMA SessionInvariant == Session!Spec => []SessionInv
<1>1. SessionInv /\ SessionStep => SessionInv'
  BY NextSessionTypes, NextOutcomeInv, NextOpenedInv, NextHolderInv DEF SessionInv
<1>2. QED
  BY InitSession, <1>1, PTL DEF Session!Spec, SessionStep

\* No call of the broker is executed twice, although the client logs in anew and
\* repeats a request, and no caller is told what did not happen.
THEOREM OutcomesAreTrue == ArtifactsSpec => []CallOutcomeIsTrue
<1>1. SessionInv => CallOutcomeIsTrue
  BY DEF SessionInv, OutcomeInv, CallOutcomeIsTrue, Session!CallOutcomeIsTrue
<1>2. QED
  BY Components, SessionInvariant, <1>1, PTL

\* The server refuses the number of a call only in a session that two processes
\* have held together, however sessions were handed over, left or discarded.
THEOREM OnlySharedRefused == ArtifactsSpec => []RefusedOnlyIfShared
<1>1. SessionInv => RefusedOnlyIfShared
  BY DEF SessionInv, HolderInv, RefusedOnlyIfShared, Session!RefusedOnlyIfShared
<1>2. QED
  BY Components, SessionInvariant, <1>1, PTL

-----------------------------------------------------------------------------
(***************************************************************************)
(* The registry of experiments, for any studies, candidates and number of  *)
(* lines.                                                                  *)
(***************************************************************************)
LineTypes ==
    [kind : {"study"}, study : Studies, candidates : SUBSET Candidates]
    \cup [kind : {"start"}, study : Studies, candidate : Candidates]
    \cup [kind : {"record"}, study : Studies \cup {None}, trial : Nat \cup {None},
          status : Registry!Statuses, of : Nat \cup {None}]
    \cup [kind : {"selection"}, study : Studies, selected : Nat \cup {None},
          trials : SUBSET Nat]

\* A record that names a trial names one started before it, of its own study.
TrialInv ==
    \A i \in DOMAIN log : log[i].kind = "record" /\ log[i].trial # None =>
        /\ log[i].trial \in DOMAIN log /\ log[i].trial < i
        /\ log[log[i].trial].kind = "start"
        /\ log[log[i].trial].study = log[i].study

RegistryInv == log \in Seq(LineTypes) /\ TrialInv /\ Registry!StudiesArePreregistered

RegistryStep == [Registry!Next]_log

\* The registry is empty at first.
LEMMA InitRegistry == Registry!Init => RegistryInv
BY DEF Registry!Init, RegistryInv, TrialInv, Registry!StudiesArePreregistered,
       Registry!Lines

\* The file has one line more.
Appended(line) ==
    /\ DOMAIN log = 1 .. Len(log) /\ Len(log) \in Nat
    /\ DOMAIN log' = 1 .. Len(log) + 1
    /\ \A i \in DOMAIN log : log'[i] = log[i]
    /\ log'[Len(log) + 1] = line
    /\ log' \in Seq(LineTypes)

LEMMA AppendEffect ==
    ASSUME log \in Seq(LineTypes), NEW line \in LineTypes, Registry!AppendLine(line)
    PROVE  Appended(line)
<1>1. log' = Append(log, line)
  BY DEF Registry!AppendLine
<1>2. /\ log' \in Seq(LineTypes) /\ Len(log') = Len(log) + 1
      /\ \A i \in 1 .. Len(log) : log'[i] = log[i]
      /\ log'[Len(log) + 1] = line
  BY <1>1
<1>3. Len(log) \in Nat /\ DOMAIN log = 1 .. Len(log) /\ DOMAIN log' = 1 .. Len(log')
  BY <1>2
<1>4. QED
  BY <1>2, <1>3 DEF Appended

\* A nonempty set of natural numbers has a least member.
LEMMA LeastMember ==
    ASSUME NEW T \in SUBSET Nat, T # {}
    PROVE  \E x \in T : \A y \in T : x <= y
<1>1. PICK x \in T : \A y \in T : ~(<<y, x>> \in OpToRel(<, Nat))
  BY NatLessThanWellFounded, WFMin
<1>2. \A y \in T : <<y, x>> \in OpToRel(<, Nat) <=> y < x
  BY DEF OpToRel
<1>3. \A y \in T : x <= y
  <2> TAKE y \in T
  <2>1. ~(y < x)
    BY <1>1, <1>2
  <2>2. QED
    BY <2>1
<1>4. QED
  BY <1>3

\* The greatest of a set of lines is one of them.
LEMMA MaxMember ==
    ASSUME NEW n \in Nat, NEW T \in SUBSET (1 .. n), T # {}
    PROVE  Registry!Max(T) \in T
<1> DEFINE Bounds == {k \in Nat : \A y \in T : y <= k}
<1>1. n \in Bounds
  OBVIOUS
<1>2. PICK k \in Bounds : \A b \in Bounds : k <= b
  BY <1>1, LeastMember
<1>3. k \in T
  <2>1. SUFFICES ASSUME k \notin T PROVE FALSE
    OBVIOUS
  <2>2. \A y \in T : y <= k - 1
    BY <2>1
  <2>3. k - 1 \in Nat
    <3>1. PICK y \in T : TRUE
      OBVIOUS
    <3>2. y \in 1 .. n /\ y <= k - 1 /\ k \in Nat
      BY <2>2
    <3>3. QED
      BY <3>2
  <2>4. k - 1 \in Bounds
    BY <2>2, <2>3
  <2>5. k <= k - 1
    BY <2>4, <1>2
  <2>6. QED
    BY <2>5
<1>4. \E x \in T : \A y \in T : x >= y
  BY <1>3
<1>5. QED
  BY <1>4 DEF Registry!Max

\* The registration a call finds is one of the study's.
LEMMA RegistrationFound ==
    ASSUME log \in Seq(LineTypes), NEW study, Registry!LinesOf("study", study) # {}
    PROVE  Registry!Registration(study) \in Registry!LinesOf("study", study)
<1>1. Registry!LinesOf("study", study) \in SUBSET Nat
  BY DEF Registry!LinesOf, Registry!Lines
<1>2. PICK i \in Registry!LinesOf("study", study) :
         \A j \in Registry!LinesOf("study", study) : i <= j
  BY <1>1, LeastMember
<1>3. QED
  BY <1>2 DEF Registry!Registration

\* What the rules of a study ask of a line that is about to be appended.
Admissible(line) ==
    /\ line.kind = "record" /\ line.trial # None =>
          line.trial \in Registry!Lines("start") /\ log[line.trial].study = line.study
    /\ \A i \in DOMAIN log : log[i].study = line.study =>
          /\ line.kind = "study" =>
                /\ log[i].kind \notin {"study", "start"}
                /\ log[i].kind = "record" => log[i].of # None /\ log[i].trial = None
          /\ line.kind \in {"start", "selection"} => log[i].kind # "selection"
          /\ line.kind = "selection" /\ log[i].kind = "start" =>
                /\ i \in line.trials
                /\ \E k \in Registry!Lines("record") : log[k].trial = i
    /\ line.kind = "start" =>
          \E j \in Registry!LinesOf("study", line.study) :
             line.candidate \in log[j].candidates
    /\ line.kind = "selection" /\ line.selected # None =>
          \E j \in Registry!Lines("record") :
             /\ log[j].trial = line.selected
             /\ log[j].study = line.study /\ log[j].status = "completed"

\* The rules hold of the longer file.
LEMMA AdmissibleKeeps ==
    ASSUME RegistryInv, NEW line \in LineTypes, Appended(line), Admissible(line)
    PROVE  RegistryInv'
<1> DEFINE n == Len(log) + 1
<1>1. /\ DOMAIN log' = DOMAIN log \cup {n} /\ n \notin DOMAIN log
      /\ \A i \in DOMAIN log : i \in Nat /\ i < n
      /\ \A i \in DOMAIN log : log'[i] = log[i]
      /\ log'[n] = line /\ n \in Nat
      /\ DOMAIN log \subseteq Nat
      /\ \A i \in DOMAIN log : 1 .. i - 1 \subseteq DOMAIN log
      /\ 1 .. n - 1 = DOMAIN log
  BY DEF Appended
<1>2. log' \in Seq(LineTypes)
  BY DEF Appended
<1> HIDE DEF n
<1>3. TrialInv'
  <2> SUFFICES ASSUME NEW i \in DOMAIN log', log'[i].kind = "record", log'[i].trial # None
               PROVE  /\ log'[i].trial \in DOMAIN log' /\ log'[i].trial < i
                      /\ log'[log'[i].trial].kind = "start"
                      /\ log'[log'[i].trial].study = log'[i].study
    BY DEF TrialInv
  <2>1. CASE i \in DOMAIN log
    BY <1>1, <2>1 DEF RegistryInv, TrialInv
  <2>2. CASE i = n
    BY <1>1, <2>2 DEF Admissible, Registry!Lines
  <2>3. QED
    BY <2>1, <2>2, <1>1
<1>4. ASSUME NEW i \in DOMAIN log', NEW j \in DOMAIN log', i < j,
             log'[i].study = log'[j].study
      PROVE  ~(\/ Registry!StudyAfterTrial(i, j)' \/ Registry!TrialAfterSelection(i, j)'
               \/ Registry!TrialSelectedAway(i, j)')
  <2>1. i \in DOMAIN log /\ log'[i] = log[i]
    BY <1>1, <1>4
  <2>2. CASE j \in DOMAIN log
    <3>1. log'[j] = log[j] /\ \A k \in 1 .. j - 1 : log'[k] = log[k]
      BY <1>1, <2>2
    <3>2. ~(\/ Registry!StudyAfterTrial(i, j) \/ Registry!TrialAfterSelection(i, j)
            \/ Registry!TrialSelectedAway(i, j))
      BY <2>1, <2>2, <3>1, <1>4 DEF RegistryInv, Registry!StudiesArePreregistered
    <3>3. QED
      BY <2>1, <3>1, <3>2
         DEF Registry!StudyAfterTrial, Registry!TrialAfterSelection,
             Registry!TrialSelectedAway
  <2>3. CASE j = n
    <3>1. log'[j] = line /\ \A k \in 1 .. j - 1 : k \in DOMAIN log /\ log'[k] = log[k]
      BY <1>1, <2>3
    <3>2. log[i].study = line.study
      BY <1>4, <2>1, <3>1
    <3>3. ~Registry!StudyAfterTrial(i, j)'
      BY <2>1, <3>1, <3>2 DEF Admissible, Registry!StudyAfterTrial
    <3>4. ~Registry!TrialAfterSelection(i, j)'
      BY <2>1, <3>1, <3>2 DEF Admissible, Registry!TrialAfterSelection
    <3>5. ~Registry!TrialSelectedAway(i, j)'
      <4>1. SUFFICES ASSUME log[i].kind = "start", line.kind = "selection"
                     PROVE  /\ i \in line.trials
                            /\ \E k \in 1 .. j - 1 :
                                  log'[k].kind = "record" /\ log'[k].trial = i
        BY <2>1, <3>1 DEF Registry!TrialSelectedAway
      <4>2. /\ i \in line.trials
            /\ \E k \in Registry!Lines("record") : log[k].trial = i
        BY <2>1, <3>2, <4>1 DEF Admissible
      <4>3. QED
        BY <4>2, <3>1, <2>3, <1>1 DEF Registry!Lines
    <3>6. QED
      BY <3>3, <3>4, <3>5
  <2>4. QED
    BY <2>2, <2>3, <1>1
<1>5. ASSUME NEW i \in DOMAIN log', log'[i].kind = "start"
      PROVE  \E j \in DOMAIN log' :
                /\ log'[j].kind = "study" /\ log'[j].study = log'[i].study
                /\ j < i /\ log'[i].candidate \in log'[j].candidates
  <2>1. CASE i \in DOMAIN log
    <3>1. PICK j \in DOMAIN log :
             /\ log[j].kind = "study" /\ log[j].study = log[i].study
             /\ j < i /\ log[i].candidate \in log[j].candidates
      BY <1>1, <1>5, <2>1
         DEF RegistryInv, Registry!StudiesArePreregistered, Registry!LinesOf,
             Registry!Lines
    <3>2. QED
      BY <3>1, <1>1, <2>1
  <2>2. CASE i = n
    <3>1. PICK j \in DOMAIN log :
             /\ log[j].kind = "study" /\ log[j].study = line.study
             /\ line.candidate \in log[j].candidates
      BY <1>1, <1>5, <2>2 DEF Admissible, Registry!LinesOf, Registry!Lines
    <3>2. QED
      BY <3>1, <1>1, <2>2
  <2>3. QED
    BY <2>1, <2>2, <1>1
<1>6. ASSUME NEW i \in DOMAIN log', log'[i].kind = "selection", log'[i].selected # None
      PROVE  \E j \in DOMAIN log' :
                /\ log'[j].kind = "record" /\ j < i
                /\ log'[j].trial = log'[i].selected
                /\ log'[j].study = log'[i].study /\ log'[j].status = "completed"
  <2>1. CASE i \in DOMAIN log
    <3>1. PICK j \in DOMAIN log :
             /\ log[j].kind = "record" /\ j < i
             /\ log[j].trial = log[i].selected
             /\ log[j].study = log[i].study /\ log[j].status = "completed"
      BY <1>1, <1>6, <2>1
         DEF RegistryInv, Registry!StudiesArePreregistered, Registry!Lines
    <3>2. QED
      BY <3>1, <1>1, <2>1
  <2>2. CASE i = n
    <3>1. PICK j \in DOMAIN log :
             /\ log[j].kind = "record" /\ log[j].trial = line.selected
             /\ log[j].study = line.study /\ log[j].status = "completed"
      BY <1>1, <1>6, <2>2 DEF Admissible, Registry!Lines
    <3>2. QED
      BY <3>1, <1>1, <2>2
  <2>3. QED
    BY <2>1, <2>2, <1>1
<1>7. Registry!StudiesArePreregistered'
  BY <1>4, <1>5, <1>6
     DEF Registry!StudiesArePreregistered, Registry!LinesOf, Registry!Lines
<1>8. QED
  BY <1>2, <1>3, <1>7 DEF RegistryInv

\* A study is registered before anything of it.
LEMMA RegisterAdmissible ==
    ASSUME RegistryInv, NEW s \in Studies, NEW cs \in SUBSET Candidates,
           Registry!RegisterStudy(s, cs)
    PROVE  RegistryInv'
<1> DEFINE line == [kind |-> "study", study |-> s, candidates |-> cs]
<1>1. line \in LineTypes
  BY DEF LineTypes
<1>2. ASSUME NEW i \in DOMAIN log, log[i].study = s
      PROVE  /\ log[i].kind \notin {"study", "start"}
             /\ log[i].kind = "record" => log[i].of # None /\ log[i].trial = None
  <2>1. Registry!LinesOf("study", s) = {} /\ Registry!LinesOf("start", s) = {}
    BY DEF Registry!RegisterStudy, Registry!Trials
  <2>2. log[i].kind \notin {"study", "start"}
    BY <1>2, <2>1 DEF Registry!LinesOf, Registry!Lines
  <2>3. ASSUME log[i].kind = "record" PROVE log[i].trial = None
    BY <1>2, <2>1, <2>3 DEF RegistryInv, TrialInv, Registry!LinesOf, Registry!Lines
  <2>4. ASSUME log[i].kind = "record", log[i].trial = None PROVE log[i].of # None
    <3>1. i \notin Registry!Trials(s)
      BY DEF Registry!RegisterStudy
    <3>2. QED
      BY <1>2, <2>4, <3>1 DEF Registry!Trials, Registry!Lines
  <2>5. QED
    BY <2>2, <2>3, <2>4
<1>3. Admissible(line)
  BY <1>2 DEF Admissible
<1>4. Registry!AppendLine(line)
  BY DEF Registry!RegisterStudy
<1>5. QED
  BY <1>1, <1>3, <1>4, AppendEffect, AdmissibleKeeps DEF RegistryInv

\* A trial is of a candidate of its study, and before the selection.
LEMMA StartAdmissible ==
    ASSUME RegistryInv, NEW s \in Studies, NEW c \in Candidates,
           Registry!StartTrial(s, c)
    PROVE  RegistryInv'
<1> DEFINE line == [kind |-> "start", study |-> s, candidate |-> c]
<1>1. line \in LineTypes
  BY DEF LineTypes
<1>2. Registry!Registration(s) \in Registry!LinesOf("study", s)
  BY RegistrationFound DEF RegistryInv, Registry!StartTrial
<1>3. Admissible(line)
  BY <1>2 DEF Admissible, Registry!StartTrial, Registry!LinesOf, Registry!Lines
<1>4. Registry!AppendLine(line)
  BY DEF Registry!StartTrial
<1>5. QED
  BY <1>1, <1>3, <1>4, AppendEffect, AdmissibleKeeps DEF RegistryInv

\* A record that names a trial names a started one of its study.
LEMMA RecordAdmissible ==
    ASSUME RegistryInv, NEW s \in Studies \cup {None},
           NEW t \in Registry!Lines("start") \cup {None},
           NEW status \in Registry!Statuses, NEW of \in Nat \cup {None},
           t # None => s = log[t].study,
           Registry!AppendLine([kind |-> "record", study |-> s, trial |-> t,
                                status |-> status, of |-> of])
    PROVE  RegistryInv'
<1> DEFINE line == [kind |-> "record", study |-> s, trial |-> t,
                    status |-> status, of |-> of]
<1>1. t \in Nat \cup {None}
  BY DEF RegistryInv, Registry!Lines
<1>2. line \in LineTypes
  BY <1>1 DEF LineTypes
<1>3. Admissible(line)
  BY DEF Admissible
<1>4. QED
  BY <1>2, <1>3, AppendEffect, AdmissibleKeeps DEF RegistryInv

\* A selection names all the trials of its study, and finds an outcome of each.
LEMMA SelectAdmissible ==
    ASSUME RegistryInv, NEW s \in Studies,
           NEW t \in Registry!Lines("start") \cup {None}, Registry!SelectStudy(s, t)
    PROVE  RegistryInv'
<1> DEFINE line == [kind |-> "selection", study |-> s, selected |-> t,
                    trials |-> Registry!LinesOf("start", s)]
           Outcomes == {i \in Registry!Current : log[i].study = s /\ log[i].trial # None}
           Of(trial) == {i \in Outcomes : log[i].trial = trial}
<1>1. DOMAIN log = 1 .. Len(log) /\ Len(log) \in Nat
  BY DEF RegistryInv
<1>2. line \in LineTypes
  BY <1>1 DEF LineTypes, Registry!LinesOf, Registry!Lines
<1>3. /\ Registry!LinesOf("start", s) \subseteq {log[i].trial : i \in Outcomes}
      /\ Registry!LinesOf("selection", s) = {}
      /\ t # None => /\ t \in {log[i].trial : i \in Outcomes}
                     /\ log[Registry!Max(Of(t))].status = "completed"
      /\ Registry!AppendLine(line)
  BY DEF Registry!SelectStudy
<1>4. Outcomes \subseteq Registry!Lines("record")
  BY DEF Registry!Current
<1>5. ASSUME t # None
      PROVE  \E j \in Registry!Lines("record") :
                log[j].trial = t /\ log[j].study = s /\ log[j].status = "completed"
  <2>1. Of(t) # {} /\ Of(t) \in SUBSET (1 .. Len(log))
    BY <1>1, <1>3, <1>4, <1>5 DEF Registry!Lines
  <2>2. Registry!Max(Of(t)) \in Of(t)
    BY <1>1, <2>1, MaxMember
  <2>3. QED
    BY <1>3, <1>4, <1>5, <2>2
<1>6. ASSUME NEW i \in DOMAIN log, log[i].study = s
      PROVE  /\ log[i].kind # "selection"
             /\ log[i].kind = "start" =>
                   /\ i \in Registry!LinesOf("start", s)
                   /\ \E k \in Registry!Lines("record") : log[k].trial = i
  BY <1>3, <1>4, <1>6 DEF Registry!LinesOf, Registry!Lines
<1>7. Admissible(line)
  BY <1>5, <1>6 DEF Admissible
<1>8. QED
  BY <1>2, <1>3, <1>7, AppendEffect, AdmissibleKeeps DEF RegistryInv

\* Every call that is not refused keeps the rules.
LEMMA NextRegistryInv == RegistryInv /\ RegistryStep => RegistryInv'
<1> SUFFICES ASSUME RegistryInv, RegistryStep PROVE RegistryInv'
  OBVIOUS
<1>1. ASSUME NEW s \in Studies, NEW cs \in SUBSET Candidates, Registry!RegisterStudy(s, cs)
      PROVE  RegistryInv'
  BY <1>1, RegisterAdmissible
<1>2. ASSUME NEW s \in Studies, NEW c \in Candidates, Registry!StartTrial(s, c)
      PROVE  RegistryInv'
  BY <1>2, StartAdmissible
<1>3. ASSUME NEW s \in Studies, NEW t \in Registry!Lines("start") \cup {None},
             Registry!SelectStudy(s, t)
      PROVE  RegistryInv'
  BY <1>3, SelectAdmissible
<1>4. ASSUME NEW s \in Studies \cup {None}, NEW status \in Registry!Statuses,
             Registry!RecordUntracked(s, status)
      PROVE  RegistryInv'
  BY <1>4, RecordAdmissible DEF Registry!RecordUntracked
<1>5. ASSUME NEW s \in Studies \cup {None}, NEW status \in Registry!Statuses,
             NEW i \in Registry!Lines("record"),
             NEW t \in Registry!Lines("start") \cup {None},
             Registry!RecordCorrection(i, s, t, status)
      PROVE  RegistryInv'
  <2>1. i \in Nat
    BY DEF RegistryInv, Registry!Lines
  <2>2. QED
    BY <1>5, <2>1, RecordAdmissible DEF Registry!RecordCorrection
<1>6. ASSUME NEW t \in Registry!Lines("start"), NEW status \in Registry!Statuses,
             Registry!RecordOutcome(t, status)
      PROVE  RegistryInv'
  <2>1. log[t] \in LineTypes
    BY DEF RegistryInv, Registry!Lines
  <2>2. log[t].study \in Studies \cup {None}
    BY <2>1 DEF LineTypes
  <2>3. QED
    BY <1>6, <2>2, RecordAdmissible DEF Registry!RecordOutcome
<1>7. CASE UNCHANGED log
  BY <1>7 DEF RegistryInv, TrialInv, Registry!StudiesArePreregistered, Registry!Lines,
              Registry!LinesOf, Registry!StudyAfterTrial, Registry!TrialAfterSelection,
              Registry!TrialSelectedAway
<1>8. QED
  BY <1>1, <1>2, <1>3, <1>4, <1>5, <1>6, <1>7 DEF RegistryStep, Registry!Next

\* Every study is preregistered and closed, whatever calls and corrections are
\* made, for any number of studies, candidates and lines.
THEOREM Preregistered == ArtifactsSpec => []StudiesArePreregistered
<1>1. RegistryInv => StudiesArePreregistered
  BY DEF RegistryInv, StudiesArePreregistered
<1>2. Registry!Spec => []RegistryInv
  BY InitRegistry, NextRegistryInv, PTL DEF Registry!Spec, RegistryStep
<1>3. QED
  BY Components, <1>1, <1>2, PTL
=============================================================================
