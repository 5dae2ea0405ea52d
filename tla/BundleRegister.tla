--------------------------- MODULE BundleRegister ---------------------------
(***************************************************************************)
(* What load_gap_bundle promises its callers: the bundle of a date and     *)
(* horizon is one register.  A reader is given either nothing or the       *)
(* bundle that was current at one moment of its call, whole.               *)
(***************************************************************************)
CONSTANTS Readers, Bundles, NoBundle

VARIABLES
    current,  \* the bundle published last
    looked,   \* the bundle each reader has found, while its call lasts
    answer    \* what its last call returned

vars == <<current, looked, answer>>

Init ==
    /\ current = NoBundle
    /\ looked = [r \in Readers |-> NoBundle]
    /\ answer = [r \in Readers |-> NoBundle]

Publish ==
    /\ current' \in Bundles
    /\ UNCHANGED <<looked, answer>>

Call(r) ==
    /\ looked[r] = NoBundle
    /\ answer' = [answer EXCEPT ![r] = NoBundle]
    /\ UNCHANGED <<current, looked>>

Look(r) ==
    /\ looked[r] = NoBundle /\ answer[r] = NoBundle
    /\ looked' = [looked EXCEPT ![r] = current]
    /\ UNCHANGED <<current, answer>>

Answer(r) ==
    /\ looked[r] # NoBundle
    /\ \/ answer' = [answer EXCEPT ![r] = looked[r]]
       \/ UNCHANGED answer
    /\ looked' = [looked EXCEPT ![r] = NoBundle]
    /\ UNCHANGED current

Next == Publish \/ \E r \in Readers : Call(r) \/ Look(r) \/ Answer(r)

Spec == Init /\ [][Next]_vars
=============================================================================
