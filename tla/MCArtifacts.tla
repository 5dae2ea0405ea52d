----------------------------- MODULE MCArtifacts -----------------------------
(* Two versions of a bundle and one of mixed files; the horizons of one and *)
(* three days.                                                              *)
EXTENDS Artifacts
CONSTANTS a, b

MCBundles == {[mu |-> a, omega |-> a, meta |-> a],
              [mu |-> b, omega |-> b, meta |-> b],
              [mu |-> a, omega |-> b, meta |-> NoFile]}

MCHorizons == <<1, 3>>
=============================================================================
