--------------------------- MODULE MCGuidedSetup ---------------------------
(* GuidedSetup with constants for TLC. *)
EXTENDS GuidedSetup, TLC

Symmetry == Permutations(Runs)
=============================================================================
