--------------------------- MODULE MCRunArtifacts ---------------------------
(* Instance of RunArtifacts for TLC.                                       *)
EXTENDS RunArtifacts, TLC

CONSTANTS exe, lic, r1, r2, m1

ImportSymmetry == Permutations(RuntimeImporters)
=============================================================================
