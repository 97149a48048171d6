--------------------------- MODULE MCProjectStore ---------------------------
(* Instances of ProjectStore for TLC.                                      *)
EXTENDS ProjectStore, TLC

CONSTANTS p1, p2, c1, c2, v1, v2, i1, i2, u1

StoreSymmetry ==
  Permutations(Papers) \cup Permutations(Profiles) \cup Permutations(Contents)
    \cup Permutations(Importers)
=============================================================================
