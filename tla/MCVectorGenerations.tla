------------------------- MODULE MCVectorGenerations -------------------------
(***************************************************************************)
(* Instances of VectorGenerations for TLC.                                 *)
(***************************************************************************)
EXTENDS VectorGenerations, TLC

CONSTANTS b1, b2, b3, r1, e1

(* The first document generation of file version 1 needs OCR on each page, *)
(* and has the empty artifact.                                             *)
FirstScanned == {<<1, 1>>}

(* No builder differs from another where Retrying is empty.                *)
BuilderSymmetry == Permutations(Builders)
==============================================================================
