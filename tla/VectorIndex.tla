----------------------------- MODULE VectorIndex -----------------------------
(***************************************************************************)
(* What the semantic index of one project promises its readers, without    *)
(* saying how it is built: it is either unavailable or made of exactly the *)
(* current sources.  Publishing a document takes it away, at once, and     *)
(* nothing else does.  VectorGenerations is shown to implement this, and   *)
(* the modules that only read the index take it as their environment.      *)
(***************************************************************************)
EXTENDS Snapshots

VARIABLES
  current,      \* the snapshot of the active document generations
  served        \* the snapshot of the index a reader is given, or None

indexVars == <<current, served>>

IndexInit == current = Unpublished /\ served = None

(* A document is published: publish_native_document.                       *)
SourceChange ==
  /\ current' \in Successors(current)
  /\ served' = None

(* A vector generation is published: EmbeddingRepository.publish.          *)
IndexChange ==
  /\ served' = current
  /\ UNCHANGED current

IndexNext == SourceChange \/ IndexChange

IndexSpec == IndexInit /\ [][IndexNext]_indexVars
==============================================================================
