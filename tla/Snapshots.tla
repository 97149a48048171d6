------------------------------ MODULE Snapshots ------------------------------
(***************************************************************************)
(* Source snapshots of one project: which document generation of every     *)
(* file version is the active one (generation_publications).  The document *)
(* generations of a file version are counted in the order of their         *)
(* publication, from 1; 0 stands for a file version that has none yet.     *)
(* A pointer never returns to a generation it has left, see                *)
(* ProjectStore.                                                           *)
(***************************************************************************)
EXTENDS Naturals

CONSTANTS
  Files,        \* file versions of the project (file_version_id)
  MaxVersion,   \* bound: document generations published per file version
  None

ASSUME VersionAssumption == MaxVersion \in Nat

Snapshots == [Files -> 0..MaxVersion]

ASSUME NoneAssumption == None \notin Snapshots

Unpublished == [f \in Files |-> 0]

Precedes(s, t) == \A f \in Files : s[f] <= t[f]

(* The snapshots that follow s when one document is published.             *)
Successors(s) ==
  {[s EXCEPT ![f] = s[f] + 1] : f \in {g \in Files : s[g] < MaxVersion}}
==============================================================================
