---------------------------- MODULE RunArtifacts ----------------------------
(***************************************************************************)
(* The artifacts of a server run: what imports publish, what other         *)
(* programs do to it, and the lease that pins one runtime and one model    *)
(* for a run (open_llama_run_artifact_lease and the functions after it,    *)
(* feasibility/llama_slice.py).                                            *)
(***************************************************************************)
EXTENDS ModelImport

CONSTANT Runner     \* the process that runs the server under a lease

ASSUME RunnerAssumption == Runner \notin Importers

VARIABLE lease      \* its state, and whose runtime directory it pins

allVars == <<vars, lease>>

LeaseStates ==
  {"none", "loaded", "pinned", "prepared", "bound", "running", "verified",
   "failed", "released", "refused", "reopened", "not_reopened"}

TypeOK ==
  /\ dir \in [DirPaths -> Directories \cup {Absent}]
  /\ doc \in [DocPaths -> Documents \cup {Absent}]
  /\ model \in {"pinned", "edited"}
  /\ \A i \in Importers : job[i].made \subseteq Files
  /\ reading \in [{"runtime", "model", "manifest"} -> SUBSET (Importers \cup {Runner})]
  /\ meddling \in 0 .. MaxMeddling
  /\ faults \in 0 .. MaxFaults
  /\ lease.state \in LeaseStates

InitAll == Init /\ lease = [state |-> "none", by |-> Absent]

-----------------------------------------------------------------------------
(* The lease.                                                              *)

LeaseAt(from) == lease.state = from
LeaseTo(to) == lease' = [lease EXCEPT !.state = to]
Opens(whats) == reading' = [w \in DOMAIN reading |->
                  IF w \in whats THEN reading[w] \cup {Runner} ELSE reading[w]]
ClosesAll == reading' = [w \in DOMAIN reading |-> reading[w] \ {Runner}]

(* Both manifests are read once; each carries its own digest.              *)
Genuine(document) ==
  document # Absent /\ document.by # Foreign /\ document.sound

LoadManifests ==
  /\ LeaseAt("none")
  /\ Genuine(doc["manifest"]) /\ Genuine(doc["model_manifest"])
  /\ LeaseTo("loaded")
  /\ UNCHANGED vars

(* Every file of the runtime is hashed, then opened without write or       *)
(* delete sharing and hashed again.                                        *)
Intact == dir["runtime"] # Absent /\ Complete(dir["runtime"])

PinRuntime ==
  /\ LeaseAt("loaded")
  /\ \/ /\ NoFault /\ Intact
        /\ Opens({"runtime"})
        /\ lease' = [state |-> "pinned", by |-> dir["runtime"].by]
     \/ /\ IF Intact THEN Fault ELSE NoFault
        /\ UNCHANGED reading
        /\ LeaseTo("refused")
  /\ UNCHANGED <<dir, doc, model, job, meddling>>

(* The whole tree as it was at the scan, and the model opened and read.    *)
SameTree == Unchanged(dir["runtime"], lease.by)

ConfirmLease ==
  /\ LeaseAt("pinned")
  /\ \/ /\ NoFault /\ SameTree /\ model = "pinned"
        /\ Opens({"model"})
        /\ LeaseTo("prepared")
     \/ /\ IF SameTree /\ model = "pinned" THEN Fault ELSE NoFault
        /\ ClosesAll
        /\ LeaseTo("refused")
  /\ UNCHANGED <<dir, doc, model, job, meddling>>

ClaimLease ==
  /\ LeaseAt("prepared")
  /\ LeaseTo("bound")
  /\ UNCHANGED vars

(* A replay of everything, just before the process is created and after it *)
(* has ended.                                                              *)
Verify(from, to) ==
  /\ LeaseAt(from)
  /\ LeaseTo(IF SameTree /\ model = "pinned" THEN to ELSE "failed")
  /\ UNCHANGED vars

VerifyFails(from) ==
  /\ LeaseAt(from) /\ Fault
  /\ LeaseTo("failed")
  /\ UNCHANGED <<dir, doc, model, job, reading, meddling>>

VerifyPrelaunch == Verify("bound", "running") \/ VerifyFails("bound")
VerifyPostRun == Verify("running", "verified") \/ VerifyFails("running")

ReleaseLease ==
  /\ lease.state \in {"prepared", "bound", "running", "verified", "failed"}
  /\ ClosesAll
  /\ LeaseTo("released")
  /\ UNCHANGED <<dir, doc, model, job, meddling, faults>>

(* After the release every file can be opened again.                       *)
Reopenable ==
  /\ dir["runtime"] # Absent
  /\ \A f \in Files : dir["runtime"].files[f] # "none"

ProbeReopenable ==
  /\ LeaseAt("released")
  /\ \/ NoFault /\ Reopenable /\ LeaseTo("reopened")
     \/ (IF Reopenable THEN Fault ELSE NoFault) /\ LeaseTo("not_reopened")
  /\ UNCHANGED <<dir, doc, model, job, reading, meddling>>

Lease ==
  \/ LoadManifests \/ PinRuntime \/ ConfirmLease \/ ClaimLease
  \/ VerifyPrelaunch \/ VerifyPostRun \/ ReleaseLease \/ ProbeReopenable

-----------------------------------------------------------------------------
(* Other programs, and the end of a process.                               *)

Alien ==
  [by |-> Foreign, files |-> [f \in Files |-> "foreign"], extra |-> FALSE]

MeddleWithDir(p) ==
  /\ \/ Movable(p) /\ dir' \in {[dir EXCEPT ![p] = Absent], [dir EXCEPT ![p] = Alien]}
     \/ dir[p] # Absent /\ dir' = [dir EXCEPT ![p].extra = TRUE]
     \/ /\ dir[p] # Absent /\ Movable(p)
        /\ \E f \in Files, s \in {"none", "edited", "foreign"} :
             /\ dir[p].files[f] # "none"
             /\ dir' = [dir EXCEPT ![p].files[f] = s]
  /\ dir' # dir
  /\ UNCHANGED <<doc, model>>

MeddleWithDoc(p) ==
  /\ p = "model_manifest" => reading.manifest = {}
  /\ \/ doc' \in {[doc EXCEPT ![p] = Absent],
                  [doc EXCEPT ![p] = [by |-> Foreign, sound |-> FALSE]]}
     \/ doc[p] # Absent /\ doc' = [doc EXCEPT ![p].sound = FALSE]
  /\ doc' # doc
  /\ UNCHANGED <<dir, model>>

MeddleWithModel ==
  /\ reading.model = {} /\ model = "pinned"
  /\ model' = "edited"
  /\ UNCHANGED <<dir, doc>>

Meddle ==
  /\ meddling < MaxMeddling
  /\ meddling' = meddling + 1
  /\ \/ \E p \in DirPaths : MeddleWithDir(p)
     \/ \E p \in DocPaths : MeddleWithDoc(p)
     \/ MeddleWithModel
  /\ UNCHANGED <<job, reading, faults>>

Kill(i) ==
  /\ job[i].pc \notin Ends \cup {"idle"} /\ Fault
  /\ job' = Goto(i, "killed")
  /\ reading' = [w \in DOMAIN reading |-> reading[w] \ {i}]
  /\ UNCHANGED <<dir, doc, model, meddling>>

Next ==
  \/ \E i \in RuntimeImporters : ImportRuntime(i) /\ UNCHANGED lease
  \/ \E i \in ModelImporters : ImportModel(i) /\ UNCHANGED lease
  \/ \E i \in Importers : Kill(i) /\ UNCHANGED lease
  \/ Meddle /\ UNCHANGED lease
  \/ Lease

Spec == InitAll /\ [][Next]_allVars

(* The same with renames of a runtime's import that happen unnoticed; the  *)
(* properties are stated for Spec, where a rename that fails has not       *)
(* happened.                                                               *)
AmbiguousSpec ==
  InitAll
    /\ [][Next \/ \E i \in RuntimeImporters : RenameUnknown(i) /\ UNCHANGED lease]_allVars

-----------------------------------------------------------------------------
(* Properties.                                                             *)

Destination(i) == IF i \in RuntimeImporters THEN "manifest" ELSE "model_manifest"

(* An import that ends with its ordinary error has left nothing at its     *)
(* destinations, whichever call or check failed and whoever interfered:    *)
(* what may remain is reported by the error that says "quarantined"        *)
(* (LlamaSliceRuntimeRollbackError).  A rename of a runtime's import that  *)
(* has happened and is not known to have (AmbiguousSpec) breaks this.      *)
PlainErrorLeavesNothing ==
  \A i \in Importers :
    job[i].pc = "error" =>
      /\ ~IsOwn(doc[Destination(i)], i)
      /\ i \in RuntimeImporters => ~IsOwn(dir["runtime"], i)

(* A manifest stands only beside the complete runtime of its own import,   *)
(* also while the import is undone, also after it was killed, and however  *)
(* another import to the same place proceeds; unless its removal failed,   *)
(* which its import reports.                                               *)
ManifestHasRuntime ==
  meddling = 0 /\ doc["manifest"] # Absent =>
    LET i == doc["manifest"].by
    IN \/ Unchanged(dir["runtime"], i)
       \/ job[i].stuck /\ job[i].pc # "error"

(* What an import has reported as done is not undone by another one.       *)
DoneStays ==
  meddling = 0 =>
    \A i \in Importers :
      job[i].pc = "done" =>
        /\ IsExact(doc[Destination(i)], i)
        /\ i \in RuntimeImporters => Unchanged(dir["runtime"], i)

(* Without a failure and without interference an import that is refused,   *)
(* early or late, leaves no staging directory and no temporary file.       *)
LoserCleansUp ==
  meddling = 0 /\ faults = 0 =>
    \A i \in Importers :
      job[i].pc = "error" =>
        doc[i] = Absent /\ (i \in RuntimeImporters => dir[i] = Absent)

(* While the server runs, its executable and libraries and its model are   *)
(* the ones that were hashed: nobody has changed or moved them, not even   *)
(* the import that published them and now takes them back.                 *)
LeasePins ==
  lease.state \in {"prepared", "bound", "running", "verified"} =>
    /\ IsOwn(dir["runtime"], lease.by)
    /\ \A f \in Files : dir["runtime"].files[f] = "ours"
    /\ model = "pinned"
=============================================================================
