--------------------------- MODULE ArtifactImport ---------------------------
(***************************************************************************)
(* Import of a pinned llama.cpp runtime and of a pinned model              *)
(* (feasibility/llama_slice.py).  A runtime import builds a private        *)
(* staging directory, renames it to the runtime directory, then renames a  *)
(* prepared manifest into place; a model import only publishes a manifest  *)
(* beside a model it holds open.  Any error undoes what was published, in  *)
(* the opposite order, and removes nothing that it cannot prove its own.   *)
(*                                                                         *)
(* Several imports may have the same destinations, other programs may      *)
(* change any file, every system call may fail and the process may be      *)
(* killed.  A look at a path and the rename or removal that relies on it   *)
(* are separate steps.  Trees are flat: a directory inside the runtime     *)
(* behaves as a file of it.                                                *)
(*                                                                         *)
(* Windows rules: a rename never replaces its destination, and a file open *)
(* without write and delete sharing is neither changed nor moved, nor is   *)
(* the directory that holds it.                                            *)
(***************************************************************************)
EXTENDS Naturals

CONSTANTS
  RuntimeImporters, \* processes that import the runtime
  ModelImporters,   \* processes that import the model
  Files,            \* files of the runtime
  License,          \* the one of them that is not in the archives
  Foreign,          \* another program
  Absent,           \* what a path without a file holds
  MaxMeddling,      \* bound: changes made by other programs
  MaxFaults         \* bound: failed system calls and killed processes

ASSUME ImportersAssumption == RuntimeImporters \cap ModelImporters = {}
ASSUME ForeignAssumption == Foreign \notin RuntimeImporters \cup ModelImporters
ASSUME LicenseAssumption == License \in Files
ASSUME BoundsAssumption == MaxMeddling \in Nat /\ MaxFaults \in Nat

Importers == RuntimeImporters \cup ModelImporters

(* A file of a directory is as its creator wrote it, that file with other  *)
(* bytes, or another file under its name.                                  *)
FileStates == {"none", "ours", "edited", "foreign"}

Directories ==
  [by : Importers \cup {Foreign}, files : [Files -> FileStates],
   extra : BOOLEAN]
Documents == [by : Importers \cup {Foreign}, sound : BOOLEAN]

DirPaths == {"runtime"} \cup RuntimeImporters        \* the latter: staging
DocPaths == {"manifest", "model_manifest"} \cup Importers  \* temporary files

ASSUME PathsAssumption ==
  {"runtime", "manifest", "model_manifest"} \cap Importers = {}
ASSUME AbsentAssumption == Absent \notin Directories \cup Documents

VARIABLES
  dir,      \* the runtime directory and the staging directories
  doc,      \* the manifests and the prepared manifests
  model,    \* the model file: "pinned" or "edited"
  job,      \* the local variables of each import
  reading,  \* who holds the files of the runtime, or of the model, open
  meddling, \* changes by other programs so far
  faults    \* failures so far

vars == <<dir, doc, model, job, reading, meddling, faults>>

Idle ==
  [pc |-> "idle", root |-> FALSE, made |-> {}, tree |-> FALSE, kept |-> FALSE,
   dirOut |-> FALSE, docOut |-> FALSE, started |-> FALSE, stuck |-> FALSE,
   dirty |-> FALSE]

Init ==
  /\ dir = [p \in DirPaths |-> Absent]
  /\ doc = [p \in DocPaths |-> Absent]
  /\ model = "pinned"
  /\ job = [i \in Importers |-> Idle]
  /\ reading = [runtime |-> {}, model |-> {}, manifest |-> {}]
  /\ meddling = 0
  /\ faults = 0

Ends == {"done", "error", "quarantined", "killed"}

-----------------------------------------------------------------------------
(* Identity and content of what a path holds.                              *)

NewDir(i) ==
  [by |-> i, files |-> [f \in Files |-> "none"], extra |-> FALSE]

(* _has_stable_identity: the same object, whatever has become of it.       *)
IsOwn(object, i) == object # Absent /\ object.by = i

(* The manifest file i prepared, byte for byte.                            *)
IsExact(document, i) == IsOwn(document, i) /\ document.sound

(* Exactly the pinned files, and nothing else, in i's directory.           *)
Complete(d) == (\A f \in Files : d.files[f] = "ours") /\ ~d.extra
Unchanged(d, i) == IsOwn(d, i) /\ Complete(d)

(* Mutant of Movable: files are opened with delete sharing.                *)
MovableAlways(p) == TRUE

(* Nobody holds a file in the directory open.                              *)
Movable(p) == p = "runtime" => reading.runtime = {}

(* Mutant of Free: a rename that replaces its destination.                 *)
FreeAlways(held) == TRUE

Free(held) == held = Absent

Goto(i, to) == [job EXCEPT ![i].pc = to]
At(i, from) == job[i].pc = from
Failing == faults < MaxFaults
NoFault == UNCHANGED faults
Fault == Failing /\ faults' = faults + 1

(* A system call fails, or a check finds what it must not: the handlers    *)
(* run.                                                                    *)
Fails(i, from, to) ==
  /\ At(i, from) /\ Fault
  /\ job' = Goto(i, to)
  /\ UNCHANGED <<dir, doc, model, reading, meddling>>

Refuses(i, from, to) ==
  /\ At(i, from) /\ NoFault
  /\ job' = Goto(i, to)
  /\ UNCHANGED <<dir, doc, model, reading, meddling>>

(* A check: i goes on if it holds, and to its handlers if not.             *)
Check(i, from, condition, to, otherwise) ==
  Refuses(i, from, IF condition THEN to ELSE otherwise)

-----------------------------------------------------------------------------
(* import_llama_runtime up to the first rename.                            *)

RequestRuntime(i) ==
  Check(i, "idle", Free(dir["runtime"]) /\ Free(doc["manifest"]), "inputs", "error")

(* The archives and the license are opened without write sharing and       *)
(* hashed: they cannot change until they are closed.                       *)
OpenInputs(i) == Refuses(i, "inputs", "staging")

(* A check of the parent that fails after the directory has been made      *)
(* leaves it there: nobody knows of it.                                    *)
CreateStaging(i) ==
  /\ At(i, "staging")
  /\ \/ /\ NoFault /\ Free(dir["runtime"])
        /\ dir' = [dir EXCEPT ![i] = NewDir(i)]
        /\ job' = [Goto(i, "extract") EXCEPT ![i].root = TRUE]
     \/ /\ NoFault /\ ~Free(dir["runtime"])
        /\ UNCHANGED dir
        /\ job' = Goto(i, "fail")
     \/ /\ Fault
        /\ dir' \in {dir, [dir EXCEPT ![i] = NewDir(i)]}
        /\ job' = Goto(i, "fail")
  /\ UNCHANGED <<doc, model, reading, meddling>>

(* Mutant of Mine: the license is not entered in the ledger.               *)
MineArchived(d, made) ==
  {f \in made \ {License} : d.files[f] \in {"ours", "edited"}}

(* What can be taken back of the files i has made: an edited one is still  *)
(* its own, another file under its name is left.                           *)
Mine(d, made) == {f \in made : d.files[f] \in {"ours", "edited"}}
Without(d, gone) ==
  [d EXCEPT !.files = [f \in Files |-> IF f \in gone THEN "none" ELSE @[f]]]

(* Extraction into the empty directory.  Files are created exclusively; on *)
(* an error those already made are removed again.                          *)
Extract(i) ==
  /\ At(i, "extract") /\ NoFault
  /\ LET archived == Files \ {License}
         fits == /\ IsOwn(dir[i], i) /\ ~dir[i].extra
                 /\ \A f \in Files : dir[i].files[f] = "none"
     IN IF fits
          THEN /\ dir' = [dir EXCEPT ![i].files =
                            [f \in Files |-> IF f \in archived THEN "ours" ELSE "none"]]
               /\ job' = [Goto(i, "license") EXCEPT ![i].made = archived]
          ELSE UNCHANGED dir /\ job' = Goto(i, "fail")
  /\ UNCHANGED <<doc, model, reading, meddling>>

(* _require_runtime_ownership_unchanged: what i has made is there, and     *)
(* nothing else.  Only content is not looked at, but for size and time.    *)
Owned(i) ==
  /\ IsOwn(dir[i], i) /\ ~dir[i].extra
  /\ \A f \in job[i].made : dir[i].files[f] = "ours"
  /\ \A f \in Files \ job[i].made : dir[i].files[f] = "none"

InstallLicense(i) ==
  /\ At(i, "license") /\ NoFault
  /\ IF Owned(i)
       THEN /\ dir' = [dir EXCEPT ![i].files[License] = "ours"]
            /\ job' = [Goto(i, "scan") EXCEPT ![i].made = Files]
       ELSE UNCHANGED dir /\ job' = Goto(i, "unbuild")
  /\ UNCHANGED <<doc, model, reading, meddling>>

(* Ownership again, the inputs hashed again, and the whole tree hashed:    *)
(* the snapshot every later check compares with.                           *)
Scan(i) ==
  /\ At(i, "scan") /\ NoFault
  /\ IF Owned(i)
       THEN job' = [Goto(i, "prepare") EXCEPT ![i].tree = TRUE]
       ELSE job' = Goto(i, "unbuild")
  /\ UNCHANGED <<dir, doc, model, reading, meddling>>

(* _build_staged_runtime's handler: what the ledger proves its own goes.   *)
Unbuild(i) ==
  /\ At(i, "unbuild")
  /\ \/ NoFault /\ dir' = [dir EXCEPT ![i] =
          IF @ = Absent THEN @ ELSE Without(@, Mine(@, job[i].made))]
     \/ Fault /\ UNCHANGED dir
  /\ job' = Goto(i, "fail")
  /\ UNCHANGED <<doc, model, reading, meddling>>

(* The inputs are closed and the manifest is written under a temporary     *)
(* name; an error on the way removes that file, if the removal succeeds.   *)
Prepare(i) ==
  /\ At(i, "prepare")
  /\ LET written == [doc EXCEPT ![i] = [by |-> i, sound |-> TRUE]]
     IN \/ /\ NoFault /\ Free(doc["manifest"])
           /\ doc' = written
           /\ job' = [Goto(i, "check") EXCEPT ![i].kept = TRUE]
        \/ /\ NoFault /\ ~Free(doc["manifest"])
           /\ UNCHANGED doc
           /\ job' = Goto(i, "fail")
        \/ /\ Fault
           /\ doc' \in {doc, written}
           /\ job' = Goto(i, "fail")
  /\ UNCHANGED <<dir, model, reading, meddling>>

CheckStaged(i) ==
  Check(i, "check",
        /\ Unchanged(dir[i], i) /\ IsExact(doc[i], i)
        /\ Free(dir["runtime"]) /\ Free(doc["manifest"]),
        "publish", "fail")

-----------------------------------------------------------------------------
(* The two renames, each followed by a check of what is now in place.      *)

PublishRuntime(i) ==
  /\ At(i, "publish") /\ NoFault
  /\ IF dir[i] # Absent /\ Free(dir["runtime"])
       THEN /\ dir' = [dir EXCEPT !["runtime"] = dir[i], ![i] = Absent]
            /\ job' = [Goto(i, "published") EXCEPT ![i].dirOut = TRUE, ![i].started = TRUE]
       ELSE UNCHANGED dir /\ job' = Goto(i, "fail")
  /\ UNCHANGED <<doc, model, reading, meddling>>

CheckPublished(i) ==
  Check(i, "published",
        /\ Unchanged(dir["runtime"], i) /\ IsExact(doc[i], i)
        /\ Free(doc["manifest"]),
        "announce", "fail")

PublishManifest(i) ==
  /\ At(i, "announce") /\ NoFault
  /\ IF doc[i] # Absent /\ Free(doc["manifest"])
       THEN /\ doc' = [doc EXCEPT !["manifest"] = doc[i], ![i] = Absent]
            /\ job' = [Goto(i, "announced") EXCEPT ![i].docOut = TRUE]
       ELSE UNCHANGED doc /\ job' = Goto(i, "fail")
  /\ UNCHANGED <<dir, model, reading, meddling>>

CheckAnnounced(i) ==
  Check(i, "announced",
        Unchanged(dir["runtime"], i) /\ IsExact(doc["manifest"], i),
        "done", "fail")

(* A rename that has happened and is not known to have: it raises, as the  *)
(* model's import expects of its own, or an interrupt comes before the     *)
(* next line has set the flag.                                             *)
RenameUnknown(i) ==
  /\ Fault
  /\ \/ /\ At(i, "publish") /\ dir[i] # Absent /\ Free(dir["runtime"])
        /\ dir' = [dir EXCEPT !["runtime"] = dir[i], ![i] = Absent]
        /\ UNCHANGED doc
     \/ /\ At(i, "announce") /\ doc[i] # Absent /\ Free(doc["manifest"])
        /\ doc' = [doc EXCEPT !["manifest"] = doc[i], ![i] = Absent]
        /\ UNCHANGED dir
  /\ job' = Goto(i, "fail")
  /\ UNCHANGED <<model, reading, meddling>>

-----------------------------------------------------------------------------
(* The handler of import_llama_runtime: the manifest first, then the       *)
(* directory back to staging, then the private files.                      *)

(* Mutant of AfterFailure: the directory is taken back first.              *)
AfterFailureSwapped(i) == IF job[i].dirOut THEN "roll_look" ELSE "drop"

AfterFailure(i) ==
  CASE job[i].docOut -> "unannounce_look"
    [] job[i].dirOut /\ ~job[i].docOut -> "roll_look"
    [] OTHER -> "drop"

BeginFailure(i) == Refuses(i, "fail", AfterFailure(i))

AfterManifest(i) == IF job[i].dirOut THEN "roll_look" ELSE "drop"

(* _discard_published_manifest_file: absent is as good as removed; an      *)
(* object that is not its own is left, and the cleanup is stuck.           *)
LookAtManifest(i) ==
  /\ At(i, "unannounce_look") /\ NoFault
  /\ job' = CASE doc["manifest"] = Absent ->
                   [Goto(i, AfterManifest(i)) EXCEPT ![i].kept = FALSE, ![i].docOut = FALSE]
              [] IsOwn(doc["manifest"], i) -> Goto(i, "unannounce")
              [] OTHER -> [Goto(i, AfterManifest(i)) EXCEPT ![i].stuck = TRUE]
  /\ UNCHANGED <<dir, doc, model, reading, meddling>>

RemoveManifest(i) ==
  /\ At(i, "unannounce")
  /\ \/ /\ NoFault /\ doc["manifest"] # Absent
        /\ doc' = [doc EXCEPT !["manifest"] = Absent]
        /\ job' = [Goto(i, AfterManifest(i)) EXCEPT ![i].kept = FALSE, ![i].docOut = FALSE]
     \/ /\ IF doc["manifest"] = Absent THEN NoFault ELSE Fault
        /\ UNCHANGED doc
        /\ job' = [Goto(i, AfterManifest(i)) EXCEPT ![i].stuck = TRUE]
  /\ UNCHANGED <<dir, model, reading, meddling>>

(* _rollback_published_runtime.                                            *)
LookAtRuntime(i) ==
  Check(i, "roll_look", IsOwn(dir["runtime"], i) /\ dir[i] = Absent, "roll", "broken")

RollBack(i) ==
  /\ At(i, "roll")
  /\ \/ /\ NoFault /\ dir["runtime"] # Absent /\ Movable("runtime") /\ Free(dir[i])
        /\ dir' = [dir EXCEPT ![i] = dir["runtime"], !["runtime"] = Absent]
        /\ job' = IF IsOwn(dir["runtime"], i)
                    THEN [Goto(i, "drop") EXCEPT ![i].dirOut = FALSE]
                    ELSE Goto(i, "broken")
     \/ /\ IF dir["runtime"] # Absent /\ Movable("runtime") /\ Free(dir[i])
             THEN Fault ELSE NoFault
        /\ UNCHANGED dir
        /\ job' = Goto(i, "broken")
  /\ UNCHANGED <<doc, model, reading, meddling>>

(* The prepared manifest, if it is still exactly the one written.          *)
DropPrepared(i) ==
  /\ \E from \in {"drop", "broken"} :
       /\ At(i, from)
       /\ job' = Goto(i, IF from = "drop" THEN "clear" ELSE "quarantined")
  /\ \/ NoFault /\ doc' = IF job[i].kept /\ IsExact(doc[i], i)
                            THEN [doc EXCEPT ![i] = Absent] ELSE doc
     \/ Fault /\ UNCHANGED doc
  /\ UNCHANGED <<dir, model, reading, meddling>>

(* _cleanup_owned_runtime_tree: the files of the snapshot that are its     *)
(* own.                                                                    *)
ClearStaging(i) ==
  /\ At(i, "clear")
  /\ LET d == dir[i]
         known == IF job[i].tree THEN Files ELSE {}
     IN \/ /\ NoFault
           /\ IF d = Absent \/ ~job[i].root
                THEN UNCHANGED dir /\ job' = Goto(i, "unroot")
                ELSE /\ dir' = [dir EXCEPT ![i] = Without(d, Mine(d, known))]
                     /\ job' = [Goto(i, "unroot") EXCEPT ![i].dirty =
                                  \E f \in known : d.files[f] = "foreign"]
        \/ /\ Fault /\ known # {}
           /\ UNCHANGED dir
           /\ job' = [Goto(i, "unroot") EXCEPT ![i].dirty = TRUE]
  /\ UNCHANGED <<doc, model, reading, meddling>>

Empty(d) == ~d.extra /\ \A f \in Files : d.files[f] = "none"

(* The verdict: a plain error, or one that says something may be left.     *)
Verdict(i, dirty) ==
  IF job[i].stuck \/ (job[i].started /\ dirty) THEN "quarantined" ELSE "error"

RemoveStaging(i) ==
  /\ At(i, "unroot")
  /\ \/ /\ NoFault
        /\ IF job[i].root /\ IsOwn(dir[i], i) /\ Empty(dir[i])
             THEN dir' = [dir EXCEPT ![i] = Absent] ELSE UNCHANGED dir
        /\ job' = Goto(i, Verdict(i, job[i].dirty \/ dir'[i] # Absent))
     \/ /\ Fault /\ job[i].root /\ dir[i] # Absent
        /\ UNCHANGED dir
        /\ job' = Goto(i, Verdict(i, TRUE))
  /\ UNCHANGED <<doc, model, reading, meddling>>

(* A failure at any step before the outcome is certain.                    *)
RuntimeFails(i) ==
  \/ \E from \in {"inputs", "extract", "check", "publish", "published", "announce",
                  "announced"} : Fails(i, from, "fail")
  \/ \E from \in {"license", "scan"} : Fails(i, from, "unbuild")
  \/ /\ At(i, "unannounce_look") /\ Fault
     /\ job' = [Goto(i, AfterManifest(i)) EXCEPT ![i].stuck = TRUE]
     /\ UNCHANGED <<dir, doc, model, reading, meddling>>
  \/ Fails(i, "roll_look", "broken")

ImportRuntime(i) ==
  \/ RequestRuntime(i) \/ OpenInputs(i) \/ CreateStaging(i) \/ Extract(i)
  \/ InstallLicense(i) \/ Scan(i) \/ Unbuild(i) \/ Prepare(i) \/ CheckStaged(i)
  \/ PublishRuntime(i) \/ CheckPublished(i) \/ PublishManifest(i)
  \/ CheckAnnounced(i) \/ BeginFailure(i) \/ LookAtManifest(i)
  \/ RemoveManifest(i) \/ LookAtRuntime(i) \/ RollBack(i) \/ DropPrepared(i)
  \/ ClearStaging(i) \/ RemoveStaging(i) \/ RuntimeFails(i)
=============================================================================
