------------------------- MODULE RunArtifactsProofs -------------------------
(***************************************************************************)
(* What imports leave at their destinations and what a lease pins, for     *)
(* every number of importers, of changes by other programs and of failures.*)
(***************************************************************************)
EXTENDS RunArtifacts, TLAPS

-----------------------------------------------------------------------------
(* Types.                                                                  *)

Places ==
  {"idle", "inputs", "staging", "extract", "license", "scan", "unbuild", "prepare",
   "check", "publish", "published", "announce", "announced", "fail",
   "unannounce_look", "unannounce", "roll_look", "roll", "drop", "broken", "clear",
   "unroot", "open", "reconcile", "verify", "finish"} \cup Ends

Jobs ==
  [pc : Places, root : BOOLEAN, made : SUBSET Files, tree : BOOLEAN,
   kept : BOOLEAN, dirOut : BOOLEAN, docOut : BOOLEAN, started : BOOLEAN,
   stuck : BOOLEAN, dirty : BOOLEAN]

DirType == dir \in [DirPaths -> Directories \cup {Absent}]
DocType == doc \in [DocPaths -> Documents \cup {Absent}]
ReadingType == reading \in [{"runtime", "model", "manifest"} -> SUBSET (Importers \cup {Runner})]
RestType == model \in {"pinned", "edited"} /\ meddling \in Nat /\ faults \in Nat
LeaseType == lease \in [state : LeaseStates, by : Importers \cup {Foreign, Absent}]

-----------------------------------------------------------------------------
(* How far a job is, and what it has published.                            *)

Building ==
  {"idle", "inputs", "staging", "extract", "license", "scan", "unbuild", "prepare",
   "check", "publish"}

RuntimePlace(j) ==
  /\ j.pc \in Building => ~j.docOut /\ ~j.dirOut
  /\ j.pc \in {"published", "announce"} => ~j.docOut
  /\ j.pc \in {"published", "announce", "announced", "unannounce_look", "unannounce",
               "roll_look", "roll", "done"} => j.dirOut
  /\ j.pc \in {"announced", "unannounce_look", "unannounce", "done"} => j.docOut
  /\ j.pc \in {"drop", "clear", "unroot", "error"} => ~j.dirOut
  /\ j.pc = "error" => ~j.docOut
  /\ j.docOut => j.stuck \/ (j.dirOut /\ j.pc \in {"announced", "fail", "unannounce_look",
                                                   "unannounce", "done", "killed"})
  /\ j.stuck => j.pc \in {"roll_look", "roll", "drop", "broken", "clear", "unroot",
                          "quarantined", "killed"}

ModelPlace(j) ==
  /\ j.pc \in {"idle", "open", "prepare", "check", "publish", "reconcile"} => ~j.docOut
  /\ j.pc \in {"check", "publish", "reconcile", "verify", "finish", "done"} => j.kept
  /\ j.pc \in {"verify", "finish", "done"} => j.docOut
  /\ j.docOut => j.kept
  /\ j.stuck => j.pc \in {"fail", "quarantined", "killed"}

JobInv ==
  /\ job \in [Importers -> Jobs]
  /\ \A i \in RuntimeImporters : RuntimePlace(job[i])
  /\ \A i \in ModelImporters : ModelPlace(job[i])

LEMMA RuntimeJobs ==
  ASSUME JobInv, NEW i \in RuntimeImporters, ImportRuntime(i)
  PROVE  JobInv' /\ \A k \in Importers \ {i} : job'[k] = job[k]
<1> DEFINE Fits == /\ job' \in [Importers -> Jobs]
                   /\ RuntimePlace(job'[i])
                   /\ \A k \in Importers \ {i} : job'[k] = job[k]
<1>0. /\ i \in Importers /\ i \notin ModelImporters
      /\ job \in [Importers -> Jobs] /\ RuntimePlace(job[i])
  BY ImportersAssumption DEF Importers, JobInv
<1> USE <1>0 DEF At, Goto, Jobs, Places, Ends, Building, RuntimePlace
<1>1. ASSUME RequestRuntime(i) PROVE Fits
  <2>1. At(i, "idle") /\ (job' = Goto(i, "inputs") \/ job' = Goto(i, "error"))
    BY <1>1 DEF RequestRuntime, Check, Refuses
  <2> QED BY <2>1
<1>2. ASSUME OpenInputs(i) PROVE Fits
  BY <1>2 DEF OpenInputs, Refuses
<1>3. ASSUME CreateStaging(i) PROVE Fits
  BY <1>3 DEF CreateStaging
<1>4. ASSUME Extract(i) PROVE Fits
  BY <1>4 DEF Extract
<1>5. ASSUME InstallLicense(i) PROVE Fits
  BY <1>5 DEF InstallLicense
<1>6. ASSUME Scan(i) PROVE Fits
  BY <1>6 DEF Scan
<1>7. ASSUME Unbuild(i) PROVE Fits
  BY <1>7 DEF Unbuild
<1>8. ASSUME Prepare(i) PROVE Fits
  BY <1>8 DEF Prepare
<1>9. ASSUME CheckStaged(i) PROVE Fits
  <2>1. At(i, "check") /\ (job' = Goto(i, "publish") \/ job' = Goto(i, "fail"))
    BY <1>9 DEF CheckStaged, Check, Refuses
  <2> QED BY <2>1
<1>10. ASSUME PublishRuntime(i) PROVE Fits
  BY <1>10 DEF PublishRuntime
<1>11. ASSUME CheckPublished(i) PROVE Fits
  <2>1. At(i, "published") /\ (job' = Goto(i, "announce") \/ job' = Goto(i, "fail"))
    BY <1>11 DEF CheckPublished, Check, Refuses
  <2> QED BY <2>1
<1>12. ASSUME PublishManifest(i) PROVE Fits
  BY <1>12 DEF PublishManifest
<1>13. ASSUME CheckAnnounced(i) PROVE Fits
  <2>1. At(i, "announced") /\ (job' = Goto(i, "done") \/ job' = Goto(i, "fail"))
    BY <1>13 DEF CheckAnnounced, Check, Refuses
  <2> QED BY <2>1
<1>14. ASSUME BeginFailure(i) PROVE Fits
  BY <1>14 DEF BeginFailure, Refuses, AfterFailure
<1>15. ASSUME LookAtManifest(i) PROVE Fits
  BY <1>15 DEF LookAtManifest, AfterManifest
<1>16. ASSUME RemoveManifest(i) PROVE Fits
  BY <1>16 DEF RemoveManifest, AfterManifest
<1>17. ASSUME LookAtRuntime(i) PROVE Fits
  <2>1. At(i, "roll_look") /\ (job' = Goto(i, "roll") \/ job' = Goto(i, "broken"))
    BY <1>17 DEF LookAtRuntime, Check, Refuses
  <2> QED BY <2>1
<1>18. ASSUME RollBack(i) PROVE Fits
  BY <1>18 DEF RollBack
<1>19. ASSUME DropPrepared(i) PROVE Fits
  BY <1>19 DEF DropPrepared
<1>20. ASSUME ClearStaging(i) PROVE Fits
  BY <1>20 DEF ClearStaging
<1>21. ASSUME RemoveStaging(i) PROVE Fits
  BY <1>21 DEF RemoveStaging, Verdict
<1>22. ASSUME RuntimeFails(i) PROVE Fits
  BY <1>22 DEF RuntimeFails, Fails, AfterManifest
<1>99. Fits
  BY <1>1, <1>2, <1>3, <1>4, <1>5, <1>6, <1>7, <1>8, <1>9, <1>10, <1>11,
     <1>12, <1>13, <1>14, <1>15, <1>16, <1>17, <1>18, <1>19, <1>20, <1>21,
     <1>22
  DEF ImportRuntime
<1> QED BY <1>99 DEF JobInv, Importers

LEMMA ModelJobs ==
  ASSUME JobInv, NEW i \in ModelImporters, ImportModel(i)
  PROVE  JobInv' /\ \A k \in Importers \ {i} : job'[k] = job[k]
<1> DEFINE Fits == /\ job' \in [Importers -> Jobs]
                   /\ ModelPlace(job'[i])
                   /\ \A k \in Importers \ {i} : job'[k] = job[k]
<1>0. /\ i \in Importers /\ i \notin RuntimeImporters
      /\ job \in [Importers -> Jobs] /\ ModelPlace(job[i])
  BY ImportersAssumption DEF Importers, JobInv
<1> USE <1>0 DEF At, Goto, Jobs, Places, Ends, ModelPlace
<1>1. ASSUME RequestModel(i) PROVE Fits
  <2>1. At(i, "idle") /\ (job' = Goto(i, "open") \/ job' = Goto(i, "error"))
    BY <1>1 DEF RequestModel, Check, Refuses
  <2> QED BY <2>1
<1>2. ASSUME OpenModel(i) PROVE Fits
  BY <1>2 DEF OpenModel
<1>3. ASSUME PrepareModelManifest(i) PROVE Fits
  BY <1>3 DEF PrepareModelManifest
<1>4. ASSUME CheckPrepared(i) PROVE Fits
  <2>1. At(i, "check") /\ (job' = Goto(i, "publish") \/ job' = Goto(i, "fail"))
    BY <1>4 DEF CheckPrepared, Check, Refuses
  <2> QED BY <2>1
<1>5. ASSUME PublishModelManifest(i) PROVE Fits
  BY <1>5 DEF PublishModelManifest
<1>6. ASSUME Reconcile(i) PROVE Fits
  BY <1>6 DEF Reconcile
<1>7. ASSUME VerifyPublished(i) PROVE Fits
  BY <1>7 DEF VerifyPublished
<1>8. ASSUME FinishModel(i) PROVE Fits
  BY <1>8 DEF FinishModel
<1>9. ASSUME DiscardModelManifest(i) PROVE Fits
  BY <1>9 DEF DiscardModelManifest
<1>10. ASSUME ModelFails(i) PROVE Fits
  BY <1>10 DEF ModelFails, Fails
<1>99. Fits
  BY <1>1, <1>2, <1>3, <1>4, <1>5, <1>6, <1>7, <1>8, <1>9, <1>10
  DEF ImportModel
<1> QED BY <1>99 DEF JobInv, Importers

LEMMA KillJobs ==
  ASSUME JobInv, NEW i \in Importers, Kill(i)
  PROVE  /\ JobInv' /\ \A k \in Importers \ {i} : job'[k] = job[k]
         /\ job'[i] = [job[i] EXCEPT !.pc = "killed"]
<1>1. /\ job'[i] = [job[i] EXCEPT !.pc = "killed"]
      /\ job' \in [Importers -> Jobs]
      /\ \A k \in Importers \ {i} : job'[k] = job[k]
  BY DEF Kill, Goto, JobInv, Jobs, Places, Ends
<1>2. i \in RuntimeImporters => RuntimePlace(job'[i])
  BY <1>1 DEF JobInv, RuntimePlace, Building, Jobs
<1>3. i \in ModelImporters => ModelPlace(job'[i])
  BY <1>1 DEF JobInv, ModelPlace, Jobs
<1> QED BY <1>1, <1>2, <1>3 DEF JobInv, Importers

-----------------------------------------------------------------------------
(* What a step leaves alone.                                               *)

(* The directory i stages is its own, or its own still.                    *)
StagedBy(i) ==
  \/ dir'[i] \in {dir[i], Absent}
  \/ dir'[i] # Absent /\ (dir'[i].by = i \/ (dir[i] # Absent /\ dir'[i].by = dir[i].by))
  \/ RollBack(i)

Written(i) == doc'[i] \in {doc[i], Absent, [by |-> i, sound |-> TRUE]}

LEMMA RuntimeFrame ==
  ASSUME DirType, DocType, NEW i \in RuntimeImporters, ImportRuntime(i)
  PROVE  /\ DirType' /\ DocType'
         /\ UNCHANGED <<model, reading, meddling>> /\ (NoFault \/ Fault)
         /\ \A p \in DirPaths \ {i, "runtime"} : dir'[p] = dir[p]
         /\ \A p \in DocPaths \ {i, "manifest"} : doc'[p] = doc[p]
         /\ dir'["runtime"] = dir["runtime"] \/ PublishRuntime(i) \/ RollBack(i)
         /\ doc'["manifest"] = doc["manifest"] \/ PublishManifest(i) \/ RemoveManifest(i)
         /\ StagedBy(i) /\ Written(i)
<1> DEFINE Framed ==
      /\ dir' \in [DirPaths -> Directories \cup {Absent}]
      /\ doc' \in [DocPaths -> Documents \cup {Absent}]
      /\ UNCHANGED <<model, reading, meddling>> /\ (NoFault \/ Fault)
      /\ \A p \in DirPaths \ {i, "runtime"} : dir'[p] = dir[p]
      /\ \A p \in DocPaths \ {i, "manifest"} : doc'[p] = doc[p]
      /\ dir'["runtime"] = dir["runtime"] \/ PublishRuntime(i) \/ RollBack(i)
      /\ doc'["manifest"] = doc["manifest"] \/ PublishManifest(i) \/ RemoveManifest(i)
      /\ StagedBy(i) /\ Written(i)
<1>0. /\ i \in DirPaths /\ i \in DocPaths /\ i # "runtime" /\ i # "manifest"
      /\ "runtime" \in DirPaths /\ "manifest" \in DocPaths
      /\ dir \in [DirPaths -> Directories \cup {Absent}]
      /\ doc \in [DocPaths -> Documents \cup {Absent}]
      /\ Absent \notin Directories /\ Absent \notin Documents
      /\ i \in Importers /\ License \in Files
  BY PathsAssumption, AbsentAssumption, LicenseAssumption
     DEF Importers, DirPaths, DocPaths, DirType, DocType
<1> USE <1>0 DEF StagedBy, Written
<1>1. ASSUME RequestRuntime(i) PROVE Framed
  BY <1>1 DEF RequestRuntime, Check, Refuses
<1>2. ASSUME OpenInputs(i) PROVE Framed
  BY <1>2 DEF OpenInputs, Refuses
<1>3. ASSUME CreateStaging(i) PROVE Framed
  <2>1. NewDir(i) \in Directories /\ NewDir(i).by = i
    BY DEF NewDir, Directories, FileStates
  <2>2. NewDir(i) # Absent
    BY <2>1
  <2> QED BY <1>3, <2>1, <2>2 DEF CreateStaging
<1>4. ASSUME Extract(i) PROVE Framed
  BY <1>4 DEF Extract, Directories, FileStates, IsOwn
<1>5. ASSUME InstallLicense(i) PROVE Framed
  BY <1>5 DEF InstallLicense, Directories, FileStates, IsOwn, Owned
<1>6. ASSUME Scan(i) PROVE Framed
  BY <1>6 DEF Scan
<1>7. ASSUME Unbuild(i) PROVE Framed
  BY <1>7 DEF Unbuild, Directories, FileStates, Without
<1>8. ASSUME Prepare(i) PROVE Framed
  <2> DEFINE written == [by |-> i, sound |-> TRUE]
  <2>1. written \in Documents
    BY DEF Documents
  <2>2. doc' \in {doc, [doc EXCEPT ![i] = written]} /\ UNCHANGED <<dir, model, reading, meddling>>
        /\ (NoFault \/ Fault)
    BY <1>8 DEF Prepare
  <2>3. doc'[i] \in {doc[i], written}
    BY <2>2
  <2> HIDE DEF written
  <2>4. /\ doc' \in [DocPaths -> Documents \cup {Absent}]
        /\ \A p \in DocPaths \ {i} : doc'[p] = doc[p]
    BY <2>1, <2>2
  <2> QED BY <2>2, <2>3, <2>4 DEF written
<1>9. ASSUME CheckStaged(i) PROVE Framed
  BY <1>9 DEF CheckStaged, Check, Refuses
<1>10. ASSUME PublishRuntime(i) PROVE Framed
  BY <1>10 DEF PublishRuntime
<1>11. ASSUME CheckPublished(i) PROVE Framed
  BY <1>11 DEF CheckPublished, Check, Refuses
<1>12. ASSUME PublishManifest(i) PROVE Framed
  BY <1>12 DEF PublishManifest
<1>13. ASSUME CheckAnnounced(i) PROVE Framed
  BY <1>13 DEF CheckAnnounced, Check, Refuses
<1>14. ASSUME BeginFailure(i) PROVE Framed
  BY <1>14 DEF BeginFailure, Refuses
<1>15. ASSUME LookAtManifest(i) PROVE Framed
  BY <1>15 DEF LookAtManifest
<1>16. ASSUME RemoveManifest(i) PROVE Framed
  BY <1>16 DEF RemoveManifest
<1>17. ASSUME LookAtRuntime(i) PROVE Framed
  BY <1>17 DEF LookAtRuntime, Check, Refuses
<1>18. ASSUME RollBack(i) PROVE Framed
  BY <1>18 DEF RollBack
<1>19. ASSUME DropPrepared(i) PROVE Framed
  BY <1>19 DEF DropPrepared
<1>20. ASSUME ClearStaging(i) PROVE Framed
  BY <1>20 DEF ClearStaging, Directories, FileStates, Without
<1>21. ASSUME RemoveStaging(i) PROVE Framed
  BY <1>21 DEF RemoveStaging
<1>22. ASSUME RuntimeFails(i) PROVE Framed
  BY <1>22 DEF RuntimeFails, Fails
<1>99. Framed
  BY <1>1, <1>2, <1>3, <1>4, <1>5, <1>6, <1>7, <1>8, <1>9, <1>10, <1>11,
     <1>12, <1>13, <1>14, <1>15, <1>16, <1>17, <1>18, <1>19, <1>20, <1>21,
     <1>22
  DEF ImportRuntime
<1> QED BY <1>99 DEF DirType, DocType

LEMMA ModelFrame ==
  ASSUME DocType, ReadingType, NEW i \in ModelImporters, ImportModel(i)
  PROVE  /\ DocType' /\ ReadingType'
         /\ UNCHANGED <<dir, model, meddling>> /\ (NoFault \/ Fault)
         /\ \A p \in DocPaths \ {i, "model_manifest"} : doc'[p] = doc[p]
         /\ \/ doc'["model_manifest"] = doc["model_manifest"]
            \/ PublishModelManifest(i) \/ DiscardModelManifest(i)
         /\ Written(i)
         /\ \A w \in DOMAIN reading : Runner \in reading'[w] <=> Runner \in reading[w]
<1> DEFINE Framed ==
      /\ doc' \in [DocPaths -> Documents \cup {Absent}]
      /\ reading' \in [{"runtime", "model", "manifest"} -> SUBSET (Importers \cup {Runner})]
      /\ UNCHANGED <<dir, model, meddling>> /\ (NoFault \/ Fault)
      /\ \A p \in DocPaths \ {i, "model_manifest"} : doc'[p] = doc[p]
      /\ \/ doc'["model_manifest"] = doc["model_manifest"]
         \/ PublishModelManifest(i) \/ DiscardModelManifest(i)
      /\ Written(i)
      /\ \A w \in DOMAIN reading : Runner \in reading'[w] <=> Runner \in reading[w]
<1>0. /\ i \in DocPaths /\ i # "model_manifest" /\ "model_manifest" \in DocPaths
      /\ doc \in [DocPaths -> Documents \cup {Absent}]
      /\ reading \in [{"runtime", "model", "manifest"} -> SUBSET (Importers \cup {Runner})]
      /\ i \in Importers /\ Runner # i
  BY PathsAssumption, RunnerAssumption DEF Importers, DocPaths, DocType, ReadingType
<1> USE <1>0 DEF Written
<1>1. ASSUME RequestModel(i) PROVE Framed
  BY <1>1 DEF RequestModel, Check, Refuses
<1>2. ASSUME OpenModel(i) PROVE Framed
  BY <1>2 DEF OpenModel, Holds
<1>3. ASSUME PrepareModelManifest(i) PROVE Framed
  <2> DEFINE written == [by |-> i, sound |-> TRUE]
  <2>1. written \in Documents
    BY DEF Documents
  <2>2. doc' \in {doc, [doc EXCEPT ![i] = written]} /\ UNCHANGED <<dir, model, reading, meddling>>
        /\ (NoFault \/ Fault)
    BY <1>3 DEF PrepareModelManifest
  <2>3. doc'[i] \in {doc[i], written}
    BY <2>2
  <2> HIDE DEF written
  <2>4. /\ doc' \in [DocPaths -> Documents \cup {Absent}]
        /\ \A p \in DocPaths \ {i} : doc'[p] = doc[p]
    BY <2>1, <2>2
  <2> QED BY <2>2, <2>3, <2>4 DEF written
<1>4. ASSUME CheckPrepared(i) PROVE Framed
  BY <1>4 DEF CheckPrepared, Check, Refuses
<1>5. ASSUME PublishModelManifest(i) PROVE Framed
  BY <1>5 DEF PublishModelManifest
<1>6. ASSUME Reconcile(i) PROVE Framed
  BY <1>6 DEF Reconcile
<1>7. ASSUME VerifyPublished(i) PROVE Framed
  BY <1>7 DEF VerifyPublished, Holds
<1>8. ASSUME FinishModel(i) PROVE Framed
  BY <1>8 DEF FinishModel, LetsGo
<1>9. ASSUME DiscardModelManifest(i) PROVE Framed
  BY <1>9 DEF DiscardModelManifest, LetsGo
<1>10. ASSUME ModelFails(i) PROVE Framed
  BY <1>10 DEF ModelFails, Fails
<1>99. Framed
  BY <1>1, <1>2, <1>3, <1>4, <1>5, <1>6, <1>7, <1>8, <1>9, <1>10
  DEF ImportModel
<1> QED BY <1>99 DEF DocType, ReadingType

(* What another program puts at a path is not an import's.                 *)
NotClaimed(new, old) ==
  new = Absent \/ new.by = Foreign \/ (old # Absent /\ new.by = old.by)

LEMMA MeddleFrame ==
  ASSUME DirType, DocType, RestType, Meddle
  PROVE  /\ DirType' /\ DocType' /\ RestType'
         /\ UNCHANGED <<job, reading, faults>> /\ meddling' # 0
         /\ \A p \in DirPaths : NotClaimed(dir'[p], dir[p])
         /\ \A p \in DocPaths : NotClaimed(doc'[p], doc[p])
         /\ reading["runtime"] # {} /\ dir["runtime"] # Absent =>
              /\ dir'["runtime"] # Absent
              /\ dir'["runtime"].by = dir["runtime"].by
              /\ dir'["runtime"].files = dir["runtime"].files
         /\ reading["model"] # {} => model' = model
<1> USE DEF NotClaimed
<1>0. /\ Alien \in Directories /\ Alien.by = Foreign
      /\ [by |-> Foreign, sound |-> FALSE] \in Documents
      /\ Absent \notin Directories /\ Absent \notin Documents
  BY AbsentAssumption DEF Alien, Directories, FileStates, Documents
<1>1. RestType' /\ UNCHANGED <<job, reading, faults>> /\ meddling' # 0
  BY DEF Meddle, MeddleWithDir, MeddleWithDoc, MeddleWithModel, RestType
<1>2. ASSUME NEW p \in DirPaths, MeddleWithDir(p)
      PROVE  /\ DirType'
             /\ \A q \in DirPaths : NotClaimed(dir'[q], dir[q])
             /\ reading["runtime"] # {} /\ dir["runtime"] # Absent =>
                  /\ dir'["runtime"] # Absent
                  /\ dir'["runtime"].by = dir["runtime"].by
                  /\ dir'["runtime"].files = dir["runtime"].files
  <2>1. CASE Movable(p) /\ dir' \in {[dir EXCEPT ![p] = Absent], [dir EXCEPT ![p] = Alien]}
    BY <2>1, <1>0 DEF DirType, Movable, DirPaths
  <2>2. CASE dir[p] # Absent /\ dir' = [dir EXCEPT ![p].extra = TRUE]
    <3>1. [dir[p] EXCEPT !.extra = TRUE] \in Directories
      BY <2>2 DEF DirType, Directories
    <3> QED BY <2>2, <3>1, <1>0 DEF DirType, DirPaths, Directories
  <2>3. ASSUME dir[p] # Absent, Movable(p), NEW f \in Files,
               NEW s \in {"none", "edited", "foreign"},
               dir' = [dir EXCEPT ![p].files[f] = s]
        PROVE  /\ DirType'
               /\ \A q \in DirPaths : NotClaimed(dir'[q], dir[q])
               /\ reading["runtime"] # {} => dir'["runtime"] = dir["runtime"]
    <3>1. [dir[p] EXCEPT !.files[f] = s] \in Directories
      BY <2>3 DEF DirType, Directories, FileStates
    <3> QED BY <2>3, <3>1, <1>0 DEF DirType, DirPaths, Directories, Movable
  <2> QED BY <1>2, <2>1, <2>2, <2>3, <1>0 DEF MeddleWithDir, DirType, DirPaths
<1>3. ASSUME NEW p \in DocPaths, MeddleWithDoc(p)
      PROVE  DocType' /\ \A q \in DocPaths : NotClaimed(doc'[q], doc[q])
  <2>1. CASE doc' \in {[doc EXCEPT ![p] = Absent],
                       [doc EXCEPT ![p] = [by |-> Foreign, sound |-> FALSE]]}
    <3> DEFINE alien == [by |-> Foreign, sound |-> FALSE]
    <3>1. doc' = [doc EXCEPT ![p] = Absent] \/ doc' = [doc EXCEPT ![p] = alien]
      BY <2>1
    <3>2. alien \in Documents /\ alien.by = Foreign
      BY <1>0
    <3> HIDE DEF alien
    <3> QED BY <3>1, <3>2 DEF DocType
  <2>2. CASE doc[p] # Absent /\ doc' = [doc EXCEPT ![p].sound = FALSE]
    <3>1. [doc[p] EXCEPT !.sound = FALSE] \in Documents
      BY <2>2 DEF DocType, Documents
    <3> QED BY <2>2, <3>1, <1>0 DEF DocType, Documents
  <2> QED BY <1>3, <2>1, <2>2 DEF MeddleWithDoc
<1>4. /\ DirType' /\ DocType'
      /\ \A p \in DirPaths : NotClaimed(dir'[p], dir[p])
      /\ \A p \in DocPaths : NotClaimed(doc'[p], doc[p])
      /\ reading["runtime"] # {} /\ dir["runtime"] # Absent =>
           /\ dir'["runtime"] # Absent
           /\ dir'["runtime"].by = dir["runtime"].by
           /\ dir'["runtime"].files = dir["runtime"].files
  BY <1>2, <1>3 DEF Meddle, MeddleWithDir, MeddleWithDoc, MeddleWithModel, DirType, DocType
<1>5. reading["model"] # {} => model' = model
  BY DEF Meddle, MeddleWithDir, MeddleWithDoc, MeddleWithModel
<1> QED BY <1>1, <1>4, <1>5

LEMMA LeaseFrame ==
  ASSUME DirType, ReadingType, LeaseType, Lease
  PROVE  /\ ReadingType' /\ LeaseType'
         /\ UNCHANGED <<dir, doc, model, job, meddling>> /\ (NoFault \/ Fault)
<1>0. lease.by \in Importers \cup {Foreign, Absent}
  BY DEF LeaseType
<1>1. CASE LoadManifests \/ ClaimLease
  BY <1>1 DEF LoadManifests, ClaimLease, LeaseTo, LeaseType, LeaseStates, ReadingType, NoFault, vars
<1>2. CASE PinRuntime
  <2>1. Intact => dir["runtime"].by \in Importers \cup {Foreign}
    BY DEF Intact, DirType, DirPaths, Directories
  <2> QED BY <1>2, <2>1 DEF PinRuntime, LeaseTo, LeaseType, LeaseStates, Opens, ReadingType, NoFault
<1>3. CASE ConfirmLease
  BY <1>3 DEF ConfirmLease, LeaseTo, LeaseType, LeaseStates, Opens, ClosesAll, ReadingType, NoFault
<1>4. CASE VerifyPrelaunch \/ VerifyPostRun
  BY <1>4 DEF VerifyPrelaunch, VerifyPostRun, Verify, VerifyFails, LeaseTo, LeaseType, LeaseStates,
              ReadingType, NoFault, vars
<1>5. CASE ReleaseLease
  BY <1>5 DEF ReleaseLease, LeaseTo, LeaseType, LeaseStates, ClosesAll, ReadingType, NoFault
<1>6. CASE ProbeReopenable
  BY <1>6 DEF ProbeReopenable, LeaseTo, LeaseType, LeaseStates, ReadingType, NoFault
<1> QED BY <1>1, <1>2, <1>3, <1>4, <1>5, <1>6 DEF Lease

-----------------------------------------------------------------------------
(* The types are invariant.                                                *)

TypeInv == DirType /\ DocType /\ ReadingType /\ RestType /\ LeaseType /\ JobInv

LEMMA InitTypes == InitAll => TypeInv
<1> SUFFICES ASSUME InitAll PROVE TypeInv
  OBVIOUS
<1>1. DirType /\ DocType /\ ReadingType /\ RestType
  BY DEF InitAll, Init, DirType, DocType, ReadingType, RestType
<1>2. Idle \in Jobs /\ RuntimePlace(Idle) /\ ModelPlace(Idle)
  BY DEF Idle, Jobs, Places, RuntimePlace, Building, ModelPlace
<1>3. JobInv
  BY <1>2 DEF InitAll, Init, JobInv, Importers
<1>4. LeaseType
  BY DEF InitAll, LeaseType, LeaseStates
<1> QED BY <1>1, <1>3, <1>4 DEF TypeInv

LEMMA NextTypes == TypeInv /\ [Next]_allVars => TypeInv'
<1> SUFFICES ASSUME TypeInv, [Next]_allVars PROVE TypeInv'
  OBVIOUS
<1> USE DEF TypeInv
<1>f. ASSUME NoFault \/ Fault, UNCHANGED meddling, model' \in {"pinned", "edited"}
      PROVE  RestType'
  BY <1>f DEF RestType, NoFault, Fault
<1>1. ASSUME NEW i \in RuntimeImporters, ImportRuntime(i), UNCHANGED lease
      PROVE  TypeInv'
  <2>1. DirType' /\ DocType' /\ UNCHANGED <<model, reading, meddling>> /\ (NoFault \/ Fault)
    BY <1>1, RuntimeFrame
  <2>2. ReadingType' /\ LeaseType' /\ RestType'
    BY <1>1, <2>1, <1>f DEF ReadingType, LeaseType, RestType
  <2> QED BY <1>1, <2>1, <2>2, RuntimeJobs
<1>2. ASSUME NEW i \in ModelImporters, ImportModel(i), UNCHANGED lease
      PROVE  TypeInv'
  <2>1. DocType' /\ ReadingType' /\ UNCHANGED <<dir, model, meddling>> /\ (NoFault \/ Fault)
    BY <1>2, ModelFrame
  <2>2. DirType' /\ LeaseType' /\ RestType'
    BY <1>2, <2>1, <1>f DEF DirType, LeaseType, RestType
  <2> QED BY <1>2, <2>1, <2>2, ModelJobs
<1>3. ASSUME NEW i \in Importers, Kill(i), UNCHANGED lease
      PROVE  TypeInv'
  <2>1. ReadingType' /\ UNCHANGED <<dir, doc, model, meddling>> /\ (NoFault \/ Fault)
    BY <1>3 DEF Kill, ReadingType
  <2>2. DirType' /\ DocType' /\ LeaseType' /\ RestType'
    BY <1>3, <2>1, <1>f DEF DirType, DocType, LeaseType, RestType
  <2> QED BY <1>3, <2>1, <2>2, KillJobs
<1>4. CASE Meddle /\ UNCHANGED lease
  <2>1. DirType' /\ DocType' /\ RestType' /\ UNCHANGED <<job, reading>>
    BY <1>4, MeddleFrame
  <2> QED BY <1>4, <2>1 DEF JobInv, ReadingType, LeaseType
<1>5. CASE Lease
  <2>1. /\ ReadingType' /\ LeaseType'
        /\ UNCHANGED <<dir, doc, model, job, meddling>> /\ (NoFault \/ Fault)
    BY <1>5, LeaseFrame
  <2> QED BY <2>1, <1>f DEF DirType, DocType, JobInv, RestType
<1>6. CASE UNCHANGED allVars
  BY <1>6 DEF allVars, vars, DirType, DocType, ReadingType, RestType, LeaseType, JobInv
<1> QED BY <1>1, <1>2, <1>3, <1>4, <1>5, <1>6 DEF Next

(* Every variable keeps its type; where an import is says what it has      *)
(* published, and whether its cleanup has met an obstacle.                 *)
THEOREM JobsKeepTheirPlace == Spec => []TypeInv
BY InitTypes, NextTypes, PTL DEF Spec

-----------------------------------------------------------------------------
(* The lease.                                                              *)

PinInv ==
  /\ lease.state \in {"pinned", "prepared", "bound", "running", "verified"} =>
       /\ Runner \in reading["runtime"]
       /\ IsOwn(dir["runtime"], lease.by)
       /\ \A f \in Files : dir["runtime"].files[f] = "ours"
  /\ lease.state \in {"prepared", "bound", "running", "verified"} =>
       Runner \in reading["model"] /\ model = "pinned"

LEMMA NextPin == TypeInv /\ PinInv /\ [Next]_allVars => PinInv'
<1> SUFFICES ASSUME TypeInv, PinInv, [Next]_allVars PROVE PinInv'
  OBVIOUS
<1> USE DEF TypeInv
<1>1. ASSUME NEW i \in RuntimeImporters, ImportRuntime(i), UNCHANGED lease
      PROVE  PinInv'
  <2>1. /\ UNCHANGED <<model, reading>>
        /\ dir'["runtime"] = dir["runtime"] \/ PublishRuntime(i) \/ RollBack(i)
    BY <1>1, RuntimeFrame
  <2>2. CASE dir'["runtime"] = dir["runtime"]
    BY <1>1, <2>1, <2>2 DEF PinInv, IsOwn
  <2>3. CASE PublishRuntime(i) /\ dir'["runtime"] # dir["runtime"]
    BY <1>1, <2>1, <2>3 DEF PinInv, PublishRuntime, Free, IsOwn
  <2>4. CASE RollBack(i) /\ dir'["runtime"] # dir["runtime"]
    BY <1>1, <2>1, <2>4 DEF PinInv, RollBack, Movable, IsOwn
  <2> QED BY <2>1, <2>2, <2>3, <2>4
<1>2. ASSUME NEW i \in ModelImporters, ImportModel(i), UNCHANGED lease
      PROVE  PinInv'
  <2>1. /\ UNCHANGED <<dir, model>>
        /\ \A w \in {"runtime", "model"} : Runner \in reading'[w] <=> Runner \in reading[w]
    BY <1>2, ModelFrame DEF ReadingType
  <2> QED BY <1>2, <2>1 DEF PinInv, IsOwn
<1>3. ASSUME NEW i \in Importers, Kill(i), UNCHANGED lease
      PROVE  PinInv'
  <2>1. \A w \in {"runtime", "model"} : Runner \in reading'[w] <=> Runner \in reading[w]
    BY <1>3, RunnerAssumption DEF Kill, ReadingType
  <2> QED BY <1>3, <2>1 DEF PinInv, IsOwn, Kill
<1>4. CASE Meddle /\ UNCHANGED lease
  BY <1>4, MeddleFrame DEF PinInv, IsOwn
<1>5. CASE Lease
  <2> USE DEF PinInv, LeaseAt, LeaseTo, LeaseType, ReadingType, IsOwn
  <2>1. CASE LoadManifests \/ ClaimLease
    BY <1>5, <2>1 DEF LoadManifests, ClaimLease, vars
  <2>2. CASE PinRuntime
    BY <2>2 DEF PinRuntime, Opens, Intact, Complete, LeaseStates
  <2>3. CASE ConfirmLease
    BY <2>3 DEF ConfirmLease, Opens, SameTree, LeaseStates
  <2>4. CASE VerifyPrelaunch \/ VerifyPostRun
    BY <2>4 DEF VerifyPrelaunch, VerifyPostRun, Verify, VerifyFails, LeaseStates, vars
  <2>5. CASE ReleaseLease \/ ProbeReopenable
    BY <2>5 DEF ReleaseLease, ProbeReopenable, LeaseStates
  <2> QED BY <1>5, <2>1, <2>2, <2>3, <2>4, <2>5 DEF Lease
<1>6. CASE UNCHANGED allVars
  BY <1>6 DEF allVars, vars, PinInv, IsOwn
<1> QED BY <1>1, <1>2, <1>3, <1>4, <1>5, <1>6 DEF Next

(* From the last check before the server starts until the lease is given   *)
(* back, its executable, its libraries and its model are the ones that     *)
(* were hashed, against every import and every other program.              *)
THEOREM LeaseHolds == Spec => []LeasePins
<1>1. InitAll => PinInv
  BY DEF InitAll, PinInv
<1>2. TypeInv /\ PinInv => LeasePins
  BY DEF PinInv, LeasePins
<1> QED BY <1>1, <1>2, InitTypes, NextTypes, NextPin, PTL DEF Spec

-----------------------------------------------------------------------------
(* Whose what is at a path, whatever other programs do.                    *)

(* A model import has its manifest in place, and knows or will find out.   *)
ModelOut(j) ==
  \/ j.pc \in {"reconcile", "killed", "quarantined"}
  \/ j.docOut /\ j.pc \in {"verify", "finish", "fail", "done"}
  \/ j.stuck /\ j.pc = "fail"

PrivateInv ==
  /\ \A i \in Importers : doc[i] # Absent => doc[i].by \in {i, Foreign}
  /\ \A i \in RuntimeImporters :
       dir[i] # Absent => \/ dir[i].by \in {i, Foreign}
                         \/ job[i].pc \in {"broken", "quarantined", "killed"}

ClaimInv ==
  /\ \A i \in Importers :
       IsOwn(doc["manifest"], i) => i \in RuntimeImporters /\ job[i].docOut
  /\ \A i \in RuntimeImporters : IsOwn(dir["runtime"], i) => job[i].dirOut
  /\ \A i \in Importers :
       IsOwn(doc["model_manifest"], i) =>
         i \in ModelImporters /\ ~IsOwn(doc[i], i) /\ ModelOut(job[i])

OwnInv == PrivateInv /\ ClaimInv

(* What an import knows it has published it forgets only once it is gone.  *)
LEMMA FlagsFall ==
  ASSUME TypeInv, NEW i \in RuntimeImporters, ImportRuntime(i)
  PROVE  /\ job[i].docOut => job'[i].docOut \/ doc'["manifest"] = Absent
         /\ job[i].dirOut => job'[i].dirOut \/ dir'["runtime"] = Absent
<1> DEFINE Kept == /\ job[i].docOut => job'[i].docOut \/ doc'["manifest"] = Absent
                   /\ job[i].dirOut => job'[i].dirOut \/ dir'["runtime"] = Absent
<1>0. /\ i \in Importers /\ job \in [Importers -> Jobs] /\ i \in DirPaths /\ i # "runtime"
      /\ dir \in [DirPaths -> Directories \cup {Absent}] /\ "runtime" \in DirPaths
      /\ doc \in [DocPaths -> Documents \cup {Absent}] /\ "manifest" \in DocPaths
  BY PathsAssumption DEF Importers, DirPaths, DocPaths, TypeInv, DirType, DocType, JobInv
<1> USE <1>0 DEF Goto, Jobs
<1>1. ASSUME RequestRuntime(i) PROVE Kept
  BY <1>1 DEF RequestRuntime, Check, Refuses
<1>2. ASSUME OpenInputs(i) PROVE Kept
  BY <1>2 DEF OpenInputs, Refuses
<1>3. ASSUME CreateStaging(i) PROVE Kept
  BY <1>3 DEF CreateStaging
<1>4. ASSUME Extract(i) PROVE Kept
  BY <1>4 DEF Extract
<1>5. ASSUME InstallLicense(i) PROVE Kept
  BY <1>5 DEF InstallLicense
<1>6. ASSUME Scan(i) PROVE Kept
  BY <1>6 DEF Scan
<1>7. ASSUME Unbuild(i) PROVE Kept
  BY <1>7 DEF Unbuild
<1>8. ASSUME Prepare(i) PROVE Kept
  BY <1>8 DEF Prepare
<1>9. ASSUME CheckStaged(i) PROVE Kept
  BY <1>9 DEF CheckStaged, Check, Refuses
<1>10. ASSUME PublishRuntime(i) PROVE Kept
  BY <1>10 DEF PublishRuntime
<1>11. ASSUME CheckPublished(i) PROVE Kept
  BY <1>11 DEF CheckPublished, Check, Refuses
<1>12. ASSUME PublishManifest(i) PROVE Kept
  BY <1>12 DEF PublishManifest
<1>13. ASSUME CheckAnnounced(i) PROVE Kept
  BY <1>13 DEF CheckAnnounced, Check, Refuses
<1>14. ASSUME BeginFailure(i) PROVE Kept
  BY <1>14 DEF BeginFailure, Refuses
<1>15. ASSUME LookAtManifest(i) PROVE Kept
  BY <1>15 DEF LookAtManifest, AfterManifest
<1>16. ASSUME RemoveManifest(i) PROVE Kept
  BY <1>16 DEF RemoveManifest, AfterManifest
<1>17. ASSUME LookAtRuntime(i) PROVE Kept
  BY <1>17 DEF LookAtRuntime, Check, Refuses
<1>18. ASSUME RollBack(i) PROVE Kept
  BY <1>18 DEF RollBack
<1>19. ASSUME DropPrepared(i) PROVE Kept
  BY <1>19 DEF DropPrepared
<1>20. ASSUME ClearStaging(i) PROVE Kept
  BY <1>20 DEF ClearStaging
<1>21. ASSUME RemoveStaging(i) PROVE Kept
  BY <1>21 DEF RemoveStaging
<1>22. ASSUME RuntimeFails(i) PROVE Kept
  BY <1>22 DEF RuntimeFails, Fails, AfterManifest
<1>99. Kept
  BY <1>1, <1>2, <1>3, <1>4, <1>5, <1>6, <1>7, <1>8, <1>9, <1>10, <1>11,
     <1>12, <1>13, <1>14, <1>15, <1>16, <1>17, <1>18, <1>19, <1>20, <1>21,
     <1>22
  DEF ImportRuntime
<1> QED BY <1>99

LEMMA BrokenOnlyDrops ==
  ASSUME NEW i \in RuntimeImporters, ImportRuntime(i),
         job[i].pc \in {"broken", "quarantined", "killed"}
  PROVE  DropPrepared(i) /\ job[i].pc = "broken"
BY DEF ImportRuntime, At, Refuses, Check, Fails, RequestRuntime, OpenInputs, CreateStaging,
       Extract, InstallLicense, Scan, Unbuild, Prepare, CheckStaged, PublishRuntime,
       CheckPublished, PublishManifest, CheckAnnounced, BeginFailure, LookAtManifest,
       RemoveManifest, LookAtRuntime, RollBack, DropPrepared, ClearStaging, RemoveStaging,
       RuntimeFails

LEMMA RuntimeOwn ==
  ASSUME TypeInv, OwnInv, NEW i \in RuntimeImporters, ImportRuntime(i)
  PROVE  OwnInv'
<1>1. /\ \A p \in DirPaths \ {i, "runtime"} : dir'[p] = dir[p]
      /\ \A p \in DocPaths \ {i, "manifest"} : doc'[p] = doc[p]
      /\ dir'["runtime"] = dir["runtime"] \/ PublishRuntime(i) \/ RollBack(i)
      /\ doc'["manifest"] = doc["manifest"] \/ PublishManifest(i) \/ RemoveManifest(i)
      /\ StagedBy(i) /\ Written(i)
  BY RuntimeFrame DEF TypeInv
<1>2. /\ \A k \in Importers \ {i} : job'[k] = job[k]
      /\ job \in [Importers -> Jobs] /\ job' \in [Importers -> Jobs]
      /\ RuntimePlace(job[i]) /\ RuntimePlace(job'[i])
  BY RuntimeJobs DEF TypeInv, JobInv
<1>3. /\ i \in DirPaths /\ i \in DocPaths /\ i \in Importers /\ i # "runtime" /\ i # "manifest"
      /\ i # "model_manifest" /\ i \notin ModelImporters /\ i # Foreign
      /\ "runtime" \in DirPaths /\ {"manifest", "model_manifest"} \subseteq DocPaths
      /\ \A k \in Importers : k \in DocPaths /\ k \notin {"manifest", "model_manifest"}
                                  /\ k # Foreign
      /\ \A k \in RuntimeImporters : k \in DirPaths /\ k # "runtime" /\ k \in Importers
      /\ dir \in [DirPaths -> Directories \cup {Absent}]
      /\ doc \in [DocPaths -> Documents \cup {Absent}]
  BY PathsAssumption, ImportersAssumption, ForeignAssumption
     DEF Importers, DirPaths, DocPaths, TypeInv, DirType, DocType
<1>4. PrivateInv'
  <2>1. \A k \in Importers : doc'[k] # Absent => doc'[k].by \in {k, Foreign}
    BY <1>1, <1>3 DEF OwnInv, PrivateInv, Written
  <2>2. ASSUME dir'[i] # Absent
        PROVE  dir'[i].by \in {i, Foreign} \/ job'[i].pc \in {"broken", "quarantined", "killed"}
    <3>1. CASE RollBack(i)
      BY <3>1, <1>2, <1>3, <2>2 DEF RollBack, Goto, IsOwn, Jobs
    <3>2. CASE ~RollBack(i) /\ job[i].pc \notin {"broken", "quarantined", "killed"}
      BY <3>2, <1>1, <2>2, <1>3 DEF StagedBy, OwnInv, PrivateInv
    <3>3. CASE job[i].pc \in {"broken", "quarantined", "killed"}
      <4>1. DropPrepared(i) /\ At(i, "broken")
        BY <3>3, BrokenOnlyDrops DEF At
      <4> QED BY <4>1, <1>2, <1>3 DEF DropPrepared, At, Goto, Jobs
    <3> QED BY <3>1, <3>2, <3>3
  <2> QED BY <2>1, <2>2, <1>1, <1>2, <1>3 DEF OwnInv, PrivateInv
<1>5. ClaimInv'
  <2>1. ASSUME NEW k \in Importers, IsOwn(doc'["manifest"], k)
        PROVE  k \in RuntimeImporters /\ job'[k].docOut
    <3>1. CASE doc'["manifest"] = doc["manifest"] /\ k # i
      BY <3>1, <2>1, <1>2 DEF OwnInv, ClaimInv
    <3>2. CASE doc'["manifest"] = doc["manifest"] /\ k = i
      <4>1. job[i].docOut
        BY <3>2, <2>1 DEF OwnInv, ClaimInv
      <4> QED BY <3>2, <2>1, <4>1, <1>2, <1>3, FlagsFall DEF IsOwn
    <3>3. CASE PublishManifest(i)
      BY <3>3, <2>1, <1>2, <1>3 DEF PublishManifest, IsOwn, OwnInv, PrivateInv, ClaimInv, Goto, Jobs
    <3>4. CASE RemoveManifest(i) /\ doc'["manifest"] # doc["manifest"]
      BY <3>4, <2>1, <1>3 DEF RemoveManifest, IsOwn
    <3> QED BY <1>1, <3>1, <3>2, <3>3, <3>4
  <2>2. ASSUME NEW k \in RuntimeImporters, IsOwn(dir'["runtime"], k)
        PROVE  job'[k].dirOut
    <3>1. CASE dir'["runtime"] = dir["runtime"] /\ k # i
      BY <3>1, <2>2, <1>2, <1>3 DEF OwnInv, ClaimInv
    <3>2. CASE dir'["runtime"] = dir["runtime"] /\ k = i
      <4>1. job[i].dirOut
        BY <3>2, <2>2 DEF OwnInv, ClaimInv
      <4> QED BY <3>2, <2>2, <4>1, <1>2, <1>3, FlagsFall DEF IsOwn
    <3>3. CASE PublishRuntime(i) /\ dir'["runtime"] # dir["runtime"]
      BY <3>3, <2>2, <1>2, <1>3
         DEF PublishRuntime, IsOwn, OwnInv, PrivateInv, ClaimInv, Goto, Jobs, At
    <3>4. CASE RollBack(i) /\ dir'["runtime"] # dir["runtime"]
      BY <3>4, <2>2, <1>3 DEF RollBack, IsOwn
    <3> QED BY <1>1, <3>1, <3>2, <3>3, <3>4
  <2>3. ASSUME NEW k \in Importers, IsOwn(doc'["model_manifest"], k)
        PROVE  k \in ModelImporters /\ ~IsOwn(doc'[k], k) /\ ModelOut(job'[k])
    BY <2>3, <1>1, <1>2, <1>3 DEF OwnInv, ClaimInv
  <2> QED BY <2>1, <2>2, <2>3 DEF ClaimInv
<1> QED BY <1>4, <1>5 DEF OwnInv

(* A model import only ever sees its manifest in one place.                *)
LEMMA ModelOutStays ==
  ASSUME TypeInv, OwnInv, NEW i \in ModelImporters, ImportModel(i),
         IsOwn(doc'["model_manifest"], i)
  PROVE  ~IsOwn(doc'[i], i) /\ ModelOut(job'[i])
<1> DEFINE Own == ~IsOwn(doc'[i], i) /\ ModelOut(job'[i])
<1>0. /\ i \in Importers /\ job \in [Importers -> Jobs] /\ ModelPlace(job[i])
      /\ doc \in [DocPaths -> Documents \cup {Absent}]
      /\ i \in DocPaths /\ i # "model_manifest" /\ "model_manifest" \in DocPaths /\ i # Foreign
      /\ IsOwn(doc["model_manifest"], i) => ~IsOwn(doc[i], i) /\ ModelOut(job[i])
      /\ doc[i] # Absent => doc[i].by \in {i, Foreign}
  BY PathsAssumption, ForeignAssumption
     DEF Importers, DocPaths, TypeInv, DocType, JobInv, OwnInv, PrivateInv, ClaimInv
<1>01. IsOwn(doc'["model_manifest"], i)
  OBVIOUS
<1> USE <1>0, <1>01 DEF At, Goto, Jobs, IsOwn, IsExact, ModelOut, ModelPlace
<1>1. ASSUME RequestModel(i) PROVE Own
  BY <1>1 DEF RequestModel, Check, Refuses
<1>2. ASSUME OpenModel(i) PROVE Own
  BY <1>2 DEF OpenModel
<1>3. ASSUME PrepareModelManifest(i) PROVE Own
  BY <1>3 DEF PrepareModelManifest
<1>4. ASSUME CheckPrepared(i) PROVE Own
  BY <1>4 DEF CheckPrepared, Check, Refuses
<1>5. ASSUME PublishModelManifest(i) PROVE Own
  BY <1>5 DEF PublishModelManifest
<1>6. ASSUME Reconcile(i) PROVE Own
  BY <1>6 DEF Reconcile, Moved, NotMoved
<1>7. ASSUME VerifyPublished(i) PROVE Own
  BY <1>7 DEF VerifyPublished
<1>8. ASSUME FinishModel(i) PROVE Own
  BY <1>8 DEF FinishModel
<1>9. ASSUME DiscardModelManifest(i) PROVE Own
  BY <1>9 DEF DiscardModelManifest
<1>10. ASSUME ModelFails(i) PROVE Own
  BY <1>10 DEF ModelFails, Fails
<1>99. Own
  BY <1>1, <1>2, <1>3, <1>4, <1>5, <1>6, <1>7, <1>8, <1>9, <1>10
  DEF ImportModel
<1> QED BY <1>99

LEMMA ModelOwn ==
  ASSUME TypeInv, OwnInv, NEW i \in ModelImporters, ImportModel(i)
  PROVE  OwnInv'
<1>1. /\ UNCHANGED dir
      /\ \A p \in DocPaths \ {i, "model_manifest"} : doc'[p] = doc[p]
      /\ \/ doc'["model_manifest"] = doc["model_manifest"]
         \/ PublishModelManifest(i) \/ DiscardModelManifest(i)
      /\ Written(i)
  BY ModelFrame DEF TypeInv
<1>2. \A k \in Importers \ {i} : job'[k] = job[k]
  BY ModelJobs DEF TypeInv
<1>3. /\ i \in DocPaths /\ i \in Importers /\ i \notin RuntimeImporters /\ i # "manifest"
      /\ {"manifest", "model_manifest"} \subseteq DocPaths /\ i # "model_manifest"
      /\ \A k \in Importers : k \in DocPaths /\ k \notin {"manifest", "model_manifest"}
                                  /\ k # Foreign
      /\ RuntimeImporters \subseteq Importers
      /\ doc \in [DocPaths -> Documents \cup {Absent}]
  BY PathsAssumption, ImportersAssumption, ForeignAssumption
     DEF Importers, DocPaths, TypeInv, DocType
<1>4. PrivateInv'
  BY <1>1, <1>2, <1>3 DEF OwnInv, PrivateInv, Written
<1>5. ASSUME NEW k \in Importers, IsOwn(doc'["model_manifest"], k)
      PROVE  k \in ModelImporters /\ ~IsOwn(doc'[k], k) /\ ModelOut(job'[k])
  <2>1. CASE k = i
    BY <2>1, <1>5, ModelOutStays
  <2>2. CASE k # i /\ IsOwn(doc["model_manifest"], k)
    BY <2>2, <1>1, <1>2, <1>3 DEF OwnInv, ClaimInv
  <2>3. CASE k # i /\ ~IsOwn(doc["model_manifest"], k)
    <3>1. CASE PublishModelManifest(i)
      BY <3>1, <2>3, <1>3, <1>5 DEF PublishModelManifest, IsOwn, OwnInv, PrivateInv
    <3>2. CASE DiscardModelManifest(i)
      BY <3>2, <2>3, <1>3, <1>5 DEF DiscardModelManifest, IsOwn
    <3> QED BY <3>1, <3>2, <2>3, <1>1, <1>5
  <2> QED BY <2>1, <2>2, <2>3
<1>6. /\ doc'["manifest"] = doc["manifest"] /\ UNCHANGED dir
      /\ \A k \in RuntimeImporters : job'[k] = job[k]
  BY <1>1, <1>2, <1>3
<1>7. ClaimInv'
  BY <1>5, <1>6, <1>3 DEF OwnInv, ClaimInv
<1> QED BY <1>4, <1>7 DEF OwnInv

LEMMA KillOwn ==
  ASSUME TypeInv, OwnInv, NEW i \in Importers, Kill(i)
  PROVE  OwnInv'
<1>1. /\ \A k \in Importers \ {i} : job'[k] = job[k]
      /\ job'[i] = [job[i] EXCEPT !.pc = "killed"] /\ job[i] \in Jobs
      /\ UNCHANGED <<dir, doc>>
  BY KillJobs DEF TypeInv, JobInv, Kill
<1>2. /\ job'[i].pc = "killed" /\ job'[i].docOut = job[i].docOut /\ job'[i].dirOut = job[i].dirOut
      /\ RuntimeImporters \subseteq Importers
  BY <1>1 DEF Jobs, Importers
<1> QED BY <1>1, <1>2 DEF OwnInv, PrivateInv, ClaimInv, ModelOut

LEMMA MeddleOwn ==
  ASSUME TypeInv, OwnInv, Meddle
  PROVE  OwnInv'
<1>1. /\ UNCHANGED job
      /\ \A p \in DirPaths : NotClaimed(dir'[p], dir[p])
      /\ \A p \in DocPaths : NotClaimed(doc'[p], doc[p])
  BY MeddleFrame DEF TypeInv
<1>2. /\ Foreign \notin Importers /\ RuntimeImporters \subseteq Importers
      /\ {"manifest", "model_manifest"} \cup Importers \subseteq DocPaths
      /\ {"runtime"} \cup RuntimeImporters \subseteq DirPaths
  BY ForeignAssumption DEF Importers, DocPaths, DirPaths
<1> QED BY <1>1, <1>2 DEF OwnInv, PrivateInv, ClaimInv, NotClaimed, IsOwn

LEMMA NextOwn == TypeInv /\ OwnInv /\ [Next]_allVars => OwnInv'
<1> SUFFICES ASSUME TypeInv, OwnInv, [Next]_allVars PROVE OwnInv'
  OBVIOUS
<1>1. CASE Lease
  BY <1>1, LeaseFrame DEF OwnInv, PrivateInv, ClaimInv, TypeInv
<1>2. CASE UNCHANGED allVars
  BY <1>2 DEF allVars, vars, OwnInv, PrivateInv, ClaimInv
<1> QED BY <1>1, <1>2, RuntimeOwn, ModelOwn, KillOwn, MeddleOwn DEF Next

LEMMA InitOwn == InitAll => OwnInv
<1> SUFFICES ASSUME InitAll PROVE OwnInv
  OBVIOUS
<1>1. /\ {"manifest", "model_manifest"} \cup Importers \subseteq DocPaths
      /\ {"runtime"} \cup RuntimeImporters \subseteq DirPaths
  BY DEF Importers, DocPaths, DirPaths
<1> QED BY <1>1 DEF InitAll, Init, OwnInv, PrivateInv, ClaimInv, IsOwn

(* An import that ends with its ordinary error has nothing of its own at   *)
(* its destinations, whatever failed and whatever other programs did.      *)
THEOREM PlainErrorIsClean == Spec => []PlainErrorLeavesNothing
<1>1. TypeInv /\ OwnInv => PlainErrorLeavesNothing
  <2> SUFFICES ASSUME TypeInv, OwnInv, NEW i \in Importers, job[i].pc = "error"
               PROVE  /\ ~IsOwn(doc[Destination(i)], i)
                      /\ i \in RuntimeImporters => ~IsOwn(dir["runtime"], i)
    BY DEF PlainErrorLeavesNothing
  <2>1. CASE i \in RuntimeImporters
    BY <2>1 DEF Destination, TypeInv, JobInv, RuntimePlace, OwnInv, ClaimInv
  <2>2. CASE i \notin RuntimeImporters
    BY <2>2 DEF Destination, OwnInv, ClaimInv, ModelOut
  <2> QED BY <2>1, <2>2
<1> QED BY <1>1, InitTypes, NextTypes, InitOwn, NextOwn, PTL DEF Spec

-----------------------------------------------------------------------------
(* While no other program interferes, what an import believes is so.       *)

QuietDocs == \A p \in DocPaths : doc[p] # Absent => doc[p].sound /\ doc[p].by # Foreign
QuietManifest == \A i \in RuntimeImporters : job[i].docOut => IsOwn(doc["manifest"], i)
QuietRuntime ==
  \A i \in RuntimeImporters :
    /\ job[i].dirOut => Unchanged(dir["runtime"], i)
    /\ job[i].pc = "publish" => Unchanged(dir[i], i)
QuietModel ==
  \A i \in ModelImporters :
    job[i].pc \in {"finish", "done"} => IsOwn(doc["model_manifest"], i)

QuietInv == meddling = 0 => QuietDocs /\ QuietManifest /\ QuietRuntime /\ QuietModel

LEMMA FlagsRise ==
  ASSUME TypeInv, NEW i \in RuntimeImporters, ImportRuntime(i)
  PROVE  /\ job'[i].docOut => job[i].docOut \/ PublishManifest(i)
         /\ job'[i].dirOut => job[i].dirOut \/ PublishRuntime(i)
         /\ job'[i].pc = "publish" => Unchanged(dir[i], i) /\ UNCHANGED dir
<1> DEFINE Rise == /\ job'[i].docOut => job[i].docOut \/ PublishManifest(i)
                   /\ job'[i].dirOut => job[i].dirOut \/ PublishRuntime(i)
                   /\ job'[i].pc = "publish" => Unchanged(dir[i], i) /\ UNCHANGED dir
<1>0. i \in Importers /\ job \in [Importers -> Jobs]
  BY DEF Importers, TypeInv, JobInv
<1> USE <1>0 DEF Goto, Jobs
<1>1. ASSUME RequestRuntime(i) PROVE Rise
  BY <1>1 DEF RequestRuntime, Check, Refuses
<1>2. ASSUME OpenInputs(i) PROVE Rise
  BY <1>2 DEF OpenInputs, Refuses
<1>3. ASSUME CreateStaging(i) PROVE Rise
  BY <1>3 DEF CreateStaging
<1>4. ASSUME Extract(i) PROVE Rise
  BY <1>4 DEF Extract
<1>5. ASSUME InstallLicense(i) PROVE Rise
  BY <1>5 DEF InstallLicense
<1>6. ASSUME Scan(i) PROVE Rise
  BY <1>6 DEF Scan
<1>7. ASSUME Unbuild(i) PROVE Rise
  BY <1>7 DEF Unbuild
<1>8. ASSUME Prepare(i) PROVE Rise
  BY <1>8 DEF Prepare
<1>9. ASSUME CheckStaged(i) PROVE Rise
  <2>1. CASE Unchanged(dir[i], i)
    BY <2>1, <1>9 DEF CheckStaged, Check, Refuses
  <2>2. CASE ~Unchanged(dir[i], i)
    <3>1. job' = Goto(i, "fail")
      BY <2>2, <1>9 DEF CheckStaged, Check, Refuses
    <3> QED BY <3>1
  <2> QED BY <2>1, <2>2
<1>10. ASSUME PublishRuntime(i) PROVE Rise
  BY <1>10 DEF PublishRuntime
<1>11. ASSUME CheckPublished(i) PROVE Rise
  BY <1>11 DEF CheckPublished, Check, Refuses
<1>12. ASSUME PublishManifest(i) PROVE Rise
  BY <1>12 DEF PublishManifest
<1>13. ASSUME CheckAnnounced(i) PROVE Rise
  BY <1>13 DEF CheckAnnounced, Check, Refuses
<1>14. ASSUME BeginFailure(i) PROVE Rise
  BY <1>14 DEF BeginFailure, Refuses, AfterFailure
<1>15. ASSUME LookAtManifest(i) PROVE Rise
  BY <1>15 DEF LookAtManifest, AfterManifest
<1>16. ASSUME RemoveManifest(i) PROVE Rise
  BY <1>16 DEF RemoveManifest, AfterManifest
<1>17. ASSUME LookAtRuntime(i) PROVE Rise
  BY <1>17 DEF LookAtRuntime, Check, Refuses
<1>18. ASSUME RollBack(i) PROVE Rise
  BY <1>18 DEF RollBack
<1>19. ASSUME DropPrepared(i) PROVE Rise
  BY <1>19 DEF DropPrepared
<1>20. ASSUME ClearStaging(i) PROVE Rise
  BY <1>20 DEF ClearStaging
<1>21. ASSUME RemoveStaging(i) PROVE Rise
  BY <1>21 DEF RemoveStaging, Verdict
<1>22. ASSUME RuntimeFails(i) PROVE Rise
  BY <1>22 DEF RuntimeFails, Fails, AfterManifest
<1>99. Rise
  BY <1>1, <1>2, <1>3, <1>4, <1>5, <1>6, <1>7, <1>8, <1>9, <1>10, <1>11,
     <1>12, <1>13, <1>14, <1>15, <1>16, <1>17, <1>18, <1>19, <1>20, <1>21,
     <1>22
  DEF ImportRuntime
<1> QED BY <1>99

LEMMA RuntimeQuiet ==
  ASSUME TypeInv, OwnInv, QuietInv, NEW i \in RuntimeImporters, ImportRuntime(i)
  PROVE  QuietInv'
<1>1. /\ \A p \in DirPaths \ {i, "runtime"} : dir'[p] = dir[p]
      /\ \A p \in DocPaths \ {i, "manifest"} : doc'[p] = doc[p]
      /\ dir'["runtime"] = dir["runtime"] \/ PublishRuntime(i) \/ RollBack(i)
      /\ doc'["manifest"] = doc["manifest"] \/ PublishManifest(i) \/ RemoveManifest(i)
      /\ Written(i) /\ UNCHANGED meddling
  BY RuntimeFrame DEF TypeInv
<1>2. /\ \A k \in Importers \ {i} : job'[k] = job[k]
      /\ job \in [Importers -> Jobs] /\ job' \in [Importers -> Jobs]
      /\ RuntimePlace(job[i]) /\ RuntimePlace(job'[i])
  BY RuntimeJobs DEF TypeInv, JobInv
<1>3. /\ i \in DirPaths /\ i \in DocPaths /\ i \in Importers /\ i # "runtime" /\ i # "manifest"
      /\ i # "model_manifest" /\ i \notin ModelImporters /\ i # Foreign
      /\ "runtime" \in DirPaths /\ {"manifest", "model_manifest"} \subseteq DocPaths
      /\ \A k \in RuntimeImporters : k \in DirPaths /\ k # "runtime" /\ k \in Importers
      /\ ModelImporters \subseteq Importers
      /\ dir \in [DirPaths -> Directories \cup {Absent}]
      /\ doc \in [DocPaths -> Documents \cup {Absent}]
  BY PathsAssumption, ImportersAssumption, ForeignAssumption
     DEF Importers, DirPaths, DocPaths, TypeInv, DirType, DocType
<1> SUFFICES ASSUME meddling = 0, QuietDocs, QuietManifest, QuietRuntime, QuietModel
             PROVE  QuietDocs' /\ QuietManifest' /\ QuietRuntime' /\ QuietModel'
  BY <1>1 DEF QuietInv
<1>4. QuietDocs'
  <2>1. CASE PublishManifest(i)
    BY <2>1, <1>3 DEF PublishManifest, QuietDocs
  <2>2. CASE RemoveManifest(i)
    BY <2>2, <1>3 DEF RemoveManifest, QuietDocs
  <2>3. CASE doc'["manifest"] = doc["manifest"]
    BY <2>3, <1>1, <1>3 DEF Written, QuietDocs
  <2> QED BY <1>1, <2>1, <2>2, <2>3
<1>5. ASSUME NEW k \in RuntimeImporters, job'[k].docOut
      PROVE  IsOwn(doc'["manifest"], k)
  <2>1. job[k].docOut \/ (k = i /\ PublishManifest(i))
    BY <1>5, <1>2, <1>3, FlagsRise
  <2>2. CASE k = i /\ PublishManifest(i)
    <3>1. ~job[i].docOut
      BY <2>2, <1>2 DEF PublishManifest, RuntimePlace, At
    <3>2. doc[i] # Absent /\ doc'["manifest"] = doc[i]
      BY <2>2, <3>1, <1>2, <1>3, <1>5 DEF PublishManifest, Goto, Jobs
    <3> QED BY <3>2, <2>2, <1>3 DEF IsOwn, OwnInv, PrivateInv, QuietDocs
  <2>3. CASE job[k].docOut /\ doc'["manifest"] = doc["manifest"]
    BY <2>3 DEF QuietManifest, IsOwn
  <2>4. CASE job[k].docOut /\ PublishManifest(i) /\ doc'["manifest"] # doc["manifest"]
    BY <2>4 DEF QuietManifest, IsOwn, PublishManifest, Free
  <2>5. CASE job[k].docOut /\ RemoveManifest(i) /\ doc'["manifest"] # doc["manifest"]
    <3>1. job[i].docOut /\ job'[i].docOut = FALSE
      BY <2>5, <1>2, <1>3 DEF RemoveManifest, RuntimePlace, At, Goto, Jobs
    <3> QED BY <3>1, <2>5, <1>5 DEF QuietManifest, IsOwn
  <2> QED BY <2>1, <2>2, <2>3, <2>4, <2>5, <1>1
<1>6. ASSUME NEW k \in RuntimeImporters, job'[k].dirOut
      PROVE  Unchanged(dir'["runtime"], k)
  <2>1. job[k].dirOut \/ (k = i /\ PublishRuntime(i))
    BY <1>6, <1>2, <1>3, FlagsRise
  <2>2. CASE k = i /\ PublishRuntime(i) /\ dir'["runtime"] # dir["runtime"]
    BY <2>2, <1>3 DEF PublishRuntime, QuietRuntime, At
  <2>3. CASE job[k].dirOut /\ dir'["runtime"] = dir["runtime"]
    BY <2>3 DEF QuietRuntime
  <2>4. CASE job[k].dirOut /\ PublishRuntime(i) /\ dir'["runtime"] # dir["runtime"]
    BY <2>4 DEF QuietRuntime, Unchanged, IsOwn, PublishRuntime, Free
  <2>5. CASE job[k].dirOut /\ RollBack(i) /\ dir'["runtime"] # dir["runtime"]
    <3>1. job[i].dirOut
      BY <2>5, <1>2 DEF RollBack, RuntimePlace, At
    <3>2. k = i /\ IsOwn(dir["runtime"], i)
      BY <2>5, <3>1 DEF QuietRuntime, Unchanged, IsOwn
    <3>3. ~job'[i].dirOut
      BY <2>5, <3>2, <1>2, <1>3 DEF RollBack, Goto, Jobs
    <3> QED BY <3>2, <3>3, <1>6
  <2>6. CASE k = i /\ PublishRuntime(i) /\ dir'["runtime"] = dir["runtime"]
    <3>1. job'[i].dirOut => job[i].dirOut \/ dir'["runtime"] = dir[i]
      BY <2>6, <1>2, <1>3 DEF PublishRuntime, Goto, Jobs
    <3>2. job[i].pc = "publish"
      BY <2>6 DEF PublishRuntime, At
    <3> QED BY <2>6, <3>1, <3>2, <1>6 DEF QuietRuntime
  <2> QED BY <2>1, <2>2, <2>3, <2>4, <2>5, <2>6, <1>1
<1>7. ASSUME NEW k \in RuntimeImporters, job'[k].pc = "publish"
      PROVE  Unchanged(dir'[k], k)
  <2>1. CASE k = i
    BY <2>1, <1>7, FlagsRise
  <2>2. CASE k # i
    BY <2>2, <1>7, <1>1, <1>2, <1>3 DEF QuietRuntime
  <2> QED BY <2>1, <2>2
<1>8. QuietModel'
  BY <1>1, <1>2, <1>3 DEF QuietModel, IsOwn
<1> QED BY <1>4, <1>5, <1>6, <1>7, <1>8 DEF QuietManifest, QuietRuntime

LEMMA ModelFinish ==
  ASSUME TypeInv, QuietModel, NEW i \in ModelImporters, ImportModel(i),
         job'[i].pc \in {"finish", "done"}
  PROVE  IsOwn(doc["model_manifest"], i) /\ UNCHANGED doc
<1> DEFINE Sure == IsOwn(doc["model_manifest"], i) /\ UNCHANGED doc
<1>0. /\ i \in Importers /\ job \in [Importers -> Jobs]
      /\ job[i].pc = "finish" => IsOwn(doc["model_manifest"], i)
      /\ job'[i].pc \in {"finish", "done"}
  BY DEF Importers, TypeInv, JobInv, QuietModel
<1> USE <1>0 DEF At, Goto, Jobs
<1>1. ASSUME RequestModel(i) PROVE Sure
  BY <1>1 DEF RequestModel, Check, Refuses
<1>2. ASSUME OpenModel(i) PROVE Sure
  BY <1>2 DEF OpenModel
<1>3. ASSUME PrepareModelManifest(i) PROVE Sure
  BY <1>3 DEF PrepareModelManifest
<1>4. ASSUME CheckPrepared(i) PROVE Sure
  BY <1>4 DEF CheckPrepared, Check, Refuses
<1>5. ASSUME PublishModelManifest(i) PROVE Sure
  BY <1>5 DEF PublishModelManifest
<1>6. ASSUME Reconcile(i) PROVE Sure
  BY <1>6 DEF Reconcile
<1>7. ASSUME VerifyPublished(i) PROVE Sure
  BY <1>7 DEF VerifyPublished, IsExact
<1>8. ASSUME FinishModel(i) PROVE Sure
  BY <1>8 DEF FinishModel
<1>9. ASSUME DiscardModelManifest(i) PROVE Sure
  BY <1>9 DEF DiscardModelManifest
<1>10. ASSUME ModelFails(i) PROVE Sure
  BY <1>10 DEF ModelFails, Fails
<1>99. Sure
  BY <1>1, <1>2, <1>3, <1>4, <1>5, <1>6, <1>7, <1>8, <1>9, <1>10
  DEF ImportModel
<1> QED BY <1>99

LEMMA ModelQuiet ==
  ASSUME TypeInv, OwnInv, QuietInv, NEW i \in ModelImporters, ImportModel(i)
  PROVE  QuietInv'
<1>1. /\ UNCHANGED <<dir, meddling>>
      /\ \A p \in DocPaths \ {i, "model_manifest"} : doc'[p] = doc[p]
      /\ \/ doc'["model_manifest"] = doc["model_manifest"]
         \/ PublishModelManifest(i) \/ DiscardModelManifest(i)
      /\ Written(i)
  BY ModelFrame DEF TypeInv
<1>2. /\ \A k \in Importers \ {i} : job'[k] = job[k]
      /\ job \in [Importers -> Jobs] /\ job' \in [Importers -> Jobs]
      /\ ModelPlace(job[i]) /\ ModelPlace(job'[i])
  BY ModelJobs DEF TypeInv, JobInv
<1>3. /\ i \in DocPaths /\ i \in Importers /\ i \notin RuntimeImporters /\ i # "manifest"
      /\ {"manifest", "model_manifest"} \subseteq DocPaths /\ i # "model_manifest" /\ i # Foreign
      /\ RuntimeImporters \subseteq Importers /\ ModelImporters \subseteq Importers
      /\ doc \in [DocPaths -> Documents \cup {Absent}]
  BY PathsAssumption, ImportersAssumption, ForeignAssumption
     DEF Importers, DocPaths, TypeInv, DocType
<1> SUFFICES ASSUME meddling = 0, QuietDocs, QuietManifest, QuietRuntime, QuietModel
             PROVE  QuietDocs' /\ QuietManifest' /\ QuietRuntime' /\ QuietModel'
  BY <1>1 DEF QuietInv
<1>4. QuietDocs'
  <2>1. CASE PublishModelManifest(i)
    BY <2>1, <1>3 DEF PublishModelManifest, QuietDocs
  <2>2. CASE DiscardModelManifest(i)
    BY <2>2, <1>3 DEF DiscardModelManifest, QuietDocs
  <2>3. CASE doc'["model_manifest"] = doc["model_manifest"]
    BY <2>3, <1>1, <1>3 DEF Written, QuietDocs
  <2> QED BY <1>1, <2>1, <2>2, <2>3
<1>5. QuietManifest' /\ QuietRuntime'
  <2>1. doc'["manifest"] = doc["manifest"] /\ \A k \in RuntimeImporters : job'[k] = job[k]
    BY <1>1, <1>2, <1>3
  <2> QED BY <2>1, <1>1 DEF QuietManifest, QuietRuntime
<1>6. ASSUME NEW k \in ModelImporters, k # i, job'[k].pc \in {"finish", "done"}
      PROVE  IsOwn(doc'["model_manifest"], k)
  <2>1. IsOwn(doc["model_manifest"], k)
    BY <1>6, <1>2, <1>3 DEF QuietModel
  <2>2. CASE PublishModelManifest(i)
    BY <2>1, <2>2, <1>3 DEF PublishModelManifest, IsOwn, Free
  <2>3. CASE DiscardModelManifest(i)
    BY <2>1, <2>3, <1>6, <1>3 DEF DiscardModelManifest, IsOwn, IsExact
  <2> QED BY <1>1, <2>1, <2>2, <2>3 DEF IsOwn
<1>7. ASSUME job'[i].pc \in {"finish", "done"}
      PROVE  IsOwn(doc'["model_manifest"], i)
  BY <1>7, ModelFinish DEF IsOwn
<1> QED BY <1>4, <1>5, <1>6, <1>7 DEF QuietModel

LEMMA NextQuiet == TypeInv /\ OwnInv /\ QuietInv /\ [Next]_allVars => QuietInv'
<1> SUFFICES ASSUME TypeInv, OwnInv, QuietInv, [Next]_allVars PROVE QuietInv'
  OBVIOUS
<1> USE DEF QuietInv, QuietDocs, QuietManifest, QuietRuntime, QuietModel
<1>1. ASSUME NEW i \in Importers, Kill(i)
      PROVE  QuietInv'
  <2>1. /\ \A k \in Importers \ {i} : job'[k] = job[k]
        /\ job'[i] = [job[i] EXCEPT !.pc = "killed"] /\ job[i] \in Jobs
        /\ UNCHANGED <<dir, doc, meddling>>
    BY <1>1, KillJobs DEF TypeInv, JobInv, Kill
  <2>2. /\ job'[i].pc = "killed" /\ job'[i].docOut = job[i].docOut /\ job'[i].dirOut = job[i].dirOut
        /\ RuntimeImporters \subseteq Importers /\ ModelImporters \subseteq Importers
    BY <2>1 DEF Jobs, Importers
  <2> QED BY <2>1, <2>2
<1>2. CASE Meddle
  BY <1>2, MeddleFrame DEF TypeInv
<1>3. CASE Lease
  BY <1>3, LeaseFrame DEF TypeInv
<1>4. CASE UNCHANGED allVars
  BY <1>4 DEF allVars, vars
<1> QED BY <1>1, <1>2, <1>3, <1>4, RuntimeQuiet, ModelQuiet DEF Next

LEMMA InitQuiet == InitAll => QuietInv
BY DEF InitAll, Init, Idle, QuietInv, QuietDocs, QuietManifest, QuietRuntime, QuietModel, Importers

(* Without interference a manifest that stands has the complete runtime of *)
(* its own import beside it, in every state two imports, their failures    *)
(* and their ends can lead to; or its import will not end with the plain   *)
(* error.                                                                  *)
THEOREM ManifestsAreBacked == Spec => []ManifestHasRuntime
<1>1. TypeInv /\ OwnInv /\ QuietInv => ManifestHasRuntime
  <2> SUFFICES ASSUME TypeInv, OwnInv, QuietInv, meddling = 0, doc["manifest"] # Absent
               PROVE  LET i == doc["manifest"].by
                      IN \/ Unchanged(dir["runtime"], i)
                         \/ job[i].stuck /\ job[i].pc # "error"
    BY DEF ManifestHasRuntime
  <2> DEFINE i == doc["manifest"].by
  <2>1. i \in Importers
    BY DEF TypeInv, DocType, DocPaths, Documents, QuietInv, QuietDocs
  <2>2. i \in RuntimeImporters /\ job[i].docOut
    BY <2>1 DEF OwnInv, ClaimInv, IsOwn
  <2>3. job[i].stuck \/ job[i].dirOut
    BY <2>2 DEF TypeInv, JobInv, RuntimePlace
  <2>4. job[i].stuck => job[i].pc # "error"
    BY <2>2 DEF TypeInv, JobInv, RuntimePlace
  <2> QED BY <2>2, <2>3, <2>4 DEF QuietInv, QuietRuntime
<1> QED BY <1>1, InitTypes, NextTypes, InitOwn, NextOwn, InitQuiet, NextQuiet, PTL DEF Spec

(* What an import has reported as done stays as it left it, however other  *)
(* imports to the same place go on.                                        *)
THEOREM DoneIsKept == Spec => []DoneStays
<1>1. TypeInv /\ QuietInv => DoneStays
  <2> SUFFICES ASSUME TypeInv, QuietInv, meddling = 0, NEW i \in Importers, job[i].pc = "done"
               PROVE  /\ IsExact(doc[Destination(i)], i)
                      /\ i \in RuntimeImporters => Unchanged(dir["runtime"], i)
    BY DEF DoneStays
  <2>1. CASE i \in RuntimeImporters
    <3>1. job[i].docOut /\ job[i].dirOut
      BY <2>1 DEF TypeInv, JobInv, RuntimePlace
    <3> QED BY <2>1, <3>1
            DEF QuietInv, QuietDocs, QuietManifest, QuietRuntime,
                Destination, IsExact, IsOwn, DocPaths
  <2>2. CASE i \in ModelImporters /\ i \notin RuntimeImporters
    BY <2>2 DEF QuietInv, QuietDocs, QuietModel, Destination, IsExact, IsOwn, DocPaths
  <2> QED BY <2>1, <2>2 DEF Importers
<1> QED BY <1>1, InitTypes, NextTypes, InitOwn, NextOwn, InitQuiet, NextQuiet, PTL DEF Spec

-----------------------------------------------------------------------------
(* Without interference and without a failure, what an import has made on  *)
(* the way it knows, and takes away.                                       *)

TidyRuntime(j, d, t, i) ==
  /\ j.pc # "unbuild"
  /\ t # Absent => IsExact(t, i) /\ j.kept /\ ~j.docOut
  /\ d # Absent => /\ j.root /\ d.by = i /\ ~d.extra
                   /\ \A f \in Files : d.files[f] \in {"ours", "none"}
                   /\ j.pc \in {"extract", "license", "scan"} \/ j.tree
  /\ j.pc \in {"idle", "inputs", "staging"} => d = Absent
  /\ j.pc \in {"idle", "inputs", "staging", "extract", "license", "scan", "prepare",
               "clear", "unroot", "error"} => t = Absent
  /\ j.pc = "extract" => d # Absent /\ \A f \in Files : d.files[f] = "none"
  /\ j.pc = "license" => /\ d # Absent /\ j.made = Files \ {License}
                         /\ \A f \in Files : d.files[f] = IF f = License THEN "none" ELSE "ours"
  /\ j.pc = "scan" => d # Absent /\ j.made = Files /\ \A f \in Files : d.files[f] = "ours"
  /\ j.dirOut => j.root /\ j.tree /\ d = Absent
  /\ j.pc = "unroot" /\ d # Absent => Empty(d)
  /\ j.pc = "error" => d = Absent

TidyModel(j, t, i) ==
  /\ t # Absent => IsExact(t, i) /\ j.kept /\ ~j.docOut
  /\ j.pc \in {"idle", "open", "prepare", "error"} => t = Absent

TidyInv ==
  meddling = 0 /\ faults = 0 =>
    /\ \A i \in RuntimeImporters : TidyRuntime(job[i], dir[i], doc[i], i)
    /\ \A i \in ModelImporters : TidyModel(job[i], doc[i], i)

LEMMA RuntimeTidies ==
  ASSUME TypeInv, QuietInv, NEW i \in RuntimeImporters, ImportRuntime(i), ~Fault,
         meddling = 0, TidyRuntime(job[i], dir[i], doc[i], i)
  PROVE  TidyRuntime(job'[i], dir'[i], doc'[i], i)
<1> DEFINE Tidy == TidyRuntime(job'[i], dir'[i], doc'[i], i)
<1>0. /\ i \in Importers /\ job \in [Importers -> Jobs] /\ RuntimePlace(job[i])
      /\ dir \in [DirPaths -> Directories \cup {Absent}]
      /\ doc \in [DocPaths -> Documents \cup {Absent}]
      /\ i \in DocPaths /\ i # "manifest" /\ "manifest" \in DocPaths
      /\ i \in DirPaths /\ i # "runtime" /\ "runtime" \in DirPaths
      /\ TidyRuntime(job[i], dir[i], doc[i], i) /\ ~Fault
      /\ job[i].dirOut => Unchanged(dir["runtime"], i)
      /\ Absent \notin Directories /\ Absent \notin Documents /\ License \in Files
  BY PathsAssumption, AbsentAssumption, LicenseAssumption
     DEF Importers, DocPaths, DirPaths, TypeInv, DocType, DirType, JobInv, QuietInv, QuietRuntime
<1> USE <1>0 DEF At, Goto, Jobs, TidyRuntime, IsExact, IsOwn, RuntimePlace, Building, Directories
<1>1. ASSUME RequestRuntime(i) PROVE Tidy
  BY <1>1 DEF RequestRuntime, Check, Refuses
<1>2. ASSUME OpenInputs(i) PROVE Tidy
  BY <1>2 DEF OpenInputs, Refuses
<1>3. ASSUME CreateStaging(i) PROVE Tidy
  <2>1. CASE /\ dir' = [dir EXCEPT ![i] = NewDir(i)]
                 /\ job' = [Goto(i, "extract") EXCEPT ![i].root = TRUE]
    <3>1. /\ NewDir(i).by = i /\ ~NewDir(i).extra
          /\ \A f \in Files : NewDir(i).files[f] = "none"
      BY DEF NewDir
    <3>2. dir'[i] = NewDir(i) /\ doc'[i] = Absent
      BY <2>1, <1>3 DEF CreateStaging
    <3>3. NewDir(i) \in Directories
      BY DEF NewDir, FileStates
    <3> QED BY <2>1, <3>1, <3>2, <3>3, <1>3 DEF CreateStaging
  <2>2. CASE UNCHANGED dir /\ job' = Goto(i, "fail")
    BY <2>2, <1>3 DEF CreateStaging
  <2> QED BY <2>1, <2>2, <1>3 DEF CreateStaging
<1>4. ASSUME Extract(i) PROVE Tidy
  <2>1. /\ IsOwn(dir[i], i) /\ ~dir[i].extra /\ dir[i] \in Directories
        /\ \A f \in Files : dir[i].files[f] = "none"
    BY <1>4 DEF Extract
  <2>2. /\ dir' = [dir EXCEPT ![i].files =
                     [f \in Files |-> IF f \in Files \ {License} THEN "ours" ELSE "none"]]
        /\ job' = [Goto(i, "license") EXCEPT ![i].made = Files \ {License}]
        /\ doc' = doc
    BY <1>4, <2>1 DEF Extract
  <2>3. /\ dir'[i].by = i /\ dir'[i].extra = dir[i].extra
        /\ \A f \in Files : dir'[i].files[f] = IF f = License THEN "none" ELSE "ours"
    BY <2>1, <2>2
  <2>4. dir'[i] # Absent
    <3>1. dir'[i] \in Directories
      BY <2>1, <2>2 DEF FileStates
    <3> QED BY <3>1
  <2> QED BY <2>1, <2>2, <2>3, <2>4, <1>4 DEF Extract
<1>5. ASSUME InstallLicense(i) PROVE Tidy
  BY <1>5 DEF InstallLicense, Owned
<1>6. ASSUME Scan(i) PROVE Tidy
  BY <1>6 DEF Scan, Owned
<1>7. ASSUME Unbuild(i) PROVE Tidy
  BY <1>7 DEF Unbuild
<1>8. ASSUME Prepare(i) PROVE Tidy
  BY <1>8 DEF Prepare
<1>9. ASSUME CheckStaged(i) PROVE Tidy
  BY <1>9 DEF CheckStaged, Check, Refuses
<1>10. ASSUME PublishRuntime(i) PROVE Tidy
  BY <1>10 DEF PublishRuntime
<1>11. ASSUME CheckPublished(i) PROVE Tidy
  BY <1>11 DEF CheckPublished, Check, Refuses
<1>12. ASSUME PublishManifest(i) PROVE Tidy
  BY <1>12 DEF PublishManifest
<1>13. ASSUME CheckAnnounced(i) PROVE Tidy
  BY <1>13 DEF CheckAnnounced, Check, Refuses
<1>14. ASSUME BeginFailure(i) PROVE Tidy
  BY <1>14 DEF BeginFailure, Refuses, AfterFailure
<1>15. ASSUME LookAtManifest(i) PROVE Tidy
  BY <1>15 DEF LookAtManifest, AfterManifest
<1>16. ASSUME RemoveManifest(i) PROVE Tidy
  BY <1>16 DEF RemoveManifest, AfterManifest
<1>17. ASSUME LookAtRuntime(i) PROVE Tidy
  BY <1>17 DEF LookAtRuntime, Check, Refuses
<1>18. ASSUME RollBack(i) PROVE Tidy
  BY <1>18 DEF RollBack, Unchanged, Complete
<1>19. ASSUME DropPrepared(i) PROVE Tidy
  BY <1>19 DEF DropPrepared
<1>20. ASSUME ClearStaging(i) PROVE Tidy
  BY <1>20 DEF ClearStaging, Without, Mine, Empty
<1>21. ASSUME RemoveStaging(i) PROVE Tidy
  BY <1>21 DEF RemoveStaging, Verdict, Empty
<1>22. ASSUME RuntimeFails(i) PROVE Tidy
  BY <1>22 DEF RuntimeFails, Fails
<1>99. Tidy
  BY <1>1, <1>2, <1>3, <1>4, <1>5, <1>6, <1>7, <1>8, <1>9, <1>10, <1>11,
     <1>12, <1>13, <1>14, <1>15, <1>16, <1>17, <1>18, <1>19, <1>20, <1>21,
     <1>22
  DEF ImportRuntime
<1> QED BY <1>99

LEMMA ModelTidies ==
  ASSUME TypeInv, NEW i \in ModelImporters, ImportModel(i), ~Fault,
         TidyModel(job[i], doc[i], i)
  PROVE  TidyModel(job'[i], doc'[i], i)
<1> DEFINE Tidy == TidyModel(job'[i], doc'[i], i)
<1>0. /\ i \in Importers /\ job \in [Importers -> Jobs] /\ ModelPlace(job[i])
      /\ doc \in [DocPaths -> Documents \cup {Absent}]
      /\ i \in DocPaths /\ i # "model_manifest" /\ "model_manifest" \in DocPaths
      /\ TidyModel(job[i], doc[i], i) /\ ~Fault
      /\ Absent \notin Documents
  BY PathsAssumption, AbsentAssumption DEF Importers, DocPaths, TypeInv, DocType, JobInv
<1> USE <1>0 DEF At, Goto, Jobs, TidyModel, IsExact, IsOwn, ModelPlace
<1>1. ASSUME RequestModel(i) PROVE Tidy
  BY <1>1 DEF RequestModel, Check, Refuses
<1>2. ASSUME OpenModel(i) PROVE Tidy
  BY <1>2 DEF OpenModel
<1>3. ASSUME PrepareModelManifest(i) PROVE Tidy
  BY <1>3 DEF PrepareModelManifest
<1>4. ASSUME CheckPrepared(i) PROVE Tidy
  BY <1>4 DEF CheckPrepared, Check, Refuses
<1>5. ASSUME PublishModelManifest(i) PROVE Tidy
  BY <1>5 DEF PublishModelManifest
<1>6. ASSUME Reconcile(i) PROVE Tidy
  BY <1>6 DEF Reconcile, Moved, NotMoved
<1>7. ASSUME VerifyPublished(i) PROVE Tidy
  BY <1>7 DEF VerifyPublished
<1>8. ASSUME FinishModel(i) PROVE Tidy
  BY <1>8 DEF FinishModel
<1>9. ASSUME DiscardModelManifest(i) PROVE Tidy
  BY <1>9 DEF DiscardModelManifest
<1>10. ASSUME ModelFails(i) PROVE Tidy
  BY <1>10 DEF ModelFails, Fails
<1>99. Tidy
  BY <1>1, <1>2, <1>3, <1>4, <1>5, <1>6, <1>7, <1>8, <1>9, <1>10
  DEF ImportModel
<1> QED BY <1>99

LEMMA NextTidy == TypeInv /\ QuietInv /\ TidyInv /\ [Next]_allVars => TidyInv'
<1> SUFFICES ASSUME TypeInv, QuietInv, TidyInv, [Next]_allVars, meddling' = 0, faults' = 0
             PROVE  /\ \A i \in RuntimeImporters : TidyRuntime(job'[i], dir'[i], doc'[i], i)
                    /\ \A i \in ModelImporters : TidyModel(job'[i], doc'[i], i)
  BY DEF TidyInv
<1>1. ~Fault /\ ~Meddle
  BY MeddleFrame DEF TypeInv, RestType, Fault
<1>2. /\ \A i \in RuntimeImporters : i \in Importers /\ i \in DirPaths /\ i \in DocPaths
      /\ \A i \in ModelImporters : i \in Importers /\ i \in DocPaths
      /\ \A i \in Importers : i \notin {"runtime", "manifest", "model_manifest"}
      /\ RuntimeImporters \cap ModelImporters = {}
  BY PathsAssumption, ImportersAssumption DEF Importers, DirPaths, DocPaths
<1>3. ASSUME NEW i \in RuntimeImporters, ImportRuntime(i)
      PROVE  /\ \A k \in RuntimeImporters : TidyRuntime(job'[k], dir'[k], doc'[k], k)
             /\ \A k \in ModelImporters : TidyModel(job'[k], doc'[k], k)
  <2>1. /\ \A p \in DirPaths \ {i, "runtime"} : dir'[p] = dir[p]
        /\ \A p \in DocPaths \ {i, "manifest"} : doc'[p] = doc[p]
        /\ UNCHANGED meddling /\ NoFault
    BY <1>1, <1>3, RuntimeFrame DEF TypeInv
  <2>2. \A k \in Importers \ {i} : job'[k] = job[k]
    BY <1>3, RuntimeJobs DEF TypeInv
  <2>3. /\ \A k \in RuntimeImporters : TidyRuntime(job[k], dir[k], doc[k], k)
        /\ \A k \in ModelImporters : TidyModel(job[k], doc[k], k)
    BY <2>1 DEF TidyInv, NoFault
  <2>4. TidyRuntime(job'[i], dir'[i], doc'[i], i)
    BY <1>1, <1>3, <2>1, <2>3, RuntimeTidies
  <2>5. \A k \in RuntimeImporters \ {i} : /\ job'[k] = job[k] /\ dir'[k] = dir[k]
                                        /\ doc'[k] = doc[k]
    BY <1>2, <2>1, <2>2
  <2>6. \A k \in ModelImporters : job'[k] = job[k] /\ doc'[k] = doc[k]
    BY <1>2, <2>1, <2>2
  <2> QED BY <2>3, <2>4, <2>5, <2>6
<1>4. ASSUME NEW i \in ModelImporters, ImportModel(i)
      PROVE  /\ \A k \in RuntimeImporters : TidyRuntime(job'[k], dir'[k], doc'[k], k)
             /\ \A k \in ModelImporters : TidyModel(job'[k], doc'[k], k)
  <2>1. /\ UNCHANGED <<dir, meddling>> /\ NoFault
        /\ \A p \in DocPaths \ {i, "model_manifest"} : doc'[p] = doc[p]
    BY <1>1, <1>4, ModelFrame DEF TypeInv
  <2>2. \A k \in Importers \ {i} : job'[k] = job[k]
    BY <1>4, ModelJobs DEF TypeInv
  <2>3. /\ \A k \in RuntimeImporters : TidyRuntime(job[k], dir[k], doc[k], k)
        /\ \A k \in ModelImporters : TidyModel(job[k], doc[k], k)
    BY <2>1 DEF TidyInv, NoFault
  <2>4. TidyModel(job'[i], doc'[i], i)
    BY <1>1, <1>4, <2>3, ModelTidies
  <2>5. \A k \in RuntimeImporters : /\ job'[k] = job[k] /\ dir'[k] = dir[k]
                                   /\ doc'[k] = doc[k]
    BY <1>2, <2>1, <2>2
  <2>6. \A k \in ModelImporters \ {i} : job'[k] = job[k] /\ doc'[k] = doc[k]
    BY <1>2, <2>1, <2>2
  <2> QED BY <2>3, <2>4, <2>5, <2>6
<1>5. CASE Lease
  <2>1. UNCHANGED <<dir, doc, job, meddling>> /\ NoFault
    BY <1>1, <1>5, LeaseFrame DEF TypeInv
  <2> QED BY <2>1 DEF TidyInv, NoFault
<1>6. CASE UNCHANGED allVars
  BY <1>6 DEF allVars, vars, TidyInv
<1>7. \A i \in Importers : ~Kill(i)
  BY <1>1 DEF Kill
<1> QED BY <1>1, <1>3, <1>4, <1>5, <1>6, <1>7 DEF Next

LEMMA InitTidy == InitAll => TidyInv
<1> SUFFICES ASSUME InitAll PROVE TidyInv
  OBVIOUS
<1>1. /\ \A i \in RuntimeImporters : job[i] = Idle /\ dir[i] = Absent /\ doc[i] = Absent
      /\ \A i \in ModelImporters : job[i] = Idle /\ doc[i] = Absent
  BY DEF InitAll, Init, Importers, DirPaths, DocPaths
<1>2. /\ \A i \in RuntimeImporters : TidyRuntime(Idle, Absent, Absent, i)
      /\ \A i \in ModelImporters : TidyModel(Idle, Absent, i)
  BY DEF TidyRuntime, TidyModel, Idle
<1> QED BY <1>1, <1>2 DEF TidyInv

(* A refused import, early or late, has removed its staging directory and  *)
(* its temporary file, unless a failure or another program was in the way. *)
THEOREM LosersCleanUp == Spec => []LoserCleansUp
<1>1. TidyInv => LoserCleansUp
  BY DEF TidyInv, TidyRuntime, TidyModel, LoserCleansUp, Importers
<1> QED BY <1>1, InitTypes, NextTypes, InitOwn, NextOwn, InitQuiet, NextQuiet, InitTidy,
           NextTidy, PTL DEF Spec
=============================================================================
