---------------------------- MODULE ModelImport ----------------------------
(***************************************************************************)
(* import_gguf_model (feasibility/llama_slice.py): a manifest is published *)
(* for a model that stays where it is and is held open meanwhile.  Unlike  *)
(* the runtime import it does not believe the outcome of the rename: it    *)
(* looks at both paths and decides from them.                              *)
(***************************************************************************)
EXTENDS ArtifactImport

Holds(what, i) == [reading EXCEPT ![what] = @ \cup {i}]
LetsGo(i) == [w \in DOMAIN reading |-> reading[w] \ {i}]

RequestModel(i) ==
  Check(i, "idle", Free(doc["model_manifest"]), "open", "error")

(* The model is opened without write or delete sharing, then hashed and    *)
(* its metadata read.  An error closes it.                                 *)
OpenModel(i) ==
  /\ At(i, "open")
  /\ \/ /\ NoFault /\ model = "pinned"
        /\ reading' = Holds("model", i)
        /\ job' = Goto(i, "prepare")
     \/ /\ IF model = "pinned" THEN Fault ELSE NoFault
        /\ UNCHANGED reading
        /\ job' = Goto(i, "error")
  /\ UNCHANGED <<dir, doc, model, meddling>>

(* The manifest under its temporary name.  Its own handler removes it; if  *)
(* that fails the error is the hard one.                                   *)
PrepareModelManifest(i) ==
  /\ At(i, "prepare")
  /\ LET written == [doc EXCEPT ![i] = [by |-> i, sound |-> TRUE]]
     IN \/ /\ NoFault /\ Free(doc["model_manifest"])
           /\ doc' = written
           /\ job' = [Goto(i, "check") EXCEPT ![i].kept = TRUE]
        \/ /\ NoFault /\ ~Free(doc["model_manifest"])
           /\ UNCHANGED doc
           /\ job' = Goto(i, "fail")
        \/ /\ Fault /\ UNCHANGED doc
           /\ job' = Goto(i, "fail")
        \/ /\ Fault /\ doc' = written
           /\ job' = [Goto(i, "fail") EXCEPT ![i].stuck = TRUE]
  /\ UNCHANGED <<dir, model, reading, meddling>>

CheckPrepared(i) ==
  Check(i, "check", IsExact(doc[i], i) /\ Free(doc["model_manifest"]), "publish", "fail")

(* The rename may fail, and may report a failure after it took effect.     *)
PublishModelManifest(i) ==
  /\ At(i, "publish")
  /\ LET moved == [doc EXCEPT !["model_manifest"] = doc[i], ![i] = Absent]
         able == doc[i] # Absent /\ Free(doc["model_manifest"])
     IN \/ /\ NoFault /\ able
           /\ doc' = moved
           /\ job' = Goto(i, "reconcile")
        \/ /\ NoFault /\ ~able
           /\ UNCHANGED doc
           /\ job' = [Goto(i, "reconcile") EXCEPT ![i].dirty = TRUE]
        \/ /\ Fault /\ able
           /\ doc' \in {doc, moved}
           /\ job' = [Goto(i, "reconcile") EXCEPT ![i].dirty = TRUE]
  /\ UNCHANGED <<dir, model, reading, meddling>>

(* _reconcile_model_manifest_publication; dirty says the rename failed.    *)
Moved(i) == doc[i] = Absent /\ IsExact(doc["model_manifest"], i)
NotMoved(i) == IsExact(doc[i], i) /\ ~IsExact(doc["model_manifest"], i)

(* Mutant of Reconcile: the rename is believed.                            *)
ReconcileBelieving(i) ==
  /\ At(i, "reconcile") /\ NoFault
  /\ job' = IF job[i].dirty THEN Goto(i, "fail")
            ELSE [Goto(i, "verify") EXCEPT ![i].docOut = TRUE]
  /\ UNCHANGED <<dir, doc, model, reading, meddling>>

Reconcile(i) ==
  /\ At(i, "reconcile")
  /\ \/ /\ NoFault /\ Moved(i)
        /\ job' = [Goto(i, IF job[i].dirty THEN "fail" ELSE "verify")
                     EXCEPT ![i].docOut = TRUE]
     \/ /\ NoFault /\ NotMoved(i)
        /\ job' = Goto(i, "fail")
     \/ /\ IF Moved(i) \/ NotMoved(i) THEN Fault ELSE NoFault
        /\ job' = [Goto(i, "fail") EXCEPT ![i].stuck = TRUE]
  /\ UNCHANGED <<dir, doc, model, reading, meddling>>

(* The published manifest is opened without write or delete sharing, and   *)
(* it and the model are read again.                                        *)
VerifyPublished(i) ==
  /\ At(i, "verify")
  /\ \/ /\ NoFault /\ IsExact(doc["model_manifest"], i)
        /\ reading' = Holds("manifest", i)
        /\ job' = Goto(i, "finish")
     \/ /\ IF IsExact(doc["model_manifest"], i) THEN Fault ELSE NoFault
        /\ UNCHANGED reading
        /\ job' = Goto(i, "fail")
  /\ UNCHANGED <<dir, doc, model, meddling>>

(* The last replay, under the handle, and the closes.                      *)
FinishModel(i) ==
  /\ At(i, "finish")
  /\ \/ NoFault /\ reading' = LetsGo(i) /\ job' = Goto(i, "done")
     \/ Fault /\ UNCHANGED reading /\ job' = Goto(i, "fail")
  /\ UNCHANGED <<dir, doc, model, meddling>>

(* The handler: the handles are closed, then the manifest is removed from  *)
(* the path where it is known to be.  It is looked at through a handle     *)
(* that nobody can delete or replace behind, so look and removal are one.  *)
DiscardModelManifest(i) ==
  /\ At(i, "fail")
  /\ reading' = LetsGo(i)
  /\ LET path == IF job[i].docOut THEN "model_manifest" ELSE i
         verdict == IF job[i].stuck THEN "quarantined" ELSE "error"
     IN \/ /\ NoFault /\ (~job[i].kept \/ doc[path] = Absent)
           /\ UNCHANGED doc
           /\ job' = Goto(i, verdict)
        \/ /\ NoFault /\ job[i].kept /\ IsExact(doc[path], i)
           /\ doc' = [doc EXCEPT ![path] = Absent]
           /\ job' = Goto(i, verdict)
        \/ /\ job[i].kept /\ doc[path] # Absent
           /\ IF IsExact(doc[path], i) THEN Fault ELSE NoFault
           /\ UNCHANGED doc
           /\ job' = Goto(i, "quarantined")
  /\ UNCHANGED <<dir, model, meddling>>

ModelFails(i) ==
  \E from \in {"check"} : Fails(i, from, "fail")

ImportModel(i) ==
  \/ RequestModel(i) \/ OpenModel(i) \/ PrepareModelManifest(i) \/ CheckPrepared(i)
  \/ PublishModelManifest(i) \/ Reconcile(i) \/ VerifyPublished(i)
  \/ FinishModel(i) \/ DiscardModelManifest(i) \/ ModelFails(i)
=============================================================================
