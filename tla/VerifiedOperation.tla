--------------------------- MODULE VerifiedOperation ---------------------------
(***************************************************************************)
(* The life of the local server around one generation request:             *)
(* feasibility/llama_slice.py (run_verified_llama_operation, its preflight,*)
(* its two compatibility probes and _run_verified_llama_session_core) with *)
(* the operation that generation/llama_cpp.py runs in it                   *)
(* (VerifiedLlamaCppModel, count_and_admit, _Phase0PromptSession).         *)
(*                                                                         *)
(* Each stage opens a lease of the artifacts, does its work and cleans up  *)
(* in one order, whatever has failed.  What happens inside a lease is in   *)
(* RunArtifacts, inside the start and the shutdown of a process in         *)
(* ServerSession; here each is one step that succeeds or fails.            *)
(***************************************************************************)
EXTENDS GenerationStream, Naturals, Sequences

VARIABLES
  stage,      \* the stage of the operation: "idle", one of Stages or "over"
  step,       \* what the stage does next
  lease,      \* of this stage: "none", "prepared", "bound", "released", "poisoned"
  workspace,  \* the workspace object of this stage: "none", "open", "closed"
  files,      \* what exists of temporary directory and API-key file
  server,     \* the server process: "none", "up", "down", "lost"
  primary,    \* primary_error: the kind of what was raised first, or "none"
  cleanup,    \* cleanup_errors: the worst of them, or "none"
  outcome     \* what the operation returns or raises, or "none"

operationVars == <<stage, step, lease, workspace, files, server, primary,
                   cleanup, outcome>>

Stages == <<"preflight", "version", "devices", "session">>

(* An Exception, or a MemoryError, a KeyboardInterrupt or the like.        *)
Faults == {"error", "hard"}

OperationInit ==
  /\ stage = "idle" /\ step = "lease"
  /\ lease = "none" /\ workspace = "none" /\ files = {} /\ server = "none"
  /\ primary = "none" /\ cleanup = "none" /\ outcome = "none"

At(where) == stage \in {Stages[i] : i \in 1..4} /\ step = where

GoOn(to) == step' = to /\ UNCHANGED primary

(* The except clause: what follows is cleanup.                             *)
Except(e) == primary' = e /\ step' = "release"

(* The first stage begins.                                                 *)
BeginOperation ==
  /\ stage = "idle"
  /\ stage' = Stages[1]
  /\ UNCHANGED <<step, lease, workspace, files, server, primary, cleanup, outcome,
                 generationVars>>

(* open_llama_run_artifact_lease; the preflight gives it back at once.     *)
OpenLease ==
  /\ At("lease")
  /\ \/ /\ lease' = "prepared"
        /\ GoOn(IF stage = "preflight" THEN "release" ELSE "workspace")
     \/ \E e \in Faults : Except(e) /\ UNCHANGED lease
  /\ UNCHANGED <<stage, workspace, files, server, cleanup, outcome, generationVars>>

(* _open_llama_ephemeral_workspace: a temporary directory, for the session *)
(* with the API key; one that fails removes what it can.                   *)
OpenWorkspace ==
  /\ At("workspace")
  /\ LET all == IF stage = "session" THEN {"directory", "key"} ELSE {"directory"} IN
     \/ /\ workspace' = "open" /\ files' = all
        /\ GoOn("run")
     \/ /\ \E e \in Faults : Except(e)
        /\ files' \in {{}, {"directory"}, all}
        /\ UNCHANGED workspace
  /\ UNCHANGED <<stage, lease, server, cleanup, outcome, generationVars>>

(* run_llama_one_shot_windows_probe takes the lease over and ends with it  *)
(* released; one that fails may fail before that.                          *)
RunProbe ==
  /\ At("run") /\ stage # "session"
  /\ \/ lease' = "released" /\ GoOn("release")
     \/ /\ lease' \in {"prepared", "released", "poisoned"}
        /\ \E e \in Faults : Except(e)
  /\ UNCHANGED <<stage, workspace, files, server, cleanup, outcome, generationVars>>

(* start_llama_server_windows_session; a failed start has cleaned up for   *)
(* itself, or has said that it could not.                                  *)
StartServer ==
  /\ At("run") /\ stage = "session"
  /\ \/ lease' = "bound" /\ server' = "up" /\ GoOn("serve")
     \/ /\ lease' \in {"prepared", "released", "poisoned"}
        /\ server' \in {"none", "lost"}
        /\ \E e \in Faults : Except(e)
  /\ UNCHANGED <<stage, workspace, files, cleanup, outcome, generationVars>>

(* A request to the server may break or time out.                          *)
RequestFails == \E e \in {"timeout"} \cup Faults : Except(e)

(* The health of the server, its properties and its idle slot.             *)
AwaitReady ==
  /\ At("serve")
  /\ GoOn("template") \/ RequestFails
  /\ UNCHANGED <<stage, lease, workspace, files, server, cleanup, outcome,
                 generationVars>>

(* count_and_admit: each request is preceded by a look at cancel.          *)
CountAndAdmit ==
  /\ At("template") \/ At("tokens")
  /\ IF cancel THEN Except("cancelled")
     ELSE \/ GoOn(IF step = "template" THEN "tokens" ELSE "generate")
          \/ RequestFails
          \/ step = "tokens" /\ Except("context")
  /\ UNCHANGED <<stage, lease, workspace, files, server, cleanup, outcome,
                 generationVars>>

(* The stream; a look at cancel before it is the one of Start.             *)
Generate == At("generate") /\ Main /\ UNCHANGED operationVars

(* AdmittedGeneration.generate looks at cancel again and counts the prompt *)
(* tokens; Phase0VerifiedSessionRunner maps what was raised.  A connection *)
(* that times out before there is a stream is a timeout as well.           *)
EndGenerate ==
  /\ At("generate") /\ pc = "over"
  /\ \/ reply = "released" /\ ~cancel /\ (GoOn("release") \/ Except("error"))
     \/ reply = "released" /\ cancel /\ Except("cancelled")
     \/ reply \in {"cancelled", "timeout"} /\ Except(reply)
     \/ reply = "invariant" /\ Except("error")
     \/ reply = "error" /\ Except("error")
     \/ reply = "error" /\ watcher = "off" /\ Except("timeout")
  /\ UNCHANGED <<stage, lease, workspace, files, server, cleanup, outcome,
                 generationVars>>

-----------------------------------------------------------------------------
(* The cleanup of a stage.                                                 *)

(* One more error of the cleanup; a hard one counts whenever it comes.     *)
Record(e) == cleanup' = IF cleanup = "hard" THEN "hard" ELSE e

(* A server is shut down with its lease; otherwise a lease that nobody has *)
(* taken over is closed.                                                   *)
ReleaseServer ==
  /\ At("release")
  /\ \/ /\ server = "up"
        /\ \/ server' = "down" /\ lease' = "released" /\ UNCHANGED cleanup
           \/ /\ server' \in {"down", "lost"} /\ lease' \in {"released", "poisoned"}
              /\ \E e \in Faults : Record(e)
     \/ /\ server # "up" /\ lease = "prepared"
        /\ \/ lease' = "released" /\ UNCHANGED cleanup
           \/ lease' = "poisoned" /\ \E e \in Faults : Record(e)
        /\ UNCHANGED server
     \/ /\ server # "up" /\ lease # "prepared"
        /\ UNCHANGED <<server, lease, cleanup>>
  /\ step' = "sweep"
  /\ UNCHANGED <<stage, workspace, files, primary, outcome, generationVars>>

(* What workspace.close leaves behind when it fails.                       *)
Leavings(all) == {{"directory"}, all}

(* _LlamaEphemeralWorkspace.close: the key, then the directory.            *)
CloseWorkspace ==
  /\ At("sweep")
  /\ IF workspace # "open"
     THEN UNCHANGED <<workspace, files, cleanup>>
     ELSE /\ workspace' = "closed"
          /\ \/ files' = {} /\ UNCHANGED cleanup
             \/ files' \in Leavings(files) /\ \E e \in Faults : Record(e)
  /\ step' = "raise"
  /\ UNCHANGED <<stage, lease, server, primary, outcome, generationVars>>

(* Mutant of Raised: an error of the cleanup does not replace the first.   *)
RaisedPrimary == IF primary # "none" THEN primary ELSE cleanup

(* _raise_after_llama_cleanup: a hard error goes first, then what could    *)
(* not be cleaned up.                                                      *)
Raised ==
  IF "hard" \in {primary, cleanup} THEN "hard"
  ELSE IF cleanup # "none" THEN cleanup ELSE primary

NextStage == [preflight |-> "version", version |-> "devices", devices |-> "session"]

(* The stage fails, or is followed by the next one, with a workspace and a *)
(* lease of its own, or returns the result.  The version that was printed  *)
(* is compared with the manifest after the cleanup.                        *)
EndStage ==
  /\ At("raise")
  /\ \/ /\ stage' = "over"
        /\ \/ Raised # "none" /\ outcome' = Raised
           \/ Raised = "none" /\ stage = "version" /\ outcome' = "error"
           \/ Raised = "none" /\ stage = "session" /\ outcome' = "result"
        /\ UNCHANGED <<step, lease, workspace>>
     \/ /\ Raised = "none" /\ stage # "session"
        /\ stage' = NextStage[stage] /\ step' = "lease"
        /\ lease' = "none" /\ workspace' = "none"
        /\ UNCHANGED outcome
  /\ primary' = "none" /\ cleanup' = "none"
  /\ UNCHANGED <<files, server, generationVars>>

(* The main thread in the operation.                                       *)
Operate ==
  \/ OpenLease \/ OpenWorkspace \/ RunProbe \/ StartServer \/ AwaitReady
  \/ CountAndAdmit \/ Generate \/ EndGenerate \/ ReleaseServer
  \/ CloseWorkspace \/ EndStage

(* What the operation does not decide.                                     *)
Others == (Server \/ Timer \/ Watcher) /\ UNCHANGED operationVars

-----------------------------------------------------------------------------
(* Only a plain error may hide that something was left behind.  A result,  *)
(* a cancellation, a timeout or a context limit is reported only when the  *)
(* server is down, the lease released and the API key and its directory    *)
(* are removed, although the cleanup is several calls that fail one by one *)
(* (_raise_after_llama_cleanup, "hard-primary and cleanup-failure          *)
(* precedence").                                                           *)
SoftOutcomeIsClean ==
  outcome \in {"result", "cancelled", "timeout", "context"} =>
    /\ server \in {"none", "down"} /\ lease = "released" /\ files = {}
=============================================================================
