------------------------------ MODULE LocalAnswer ------------------------------
(***************************************************************************)
(* A question from its admission to its answer, with all that runs for it: *)
(* the reads of SinglePaperAsk, the server and the stream of               *)
(* VerifiedOperation, and between them generation/service.py               *)
(* (LocalGenerationService.generate).  The user may cancel at any time,    *)
(* and documents and indexes are published at any time.                    *)
(***************************************************************************)
EXTENDS SinglePaperAsk, VerifiedOperation

vars == <<questionVars, operationVars, generationVars>>

Init == AskInit /\ StreamInit /\ OperationInit

(* The reads of the question, which know nothing of the server.            *)
Reading ==
  /\ \/ AdmitSource \/ PrepareScope \/ PrepareIdentity \/ RecheckSource
     \/ RecheckIdentity \/ Compare \/ SearchLexical \/ SearchSemantic
     \/ ResolveParents \/ BuildBundle \/ RebuildBundle \/ ReleaseSource
  /\ UNCHANGED <<operationVars, generationVars>>

AtModel == verdict = "none" /\ Script[at] = "model"

(* generate: a cancellation is seen first; then the request is rendered,   *)
(* or refused, and the operation begins.                                   *)
BeginModel ==
  /\ AtModel /\ stage = "idle"
  /\ \/ ~cancel /\ BeginOperation /\ UNCHANGED questionVars
     \/ /\ AskModel /\ verdict' # "none"
        /\ UNCHANGED <<operationVars, generationVars>>

RunModel == AtModel /\ Operate /\ UNCHANGED questionVars

(* What the operation returned is looked at after another look at cancel:  *)
(* an output that is not the JSON asked for, or cites what is not in the   *)
(* bundle, is rejected; and whatever was raised is no answer.              *)
EndModel ==
  /\ AtModel /\ stage = "over"
  /\ AskModel
  /\ verdict' = "none" => outcome = "result" /\ ~cancel
  /\ UNCHANGED <<operationVars, generationVars>>

(* After the bundle has been rebuilt cancel is looked at a last time; the  *)
(* answer may still be refused.                                            *)
ServiceEnds ==
  /\ LastLook
  /\ verdict' = "none" => ~cancel
  /\ UNCHANGED <<operationVars, generationVars>>

Asking == Reading \/ BeginModel \/ RunModel \/ EndModel \/ ServiceEnds

(* The server and the threads of the stream.                               *)
Beside == Others /\ UNCHANGED questionVars

(* The user cancels, before the answer.                                    *)
UserCancels ==
  /\ verdict = "none" /\ ~cancel
  /\ cancel' = TRUE
  /\ UNCHANGED <<questionVars, operationVars, pc, close, watcher, timer,
                 streamVars, expired, stop, trouble, got, reply>>

(* Documents and indexes are published; after the answer nobody looks.     *)
Publishing ==
  verdict = "none" /\ IndexNext /\ UNCHANGED <<askVars, operationVars, generationVars>>

Next == Asking \/ Beside \/ UserCancels \/ Publishing

Spec == Init /\ [][Next]_vars

(* The asking thread and the watcher run; the server owes nothing, and     *)
(* nobody needs to cancel or publish.                                      *)
FairSpec ==
  /\ Spec
  /\ WF_vars(Asking)
  /\ WF_vars(Watcher /\ UNCHANGED <<questionVars, operationVars>>)

(* The timer runs as well, and every wait for the server is bounded.       *)
Deadlines ==
  /\ WF_vars(Timer /\ UNCHANGED <<questionVars, operationVars>>)
  /\ WF_vars(NoAnswer /\ UNCHANGED <<questionVars, operationVars>>)

-----------------------------------------------------------------------------
(* An answer rests on a stream that was read to its end over a connection  *)
(* that closed without a failure, and on an operation that has ended with  *)
(* its threads, its server, its lease and its secrets gone.                *)
AnswerIsWhole ==
  verdict = "answered" => ReleasedWhole /\ reply = "released" /\ outcome = "result"

(* Every question ends, whatever the server does and whoever publishes,    *)
(* and no thread, no connection and no server that is known of outlives it.*)
QuestionEnds ==
  Deadlines =>
    <>[](/\ verdict # "none"
         /\ watcher \in {"off", "over"} /\ timer \in {"off", "over"}
         /\ \A r \in Resources : resource[r] # "open"
         /\ server # "up" /\ lease # "prepared")

(* A cancelled question does not wait for its deadline: once there is a    *)
(* stream, the watcher alone ends a read that waits for a silent server,   *)
(* by closing the connection under it, and the question ends; only a       *)
(* connection that cannot be closed leaves it to the timeouts              *)
(* (llama_cpp.py 136-152).                                                 *)
CancelEndsQuestion ==
  cancel /\ watcher = "waiting" ~> verdict # "none" \/ resource["client"] = "failed"
=============================================================================
