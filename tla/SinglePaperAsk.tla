--------------------------- MODULE SinglePaperAsk ---------------------------
(***************************************************************************)
(* One question about one paper, from its admission to its answer, while   *)
(* others publish documents and indexes: generation/orchestrator.py        *)
(* (SinglePaperAskService.ask) with retrieval/scoped_service.py,           *)
(* hybrid_service.py, semantic.py, evidence/resolver.py and                *)
(* generation/service.py.  Nothing is locked while the question is         *)
(* answered: every step is one read transaction of its own, or the model.  *)
(*                                                                         *)
(* The environment is VectorIndex.  An index is named by the snapshot it   *)
(* was built from, as its SemanticIdentity is determined by it.            *)
(***************************************************************************)
EXTENDS VectorIndex, Sequences

CONSTANT Paper    \* the file versions of the paper that is asked about

ASSUME PaperAssumption == Paper \subseteq Files

VARIABLES
  at,        \* the place of the next read in Script
  source,    \* the source admitted by the orchestrator, or None
  scope,     \* the source of the prepared retrieval request, or None
  identity,  \* the index of the request (semantic_identity), or None
  hits,      \* the channels that have found something
  verdict    \* what ask returns, or "none"

askVars == <<at, source, scope, identity, hits, verdict>>
questionVars == <<indexVars, askVars>>

(* Mutant of Script: what the service answers is released unchecked.       *)
ScriptUnchecked ==
  <<"source", "scope", "identity", "recheck source", "recheck identity",
    "compare",
    "recheck source", "recheck identity", "lexical", "semantic", "parents",
    "recheck source", "recheck identity",
    "recheck source", "recheck identity", "bundle",
    "recheck source", "recheck identity", "model", "rebuild", "last look">>

(* The reads of ask in their order: admission; prepare_request; the        *)
(* comparison of both; search_scoped; the checks around the bundle; the    *)
(* generation and its revalidation; the release.                           *)
Script ==
  <<"source", "scope", "identity", "recheck source", "recheck identity",
    "compare",
    "recheck source", "recheck identity", "lexical", "semantic", "parents",
    "recheck source", "recheck identity",
    "recheck source", "recheck identity", "bundle",
    "recheck source", "recheck identity", "model", "rebuild", "last look",
    "release source", "recheck source", "recheck identity">>

AskInit ==
  /\ IndexInit
  /\ at = 1
  /\ source = None /\ scope = None /\ identity = None
  /\ hits = {}
  /\ verdict = "none"

(* A source: a file version of the paper and its active generation.        *)
Sources == Paper \X (1..MaxVersion)

(* sole_current_paper_source_read_only finds exactly this source.          *)
IsSole(src) ==
  /\ src \in Sources
  /\ \A f \in Paper : current[f] = IF f = src[1] THEN src[2] ELSE 0

(* The document generation is the active one of its file version.          *)
IsActive(src) == current[src[1]] = src[2]

-----------------------------------------------------------------------------
Reads(what) == verdict = "none" /\ Script[at] = what /\ UNCHANGED indexVars

AtEnd == at = Len(Script)

(* The read has found what it expects; the last one releases the answer.   *)
Pass ==
  IF AtEnd
  THEN verdict' = "answered" /\ UNCHANGED at
  ELSE at' = at + 1 /\ UNCHANGED verdict

(* ask returns something else than an answer.                              *)
Return(what) == verdict' = what /\ UNCHANGED at

Check(good, refusal) == IF good THEN Pass ELSE Return(refusal)

(* _resolve_initial_source: no source, or several, is a rejection.         *)
AdmitSource ==
  /\ Reads("source")
  /\ \/ \E src \in Sources : IsSole(src) /\ source' = src /\ Pass
     \/ /\ ~ \E src \in Sources : IsSole(src)
        /\ Return("not_current") /\ UNCHANGED source
  /\ UNCHANGED <<scope, identity, hits>>

(* prepare_request reads the source for itself ...                         *)
PrepareScope ==
  /\ Reads("scope")
  /\ \/ \E src \in Sources : IsSole(src) /\ scope' = src /\ Pass
     \/ /\ ~ \E src \in Sources : IsSole(src)
        /\ Return("not_current") /\ UNCHANGED scope
  /\ UNCHANGED <<source, identity, hits>>

(* ... and the published index, when it is current (current_identity).     *)
PrepareIdentity ==
  /\ Reads("identity")
  /\ identity' = served
  /\ Check(served # None, "unavailable")
  /\ UNCHANGED <<source, scope, hits>>

(* recheck_current: the source of the request, then its index.             *)
RecheckSource ==
  /\ Reads("recheck source")
  /\ Check(IsSole(scope), "not_current")
  /\ UNCHANGED <<source, scope, identity, hits>>

RecheckIdentity ==
  /\ Reads("recheck identity")
  /\ Check(served = identity, "unavailable")
  /\ UNCHANGED <<source, scope, identity, hits>>

(* Mutant of Moved: the source of the request is read again.               *)
MovedFromScope == ~IsSole(scope)

(* The admitted source is no longer the paper's.                           *)
Moved == ~IsSole(source)

(* The request is about the admitted source; or the source is read again   *)
(* to tell a publication that has landed between from a broken request.    *)
Compare ==
  /\ Reads("compare")
  /\ Check(scope = source, IF Moved THEN "not_current" ELSE "internal")
  /\ UNCHANGED <<source, scope, identity, hits>>

(* The lexical channel finds nothing in a generation that is not active.   *)
SearchLexical ==
  /\ Reads("lexical")
  /\ hits' \in {h \in SUBSET {"lexical"} : h # {} => IsActive(scope)}
  /\ Pass
  /\ UNCHANGED <<source, scope, identity>>

(* The semantic channel refuses another index.                             *)
SearchSemantic ==
  /\ Reads("semantic")
  /\ Check(served = identity, "unavailable")
  /\ hits' \in {hits, hits \cup {"semantic"}}
  /\ UNCHANGED <<source, scope, identity>>

(* Every fused candidate's parent is read again under what found it.       *)
ResolveParents ==
  /\ Reads("parents")
  /\ \/ "semantic" \in hits /\ served # identity /\ Return("unavailable")
     \/ "lexical" \in hits /\ ~IsActive(scope) /\ Return("not_current")
     \/ /\ "semantic" \in hits => served = identity
        /\ "lexical" \in hits => IsActive(scope)
        /\ Pass
  /\ UNCHANGED <<source, scope, identity, hits>>

(* EvidenceReadResolver.resolve: the scope, then the index.                *)
Resolve(changed) ==
  IF ~IsActive(scope) THEN Return("not_current")
  ELSE Check(served = identity, changed)

(* The bundle is built of what was found, which is not looked at again; a  *)
(* partial or an insufficient one is not answered.                         *)
BuildBundle ==
  /\ Reads("bundle")
  /\ \/ Resolve("unavailable") /\ (verdict' = "none" => hits # {})
     \/ Return("abstained")
  /\ hits' = {}
  /\ UNCHANGED <<source, scope, identity>>

(* The model answers, or its run or its output is refused.                 *)
AskModel ==
  /\ Reads("model")
  /\ Pass \/ Return("no answer")
  /\ UNCHANGED <<source, scope, identity, hits>>

(* The bundle is built again and must be the same; what has changed, in    *)
(* the index or in the source, is no longer current to the service.        *)
RebuildBundle ==
  /\ Reads("rebuild")
  /\ Resolve("not_current")
  /\ UNCHANGED <<source, scope, identity, hits>>

(* The service looks once more whether the user has cancelled.             *)
LastLook ==
  /\ Reads("last look")
  /\ Pass \/ Return("no answer")
  /\ UNCHANGED <<source, scope, identity, hits>>

(* _resolve_release_source, before the last recheck_current.               *)
ReleaseSource ==
  /\ Reads("release source")
  /\ Check(IsSole(source), "not_current")
  /\ UNCHANGED <<source, scope, identity, hits>>

Ask ==
  \/ AdmitSource \/ PrepareScope \/ PrepareIdentity \/ RecheckSource
  \/ RecheckIdentity \/ Compare \/ SearchLexical \/ SearchSemantic
  \/ ResolveParents \/ BuildBundle \/ AskModel \/ RebuildBundle \/ LastLook
  \/ ReleaseSource

AskNext == Ask \/ (IndexNext /\ UNCHANGED askVars)

AskSpec == AskInit /\ [][AskNext]_questionVars

-----------------------------------------------------------------------------
(* Every variable has its type.                                            *)
AskTypeOK ==
  /\ current \in Snapshots /\ served \in Snapshots \cup {None}
  /\ at \in 1..Len(Script)
  /\ source \in Sources \cup {None} /\ scope \in Sources \cup {None}
  /\ identity \in Snapshots \cup {None}
  /\ hits \subseteq {"lexical", "semantic"}
  /\ verdict \in {"none", "answered", "abstained", "no answer", "not_current",
                  "unavailable", "internal"}

(* When an answer is released, the generation it was written from is, at   *)
(* that moment, the only source of its paper and active, and the index     *)
(* that found its evidence is the current one, although the source was     *)
(* read before the index and nothing was locked (orchestrator.py 295-305). *)
ReleasedCurrent ==
  [][verdict # "answered" /\ verdict' = "answered" =>
       /\ {f \in Paper : current[f] # 0} = {source[1]}
       /\ current[source[1]] = source[2]
       /\ served = current /\ identity = current]_questionVars

(* From the comparison on, the paper has in the snapshot of the index that *)
(* is searched exactly the source the orchestrator has admitted: what      *)
(* three transactions have read belongs together.  And publications that   *)
(* land between them are never reported as a broken invariant of the       *)
(* program: "A new publication can legitimately land between admission     *)
(* reads." (orchestrator.py 203)                                           *)
AdmissionsAgree ==
  /\ at > 6 =>
       /\ scope = source /\ identity # None
       /\ \A f \in Paper : identity[f] = IF f = source[1] THEN source[2] ELSE 0
  /\ verdict # "internal"
=============================================================================
