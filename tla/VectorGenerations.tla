-------------------------- MODULE VectorGenerations --------------------------
(***************************************************************************)
(* The life of the semantic vector generations of one project and one      *)
(* embedding profile: embeddings/vector_build.py (ProjectVectorBuilder),   *)
(* embeddings/repository.py, embeddings/reconciliation.py and the triggers *)
(* of migration 0004.  Each builder and each reconciler is a process that  *)
(* runs one invocation at a time; a step of it is one SQLite transaction,  *)
(* one read or one finished artifact directory, and documents may be       *)
(* published between any two steps.                                        *)
(*                                                                         *)
(* A vector generation is named by its snapshot: its id is the hash of the *)
(* project, the profile and the snapshot.  A source is a pair of a file    *)
(* version and the ordinal of one of its document generations; it has one  *)
(* chunk with one embeddable span, or none when all its pages need OCR.    *)
(***************************************************************************)
EXTENDS Snapshots, FiniteSets

CONSTANTS
  Textless,     \* sources without a chunk: every page needs OCR
  Encodings,    \* the byte contents the embedder may give the same texts
  Builders,     \* processes that run ProjectVectorBuilder.build
  Retrying,     \* those whose caller always runs the build again
  Reconcilers   \* processes that run reconcile_vector_generations

ASSUME RetryingAssumption == Retrying \subseteq Builders

Source == Files \X (1..MaxVersion)

SourcesOf(s) == {src \in Source : s[src[1]] = src[2]}
SpansOf(s) == SourcesOf(s) \ Textless

(* The counts stored with a generation (VectorGenerationCoverage): chunks, *)
(* pages that need OCR, and the spans and documents that were embedded.    *)
Coverage(s, rows) ==
  [chunks |-> Cardinality(SpansOf(s)),
   ocr    |-> Cardinality(SourcesOf(s) \cap Textless),
   spans  |-> Cardinality(rows),
   rest   |-> Cardinality(SourcesOf(s)) - Cardinality(rows)]

(* A finished artifact directory.  It lies in the workspace of a snapshot; *)
(* its name is derived from its manifest, the hash of its content.         *)
Artifact == [workspace : Snapshots, rows : SUBSET Source, bytes : Encodings]

Manifest(a) ==
  [rows  |-> a.rows,
   bytes |-> a.bytes,
   of    |-> IF a.rows = {} THEN a.workspace ELSE None]

Manifests ==
  [rows : SUBSET Source, bytes : Encodings, of : Snapshots \cup {None}]

VARIABLES
  active,       \* generation_publications: the active document generations
  published,    \* vector_generation_publications: the snapshot, or None
  gen,          \* vector_generations and vector_generation_spans, by snapshot
  persisted,    \* embedding_spans: the sources whose span is stored
  artifacts,    \* finished artifact directories
  job,          \* what each builder's invocation holds
  rec           \* what each reconciler's invocation holds

vars == <<active, published, gen, persisted, artifacts, job, rec>>

States == {"ABSENT", "DB_CANDIDATE", "FILES_FINALIZED", "STALE"}

NoRow ==
  [state |-> "ABSENT", dir |-> None, coverage |-> None, rows |-> {},
   manifest |-> None]

IdleJob ==
  [pc |-> "idle", snap |-> None, seen |-> None, made |-> {}, art |-> None,
   todo |-> {}]

IdleRec == [pc |-> "idle", work |-> {}, at |-> None]

Init ==
  /\ active = Unpublished
  /\ published = None
  /\ gen = [s \in Snapshots |-> NoRow]
  /\ persisted = {}
  /\ artifacts = {}
  /\ job = [b \in Builders |-> IdleJob]
  /\ rec = [r \in Reconcilers |-> IdleRec]

-----------------------------------------------------------------------------
(* The transactions of EmbeddingRepository: guard and effect.              *)

IsCandidate(s) == gen[s].state = "DB_CANDIDATE"
IsFinalized(s) == gen[s].state = "FILES_FINALIZED"

(* _require_current: the stored sources of a generation are those of its   *)
(* snapshot, so that they are current is that the snapshot is.             *)
IsCurrent(s) == s = active

(* Mutant of IsComplete: counts and row mapping are not compared.          *)
IsCompleteBySpans(s) == SpansOf(s) \subseteq persisted

(* _validate_candidate: coverage as recorded, every chunk has its span and *)
(* every embeddable span of the sources has its row.                       *)
IsComplete(s) ==
  /\ gen[s].coverage = Coverage(s, gen[s].rows)
  /\ SpansOf(s) \subseteq persisted
  /\ SpansOf(s) \cap persisted \subseteq gen[s].rows

(* _verify_finalized_artifact: what lies in the recorded directory is what *)
(* the row promises.                                                       *)
Verifies(s) ==
  LET g == gen[s] IN
  /\ g.dir \in artifacts
  /\ g.manifest = Manifest(g.dir)
  /\ IF g.dir.rows = {} THEN g.dir.workspace = s ELSE g.dir.rows = g.rows

(* Mutant of CanDiscard: any generation can be discarded.                  *)
CanDiscardAny(s) == gen[s].state # "ABSENT"

CanDiscard(s) == IsCandidate(s)

DiscardRow(s) == gen' = [gen EXCEPT ![s] = NoRow]

(* Mutant of CanPublish: the sources are not compared again.               *)
CanPublishLate(s) == IsFinalized(s) /\ IsComplete(s)

CanPublish(s) == IsFinalized(s) /\ IsCurrent(s) /\ IsComplete(s)

CanRetire(s) == IsFinalized(s) /\ published # s /\ ~IsCurrent(s)

(* Mutant of ActiveGeneration: the sources are not compared.               *)
ActiveGenerationByPointer == published

(* active_generation: the published generation, unless its sources moved.  *)
ActiveGeneration == IF published = active THEN published ELSE None

-----------------------------------------------------------------------------
(* ProjectVectorBuilder.build, one step after the other.  An error ends    *)
(* the invocation, and what it wrote before stays.                         *)

At(b, p) == job[b].pc = p

GoTo(b, p) == job' = [job EXCEPT ![b] = IF p = "idle" THEN IdleJob
                                        ELSE [job[b] EXCEPT !.pc = p]]

(* An invocation begins by reading the current snapshot.                   *)
Start(b) ==
  /\ At(b, "idle")
  /\ job' = [job EXCEPT ![b] = [IdleJob EXCEPT !.pc = "lookup", !.snap = active]]
  /\ UNCHANGED <<active, published, gen, persisted, artifacts, rec>>

(* Mutant of Lookup: a candidate left behind is an error.                  *)
LookupKeepsCandidate(b) ==
  LET s == job[b].snap IN
  /\ At(b, "lookup")
  /\ GoTo(b, CASE gen[s].state = "ABSENT"       -> "construct"
               [] IsFinalized(s) /\ Verifies(s) -> "publish"
               [] OTHER                         -> "idle")
  /\ UNCHANGED <<active, published, gen, persisted, artifacts, rec>>

(* generation_for_snapshot, and what its state leads to.  A finalized row  *)
(* never changes, so it is verified in the same step.                      *)
Lookup(b) ==
  LET s == job[b].snap IN
  /\ At(b, "lookup")
  /\ GoTo(b, CASE gen[s].state = "ABSENT"       -> "construct"
               [] gen[s].state = "DB_CANDIDATE" -> "replace"
               [] IsFinalized(s) /\ Verifies(s) -> "publish"
               [] OTHER                         -> "idle")
  /\ UNCHANGED <<active, published, gen, persisted, artifacts, rec>>

(* The candidate somebody left behind, or is still working on, is dropped. *)
Replace(b) ==
  LET s == job[b].snap IN
  /\ At(b, "replace")
  /\ IF CanDiscard(s) THEN DiscardRow(s) /\ GoTo(b, "construct")
                      ELSE UNCHANGED gen /\ GoTo(b, "idle")
  /\ UNCHANGED <<active, published, persisted, artifacts, rec>>

(* _construct_and_persist_spans reads the sources that are active NOW; the *)
(* coverage is refused when more of them have spans than the snapshot has. *)
CountsFit(b, rows) == Cardinality(rows) <= Cardinality(SourcesOf(job[b].snap))

Construct(b) ==
  LET rows == SpansOf(active) IN
  /\ At(b, "construct")
  /\ persisted' = persisted \cup rows
  /\ IF CountsFit(b, rows)
     THEN job' = [job EXCEPT ![b].pc = "store", ![b].made = rows]
     ELSE GoTo(b, "idle")
  /\ UNCHANGED <<active, published, gen, artifacts, rec>>

(* The spans are embedded and the artifact directory moved into place; an  *)
(* empty artifact has a single possible content.                           *)
Store(b) ==
  /\ At(b, "store")
  /\ \E e \in Encodings :
       LET a == [workspace |-> job[b].snap, rows |-> job[b].made, bytes |-> e] IN
       /\ a.rows = {} => e = CHOOSE x \in Encodings : TRUE
       /\ artifacts' = artifacts \cup {a}
       /\ job' = [job EXCEPT ![b].pc = "create", ![b].art = a]
  /\ UNCHANGED <<active, published, gen, persisted, rec>>

(* create_candidate reads the snapshot before its transaction.             *)
Create(b) ==
  /\ At(b, "create")
  /\ job' = [job EXCEPT ![b].pc = "insert", ![b].seen = active]
  /\ UNCHANGED <<active, published, gen, persisted, artifacts, rec>>

(* build keeps the candidate it is given only if it is one for the         *)
(* snapshot it began with; one for another snapshot it takes back.         *)
GoOnWith(b, state) ==
  IF state # "DB_CANDIDATE" THEN GoTo(b, "idle")
  ELSE IF job[b].seen # job[b].snap THEN GoTo(b, "undo")
  ELSE job' = [job EXCEPT ![b].pc = "attach", ![b].todo = job[b].made]

JobCoverage(b) == Coverage(job[b].snap, job[b].made)

(* Trigger vector_generation_sources_lineage_insert: each source of the    *)
(* new row is the active generation of its file version.                   *)
LineageHolds(s) == \A f \in Files : s[f] > 0 => s[f] = active[f]

(* create_candidate inserts the row.                                       *)
InsertRow(b) ==
  LET t == job[b].seen IN
  /\ At(b, "insert") /\ gen[t].state = "ABSENT" /\ LineageHolds(t)
  /\ gen' = [gen EXCEPT ![t] =
               [state |-> "DB_CANDIDATE", dir |-> job[b].art,
                coverage |-> JobCoverage(b), rows |-> {}, manifest |-> None]]
  /\ GoOnWith(b, "DB_CANDIDATE")
  /\ UNCHANGED <<active, published, persisted, artifacts, rec>>

(* create_candidate finds a row with the same directory and coverage.      *)
AdoptRow(b) ==
  LET t == job[b].seen IN
  /\ At(b, "insert") /\ gen[t].state # "ABSENT"
  /\ gen[t].dir = job[b].art /\ gen[t].coverage = JobCoverage(b)
  /\ GoOnWith(b, gen[t].state)
  /\ UNCHANGED <<active, published, gen, persisted, artifacts, rec>>

(* create_candidate fails: the trigger aborts the insert, or the row that  *)
(* is there is a different one.                                            *)
RefuseRow(b) ==
  LET t == job[b].seen IN
  /\ At(b, "insert")
  /\ IF gen[t].state = "ABSENT" THEN ~LineageHolds(t)
     ELSE gen[t].dir # job[b].art \/ gen[t].coverage # JobCoverage(b)
  /\ GoTo(b, "idle")
  /\ UNCHANGED <<active, published, gen, persisted, artifacts, rec>>

(* The sources changed during the build: the candidate is discarded.       *)
Undo(b) ==
  LET t == job[b].seen IN
  /\ At(b, "undo")
  /\ IF CanDiscard(t) THEN DiscardRow(t) ELSE UNCHANGED gen
  /\ GoTo(b, "idle")
  /\ UNCHANGED <<active, published, persisted, artifacts, rec>>

(* attach_vector_row for the next span in row order, with the triggers     *)
(* and the uniqueness constraints of vector_generation_spans.              *)
Attach(b) ==
  LET s == job[b].snap IN
  /\ At(b, "attach")
  /\ \E src \in job[b].todo :
       /\ \A other \in job[b].todo : src[1] <= other[1]
       /\ IF /\ IsCandidate(s)
             /\ src \in SpansOf(s) \cap persisted
             /\ src \notin gen[s].rows
          THEN /\ gen' = [gen EXCEPT ![s].rows = @ \cup {src}]
               /\ job' = [job EXCEPT ![b].todo = @ \ {src}]
          ELSE UNCHANGED gen /\ GoTo(b, "idle")
  /\ UNCHANGED <<active, published, persisted, artifacts, rec>>

(* vector_row_mapping is compared with the rows of the builder, and the    *)
(* builder's own artifact is verified (_verify_candidate_artifact).        *)
Check(b) ==
  LET j == job[b] IN
  /\ At(b, "attach") /\ j.todo = {}
  /\ GoTo(b, IF /\ gen[j.snap].rows = j.made
                /\ j.art \in artifacts /\ j.art.rows = j.made
             THEN "finalize" ELSE "idle")
  /\ UNCHANGED <<active, published, gen, persisted, artifacts, rec>>

(* finalize_candidate: the candidate is found by the id of its snapshot,   *)
(* and gets the manifest of the artifact this builder made.                *)
Finalize(b) ==
  LET s == job[b].snap IN
  /\ At(b, "finalize")
  /\ IF IsCandidate(s) /\ IsCurrent(s) /\ IsComplete(s)
     THEN /\ gen' = [gen EXCEPT ![s].state = "FILES_FINALIZED",
                                ![s].manifest = Manifest(job[b].art)]
          /\ job' = [job EXCEPT ![b] = [IdleJob EXCEPT !.pc = "publish", !.snap = s]]
     ELSE UNCHANGED gen /\ GoTo(b, "idle")
  /\ UNCHANGED <<active, published, persisted, artifacts, rec>>

(* publish, the last transaction of a build.                               *)
Publish(b) ==
  LET s == job[b].snap IN
  /\ At(b, "publish")
  /\ published' = IF CanPublish(s) THEN s ELSE published
  /\ GoTo(b, "idle")
  /\ UNCHANGED <<active, gen, persisted, artifacts, rec>>

(* Any other exception, or the death of the process.                       *)
Fail(b) ==
  /\ ~At(b, "idle")
  /\ GoTo(b, "idle")
  /\ UNCHANGED <<active, published, gen, persisted, artifacts, rec>>

Run(b) ==
  \/ Lookup(b) \/ Replace(b) \/ Construct(b) \/ Store(b) \/ Create(b)
  \/ InsertRow(b) \/ AdoptRow(b) \/ RefuseRow(b) \/ Undo(b)
  \/ Attach(b) \/ Check(b) \/ Finalize(b) \/ Publish(b)

-----------------------------------------------------------------------------
(* reconcile_vector_generations.                                           *)

RecAt(r, p) == rec[r].pc = p

(* The active generation is verified first; a corrupt one is an error, and *)
(* the invocation ends as it began.                                        *)
RecStart(r) ==
  /\ RecAt(r, "idle")
  /\ ActiveGeneration # None => Verifies(ActiveGeneration)
  /\ rec' = [rec EXCEPT ![r].pc = "list"]
  /\ UNCHANGED <<active, published, gen, persisted, artifacts, job>>

(* finalized_unpublished_generations.                                      *)
RecListFinalized(r) ==
  /\ RecAt(r, "list")
  /\ rec' = [rec EXCEPT ![r] =
               [pc |-> "recover", at |-> None,
                work |-> {s \in Snapshots : IsFinalized(s) /\ s # published}]]
  /\ UNCHANGED <<active, published, gen, persisted, artifacts, job>>

(* is_generation_current decides what is to be done with the next one.     *)
RecJudge(r) ==
  /\ RecAt(r, "recover")
  /\ \E s \in rec[r].work :
       rec' = [rec EXCEPT ![r] =
                 [pc |-> IF IsCurrent(s) THEN "publish" ELSE "retire",
                  at |-> s, work |-> rec[r].work \ {s}]]
  /\ UNCHANGED <<active, published, gen, persisted, artifacts, job>>

RecNext(r, ok) ==
  rec' = [rec EXCEPT ![r] = IF ok THEN [rec[r] EXCEPT !.pc = "recover", !.at = None]
                                  ELSE IdleRec]

(* mark_stale, which decides again inside its transaction.                 *)
RecRetire(r) ==
  LET s == rec[r].at IN
  /\ RecAt(r, "retire")
  /\ gen' = IF CanRetire(s) THEN [gen EXCEPT ![s].state = "STALE"] ELSE gen
  /\ RecNext(r, CanRetire(s))
  /\ UNCHANGED <<active, published, persisted, artifacts, job>>

(* A finalized generation whose publication was interrupted is verified    *)
(* and published.                                                          *)
RecPublish(r) ==
  LET s == rec[r].at
      ok == Verifies(s) /\ CanPublish(s)
  IN
  /\ RecAt(r, "publish")
  /\ published' = IF ok THEN s ELSE published
  /\ RecNext(r, ok)
  /\ UNCHANGED <<active, gen, persisted, artifacts, job>>

(* candidate_generations.                                                  *)
RecListCandidates(r) ==
  /\ RecAt(r, "recover") /\ rec[r].work = {}
  /\ rec' = [rec EXCEPT ![r] = [pc |-> "discard", at |-> None,
                                work |-> {s \in Snapshots : IsCandidate(s)}]]
  /\ UNCHANGED <<active, published, gen, persisted, artifacts, job>>

(* discard_candidate for each of them; one that changed meanwhile is an    *)
(* error.                                                                  *)
RecDiscard(r) ==
  /\ RecAt(r, "discard")
  /\ \E s \in rec[r].work :
       IF CanDiscard(s)
       THEN /\ DiscardRow(s)
            /\ rec' = [rec EXCEPT ![r].work = @ \ {s}]
       ELSE /\ UNCHANGED gen
            /\ rec' = [rec EXCEPT ![r] = IdleRec]
  /\ UNCHANGED <<active, published, persisted, artifacts, job>>

RecDone(r) ==
  /\ RecAt(r, "discard") /\ rec[r].work = {}
  /\ rec' = [rec EXCEPT ![r] = IdleRec]
  /\ UNCHANGED <<active, published, gen, persisted, artifacts, job>>

RecFail(r) ==
  /\ ~RecAt(r, "idle")
  /\ rec' = [rec EXCEPT ![r] = IdleRec]
  /\ UNCHANGED <<active, published, gen, persisted, artifacts, job>>

RecRun(r) ==
  \/ RecListFinalized(r) \/ RecJudge(r) \/ RecRetire(r) \/ RecPublish(r)
  \/ RecListCandidates(r) \/ RecDiscard(r) \/ RecDone(r)

-----------------------------------------------------------------------------
(* Mutant of PublishDocument: the import of a generation that exists       *)
(* already makes it the active one again.                                  *)
PublishOrReactivate ==
  /\ \E t \in Snapshots :
       /\ active \in Successors(t) \/ t \in Successors(active)
       /\ active' = t
  /\ UNCHANGED <<published, gen, persisted, artifacts, job, rec>>

(* A document is imported: publish_native_document moves one pointer.      *)
PublishDocument ==
  /\ active' \in Successors(active)
  /\ UNCHANGED <<published, gen, persisted, artifacts, job, rec>>

Next ==
  \/ PublishDocument
  \/ \E b \in Builders : Start(b) \/ Run(b) \/ Fail(b)
  \/ \E r \in Reconcilers : RecStart(r) \/ RecRun(r) \/ RecFail(r)

Spec == Init /\ [][Next]_vars

(* A process that runs keeps running, and the callers of Retrying always   *)
(* start another build.  Nothing is assumed of the other callers, of the   *)
(* import of documents or of failures.                                     *)
Fairness ==
  /\ \A b \in Builders : WF_vars(Run(b))
  /\ \A r \in Reconcilers : WF_vars(RecRun(r))
  /\ \A b \in Retrying : WF_vars(Start(b))

FairSpec == Spec /\ Fairness

-----------------------------------------------------------------------------
OrNone(S) == S \cup {None}

(* An invocation before its artifact is stored (or after its generation is *)
(* finalized), and one that works with its artifact.                       *)
EarlyPcs == {"lookup", "replace", "construct", "store", "publish"}
LatePcs == {"create", "insert", "undo", "attach", "finalize"}

EarlyJobs ==
  [pc : EarlyPcs, snap : Snapshots, seen : {None}, made : SUBSET Source,
   art : {None}, todo : {{}}]

LateJobs ==
  [pc : LatePcs, snap : Snapshots, seen : OrNone(Snapshots),
   made : SUBSET Source, art : Artifact, todo : SUBSET Source]

Jobs == {IdleJob} \cup EarlyJobs \cup LateJobs

Recs ==
  [pc : {"idle", "list", "recover", "retire", "publish", "discard"},
   work : SUBSET Snapshots, at : OrNone(Snapshots)]

(* The rows of vector_generations; what the counts are does not matter.    *)
IsRow(g) ==
  g \in [state : States, dir : OrNone(Artifact), coverage : {g.coverage},
         rows : SUBSET Source, manifest : OrNone(Manifests)]

(* The type invariant.                                                     *)
TypeOK ==
  /\ active \in Snapshots
  /\ published \in OrNone(Snapshots)
  /\ DOMAIN gen = Snapshots /\ \A s \in Snapshots : IsRow(gen[s])
  /\ persisted \subseteq Source
  /\ artifacts \subseteq Artifact
  /\ job \in [Builders -> Jobs]
  /\ rec \in [Reconcilers -> Recs]

(* A generation marked STALE can never be built again (build raises "stale *)
(* vector generation is not reusable"), so it must never be the one the    *)
(* project's current sources call for.                                     *)
StaleNeverCurrent == \A s \in Snapshots : gen[s].state = "STALE" => s # active

(* Whatever the builders and reconcilers did to each other's candidates,   *)
(* the published generation is finalized, has a row for every embeddable   *)
(* span of its sources and for nothing else, and carries the manifest of a *)
(* finished artifact with exactly these rows.                              *)
PublishedComplete ==
  published # None =>
    /\ IsFinalized(published)
    /\ gen[published].rows = SpansOf(published)
    /\ \E a \in artifacts : /\ a.rows = SpansOf(published)
                            /\ gen[published].manifest = Manifest(a)

(* Publication moves forward: a build that began before a document was     *)
(* imported never replaces the index of one that began after it.           *)
ForwardOnly ==
  [][published # None => Precedes(published, published')]_published

(* A finalized generation is immutable: no late row, discard or second     *)
(* finalization of another process changes it; it can only become STALE.   *)
FinalizedImmutable ==
  [][\A s \in Snapshots : IsFinalized(s) =>
       /\ gen'[s] = [gen[s] EXCEPT !.state = gen'[s].state]
       /\ gen'[s].state \in {"FILES_FINALIZED", "STALE"}]_gen

(* Readers see the index of VectorIndex: either none, or one of exactly    *)
(* the current sources, taken away by the import of a document only.       *)
Index == INSTANCE VectorIndex WITH current <- active, served <- ActiveGeneration

ImplementsIndex == Index!IndexSpec

(* A generation that is finalized verifies: the directory recorded for it  *)
(* holds the artifact its manifest names, with the rows mapped for it.     *)
FinalizedVerifies == \A s \in Snapshots : IsFinalized(s) => Verifies(s)

(* Whatever half-done state crashed or competing processes left, a caller  *)
(* that repeats the build gets an index of the current sources.  This is   *)
(* promised only from the moment on when the other processes and the       *)
(* failures have stopped: before it, others may win every race.  A refusal *)
(* by the code itself, a step of Run that ends the invocation, is no       *)
(* failure.                                                                *)
NoFailure ==
  <>[][/\ \A b \in Builders : Fail(b) => Run(b)
       /\ \A r \in Reconcilers : RecFail(r) => RecRun(r)]_vars

OthersQuiet ==
  <>[](/\ \A b \in Builders \ Retrying : At(b, "idle")
       /\ \A r \in Reconcilers : RecAt(r, "idle"))

EventuallyServed == NoFailure /\ OthersQuiet => <>[](published = active)
=============================================================================
