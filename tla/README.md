# Verification of the academic paper analysis chatbot

TLA+ models of `src/src/academic_chatbot` (paths below are relative to it), the
TLC configurations that check them on small instances, and TLAPS proofs of the
main safety properties for every value of the constants.

The program is a local, single-user tool. Its processes share only files: one
SQLite database per project, originals and vector artifacts beside it, and the
runtime and model of the local server. Several commands may run at the same time,
each may be killed, and nothing is locked between two transactions. The parts with
threads are the client of the local `llama-server`, which reads an answer while a
timer and a cancellation watcher may end it, and the session around the server
process, whose logs two threads read while others may shut it down.

## Inventory

| Component | State it keeps | Operations | Who it meets | What is hard |
|---|---|---|---|---|
| Project store: `library`, `documents/admission`, `documents/import_service`, `db` | database file with its write-ahead log, `originals/sha256/*.pdf` | create project and paper, admit an original, publish a document generation, migrate by copy | all other components read its tables | two imports of one file, an original shared by papers, failures between file and row, a migration that replaces the file others write to |
| Vector generations: `embeddings/vector_build`, `repository`, `reconciliation`, migration 0004 | rows of generations, sources and spans, artifact directories, one pointer per profile | build, publish, discard, retire, reconcile, look up the active one | reads the active document generations; is read by retrieval | a build takes minutes between its snapshot and its publication; candidates have the id of their snapshot, so two builds share one row |
| Chunks and spans: `documents/chunking`, `normalization`, `embeddings/spans` | none (immutable values) | order the words of a page, cut chunks, cut spans | PDF parser, tokenizer | the last word, a word longer than the tokenizer allows |
| Retrieval: `retrieval/*` | none (reads) | lexical and semantic search, top-k by blocks, fusion, merge, rank-only rerank | store, vector generations | each channel and each parent is a transaction of its own; equal scores |
| Evidence: `evidence/*` | none | resolve, pack candidates or groups under a budget | store, vector generations, retrieval | what was found must still be what is stored; limits of packing |
| Citation verifier: `analysis` | none | verify a proposal against a bundle | evidence | the bundle is older than the verification; duplicates, omissions and groups |
| Question: `generation/orchestrator`, `generation/service` | the admitted source, request and bundle of one question | ask, generate | all of the above, and the model | documents and indexes are published while the model runs; late cancellations |
| Generation request: `generation/llama_cpp`, the HTTP part of `feasibility/llama_slice` | client, response, stream, timer, watcher | generate, cancel, time out, recover | the server | three threads that close the same resources |
| Verified operation: `feasibility/llama_slice`, `generation/llama_cpp` | one lease, one workspace and one server process per stage | preflight, two compatibility probes, session, cleanup of each | lease, session, generation request | a cleanup of several calls that fail one by one after a first error |
| Server session: `feasibility/llama_slice`, `process_tree` | process, job, pipes, log readers, artifact lease | start, wait for health, shut down, abort | operating system, server | partial start, cleanup that fails half-way, cancellation of blocked reads |
| Runtime and model import, artifact lease: `feasibility/llama_slice` | runtime directory, staging directories, manifests, pinned handles | import, publish, roll back, open a lease, verify, release | file system, other imports, other programs | two renames that must appear as one; rollback beside files of others; a check and the rename that relies on it |
| Values, ports, settings, CLI, feasibility reports, PDF parser, embedder, byte parsers | none that is shared | | | no protocol; see "Not modelled" |

What makes them correct:

* store: a registered file has its original; full-text search sees exactly the
  active generations; pointers only move to generations that are new; an import
  that is repeated succeeds; what was acknowledged is kept.
* vector generations: readers are given an index of exactly the current sources
  or none; published ones are complete; finalized ones never change; the pointer
  never goes back; a repeated build succeeds.
* from paper to verified statement: no word is lost or embedded twice; a scan in blocks
  finds what one pass would; no candidate is placed behind one that every channel ranks
  worse; a bundle fills its budget exactly; a statement is verified only from what the
  project holds at that moment, and an unchanged project never refuses its own bundle.
* question: an answer is released only if its source and its index are current
  at the end, from a stream that was read and closed whole, by an operation that left
  nothing behind; a question that is cancelled in time is not answered; every question ends.
* generation request: every resource has one holder who closes it; recovery only runs
  when the connection is being closed.
* server session: what a launch, a shutdown or an abort reports as clean has left
  nothing behind; no handle is closed twice, no pipe under its reader; evidence is
  about a run that ended well; every call returns.
* imports and lease: a plain error leaves nothing; a manifest stands beside the runtime
  of its own import; an import that was reported as done is not undone by another; what
  a leased server runs is what was hashed.

`PROJECT.json` lists 40 hazards with their lines, and for each the properties that
cover it; one, the byte framing of the event stream, is covered by none.

## Modules

| Module | Models | Extends |
|---|---|---|
| `Snapshots` | which document generation of every file is active, as a vector of ordinals | |
| `VectorIndex` | abstract specification: what a semantic index promises its readers | `Snapshots` |
| `VectorGenerations` | builders, reconcilers and imports over the tables of migration 0004 | `Snapshots` |
| `ProjectStore` | `import-pdf`, `paper create`, `project create` over database, log and originals | |
| `SinglePaperAsk` | one question, in the environment `VectorIndex` | `VectorIndex` |
| `GenerationStream` | one streamed generation and its three threads | |
| `VerifiedOperation` | the stages around it: lease, workspace, probe or server, requests, cleanup | `GenerationStream` |
| `LocalAnswer` | the composition: question, operation, stream, user, publications | `SinglePaperAsk`, `VerifiedOperation` |
| `LogReaders` | the two threads that read the server's pipes, and their cancellation | |
| `ProcessStart` | the launch of a server process and its undoing | `LogReaders` |
| `ServerSession` | the life of that process: session, raw process, one-shot probe | `ProcessStart` |
| `ArtifactImport` | import of a runtime: staging, scan, publication, rollback | |
| `ModelImport` | import of a model beside it | `ArtifactImport` |
| `RunArtifacts` | both, with the lease of a run and other programs | `ModelImport` |
| `Ranking` | the orders of retrieval: scan, merge, fuse, acquire, rerank, select | |
| `PageEvidence` | words of a page, chunks, spans | `Ranking` |
| `EvidenceBundle` | resolution and packing of candidates and groups | `PageEvidence` |
| `CitationVerifier` | verification of a proposal against a bundle | `EvidenceBundle` |
| `EvidencePipeline` | one paper from its pages to a verified statement | `CitationVerifier` |
| `*Proofs` | theorems about the module of that name | it and `TLAPS` |
| `MC*` | instances for TLC | the module of that name |

They compose in three ways.

* Through `VectorIndex`: `ProjectStore` implements its half that concerns sources
  (`ImplementsSources`), `VectorGenerations` implements all of it (`ImplementsIndex`), and
  `SinglePaperAsk` uses it as its environment, so what is shown of a question holds beside
  any number of builders, reconcilers and imports.
* `LocalAnswer` joins the reads of the question, the operation that starts a server for it and
  the three threads of its stream: its steps are theirs, and what is shown of a question
  alone is shown again of the question with all that runs for it.
* `ServerSession` runs the actions of `LogReaders` inside it, and the properties of the
  readers are checked and proved of the whole session.

### VectorGenerations

A generation's id is the hash of project, profile and snapshot, so `gen` is a
function from snapshots to rows (`state`, `artifact_relative_dir`, coverage, row
mapping, manifest). `job[b]` is the local state of one
`ProjectVectorBuilder.build`, `rec[r]` that of one `reconcile_vector_generations`.
Each action is one transaction (`InsertRow`, `Attach`, `Finalize`, `Publish`,
...), one read outside a transaction (`Start`, `Create`, the judgement of
`is_generation_current`) or one finished artifact directory (`Store`). `Fail` may
end an invocation at any step: an exception of the embedder or of SQLite, or the
death of the process; both leave what has been written. `PublishDocument` is the
environment, another command's import.

Abstractions: a document generation has one chunk with one span, or none
(`Textless`); an artifact is its workspace, its rows and its bytes, as its
directory name is the hash of its manifest; a span once stored is never deleted, which is
why the read of the chunks and the transactions that store their spans can be one step
(`Construct`).

Two builds of one snapshot may both fail, because each discards the candidate of
the other; the caller's repetition recovers, and that is what `EventuallyServed`
says. `create_candidate` lets the `IntegrityError` of the lineage trigger through
unwrapped; the model ends the invocation there, as the code does.
`reconcile_vector_generations` is called by the library's users and tests, not by
the CLI.

### ProjectStore

`db` is the committed content of the database file, `log` whether a write-ahead
log lies beside it and whose, `originals` the content-addressed files. The
transaction of an admission spans its file operations, so it is several actions
under the write reservation (`Unlocked`); all others are one. `project create` is
`Copy`, `Replace`, `InsertProject`. `Crash` kills a process, `FailAnyway` is an
I/O error or a lock timeout, each runs the code's cleanup or not, as the code
does; `MaxMishaps` bounds both in an import.

Windows rules are assumed, the platform the program is written for: `os.replace`
is refused while a connection is open. On POSIX it is not, which allows more
behaviours. Digest comparisons, power loss and path checks are left out.

### SinglePaperAsk

`Script` is the order of the reads `ask` makes, each an action: admission,
`prepare_request`, the comparison, the two channels and the parents, the checks
around bundle and model, the last look at the cancellation, the release. Publications
of documents and indexes may happen between any two. An index is named by its snapshot;
finalized generations do not change (`FinalizedImmutable`), so name and content agree. All
codes that are reported as an unavailable authority are one verdict. The transactions in
which the parents of one result are read are folded into one. `ask` writes
nothing, so several questions do not disturb each other and one is modelled.

### GenerationStream, VerifiedOperation, LocalAnswer

In `GenerationStream` the main thread runs `generate` with `open_chat_completion`, `read`
and `close`; `close[t]` says where a thread is in a close call. An action is one section
under a lock, one blocking call or one close. The joins of 1.0 s may return at any time
with the thread alive. The server may send, end, fail or stay silent. Errors of
the parser are one outcome; the limit on the number of bytes is left out, which
makes termination harder. A read that httpx ends with its own timeout is an error like
others, or finds the deadline expired: both timeouts are 120 s, and a read begins after
the watchdog. `KeyboardInterrupt` during the stream is left out.

`VerifiedOperation` puts the stages of `run_verified_llama_operation` around it. `stage`
and `step` say where the main thread is, `lease`, `workspace`, `files` and `server` what
it holds, `primary` and `cleanup` are `primary_error` and the worst of `cleanup_errors`.
Every call may succeed or fail, with an ordinary or a hard error (`Faults`), and a cleanup
that fails may have left anything behind. What goes on inside a lease is in
`RunArtifacts`, inside the start and the end of a process in `ServerSession`: here each
is a step with the outcomes these modules have. Two looks at the cancellation with
nothing but computation between them are one.

`LocalAnswer` joins them with the question: `model` of `Script` becomes the whole
operation, followed by the looks of `LocalGenerationService.generate`. The user
may cancel in any state, documents and indexes are published in any state until there is
a verdict (`Publishing`; afterwards nobody looks).

### LogReaders, ProcessStart, ServerSession

`LogReaders` has one action for each section under a reader's lock and for each
system call of `_run`, `_read_parent_pipe` and `_cancel_with_timeout`: the flag is
checked in one step and `ReadFile` entered in another, and `CancelSynchronousIo`
finds the read only when it is pending. `ProcessStart` follows
`_start_llama_process_atomic_windows` from the claim of the lease to the managed
process, with the cleanup each failing step leads to; `native` is what the system
has open, `owned` what the launch believes it owns, `managed` the fields of the
managed process that are not `None`. `ServerSession` adds the three callers (`mode`),
`start_llama_windows_log_readers`, the start of a session, the graceful shutdown, the
abort and the forced cleanup. Every step of the forced cleanup is tried, as in the
code, whatever the ones before it came to.

`ServerSession` interleaves the readers' own actions with its threads' and touches their
variables through those actions only, so that the invariants proved of `LogReaders` carry
over.

Abstractions: deadlines are not counted, at each test of the clock the deadline may
have passed. Validation of arguments, the lines of the logs beyond "port", "malformed"
and "nothing", polling intervals and the wiping of diagnostics are left out. A
`MemoryError` raised by a cleanup counts as `cleanup_failed`, and so does one that comes
before a forced cleanup that fails (the code raises it instead). What a lease hashes is
one outcome. The inherited console is left at once. A reader at the end of its stream has
no bytes left and no incomplete line that is malformed, and a cancelled read does not end
as a broken pipe. A creation of the process is published with both of its handles or with
none. Not modelled: sessions without a lease, raw processes whose caller brings readers of
its own, and a monotonic clock that raises.

### ArtifactImport, ModelImport, RunArtifacts

`dir` holds the runtime directory and the staging directories, `doc` the manifests and
the prepared manifests, with who wrote them and whether they are as written. An import
is a `job` that looks at a path in one step and renames or removes in another, as the
code does; its `fail` states are the rollback, which removes only what it can prove its
own. `reading` says whose files are held open without write and delete sharing; by the
Windows rules nothing that is so held is changed or moved (`Movable`). `Meddle` is another
program that changes, adds, removes or replaces files and documents, `Kill` a process
that ends, `Fault` a system call that fails. The lease is the run that pins both
artifacts, from its manifests to the probe that the files can be opened again.

Abstractions: trees are flat, a directory in the runtime behaves as a file; a scan or a
verification of all files is one step per stage of the lease; the license that an archive
may bring itself is left out; the import of a model closes its handles and removes its
manifest in one step. A rename that takes effect and raises, or an interrupt between a rename
and the flag that records it, is handled by the code for a model's manifest, and is there in
every run. For the two renames of a runtime's import it is not handled: `AmbiguousSpec`
adds it (`RenameUnknown`), which is finding 4, and the properties and theorems of
`RunArtifacts` are about `Spec`, where a rename that fails has not happened.

### Ranking, PageEvidence, EvidenceBundle, CitationVerifier, EvidencePipeline

The first four are operators: every order of retrieval as a sort by the tuple of the code
(`Ranking`), the cuts of a page (`PageEvidence`), resolution and greedy packing of
candidates and of groups of two ranges (`EvidenceBundle`), and the verifier that builds a
bundle again or resolves the cited entries of a group bundle (`CitationVerifier`).
`EvidencePipeline` runs them on a paper: pages, chunks and spans are extracted one a step,
a query runs in one of four modes, its scan block by block, each parent is resolved, a
bundle is asked for with candidates in any of the shapes callers build, packed, and a
proposal verified. Each reading step is a transaction of its own, and other processes may
publish a generation of the paper, of another paper or of the index before each.

Abstractions: full-text search returns any sequence of chunks; a similarity is one of
`Scores`; exact fractions are integers over a common denominator (`Share`, which is why
`RankDepth` bounds ranks); a digest stands for what it is taken of; the bytes of a preview
are a linear measure; every generation of the paper has the same words; what a query has
found is forgotten once the bundle is asked for. A query with several branches may see two
generations in them, and the resolver then refuses; a request that lists the two equal
ranges of one hybrid candidate as a group is refused where base packing would coalesce
them. Copies of a bundle are altered and sealed again, so the verifier's fingerprint does not
tell; refusals that no sealed bundle or request of the instance reaches are left out
(`_range_reference` without a range, a group that repeats a member or mixes lineages), and
lines at one height are ordered by the vertical key alone. The `ranked` path (`rank_only_service`, `semantic_position`) has no caller in the
program beside its tests. One observation about it: `acquire_positional` fails for any
paper with a page without text (`retrieval/semantic_position.py:163`), which
`AcquisitionError` models.

## Runs

| Run | Instance | Properties |
|---|---|---|
| `vector` | 1 file imported twice, first without text; a retrying builder, another one, 1 reconciler | `StaleNeverCurrent`, `PublishedComplete`, `ForwardOnly`, `FinalizedImmutable`, `ImplementsIndex`, `EventuallyServed` |
| `vector_artifact` | 3 builders | finds `FinalizedVerifies` violated |
| `store` | 2 papers, 1 content, 2 profiles, 2 importers of which 1 retries, 1 mishap | `PointersNeverReturn`, `ImplementsSources`, `ImportCompletes` |
| `store_upgrade` | the same without retries, and a `project create` | `RegisteredHasOriginal`, `IndexedIsActive` |
| `store_lost` | an import and a `project create` | finds `AcknowledgedKept` violated |
| `store_log` | the same, with one crash | finds `ValidatedCopyIsRead` violated |
| `answer` | 1 paper with 1 file, 2 versions of it; all of stream, operation, user and publications | `AnswerIsWhole`, `SoftOutcomeIsClean`, `OneOwner`, `RecoverySeesDisconnect`, `AdmissionsAgree`, `ReleasedCurrent`, `QuestionEnds`, `CancelEndsQuestion` |
| `session` | 2 readers, one starting and one closing thread, 2 polls, 1 failing call, all modes | `NoReadOnClosedPipe`, `CleanEndIsClean`, `EvidenceIsSound`, `CancelHolds`, `CancelTargetsOpenThread` |
| `session_ends` | the same with 1 reader, and a second process in the Job | `ClosedOnce`, `ClaimedProcessEnds`, `CallsReturn`, `CancelledReaderStops` |
| `artifacts` | 2 imports of the runtime, 1 of the model, a run; 1 change by others, 1 fault | `PlainErrorLeavesNothing`, `ManifestHasRuntime`, `DoneStays`, `LoserCleansUp`, `LeasePins` |
| `artifacts_ambiguous` | the same without other programs; a rename may go unnoticed | finds `PlainErrorLeavesNothing` violated |
| `pipeline` | 3 small papers, 4 modes, 2 budgets, 2 generations | `PageIsTiled`, `ScanIsTopK`, `RankingRespectsDominance`, `BundleFillsBudget`, `UnchangedIsAccepted`, `VerifiedIsAuthentic` |

What the newer ones show: `answer`, that from the first read to the last close of a
question nothing is released that is not whole and current, that no failure of a cleanup
hides behind a result, a cancellation or a timeout, and that the question and all that runs
for it ends; and that a cancelled question need not wait for its deadline: the watcher
closes the connection under a read that a silent server would leave waiting for ever. `artifacts`, that of two imports to one place one loses and undoes only its
own, and that a leased server runs the files that were hashed although imports take back
what they published. `pipeline`, that the integer orders, cuts and budgets do what they
promise for every similarity and every full-text result, and that the verifier neither
accepts what the project no longer says nor refuses what it does.

Bounds. The races of the vector part are between the owner of a row, one that
discards it and a change of the sources: two builders and a reconciler with two
changes contain all of them except the one of `vector_artifact`, which needs a
third builder. A generation of several files, whose rows are inserted one by one, was
explored without the liveness property (2 files, 1 version of each, the same processes:
1.1 million states), and the theorems bound neither files nor versions. `MaxVersion` bounds the generations of a file. In the store, two papers
with one content share an original, two profiles give one file two generations. In
`answer` one file and two versions are enough for each read to be overtaken once; more
files and versions are covered by the proofs, which bound neither. In the session, the
starting thread and one closer already give a leader and a follower of one cancel; a
third thread would only be refused by `_closed`. `MaxCancelPolls` = 2 has a first
attempt, a repeated one and a last one. One failing call (`MaxFaults`) is put at every
place; the code distinguishes a first error from later ones only in what it raises.
Deadlines and crashing processes are not counted as failing calls. Liveness is checked
with one reader, safety with both, as the second matters for what is left behind when only
one of them starts or stops. In `artifacts` one change by another program and one fault
are put at every place, beside two rival imports; with a single import of the runtime the
module was also explored with two and with three of each. In `pipeline` blocks of two rows
put equal scores at an edge of a block, the layouts have words out of reading order,
equal texts, a page without text and a word no tokenizer slice holds, of the two
budgets one is roomy and one too small in entries and in bytes, and two generations are one
publication of each kind. Symmetry is used for processes, papers and profiles
that no property tells apart, never in a run with a liveness property.

Deadlock. `store_upgrade`, `store_lost` and `store_log` do not check it, because a
foreign log makes the database unreadable for good; `answer`, `artifacts`,
`artifacts_ambiguous` and `pipeline` do not, because a question, an import and a
verification really end. All other runs do; in `session` and `session_ends` the end, with
every call returned, every reader stopped and no process left, is a step of its own (`AllEnded`).

Fairness. In `FairSpec` of `VectorGenerations` and `ProjectStore` an invocation that
runs goes on (the operating system schedules it), and the callers in `Retrying` start
again. Nothing is assumed of other callers or of failures; the properties say "when
the others and the failures stop". A refusal by the code itself does not count as a
failure. In `FairSpec` of `LocalAnswer` only the asking thread and the
watcher run (`Asking`, `Watcher`); a read under which the connection is closed returns,
which is what `close` is called for. `CancelEndsQuestion` holds with no more than that.
`QuestionEnds` assumes `Deadlines` as well: the timer runs (`Timer`), and a wait for a
silent server comes to its end (`NoAnswer`), as the read timeout of httpx is 120 s, the
deadline of the whole operation. The server owes nothing, and nobody has to cancel or publish.
In `ServerSession` a thread runs on while it can, every wait having a timeout in the
code; a reader's thread runs, but nobody promises it bytes: a read that is neither
cancelled nor at the end of its stream may last for ever (`ReaderRuns` in `Fairness`);
the processes of a terminated or closed Job end, which is what
`JOB_OBJECT_LIMIT_KILL_ON_JOB_CLOSE` says.

## Findings

1. `vector_artifact` (`vector_build.py:213`). A build finalizes the row that has the
   id of its snapshot with the manifest of its own artifact. The row may have been
   inserted by another build, which began before a re-import and has another
   directory. The row then names one artifact and the manifest of another, and every
   later build of that snapshot fails with "finalized vector artifact does not match
   immutable metadata". `EventuallyServed` does not hold after that; its run has two
   builders, which cannot reach it.
2. `store_lost` (`migrations.py:47-50`). What is committed between the copy of the
   database and its replacement is lost, also when it was acknowledged. Two
   `project create` of one project can lose data the same way.
3. `store_log` (`migrations.py:50`). The write-ahead log of a killed import is applied to the
   database that replaces its own.
4. `artifacts_ambiguous` (`llama_slice.py:7627`, `7649`). The import of a runtime takes a rename
   that has happened, but has raised or was interrupted before its flag was set, for one that
   has not. It ends with its plain error and leaves the runtime directory, or the manifest
   without the runtime, at the destination. The import of a model looks at both paths instead.

## Proofs

Eight modules, checked by TLAPS. The theorems hold for any number of files, versions,
papers, profiles, processes, importers, streams, threads, polls, failing calls and mishaps,
pages, words, similarities, limits, budgets and generations. They
assume the `ASSUME`s of the modules, which TLC evaluates in each run: bounds are natural
numbers, `None` is none of the values it stands beside, retrying processes are processes,
the set of profiles is finite, the paper's files are files; in the session the starting
thread is a thread and no closer (`ThreadsAssumption`), and the order the readers are
gone through lists the streams, which are among stdout and stderr (`StreamsAssumption`); in
`ArtifactImport` no importer has the name of a destination path (`PathsAssumption`) and
what an empty path holds is no directory or document (`AbsentAssumption`); the words of
a page are boxes with a position and a number of tokens, similarities are integers, a
budget is two natural numbers, a query returns no more than ranks go (`PipelineAssumption`),
and an absent rank is worse than any (`RankingAssumption`).

* `VectorGenerationsProofs`. The inductive invariant joins `TypeOK` with facts about
  what a row in each state is (a finalized one is complete and carries the manifest of
  an artifact with its rows), what a builder at each step holds, and that everything
  finalized or marked is at or before the active snapshot. `StaleNeverCurrent` needs the
  last: pointers never go back, so what was judged stale stays stale, although judgement
  and mark are two transactions. `ForwardOnly`, `FinalizedImmutable` and
  `ImplementsIndex` follow step by step.
* `ProjectStoreProofs`. `RegisteredHasOriginal` needs that copies held by a migration
  are covered as well, and that only one admission is in its transaction; it covers
  losses by a replaced database. `IndexedIsActive` and `PointersNeverReturn` follow from what a
  pointer may be. `PointersNeverReturn` and `ImplementsSources` are proved for stores
  without a concurrent `project create` (its counterexample is finding 2).
* `GenerationStreamProofs` holds the invariant of one stream, `StreamInv`: the places
  the three threads can be in together (`PlaceInv`), that each open resource has one
  holder (`OwnerInv`), that only one of main thread and watcher closes the iterator
  (`CloserInv`), that while recovery runs somebody has claimed the resources or is on the
  way to claim them (`DisconnectInv`), and what a reply in each place rests on (`ReplyInv`).
* `LocalAnswerProofs` begins with the question alone. The invariant of `SinglePaperAsk` says
  what each completed read still means after
  later publications: snapshots only grow, so two reads that agree enclose an interval
  without a change. `ReleasedCurrent` follows at the last read, which is the
  linearization point. In the composition every step is a step of `SinglePaperAsk` or
  leaves its variables alone (the lemma `AskBehaves`), which brings the theorems about the
  question over (`AnswersStayCurrent`, `AdmissionsStayAgreed`).
  `StreamInv` is kept by all that runs beside the stream, hence `OneOwner` and
  `RecoverySeesDisconnect`. `OperationInv` follows what every stage still holds until its
  cleanup has given it back or has left an error, hence `SoftOutcomeIsClean`. `AnswerInv`
  links them: past the model there is a result, and a result is a reply that was released.
* `ServerSessionProofs` begins with the readers, for any pipes, cancelling threads, processes
  and number of polls.
  `CancelHolds` is not inductive: a success is decided before it is published, and it is
  also decided for a reader that holds no thread handle and may be yet to begin. The
  invariant adds that a leader has set the flag, that a reader drains only while it holds
  the handle, and that a leader with a verdict of success has settled its reader: flag
  set, no check of the flag still to be followed by a read, a pending read marked.
  Of the whole session `SInv` says where threads and their loops are; with it every step
  of a session is one of the readers' steps or none to them (the lemma `ReadersBehave`), which
  brings `CancelHolds` over, and `CancelTargetsOpenThread`: a canceller takes the handle only
  while it is published, and the reader withdraws it before it closes it. `CloseInv`
  counts the handles that may still be closed, as none that the launch owns, gives up, or
  hands to the managed process has been; the lists a cleanup works off have no repetitions
  (`ClosedOnce`). `ReadInv` is for `NoReadOnClosedPipe`: a pipe
  in use is open, or its reader is *quiet* -- past its loop, or with its flag set and not
  on its way into a read, or never attached to a process that is now claimed -- and quiet
  readers stay quiet. What makes a closing thread know that is a fact for each of its
  places (`KnowsInv`): a shutdown has joined readers that were all started; a forced cleanup
  has cancelled all before it joins any, so that a reader it finds not yet started, and
  counts as stopped, will find its flag set; and where one is not joined no pipe is closed.
  `EvidenceInv` follows the graceful path for `EvidenceIsSound`: the exit code is looked at
  before the readers are joined, they before the Job is seen empty, and the files are
  verified after that; whoever leaves this path closes under a kind that gives no evidence.
  `CleanInv` is for `CleanEndIsClean` and has four parts. During a launch nobody else is at
  work, the handles that are open it owns, and a failure of its undoing is remembered
  (`LaunchInv`). After it the managed process holds all handles that are open, unless a close
  has failed and is known to have (`HandInv`). One thread at most is at work on them: who has
  claimed the process, or its probe (`AloneInv`). And the locals of that thread tell the truth
  until it returns: a Job it saw empty is empty, what its list no longer has is closed, a
  clean report finds nothing open (`TidyInv`).
* `RunArtifactsProofs` proves the five properties of run `RunArtifacts`. The invariants come
  in layers by what they ask of the surroundings. `TypeInv` says how far an import is and
  what it has published. `PinInv` adds that a lease in force is a reader of what it pins,
  which by the sharing rules nothing changes: `LeaseHolds`. `OwnInv` holds whatever other
  programs do: an object that names an import as its maker is at that import's private
  path, or at a destination that the import still claims, because only its maker gives
  an object a name and every removal takes effect before the claim is dropped:
  `PlainErrorIsClean`. `QuietInv` holds
  while no other program has interfered: what an import claims is there and complete, so a
  rollback that looked finds what it looked at, and the manifest goes before the runtime:
  `ManifestsAreBacked`, and step by step `DoneIsKept`. `TidyInv` holds while no call has failed
  either: a staging directory has the files its import has recorded and no other, and an
  ended import has none: `LosersCleanUp`.
* `RankingProofs` has the lemmas about the operators of `Ranking`. What a recursion or a fold
  computes is induction over data; the data is finite here, and the lemmas `UpTo`,
  `FiniteInduction` and `ByChoice` state it for sets closed under a step, from the
  well-founded order of the subsets of a finite set. A sort by a tuple
  is a permutation in order (`SortingIs`). `FusionKeepsDominance` and
  `MergeKeepsDominance` rest on the shares: no worse in both channels and better in one is a
  larger exact sum (`BetterHasMore`). `ParetoKeepsDominance` peels off the layers of a
  frontier: what is dominated is in a later layer, and all layers together are all hits
  (`LayersEnd`). `SelectionKeepsDominance` adds that guarded selection gives up hits from
  the end of the order only.
* `EvidencePipelineProofs` proves the six properties of run `pipeline`. The invariants grow
  along the pipeline. `ScanInv` says that `scan.best` is the best of the rows before
  `scan.next`, hence `ScanFindsTheBest`. `RetrievalInv` adds that what is found names chunks
  and spans of the paper. `EvidenceInv` adds that a bundle is the packing of a request that
  resolved when it was built, with what packing maintains entry by entry: labels
  number the entries, each disposition cites one unit or was left out with a reason, and
  what was left out for the budget exceeded it *then*; a packing only grows, so it exceeds
  it at the end (`BundlesFillTheirBudget`). It is not enough for a verified proposal to
  come from such a bundle, because the caller may alter its copy and the project may have
  moved on: `VerifiedIsTheProjectsText` follows from what revalidation compares, for
  a bundle that is built again and for cited entries that are resolved again.
  `UnchangedIsNeverRefused` is the converse for a bundle nobody altered: the labels of a
  packing number its entries across all units, so that packed units share none; a bundle is
  built again from references that are those of its request in every part the building
  reads; and of the cited entries of groups the provenance gives back, range by range, the
  channels of the reference they came from (`CandidateIsSame`), also for one of the two
  alone (`OneRevalidates`).
  `TilingInv` is beside these: the places of the chunks flatten to the places of the
  pages up to the last cut word, those of the spans to those of the chunks up to the last
  covered one (`PagesAreTiled`). `DominanceInv` says of what was found that it is the
  fusion, merge or selection of the hits; it needs `FlowInv`, in which stage and mode go
  together and which branches there are. `EvidenceInv` and `RetrievalInv` quantify
  over all requests and all sequences, which TLC cannot enumerate: the run checks the properties
  they imply. `FlowInv` has been checked as an invariant of the run.

Only model-checked is liveness, which is out of the prover's reach as every statement under
fairness and with ENABLED: `EventuallyServed`, `ImportCompletes`, `QuestionEnds`, `CancelEndsQuestion`,
`ClaimedProcessEnds`, `CallsReturn`, `CancelledReaderStops`.

The type invariants are the first conjuncts of the inductive invariants and theorems of their
own where they are of use to a reader (`TypeCorrect`, `OperationInvariance`); no run spends a
check on them alone.

## Not modelled

`PROJECT.json` gives the status and the reason with each component. In short:

* The bytes of the event stream (the framer and decoder of server-sent events) and of the
  startup line: their outcomes are modelled, not the parsing. They are pure functions of
  one byte sequence and a cut of it.
* Polls of the cancellation probe while an operation waits, other than the two looks
  whose order matters; the warm-up of the session (`llama_slice.py` 17381-17424).
* Result models, their validation and serialization; domain values and settings; the
  command line, which calls one use case per invocation.
* PDF parsing, the tokenizer and the embedder: third-party code that the models represent by
  any result they may return.
* The feasibility probes (`pdf_anchor`, `exact_vector`, `hardware`, the reports of
  `llama_slice`): sequential programs that write a report and share nothing.

What could be added with profit: the event framer against a reference definition over short
byte sequences.
