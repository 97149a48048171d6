----------------------- MODULE VectorGenerationsProofs -----------------------
(***************************************************************************)
(* Proofs about VectorGenerations, for every set of file versions, of      *)
(* builders and of reconcilers, and every bound on the document            *)
(* generations.                                                            *)
(***************************************************************************)
EXTENDS VectorGenerations, TLAPS

LEMMA SpansAreSources ==
  ASSUME NEW s PROVE SpansOf(s) \subseteq Source
BY DEF SpansOf, SourcesOf

LEMMA SuccessorFollows ==
  ASSUME NEW s \in Snapshots, NEW t \in Successors(s)
  PROVE  t \in Snapshots /\ Precedes(s, t) /\ s # t
<1>1. PICK f \in Files : s[f] < MaxVersion /\ t = [s EXCEPT ![f] = s[f] + 1]
  BY DEF Successors
<1>2. s[f] \in 0..MaxVersion /\ s[f] + 1 \in 0..MaxVersion
  BY <1>1, VersionAssumption DEF Snapshots
<1>3. t \in Snapshots
  BY <1>1, <1>2 DEF Snapshots
<1>4. t[f] = s[f] + 1 /\ \A g \in Files : g # f => t[g] = s[g]
  BY <1>1 DEF Snapshots
<1>5. \A g \in Files : s[g] \in Nat /\ s[g] <= t[g]
  <2> SUFFICES ASSUME NEW g \in Files PROVE s[g] \in Nat /\ s[g] <= t[g]
    OBVIOUS
  <2>1. s[g] \in 0..MaxVersion
    BY DEF Snapshots
  <2> QED
    BY <2>1, <1>4, VersionAssumption
<1>6. s # t
  BY <1>2, <1>4
<1> QED
  BY <1>3, <1>5, <1>6 DEF Precedes

(* A step of a builder changes its own record, and only to another one.    *)
LEMMA JobTyped ==
  ASSUME job \in [Builders -> Jobs], NEW b \in Builders
  PROVE  /\ job[b].pc \in EarlyPcs => job[b] \in EarlyJobs
         /\ job[b].pc \in LatePcs => job[b] \in LateJobs
         /\ job[b].pc \in EarlyPcs \cup LatePcs => job[b].snap \in Snapshots
BY DEF Jobs, IdleJob, EarlyJobs, LateJobs, EarlyPcs, LatePcs

LEMMA GoToTyped ==
  ASSUME job \in [Builders -> Jobs], NEW b \in Builders, NEW p,
         \/ p = "idle"
         \/ p \in EarlyPcs /\ job[b].pc \in EarlyPcs
         \/ p \in LatePcs /\ job[b].pc \in LatePcs,
         GoTo(b, p)
  PROVE  job' \in [Builders -> Jobs]
<1>1. CASE p = "idle"
  BY <1>1 DEF GoTo, Jobs
<1>2. CASE p # "idle" /\ p \in EarlyPcs /\ job[b].pc \in EarlyPcs
  <2>1. [job[b] EXCEPT !.pc = p] \in EarlyJobs
    BY <1>2, JobTyped DEF EarlyJobs
  <2> QED
    BY <1>2, <2>1 DEF GoTo, Jobs
<1>3. CASE p # "idle" /\ p \in LatePcs /\ job[b].pc \in LatePcs
  <2>1. [job[b] EXCEPT !.pc = p] \in LateJobs
    BY <1>3, JobTyped DEF LateJobs
  <2> QED
    BY <1>3, <2>1 DEF GoTo, Jobs
<1> QED
  BY <1>1, <1>2, <1>3

GenOK == DOMAIN gen = Snapshots /\ \A s \in Snapshots : IsRow(gen[s])

LEMMA NoRowTyped == IsRow(NoRow)
BY DEF IsRow, NoRow, States, OrNone

LEMMA DiscardTyped ==
  ASSUME GenOK, NEW s, DiscardRow(s) PROVE GenOK'
BY NoRowTyped DEF GenOK, DiscardRow

LEMMA TypeInit == Init => TypeOK
<1> SUFFICES ASSUME Init PROVE TypeOK
  OBVIOUS
<1>1. active \in Snapshots
  BY VersionAssumption DEF Init, Unpublished, Snapshots
<1>2. GenOK
  BY NoRowTyped DEF Init, GenOK
<1>3. job \in [Builders -> Jobs]
  BY DEF Init, IdleJob, Jobs, OrNone
<1>4. rec \in [Reconcilers -> Recs]
  BY DEF Init, IdleRec, Recs, OrNone
<1> QED
  BY <1>1, <1>2, <1>3, <1>4 DEF Init, TypeOK, GenOK, OrNone

LEMMA GoOnTyped ==
  ASSUME job \in [Builders -> Jobs], NEW b \in Builders, NEW state,
         At(b, "insert"), GoOnWith(b, state)
  PROVE  job' \in [Builders -> Jobs]
<1> DEFINE j == job[b]
<1>1. j \in LateJobs
  BY JobTyped DEF At, LatePcs
<1>2. CASE GoTo(b, "idle") \/ GoTo(b, "undo")
  BY <1>2, GoToTyped DEF At, LatePcs
<1>3. CASE job' = [job EXCEPT ![b].pc = "attach", ![b].todo = j.made]
  <2>1. [j EXCEPT !.pc = "attach", !.todo = j.made] \in LateJobs
    BY <1>1 DEF LateJobs, LatePcs
  <2>2. job' = [job EXCEPT ![b] = [j EXCEPT !.pc = "attach", !.todo = j.made]]
    BY <1>3
  <2> QED
    BY <2>1, <2>2 DEF Jobs
<1> QED
  BY <1>2, <1>3 DEF GoOnWith

LEMMA BuilderTyped ==
  ASSUME TypeOK, NEW b \in Builders, Start(b) \/ Run(b) \/ Fail(b)
  PROVE  TypeOK'
<1> DEFINE j == job[b]
<1> USE DEF EarlyPcs, LatePcs
<1>1. j \in Jobs /\ GenOK /\ active \in Snapshots
  BY DEF TypeOK, GenOK
<1>2. CASE Start(b)
  <2>1. [IdleJob EXCEPT !.pc = "lookup", !.snap = active] \in EarlyJobs
    BY <1>1 DEF IdleJob, EarlyJobs
  <2> QED
    BY <1>2, <2>1 DEF Start, TypeOK, Jobs
<1>3. CASE Fail(b)
  BY <1>3, GoToTyped DEF Fail, TypeOK
<1>4. CASE Lookup(b)
  <2>1. PICK p \in {"construct", "replace", "publish", "idle"} : GoTo(b, p)
    BY <1>4 DEF Lookup
  <2> QED
    BY <1>4, <2>1, GoToTyped DEF Lookup, TypeOK, At
<1>5. CASE Replace(b)
  <2>1. GenOK'
    BY <1>1, <1>5, DiscardTyped DEF Replace, GenOK
  <2>2. PICK p \in {"construct", "idle"} : GoTo(b, p)
    BY <1>5 DEF Replace
  <2> QED
    BY <1>5, <2>1, <2>2, GoToTyped DEF Replace, TypeOK, GenOK, At
<1>6. CASE Construct(b)
  <2>1. j \in EarlyJobs
    BY <1>6, JobTyped DEF Construct, At, TypeOK
  <2>2. [j EXCEPT !.pc = "store", !.made = SpansOf(active)] \in EarlyJobs
    BY <2>1, SpansAreSources DEF EarlyJobs
  <2>3. CASE job' = [job EXCEPT ![b].pc = "store", ![b].made = SpansOf(active)]
    <3>1. job' = [job EXCEPT ![b] = [j EXCEPT !.pc = "store", !.made = SpansOf(active)]]
      BY <2>3
    <3>2. job' \in [Builders -> Jobs]
      BY <2>2, <3>1 DEF TypeOK, Jobs
    <3> QED
      BY <1>6, <3>2, SpansAreSources DEF Construct, TypeOK
  <2>4. CASE GoTo(b, "idle")
    BY <1>6, <2>4, GoToTyped, SpansAreSources DEF Construct, TypeOK
  <2> QED
    BY <1>6, <2>3, <2>4 DEF Construct
<1>7. CASE Store(b)
  <2>1. j \in EarlyJobs
    BY <1>7, JobTyped DEF Store, At, TypeOK
  <2>2. PICK e \in Encodings :
          LET a == [workspace |-> j.snap, rows |-> j.made, bytes |-> e] IN
          /\ artifacts' = artifacts \cup {a}
          /\ job' = [job EXCEPT ![b] = [j EXCEPT !.pc = "create", !.art = a]]
    BY <1>7 DEF Store
  <2> DEFINE a == [workspace |-> j.snap, rows |-> j.made, bytes |-> e]
  <2>3. a \in Artifact
    BY <2>1 DEF EarlyJobs, Artifact
  <2>4. [j EXCEPT !.pc = "create", !.art = a] \in LateJobs
    BY <2>1, <2>3 DEF EarlyJobs, LateJobs, OrNone
  <2>5. job' \in [Builders -> Jobs]
    BY <2>2, <2>4 DEF TypeOK, Jobs
  <2> QED
    BY <1>7, <2>2, <2>3, <2>5 DEF Store, TypeOK
<1>8. CASE Create(b)
  <2>1. j \in LateJobs
    BY <1>8, JobTyped DEF Create, At, TypeOK
  <2>2. [j EXCEPT !.pc = "insert", !.seen = active] \in LateJobs
    BY <1>1, <2>1 DEF LateJobs, OrNone
  <2>3. job' = [job EXCEPT ![b] = [j EXCEPT !.pc = "insert", !.seen = active]]
    BY <1>8 DEF Create
  <2>4. job' \in [Builders -> Jobs]
    BY <2>2, <2>3 DEF TypeOK, Jobs
  <2> QED
    BY <1>8, <2>4 DEF Create, TypeOK
<1>9. CASE InsertRow(b)
  <2> DEFINE g == [state |-> "DB_CANDIDATE", dir |-> j.art,
                   coverage |-> JobCoverage(b), rows |-> {}, manifest |-> None]
  <2>1. j \in LateJobs
    BY <1>9, JobTyped DEF InsertRow, At, TypeOK
  <2>2. IsRow(g)
    BY <2>1 DEF IsRow, LateJobs, States, OrNone
  <2>3. gen' = [gen EXCEPT ![j.seen] = g]
    BY <1>9 DEF InsertRow
  <2>4. GenOK'
    BY <1>1, <2>2, <2>3 DEF GenOK
  <2>5. job' \in [Builders -> Jobs]
    BY <1>9, GoOnTyped DEF InsertRow, TypeOK
  <2> QED
    BY <1>9, <2>4, <2>5 DEF InsertRow, TypeOK, GenOK
<1>10. CASE AdoptRow(b)
  BY <1>10, GoOnTyped DEF AdoptRow, TypeOK
<1>11. CASE RefuseRow(b)
  BY <1>11, GoToTyped DEF RefuseRow, TypeOK
<1>12. CASE Undo(b)
  <2>1. GenOK'
    BY <1>1, <1>12, DiscardTyped DEF Undo, GenOK
  <2> QED
    BY <1>12, <2>1, GoToTyped DEF Undo, TypeOK, GenOK
<1>13. CASE Attach(b)
  <2>1. j \in LateJobs
    BY <1>13, JobTyped DEF Attach, At, TypeOK
  <2>2. PICK src \in j.todo :
          IF /\ IsCandidate(j.snap)
             /\ src \in SpansOf(j.snap) \cap persisted
             /\ src \notin gen[j.snap].rows
          THEN /\ gen' = [gen EXCEPT ![j.snap].rows = @ \cup {src}]
               /\ job' = [job EXCEPT ![b].todo = @ \ {src}]
          ELSE UNCHANGED gen /\ GoTo(b, "idle")
    BY <1>13 DEF Attach
  <2>3. CASE UNCHANGED gen /\ GoTo(b, "idle")
    BY <1>13, <2>3, GoToTyped DEF Attach, TypeOK
  <2>4. CASE /\ gen' = [gen EXCEPT ![j.snap].rows = @ \cup {src}]
             /\ job' = [job EXCEPT ![b].todo = @ \ {src}]
    <3>1. src \in Source /\ j.snap \in Snapshots
      BY <2>1 DEF LateJobs
    <3>2. IsRow([gen[j.snap] EXCEPT !.rows = @ \cup {src}])
      BY <1>1, <3>1 DEF GenOK, IsRow
    <3>3. GenOK'
      BY <1>1, <2>4, <3>2 DEF GenOK
    <3>4. [j EXCEPT !.todo = @ \ {src}] \in LateJobs
      BY <2>1 DEF LateJobs
    <3>5. job' = [job EXCEPT ![b] = [j EXCEPT !.todo = @ \ {src}]]
      BY <2>4
    <3>6. job' \in [Builders -> Jobs]
      BY <3>4, <3>5 DEF TypeOK, Jobs
    <3> QED
      BY <1>13, <3>3, <3>6 DEF Attach, TypeOK, GenOK
  <2> QED
    BY <2>2, <2>3, <2>4
<1>14. CASE Check(b)
  <2>1. PICK p \in {"finalize", "idle"} : GoTo(b, p)
    BY <1>14 DEF Check
  <2> QED
    BY <1>14, <2>1, GoToTyped DEF Check, TypeOK, At
<1>15. CASE Finalize(b)
  <2> DEFINE s == j.snap
             ok == IsCandidate(s) /\ IsCurrent(s) /\ IsComplete(s)
             g == [gen[s] EXCEPT !.state = "FILES_FINALIZED",
                                 !.manifest = Manifest(j.art)]
  <2>1. j \in LateJobs /\ s \in Snapshots
    BY <1>15, JobTyped DEF Finalize, At, TypeOK
  <2>2. CASE ok
    <3>1. Manifest(j.art) \in Manifests
      BY <2>1 DEF LateJobs, Artifact, Manifest, Manifests
    <3>2. IsRow(g)
      <4>1. IsRow(gen[s])
        BY <1>1, <2>1 DEF GenOK
      <4>2. /\ g.coverage = gen[s].coverage
            /\ "FILES_FINALIZED" \in States
            /\ Manifest(j.art) \in OrNone(Manifests)
        BY <3>1, <4>1 DEF IsRow, States, OrNone
      <4> QED
        BY <4>1, <4>2 DEF IsRow
    <3>3. gen' = [gen EXCEPT ![s] = g]
      BY <1>15, <2>2 DEF Finalize
    <3>4. GenOK'
      BY <1>1, <3>2, <3>3 DEF GenOK
    <3>5. [IdleJob EXCEPT !.pc = "publish", !.snap = s] \in EarlyJobs
      BY <2>1 DEF IdleJob, EarlyJobs
    <3>6. job' \in [Builders -> Jobs]
      BY <1>15, <2>2, <3>5 DEF Finalize, TypeOK, Jobs
    <3> QED
      BY <1>15, <3>4, <3>6 DEF Finalize, TypeOK, GenOK
  <2>3. CASE ~ok
    BY <1>15, <2>3, GoToTyped DEF Finalize, TypeOK
  <2> QED
    BY <2>2, <2>3
<1>16. CASE Publish(b)
  <2>1. j.snap \in Snapshots
    BY <1>16, JobTyped DEF Publish, At, TypeOK
  <2> QED
    BY <1>16, <2>1, GoToTyped DEF Publish, TypeOK, OrNone
<1> QED
  BY <1>2, <1>3, <1>4, <1>5, <1>6, <1>7, <1>8, <1>9, <1>10, <1>11, <1>12,
     <1>13, <1>14, <1>15, <1>16 DEF Run

LEMMA RecordsTyped ==
  ASSUME NEW r \in Reconcilers, NEW q \in Recs, rec \in [Reconcilers -> Recs],
         rec' = [rec EXCEPT ![r] = q]
  PROVE  rec' \in [Reconcilers -> Recs]
OBVIOUS

LEMMA RecNextTyped ==
  ASSUME NEW r \in Reconcilers, NEW ok, rec \in [Reconcilers -> Recs], RecNext(r, ok)
  PROVE  rec' \in [Reconcilers -> Recs]
<1>1. IdleRec \in Recs
  BY DEF IdleRec, Recs, OrNone
<1>2. [rec[r] EXCEPT !.pc = "recover", !.at = None] \in Recs
  BY DEF Recs, OrNone
<1> QED
  BY <1>1, <1>2 DEF RecNext

LEMMA ReconcilerTyped ==
  ASSUME TypeOK, NEW r \in Reconcilers, RecStart(r) \/ RecRun(r) \/ RecFail(r)
  PROVE  TypeOK'
<1> DEFINE q == rec[r]
<1>1. /\ q \in Recs /\ GenOK /\ rec \in [Reconcilers -> Recs]
      /\ q.work \subseteq Snapshots
  BY DEF TypeOK, GenOK, Recs
<1>2. IdleRec \in Recs
  BY DEF IdleRec, Recs, OrNone
<1>3. CASE RecStart(r)
  <2>1. [q EXCEPT !.pc = "list"] \in Recs
    BY <1>1 DEF Recs
  <2> QED
    BY <1>1, <1>3, <2>1, RecordsTyped DEF RecStart, TypeOK
<1>4. CASE RecFail(r)
  BY <1>1, <1>2, <1>4, RecordsTyped DEF RecFail, TypeOK
<1>5. CASE RecListFinalized(r)
  <2> DEFINE n == [pc |-> "recover", at |-> None,
                   work |-> {s \in Snapshots : IsFinalized(s) /\ s # published}]
  <2>1. n \in Recs
    BY DEF Recs, OrNone
  <2>2. rec' = [rec EXCEPT ![r] = n]
    BY <1>5 DEF RecListFinalized
  <2> QED
    BY <1>1, <1>5, <2>1, <2>2, RecordsTyped DEF RecListFinalized, TypeOK
<1>6. CASE RecJudge(r)
  <2>1. PICK s \in q.work, p \in {"publish", "retire"} :
          rec' = [rec EXCEPT ![r] = [pc |-> p, at |-> s, work |-> q.work \ {s}]]
    BY <1>6 DEF RecJudge
  <2>2. [pc |-> p, at |-> s, work |-> q.work \ {s}] \in Recs
    BY <1>1, <2>1 DEF Recs, OrNone
  <2> QED
    BY <1>1, <1>6, <2>1, <2>2, RecordsTyped DEF RecJudge, TypeOK
<1>7. CASE RecRetire(r)
  <2> DEFINE s == q.at
             g == [gen[s] EXCEPT !.state = "STALE"]
  <2>1. CASE CanRetire(s)
    <3>1. gen' = [gen EXCEPT ![s] = g]
      BY <1>7, <2>1 DEF RecRetire
    <3>2. ASSUME s \in Snapshots PROVE IsRow(g)
      BY <1>1, <3>2 DEF GenOK, IsRow, States
    <3>3. GenOK'
      BY <1>1, <3>1, <3>2 DEF GenOK
    <3> QED
      BY <1>1, <1>7, <3>3, RecNextTyped DEF RecRetire, TypeOK, GenOK
  <2>2. CASE ~CanRetire(s)
    BY <1>1, <1>7, <2>2, RecNextTyped DEF RecRetire, TypeOK
  <2> QED
    BY <2>1, <2>2
<1>8. CASE RecPublish(r)
  <2>1. q.at \in OrNone(Snapshots)
    BY <1>1 DEF Recs
  <2>2. published' \in OrNone(Snapshots)
    BY <1>8, <2>1 DEF RecPublish, TypeOK
  <2> QED
    BY <1>1, <1>8, <2>2, RecNextTyped DEF RecPublish, TypeOK
<1>9. CASE RecListCandidates(r)
  <2> DEFINE n == [pc |-> "discard", at |-> None,
                   work |-> {s \in Snapshots : IsCandidate(s)}]
  <2>1. n \in Recs
    BY DEF Recs, OrNone
  <2>2. rec' = [rec EXCEPT ![r] = n]
    BY <1>9 DEF RecListCandidates
  <2> QED
    BY <1>1, <1>9, <2>1, <2>2, RecordsTyped DEF RecListCandidates, TypeOK
<1>10. CASE RecDiscard(r)
  <2>1. PICK s \in q.work :
          IF CanDiscard(s)
          THEN /\ DiscardRow(s)
               /\ rec' = [rec EXCEPT ![r].work = @ \ {s}]
          ELSE UNCHANGED gen /\ rec' = [rec EXCEPT ![r] = IdleRec]
    BY <1>10 DEF RecDiscard
  <2>2. GenOK'
    BY <1>1, <2>1, DiscardTyped DEF GenOK
  <2>3. [q EXCEPT !.work = @ \ {s}] \in Recs
    BY <1>1 DEF Recs
  <2>4. rec' \in [Reconcilers -> Recs]
    BY <1>1, <1>2, <2>1, <2>3, RecordsTyped
  <2> QED
    BY <1>10, <2>2, <2>4 DEF RecDiscard, TypeOK, GenOK
<1>11. CASE RecDone(r)
  BY <1>1, <1>2, <1>11, RecordsTyped DEF RecDone, TypeOK
<1> QED
  BY <1>3, <1>4, <1>5, <1>6, <1>7, <1>8, <1>9, <1>10, <1>11 DEF RecRun

LEMMA TypeStep == TypeOK /\ [Next]_vars => TypeOK'
<1> SUFFICES ASSUME TypeOK, [Next]_vars PROVE TypeOK'
  OBVIOUS
<1>1. CASE PublishDocument
  BY <1>1, SuccessorFollows DEF PublishDocument, TypeOK
<1>2. CASE UNCHANGED vars
  BY <1>2 DEF vars, TypeOK, IsRow
<1> QED
  BY <1>1, <1>2, BuilderTyped, ReconcilerTyped DEF Next

(* Every variable of VectorGenerations keeps its type.                     *)
THEOREM TypeCorrect == Spec => []TypeOK
BY TypeInit, TypeStep, PTL DEF Spec

-----------------------------------------------------------------------------
(* The inductive invariant.  What an invocation holds (j) was true of the  *)
(* sources when it was read, and sources and artifacts (now, stored) only  *)
(* grow.  The rows a builder made are those of some snapshot between the   *)
(* one it began with and the one create_candidate read: when these two are *)
(* the same, which build checks, the rows are those of that snapshot.      *)
MadeBetween(j, s, t) ==
  \E u \in Snapshots : Precedes(s, u) /\ Precedes(u, t) /\ j.made = SpansOf(u)

JobFact(j, now, stored) ==
  /\ j.pc # "idle" => Precedes(j.snap, now)
  /\ j.pc \in {"insert", "undo"} => j.seen \in Snapshots /\ Precedes(j.seen, now)
  /\ j.pc \in {"store", "create"} => MadeBetween(j, j.snap, now)
  /\ j.pc = "insert" => MadeBetween(j, j.snap, j.seen)
  /\ j.pc \in {"attach", "finalize"} => j.made = SpansOf(j.snap)
  /\ j.pc \in {"create", "insert", "attach", "finalize"} =>
       j.art \in stored /\ j.art.rows = j.made

(* A generation was current once, and a finalized one has all its rows and *)
(* the manifest of an artifact with these rows.                            *)
GenFact(s, g, now, stored) ==
  /\ g.state # "ABSENT" => Precedes(s, now)
  /\ g.state = "STALE" => s # now
  /\ g.rows \subseteq SpansOf(s)
  /\ g.state = "FILES_FINALIZED" =>
       /\ g.rows = SpansOf(s)
       /\ \E a \in stored : a.rows = SpansOf(s) /\ g.manifest = Manifest(a)

JobsInv == \A b \in Builders : JobFact(job[b], active, artifacts)

GensInv == \A s \in Snapshots : GenFact(s, gen[s], active, artifacts)

PublishedInv ==
  published # None => Precedes(published, active) /\ IsFinalized(published)

IInv == TypeOK /\ JobsInv /\ GensInv /\ PublishedInv

LEMMA PrecedesTransitive ==
  ASSUME NEW s \in Snapshots, NEW t \in Snapshots, NEW u \in Snapshots,
         Precedes(s, t), Precedes(t, u)
  PROVE  Precedes(s, u)
<1> SUFFICES ASSUME NEW f \in Files PROVE s[f] <= u[f]
  BY DEF Precedes
<1>1. s[f] \in Nat /\ t[f] \in Nat /\ u[f] \in Nat
  BY VersionAssumption DEF Snapshots
<1> QED
  BY <1>1 DEF Precedes

LEMMA PrecedesReflexive == ASSUME NEW s \in Snapshots PROVE Precedes(s, s)
<1> SUFFICES ASSUME NEW f \in Files PROVE s[f] <= s[f]
  BY DEF Precedes
<1>1. s[f] \in Nat
  BY VersionAssumption DEF Snapshots
<1> QED
  BY <1>1

LEMMA PrecedesAntisymmetric ==
  ASSUME NEW s \in Snapshots, NEW t \in Snapshots, Precedes(s, t), Precedes(t, s)
  PROVE  s = t
<1>1. ASSUME NEW f \in Files PROVE s[f] = t[f]
  <2>1. s[f] \in Nat /\ t[f] \in Nat
    BY VersionAssumption DEF Snapshots
  <2> QED
    BY <2>1 DEF Precedes
<1> QED
  BY <1>1 DEF Snapshots

(* Sources and artifacts only grow, in every step.                         *)
LEMMA Growth ==
  ASSUME TypeOK, [Next]_vars
  PROVE  /\ active \in Snapshots /\ active' \in Snapshots
         /\ Precedes(active, active') /\ artifacts \subseteq artifacts'
<1>1. active \in Snapshots /\ Precedes(active, active)
  BY PrecedesReflexive DEF TypeOK
<1>2. CASE PublishDocument
  BY <1>1, <1>2, SuccessorFollows DEF PublishDocument
<1>3. CASE UNCHANGED vars
  BY <1>1, <1>3 DEF vars
<1>4. ASSUME NEW b \in Builders, Start(b) \/ Run(b) \/ Fail(b)
      PROVE  UNCHANGED active /\ artifacts \subseteq artifacts'
  BY <1>4 DEF Start, Run, Fail, Lookup, Replace, Construct, Store, Create, InsertRow,
     AdoptRow, RefuseRow, Undo, Attach, Check, Finalize, Publish
<1>5. ASSUME NEW r \in Reconcilers, RecStart(r) \/ RecRun(r) \/ RecFail(r)
      PROVE  UNCHANGED <<active, artifacts>>
  BY <1>5 DEF RecStart, RecRun, RecFail, RecListFinalized, RecJudge, RecRetire, RecPublish,
     RecListCandidates, RecDiscard, RecDone
<1> QED
  BY <1>1, <1>2, <1>3, <1>4, <1>5 DEF Next

(* What an invocation holds stays true while others work.                  *)
LEMMA JobFactGrows ==
  ASSUME NEW j \in Jobs, NEW s \in Snapshots, NEW t \in Snapshots, Precedes(s, t),
         NEW A, NEW B, A \subseteq B, JobFact(j, s, A)
  PROVE  JobFact(j, t, B)
<1>1. j.pc # "idle" => j.snap \in Snapshots
  BY DEF Jobs, IdleJob, EarlyJobs, LateJobs
<1>2. j.pc # "idle" => Precedes(j.snap, t)
  BY <1>1, PrecedesTransitive DEF JobFact
<1>3. j.pc \in {"insert", "undo"} => j.seen \in Snapshots /\ Precedes(j.seen, t)
  BY PrecedesTransitive DEF JobFact
<1>4. j.pc \in {"store", "create"} => MadeBetween(j, j.snap, t)
  BY PrecedesTransitive DEF JobFact, MadeBetween
<1> QED
  BY <1>2, <1>3, <1>4 DEF JobFact

LEMMA GenFactGrows ==
  ASSUME NEW s \in Snapshots, NEW g, NEW t \in Snapshots, NEW u \in Snapshots,
         Precedes(t, u), NEW A, NEW B, A \subseteq B, GenFact(s, g, t, A)
  PROVE  GenFact(s, g, u, B)
<1>1. g.state # "ABSENT" => Precedes(s, u)
  BY PrecedesTransitive DEF GenFact
<1>2. g.state = "STALE" => s # u
  BY PrecedesAntisymmetric DEF GenFact
<1> QED
  BY <1>1, <1>2 DEF GenFact

LEMMA InitInv == Init => IInv
<1> SUFFICES ASSUME Init PROVE IInv
  OBVIOUS
<1>1. JobsInv
  BY DEF Init, JobsInv, JobFact, IdleJob
<1>2. GensInv
  BY DEF Init, GensInv, GenFact, NoRow
<1> QED
  BY <1>1, <1>2, TypeInit DEF Init, IInv, PublishedInv

-----------------------------------------------------------------------------
(* A step of a builder keeps what is known of its own record.              *)
LEMMA GoToFact ==
  ASSUME TypeOK, NEW b \in Builders, JobFact(job[b], active, artifacts), ~At(b, "idle"),
         NEW p \in {"idle", "construct", "replace", "publish", "undo"}, GoTo(b, p),
         p = "undo" => At(b, "insert")
  PROVE  JobFact(job'[b], active, artifacts)
<1>1. CASE p = "idle"
  <2>1. job'[b] = IdleJob
    BY <1>1 DEF GoTo, TypeOK
  <2> QED
    BY <2>1 DEF JobFact, IdleJob
<1>2. CASE p # "idle"
  <2> DEFINE n == [job[b] EXCEPT !.pc = p]
  <2>1. job'[b] = n
    BY <1>2 DEF GoTo, TypeOK
  <2>2. job[b] \in EarlyJobs \cup LateJobs
    BY DEF TypeOK, Jobs, At, IdleJob
  <2>3. n.pc = p /\ n.snap = job[b].snap /\ n.seen = job[b].seen
    BY <2>2 DEF EarlyJobs, LateJobs
  <2> QED
    BY <1>2, <2>1, <2>3 DEF JobFact, At
<1> QED
  BY <1>1, <1>2

LEMMA GoOnFact ==
  ASSUME TypeOK, NEW b \in Builders, JobFact(job[b], active, artifacts), At(b, "insert"),
         NEW state, GoOnWith(b, state)
  PROVE  JobFact(job'[b], active, artifacts)
<1> DEFINE j == job[b]
<1>1. CASE GoTo(b, "idle") \/ GoTo(b, "undo")
  BY <1>1, GoToFact DEF At
<1>2. CASE /\ j.seen = j.snap
           /\ job' = [job EXCEPT ![b].pc = "attach", ![b].todo = j.made]
  <2> DEFINE n == [j EXCEPT !.pc = "attach", !.todo = j.made]
  <2>1. j \in LateJobs
    BY JobTyped DEF TypeOK, At, LatePcs
  <2>2. job'[b] = n
    BY <1>2 DEF TypeOK
  <2>3. /\ n.pc = "attach" /\ n.snap = j.snap /\ n.made = j.made /\ n.art = j.art
        /\ j.snap \in Snapshots
    BY <2>1 DEF LateJobs
  <2>4. PICK u \in Snapshots :
          Precedes(j.snap, u) /\ Precedes(u, j.snap) /\ j.made = SpansOf(u)
    BY <1>2 DEF At, JobFact, MadeBetween
  <2>5. j.made = SpansOf(j.snap)
    BY <2>3, <2>4, PrecedesAntisymmetric
  <2> QED
    BY <2>2, <2>3, <2>5 DEF JobFact, At
<1> QED
  BY <1>1, <1>2 DEF GoOnWith

LEMMA BuilderFact ==
  ASSUME TypeOK, NEW b \in Builders, JobFact(job[b], active, artifacts),
         Start(b) \/ Run(b) \/ Fail(b)
  PROVE  JobFact(job'[b], active', artifacts')
<1> DEFINE j == job[b]
<1>1. active \in Snapshots /\ job \in [Builders -> Jobs]
  BY DEF TypeOK
<1>2. CASE Start(b)
  <2>1. job'[b] = [IdleJob EXCEPT !.pc = "lookup", !.snap = active]
    BY <1>1, <1>2 DEF Start
  <2>2. job'[b].pc = "lookup" /\ job'[b].snap = active
    BY <2>1 DEF IdleJob
  <2> QED
    BY <1>1, <1>2, <2>2, PrecedesReflexive DEF Start, JobFact
<1>3. CASE Fail(b)
  BY <1>3, GoToFact DEF Fail
<1>4. CASE Lookup(b)
  <2>1. PICK p \in {"construct", "replace", "publish", "idle"} : GoTo(b, p)
    BY <1>4 DEF Lookup
  <2> QED
    BY <1>4, <2>1, GoToFact DEF Lookup, At
<1>5. CASE Replace(b)
  <2>1. PICK p \in {"construct", "idle"} : GoTo(b, p)
    BY <1>5 DEF Replace
  <2> QED
    BY <1>5, <2>1, GoToFact DEF Replace, At
<1>6. CASE Construct(b)
  <2>1. CASE GoTo(b, "idle")
    BY <1>6, <2>1, GoToFact DEF Construct, At
  <2>2. CASE job' = [job EXCEPT ![b].pc = "store", ![b].made = SpansOf(active)]
    <3>1. j \in EarlyJobs
      BY <1>1, <1>6, JobTyped DEF Construct, At, EarlyPcs
    <3>2. job'[b] = [j EXCEPT !.pc = "store", !.made = SpansOf(active)]
      BY <1>1, <2>2
    <3>3. job'[b].pc = "store" /\ job'[b].snap = j.snap /\ job'[b].made = SpansOf(active)
      BY <3>1, <3>2 DEF EarlyJobs
    <3>4. Precedes(j.snap, active)
      BY <1>6 DEF Construct, At, JobFact
    <3>5. MadeBetween(job'[b], j.snap, active)
      BY <1>1, <3>3, <3>4, PrecedesReflexive DEF MadeBetween
    <3> QED
      BY <1>6, <3>3, <3>4, <3>5 DEF Construct, JobFact
  <2> QED
    BY <1>6, <2>1, <2>2 DEF Construct
<1>7. CASE Store(b)
  <2>1. j \in EarlyJobs
    BY <1>1, <1>7, JobTyped DEF Store, At, EarlyPcs
  <2>2. PICK e \in Encodings :
          LET a == [workspace |-> j.snap, rows |-> j.made, bytes |-> e] IN
          /\ artifacts' = artifacts \cup {a}
          /\ job' = [job EXCEPT ![b] = [j EXCEPT !.pc = "create", !.art = a]]
    BY <1>7 DEF Store
  <2> DEFINE a == [workspace |-> j.snap, rows |-> j.made, bytes |-> e]
  <2>3. job'[b] = [j EXCEPT !.pc = "create", !.art = a]
    BY <1>1, <2>2
  <2>4. /\ job'[b].pc = "create" /\ job'[b].snap = j.snap /\ job'[b].made = j.made
        /\ job'[b].art = a /\ a.rows = j.made
    BY <2>1, <2>3 DEF EarlyJobs
  <2>5. a \in artifacts'
    BY <2>2
  <2> QED
    BY <1>7, <2>4, <2>5 DEF Store, At, JobFact, MadeBetween
<1>8. CASE Create(b)
  <2>1. j \in LateJobs
    BY <1>1, <1>8, JobTyped DEF Create, At, LatePcs
  <2>2. job'[b] = [j EXCEPT !.pc = "insert", !.seen = active]
    BY <1>1, <1>8 DEF Create
  <2>3. /\ job'[b].pc = "insert" /\ job'[b].snap = j.snap /\ job'[b].made = j.made
        /\ job'[b].art = j.art /\ job'[b].seen = active
    BY <2>1, <2>2 DEF LateJobs
  <2> QED
    BY <1>1, <1>8, <2>3, PrecedesReflexive DEF Create, At, JobFact, MadeBetween
<1>9. CASE InsertRow(b)
  BY <1>9, GoOnFact DEF InsertRow
<1>10. CASE AdoptRow(b)
  BY <1>10, GoOnFact DEF AdoptRow
<1>11. CASE RefuseRow(b)
  BY <1>11, GoToFact DEF RefuseRow, At
<1>12. CASE Undo(b)
  BY <1>12, GoToFact DEF Undo, At
<1>13. CASE Attach(b)
  <2>1. CASE GoTo(b, "idle")
    BY <1>13, <2>1, GoToFact DEF Attach, At
  <2>2. ASSUME NEW src, job' = [job EXCEPT ![b].todo = @ \ {src}]
        PROVE  JobFact(job'[b], active', artifacts')
    <3>1. j \in LateJobs
      BY <1>1, <1>13, JobTyped DEF Attach, At, LatePcs
    <3>2. job'[b] = [j EXCEPT !.todo = @ \ {src}]
      BY <1>1, <2>2
    <3>3. /\ job'[b].pc = j.pc /\ job'[b].snap = j.snap /\ job'[b].made = j.made
          /\ job'[b].art = j.art /\ j.pc = "attach"
      BY <1>13, <3>1, <3>2 DEF LateJobs, Attach, At
    <3> QED
      BY <1>13, <3>3 DEF Attach, JobFact
  <2> QED
    BY <1>13, <2>1, <2>2 DEF Attach
<1>14. CASE Check(b)
  <2>1. CASE GoTo(b, "idle")
    BY <1>14, <2>1, GoToFact DEF Check, At
  <2>2. CASE GoTo(b, "finalize")
    <3>1. j \in LateJobs
      BY <1>1, <1>14, JobTyped DEF Check, At, LatePcs
    <3>2. job'[b] = [j EXCEPT !.pc = "finalize"]
      BY <1>1, <2>2 DEF GoTo
    <3>3. /\ job'[b].pc = "finalize" /\ job'[b].snap = j.snap /\ job'[b].made = j.made
          /\ job'[b].art = j.art /\ j.pc = "attach"
      BY <1>14, <3>1, <3>2 DEF LateJobs, Check, At
    <3> QED
      BY <1>14, <3>3 DEF Check, JobFact
  <2> QED
    BY <1>14, <2>1, <2>2 DEF Check
<1>15. CASE Finalize(b)
  <2>1. CASE GoTo(b, "idle")
    BY <1>15, <2>1, GoToFact DEF Finalize, At
  <2>2. CASE job' = [job EXCEPT ![b] = [IdleJob EXCEPT !.pc = "publish", !.snap = j.snap]]
    <3>1. job'[b].pc = "publish" /\ job'[b].snap = j.snap
      BY <1>1, <2>2 DEF IdleJob
    <3> QED
      BY <1>15, <3>1 DEF Finalize, JobFact, At
  <2> QED
    BY <1>15, <2>1, <2>2 DEF Finalize
<1>16. CASE Publish(b)
  BY <1>16, GoToFact DEF Publish, At
<1> QED
  BY <1>2, <1>3, <1>4, <1>5, <1>6, <1>7, <1>8, <1>9, <1>10, <1>11, <1>12,
     <1>13, <1>14, <1>15, <1>16 DEF Run

LEMMA JobsStep == IInv /\ [Next]_vars => JobsInv'
<1> SUFFICES ASSUME IInv, [Next]_vars, NEW c \in Builders
             PROVE  JobFact(job'[c], active', artifacts')
  BY DEF JobsInv
<1> USE DEF IInv
<1>1. JobFact(job[c], active, artifacts) /\ job[c] \in Jobs
  BY DEF JobsInv, TypeOK
<1>2. job'[c] = job[c] => JobFact(job'[c], active', artifacts')
  BY <1>1, Growth, JobFactGrows
<1>3. CASE PublishDocument \/ UNCHANGED vars
  BY <1>2, <1>3 DEF PublishDocument, vars
<1>4. ASSUME NEW b \in Builders, Start(b) \/ Run(b) \/ Fail(b), b # c
      PROVE  job'[c] = job[c]
  BY <1>4 DEF TypeOK, Start, Run, Fail, Lookup, Replace, Construct, Store, Create, InsertRow,
     AdoptRow, RefuseRow, Undo, Attach, Check, Finalize, Publish, GoTo, GoOnWith
<1>5. ASSUME NEW b \in Builders, Start(b) \/ Run(b) \/ Fail(b)
      PROVE  JobFact(job'[c], active', artifacts')
  BY <1>1, <1>2, <1>4, <1>5, BuilderFact
<1>6. ASSUME NEW r \in Reconcilers, RecStart(r) \/ RecRun(r) \/ RecFail(r)
      PROVE  job' = job
  BY <1>6 DEF RecStart, RecRun, RecFail, RecListFinalized, RecJudge, RecRetire, RecPublish,
     RecListCandidates, RecDiscard, RecDone
<1> QED
  BY <1>2, <1>3, <1>5, <1>6 DEF Next

-----------------------------------------------------------------------------
(* A step changes at most one generation.                                  *)
LEMMA GensKept ==
  ASSUME IInv, [Next]_vars, UNCHANGED gen PROVE GensInv'
BY Growth, GenFactGrows DEF GensInv, IInv

LEMMA GenReplaced ==
  ASSUME IInv, [Next]_vars, NEW s, NEW g, gen' = [gen EXCEPT ![s] = g],
         s \in Snapshots => GenFact(s, g, active', artifacts')
  PROVE  GensInv'
<1> SUFFICES ASSUME NEW t \in Snapshots PROVE GenFact(t, gen'[t], active', artifacts')
  BY DEF GensInv
<1>1. CASE t = s
  BY <1>1 DEF IInv, TypeOK
<1>2. CASE t # s
  BY <1>2, Growth, GenFactGrows DEF GensInv, IInv, TypeOK
<1> QED
  BY <1>1, <1>2

LEMMA GenDiscarded ==
  ASSUME IInv, [Next]_vars, NEW s, DiscardRow(s) PROVE GensInv'
<1>1. GenFact(s, NoRow, active', artifacts')
  BY DEF GenFact, NoRow
<1> QED
  BY <1>1, GenReplaced DEF DiscardRow

LEMMA GensStep == IInv /\ [Next]_vars => GensInv'
<1> SUFFICES ASSUME IInv, [Next]_vars PROVE GensInv'
  OBVIOUS
<1>1. CASE PublishDocument \/ UNCHANGED vars
  BY <1>1, GensKept DEF PublishDocument, vars
<1>2. ASSUME NEW b \in Builders, Replace(b) \/ Undo(b) PROVE GensInv'
  BY <1>2, GensKept, GenDiscarded DEF Replace, Undo
<1>3. ASSUME NEW b \in Builders, InsertRow(b) PROVE GensInv'
  <2> DEFINE g == [state |-> "DB_CANDIDATE", dir |-> job[b].art,
                   coverage |-> JobCoverage(b), rows |-> {}, manifest |-> None]
  <2>1. Precedes(job[b].seen, active) /\ active' = active
    BY <1>3 DEF IInv, JobsInv, JobFact, InsertRow, At
  <2>2. GenFact(job[b].seen, g, active', artifacts')
    BY <2>1 DEF GenFact
  <2> QED
    BY <1>3, <2>2, GenReplaced DEF InsertRow
<1>4. ASSUME NEW b \in Builders, Attach(b) PROVE GensInv'
  <2> DEFINE s == job[b].snap
  <2>1. CASE UNCHANGED gen
    BY <2>1, GensKept
  <2>2. ASSUME NEW src \in SpansOf(s), IsCandidate(s),
               gen' = [gen EXCEPT ![s].rows = @ \cup {src}]
        PROVE  GensInv'
    <3> DEFINE g == [gen[s] EXCEPT !.rows = @ \cup {src}]
    <3>1. gen' = [gen EXCEPT ![s] = g] /\ active' = active
      BY <1>4, <2>2 DEF Attach
    <3>2. ASSUME s \in Snapshots PROVE GenFact(s, g, active', artifacts')
      <4>1. GenFact(s, gen[s], active, artifacts) /\ IsRow(gen[s])
        BY <3>2 DEF IInv, GensInv, TypeOK
      <4>2. g.state = "DB_CANDIDATE" /\ g.rows = gen[s].rows \cup {src}
        BY <2>2, <4>1 DEF IsCandidate, IsRow
      <4> QED
        BY <2>2, <3>1, <4>1, <4>2 DEF GenFact, IsCandidate
    <3> QED
      BY <3>1, <3>2, GenReplaced
  <2> QED
    BY <1>4, <2>1, <2>2 DEF Attach
<1>5. ASSUME NEW b \in Builders, Finalize(b) PROVE GensInv'
  <2> DEFINE j == job[b]
             s == j.snap
             g == [gen[s] EXCEPT !.state = "FILES_FINALIZED", !.manifest = Manifest(j.art)]
  <2>1. CASE UNCHANGED gen
    BY <2>1, GensKept
  <2>2. CASE IsCandidate(s) /\ IsComplete(s) /\ gen' = [gen EXCEPT ![s] = g]
    <3>1. s \in Snapshots /\ UNCHANGED <<active, artifacts>>
      BY <1>5, JobTyped DEF Finalize, At, IInv, TypeOK, LatePcs
    <3>2. GenFact(s, gen[s], active, artifacts) /\ IsRow(gen[s])
      BY <3>1 DEF IInv, GensInv, TypeOK
    <3>3. gen[s].rows = SpansOf(s)
      BY <2>2, <3>2 DEF IsComplete, GenFact
    <3>4. j.art \in artifacts /\ j.art.rows = SpansOf(s)
      BY <1>5 DEF Finalize, At, IInv, JobsInv, JobFact
    <3>5. /\ g.state = "FILES_FINALIZED" /\ g.rows = SpansOf(s)
          /\ g.manifest = Manifest(j.art)
      BY <3>2, <3>3 DEF IsRow
    <3>6. Precedes(s, active)
      BY <2>2, <3>2 DEF GenFact, IsCandidate
    <3>7. GenFact(s, g, active', artifacts')
      BY <3>1, <3>4, <3>5, <3>6 DEF GenFact
    <3> QED
      BY <2>2, <3>7, GenReplaced
  <2> QED
    BY <1>5, <2>1, <2>2 DEF Finalize
<1>6. ASSUME NEW b \in Builders,
             \/ Start(b) \/ Fail(b) \/ Lookup(b) \/ Construct(b) \/ Store(b) \/ Create(b)
             \/ AdoptRow(b) \/ RefuseRow(b) \/ Check(b) \/ Publish(b)
      PROVE  GensInv'
  BY <1>6, GensKept DEF Start, Fail, Lookup, Construct, Store, Create, AdoptRow,
     RefuseRow, Check, Publish
<1>7. ASSUME NEW r \in Reconcilers, RecRetire(r) PROVE GensInv'
  <2> DEFINE s == rec[r].at
             g == [gen[s] EXCEPT !.state = "STALE"]
  <2>1. CASE CanRetire(s)
    <3>1. gen' = [gen EXCEPT ![s] = g] /\ UNCHANGED <<active, artifacts>>
      BY <1>7, <2>1 DEF RecRetire
    <3>2. ASSUME s \in Snapshots PROVE GenFact(s, g, active', artifacts')
      <4>1. GenFact(s, gen[s], active, artifacts) /\ IsRow(gen[s])
        BY <3>2 DEF IInv, GensInv, TypeOK
      <4>2. g.state = "STALE" /\ g.rows = gen[s].rows
        BY <4>1 DEF IsRow
      <4>3. Precedes(s, active) /\ s # active
        BY <2>1, <4>1 DEF CanRetire, IsFinalized, IsCurrent, GenFact
      <4> QED
        BY <3>1, <4>1, <4>2, <4>3 DEF GenFact
    <3> QED
      BY <3>1, <3>2, GenReplaced
  <2>2. CASE ~CanRetire(s)
    BY <1>7, <2>2, GensKept DEF RecRetire
  <2> QED
    BY <2>1, <2>2
<1>8. ASSUME NEW r \in Reconcilers, RecDiscard(r) PROVE GensInv'
  BY <1>8, GensKept, GenDiscarded DEF RecDiscard
<1>9. ASSUME NEW r \in Reconcilers,
             \/ RecStart(r) \/ RecFail(r) \/ RecListFinalized(r) \/ RecJudge(r)
             \/ RecPublish(r) \/ RecListCandidates(r) \/ RecDone(r)
      PROVE  GensInv'
  BY <1>9, GensKept DEF RecStart, RecFail, RecListFinalized, RecJudge, RecPublish,
     RecListCandidates, RecDone
<1> QED
  BY <1>1, <1>2, <1>3, <1>4, <1>5, <1>6, <1>7, <1>8, <1>9 DEF Next, Run, RecRun

-----------------------------------------------------------------------------
(* A finalized generation is only ever marked STALE, and not the published *)
(* one.                                                                    *)
LEMMA FinalizedKept ==
  ASSUME TypeOK, [Next]_vars, NEW s \in Snapshots, IsFinalized(s)
  PROVE  \/ gen'[s] = gen[s]
         \/ gen'[s] = [gen[s] EXCEPT !.state = "STALE"] /\ s # published
<1>1. DOMAIN gen = Snapshots
  BY DEF TypeOK
<1>2. ASSUME NEW t, ~IsFinalized(t), NEW g, gen' = [gen EXCEPT ![t] = g]
      PROVE  gen'[s] = gen[s]
  BY <1>1, <1>2
<1>3. ASSUME NEW t, CanDiscard(t), DiscardRow(t) PROVE gen'[s] = gen[s]
  BY <1>2, <1>3 DEF CanDiscard, IsCandidate, IsFinalized, DiscardRow
<1>4. ASSUME NEW b \in Builders, Replace(b) \/ Undo(b) PROVE gen'[s] = gen[s]
  BY <1>3, <1>4 DEF Replace, Undo
<1>5. ASSUME NEW b \in Builders, InsertRow(b) PROVE gen'[s] = gen[s]
  BY <1>2, <1>5 DEF InsertRow, IsFinalized
<1>6. ASSUME NEW b \in Builders, Attach(b) \/ Finalize(b) PROVE gen'[s] = gen[s]
  BY <1>1, <1>6 DEF Attach, Finalize, IsCandidate, IsFinalized
<1>7. ASSUME NEW r \in Reconcilers, RecDiscard(r) PROVE gen'[s] = gen[s]
  BY <1>3, <1>7 DEF RecDiscard
<1>8. ASSUME NEW r \in Reconcilers, RecRetire(r)
      PROVE  \/ gen'[s] = gen[s]
             \/ gen'[s] = [gen[s] EXCEPT !.state = "STALE"] /\ s # published
  BY <1>1, <1>8 DEF RecRetire, CanRetire
<1>9. ASSUME NEW b \in Builders,
             \/ Start(b) \/ Fail(b) \/ Lookup(b) \/ Construct(b) \/ Store(b) \/ Create(b)
             \/ AdoptRow(b) \/ RefuseRow(b) \/ Check(b) \/ Publish(b)
      PROVE  gen' = gen
  BY <1>9 DEF Start, Fail, Lookup, Construct, Store, Create, AdoptRow, RefuseRow, Check, Publish
<1>10. ASSUME NEW r \in Reconcilers,
              \/ RecStart(r) \/ RecFail(r) \/ RecListFinalized(r) \/ RecJudge(r)
              \/ RecPublish(r) \/ RecListCandidates(r) \/ RecDone(r)
       PROVE  gen' = gen
  BY <1>10 DEF RecStart, RecFail, RecListFinalized, RecJudge, RecPublish,
     RecListCandidates, RecDone
<1>11. PublishDocument \/ UNCHANGED vars => gen' = gen
  BY DEF PublishDocument, vars
<1> QED
  BY <1>4, <1>5, <1>6, <1>7, <1>8, <1>9, <1>10, <1>11 DEF Next, Run, RecRun

(* Only the generation of the current sources is ever published.           *)
LEMMA PublishedNow ==
  ASSUME TypeOK, [Next]_vars, published' # published
  PROVE  published' = active /\ UNCHANGED <<active, gen>> /\ IsFinalized(active)
<1>1. ASSUME NEW b \in Builders, Start(b) \/ Run(b) \/ Fail(b) PROVE Publish(b)
  BY <1>1 DEF Start, Run, Fail, Lookup, Replace, Construct, Store, Create, InsertRow,
     AdoptRow, RefuseRow, Undo, Attach, Check, Finalize
<1>2. ASSUME NEW r \in Reconcilers, RecStart(r) \/ RecRun(r) \/ RecFail(r)
      PROVE  RecPublish(r)
  BY <1>2 DEF RecStart, RecRun, RecFail, RecListFinalized, RecJudge, RecRetire,
     RecListCandidates, RecDiscard, RecDone
<1>3. ASSUME NEW b \in Builders, Publish(b)
      PROVE  published' = active /\ UNCHANGED <<active, gen>> /\ IsFinalized(active)
  BY <1>3 DEF Publish, CanPublish, IsCurrent
<1>4. ASSUME NEW r \in Reconcilers, RecPublish(r)
      PROVE  published' = active /\ UNCHANGED <<active, gen>> /\ IsFinalized(active)
  BY <1>4 DEF RecPublish, CanPublish, IsCurrent
<1> QED
  BY <1>1, <1>2, <1>3, <1>4 DEF Next, PublishDocument, vars

LEMMA PublishedStep == IInv /\ [Next]_vars => PublishedInv'
<1> SUFFICES ASSUME IInv, [Next]_vars, published' # None
             PROVE  Precedes(published', active') /\ (IsFinalized(published))'
  BY DEF PublishedInv
<1>1. TypeOK
  BY DEF IInv
<1>2. CASE published' = published
  <2>1. published \in Snapshots /\ Precedes(published, active) /\ IsFinalized(published)
    BY <1>1, <1>2 DEF IInv, PublishedInv, TypeOK, OrNone
  <2>2. Precedes(published, active')
    BY <1>1, <2>1, Growth, PrecedesTransitive
  <2>3. gen'[published] = gen[published]
    BY <1>1, <2>1, FinalizedKept
  <2> QED
    BY <1>2, <2>1, <2>2, <2>3 DEF IsFinalized
<1>3. CASE published' # published
  <2>1. published' = active /\ UNCHANGED <<active, gen>> /\ IsFinalized(active)
    BY <1>1, <1>3, PublishedNow
  <2>2. Precedes(active, active)
    BY <1>1, PrecedesReflexive DEF TypeOK
  <2> QED
    BY <2>1, <2>2 DEF IsFinalized
<1> QED
  BY <1>2, <1>3

LEMMA Inductive == IInv /\ [Next]_vars => IInv'
BY TypeStep, JobsStep, GensStep, PublishedStep DEF IInv

LEMMA AlwaysInv == Spec => []IInv
BY InitInv, Inductive, PTL DEF Spec

-----------------------------------------------------------------------------
(* A generation that was marked STALE is never the one that the current    *)
(* sources call for, so that no build is ever refused for good.            *)
THEOREM StaleSafe == Spec => []StaleNeverCurrent
<1>1. IInv => StaleNeverCurrent
  BY DEF IInv, GensInv, GenFact, StaleNeverCurrent
<1> QED
  BY <1>1, AlwaysInv, PTL

(* The published generation has all its rows and a manifest for them.      *)
THEOREM PublishedIsComplete == Spec => []PublishedComplete
<1>1. IInv => PublishedComplete
  BY DEF IInv, TypeOK, OrNone, GensInv, GenFact, PublishedInv, IsFinalized, PublishedComplete
<1> QED
  BY <1>1, AlwaysInv, PTL

(* Publication never goes back to an earlier snapshot.                     *)
THEOREM Forward == Spec => ForwardOnly
<1>1. IInv /\ [Next]_vars => [published # None => Precedes(published, published')]_published
  BY PublishedNow DEF IInv, PublishedInv
<1> QED
  BY <1>1, AlwaysInv, PTL DEF Spec, ForwardOnly

(* No process changes a finalized generation but to mark it STALE.         *)
THEOREM Immutable == Spec => FinalizedImmutable
<1>1. TypeOK /\ [Next]_vars =>
        [\A s \in Snapshots : IsFinalized(s) =>
           /\ gen'[s] = [gen[s] EXCEPT !.state = gen'[s].state]
           /\ gen'[s].state \in {"FILES_FINALIZED", "STALE"}]_gen
  <2> SUFFICES ASSUME TypeOK, [Next]_vars, NEW s \in Snapshots, IsFinalized(s)
               PROVE  /\ gen'[s] = [gen[s] EXCEPT !.state = gen'[s].state]
                      /\ gen'[s].state \in {"FILES_FINALIZED", "STALE"}
    OBVIOUS
  <2>1. IsRow(gen[s]) /\ gen[s].state = "FILES_FINALIZED"
    BY DEF TypeOK, IsFinalized
  <2>2. CASE gen'[s] = gen[s]
    BY <2>1, <2>2 DEF IsRow
  <2>3. CASE gen'[s] = [gen[s] EXCEPT !.state = "STALE"]
    <3>1. gen'[s].state = "STALE"
      BY <2>1, <2>3 DEF IsRow
    <3> QED
      BY <2>3, <3>1
  <2> QED
    BY <2>2, <2>3, FinalizedKept
<1> QED
  BY <1>1, TypeCorrect, PTL DEF Spec, FinalizedImmutable

(* Readers are served as VectorIndex promises: the index of exactly the    *)
(* current sources, or none.                                               *)
THEOREM Implements == Spec => ImplementsIndex
<1>1. Init => Index!IndexInit
  BY NoneAssumption DEF Init, Index!IndexInit, Index!Unpublished, Unpublished, ActiveGeneration
<1>2. IInv /\ [Next]_vars => [Index!IndexNext]_Index!indexVars
  <2> SUFFICES ASSUME IInv, [Next]_vars PROVE [Index!IndexNext]_Index!indexVars
    OBVIOUS
  <2> USE DEF Index!IndexNext, Index!indexVars
  <2>1. /\ TypeOK /\ active \in Snapshots
        /\ published # None => published \in Snapshots /\ Precedes(published, active)
    BY DEF IInv, PublishedInv, TypeOK, OrNone
  <2>2. CASE PublishDocument
    <3>1. active' \in Successors(active) /\ published' = published
      BY <2>2 DEF PublishDocument
    <3>2. active' \in Snapshots /\ Precedes(active, active') /\ active' # active
      BY <2>1, <3>1, SuccessorFollows
    <3>3. published' # active'
      BY <2>1, <3>1, <3>2, PrecedesAntisymmetric, NoneAssumption
    <3>4. Index!SourceChange
      BY <3>1, <3>3 DEF Index!SourceChange, Index!Successors, Successors, ActiveGeneration
    <3> QED
      BY <3>4
  <2>3. CASE published' # published
    <3>1. Index!IndexChange
      BY <2>1, <2>3, PublishedNow DEF Index!IndexChange, ActiveGeneration
    <3> QED
      BY <3>1
  <2>4. CASE published' = published /\ active' = active
    BY <2>4 DEF ActiveGeneration
  <2>5. PublishDocument \/ active' = active
    <3>1. ASSUME NEW b \in Builders, Start(b) \/ Run(b) \/ Fail(b) PROVE active' = active
      BY <3>1 DEF Start, Run, Fail, Lookup, Replace, Construct, Store, Create, InsertRow,
         AdoptRow, RefuseRow, Undo, Attach, Check, Finalize, Publish
    <3>2. ASSUME NEW r \in Reconcilers, RecStart(r) \/ RecRun(r) \/ RecFail(r)
          PROVE  active' = active
      BY <3>2 DEF RecStart, RecRun, RecFail, RecListFinalized, RecJudge, RecRetire, RecPublish,
         RecListCandidates, RecDiscard, RecDone
    <3> QED
      BY <3>1, <3>2 DEF Next, vars
  <2> QED
    BY <2>2, <2>3, <2>4, <2>5
<1> QED
  BY <1>1, <1>2, AlwaysInv, PTL DEF Spec, ImplementsIndex, Index!IndexSpec
==============================================================================
