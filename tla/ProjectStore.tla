---------------------------- MODULE ProjectStore ----------------------------
(***************************************************************************)
(* The stored part of one project: its database file, its original PDFs    *)
(* and the commands that write them.  `import-pdf` admits a file           *)
(* (documents/admission.py), parses the stored original and publishes a    *)
(* document generation (library/repository.py); `project create` migrates  *)
(* a copy of the database, puts it in place of the file and inserts the    *)
(* project (db/migrations.py, library/service.py).                         *)
(*                                                                         *)
(* A step is one SQLite transaction or one file operation.  Transactions   *)
(* are serialised by BEGIN IMMEDIATE; the one of an admission spans its    *)
(* file operations, so it takes several steps.  Staging files, temporary   *)
(* files and migration candidates have unique names and are left out.      *)
(*                                                                         *)
(* Windows rules: os.replace is refused while any connection has the       *)
(* database open, and the write-ahead log of a killed process stays beside *)
(* the database file until the next process opens it.                      *)
(***************************************************************************)
EXTENDS Naturals, FiniteSets

CONSTANTS
  Papers,       \* papers a user may create in the project
  Contents,     \* contents of PDF files (sha256)
  Profiles,     \* processing profiles of the program's versions
  Importers,    \* processes that run `import-pdf`
  Retrying,     \* those whose caller repeats an import until it succeeds
  Creators,     \* processes that run `project create` for this project
  MaxMishaps,   \* bound: crashes and I/O errors in the imports of a run
  None

ASSUME RetryingAssumption == Retrying \subseteq Importers
ASSUME MishapsAssumption == MaxMishaps \in Nat
ASSUME ProfilesAssumption == IsFiniteSet(Profiles)
ASSUME NoneAssumption == None \notin Profiles

FileVersions == Papers \X Contents
Generations == FileVersions \X Profiles

Content(f) == f[2]

Tables ==
  [project : BOOLEAN, papers : SUBSET Papers, registered : SUBSET FileVersions,
   generations : SUBSET Generations,
   active : [FileVersions -> Profiles \cup {None}],
   indexed : SUBSET Generations]

VARIABLES
  db,           \* committed content of the database file of the project
  log,          \* its write-ahead log: "none", "own", or "foreign"
  originals,    \* contents present under originals/sha256
  job,          \* what each importer's invocation holds
  upgrade,      \* what each creator's invocation holds
  mishaps,      \* crashes and I/O errors so far
  acknowledged  \* generations whose import has been reported as done

vars == <<db, log, originals, job, upgrade, mishaps, acknowledged>>

Empty ==
  [project |-> FALSE, papers |-> {}, registered |-> {}, generations |-> {},
   active |-> [f \in FileVersions |-> None], indexed |-> {}]

Created == [Empty EXCEPT !.project = TRUE]

IdleJob == [pc |-> "idle", file |-> None, profile |-> None, here |-> FALSE]

IdleUpgrade == [pc |-> "idle", copy |-> Empty]

(* Without creators the project has been created before.                   *)
Init ==
  /\ db \in {Created} \cup IF Creators = {} THEN {} ELSE {Empty}
  /\ log = "none"
  /\ originals = {}
  /\ job = [i \in Importers |-> IdleJob]
  /\ upgrade = [c \in Creators |-> IdleUpgrade]
  /\ mishaps = 0
  /\ acknowledged = {}

-----------------------------------------------------------------------------
(* Connections and transactions.                                           *)

InAdmission(i) == job[i].pc \in {"original", "register"}

(* The importers with an open connection: a transaction, or its close.     *)
Open(i) == InAdmission(i) \/ job[i].pc \in {"registered", "published"}

AllClosed == \A i \in Importers : ~Open(i)

(* No other transaction holds the write reservation (BEGIN IMMEDIATE).     *)
Unlocked == \A i \in Importers : ~InAdmission(i)

(* A database with the log of another one is malformed to every connect.   *)
Readable == log # "foreign"

(* The log after a connection of its own for a transaction that wrote, or  *)
(* did not: the last connection to close checkpoints and removes it.       *)
LogAfter(wrote) ==
  IF AllClosed THEN "none" ELSE IF wrote THEN "own" ELSE log

(* The log after importer i has closed its connection.                     *)
LogWithout(i) ==
  IF Open(i) /\ \A j \in Importers \ {i} : ~Open(j) THEN "none" ELSE log

-----------------------------------------------------------------------------
(* `paper create`: the paper is inserted if the project exists and the     *)
(* paper does not.                                                         *)
CreatePaper(p) ==
  /\ Readable /\ Unlocked
  /\ db.project /\ p \notin db.papers
  /\ db' = [db EXCEPT !.papers = @ \cup {p}]
  /\ log' = LogAfter(TRUE)
  /\ UNCHANGED <<originals, job, upgrade, mishaps, acknowledged>>

-----------------------------------------------------------------------------
(* `import-pdf`, first transaction: PdfAdmissionService.admit.             *)

(* What a caller asks for: a repeated import is the same one.              *)
Requests(i) ==
  IF i \in Retrying /\ job[i].file # None
  THEN {<<job[i].file, job[i].profile>>}
  ELSE Generations

(* The paper is looked up and the source is copied to a staging file.      *)
Stage(i) ==
  /\ job[i].pc = "idle" /\ Readable
  /\ \E r \in Requests(i) :
       /\ r[1][1] \in db.papers
       /\ job' = [job EXCEPT ![i] =
            [pc |-> "staged", file |-> r[1], profile |-> r[2], here |-> FALSE]]
  /\ log' = LogAfter(FALSE)
  /\ UNCHANGED <<db, originals, upgrade, mishaps, acknowledged>>

(* BEGIN IMMEDIATE, when no other transaction is under way.                *)
Admit(i) ==
  /\ job[i].pc = "staged" /\ Readable /\ Unlocked
  /\ job' = [job EXCEPT ![i].pc = "original"]
  /\ UNCHANGED <<db, log, originals, upgrade, mishaps, acknowledged>>

(* Mutant of CanStore: the target is created and must not be there.        *)
CanStoreNew(c) == c \notin originals

(* An original that is there already has the digest in its name.           *)
CanStore(c) == TRUE

StoreOriginal(i) ==
  LET c == Content(job[i].file) IN
  /\ job[i].pc = "original" /\ CanStore(c)
  /\ originals' = originals \cup {c}
  /\ job' = [job EXCEPT ![i].pc = "register", ![i].here = c \notin originals]
  /\ UNCHANGED <<db, log, upgrade, mishaps, acknowledged>>

(* The file version is inserted, unless it is there, and committed.        *)
Register(i) ==
  LET f == job[i].file IN
  /\ job[i].pc = "register"
  /\ f \in db.registered \/ f[1] \in db.papers
  /\ db' = [db EXCEPT !.registered = @ \cup {f}]
  /\ log' = IF f \in db.registered THEN log ELSE "own"
  /\ job' = [job EXCEPT ![i].pc = "registered"]
  /\ UNCHANGED <<originals, upgrade, mishaps, acknowledged>>

Referenced(c) == \E f \in db.registered : Content(f) = c

(* Mutant of CleansUp: whoever fails takes its original away.              *)
CleansUpAlways(i) == TRUE

CleansUp(i) == job[i].here /\ ~Referenced(Content(job[i].file))

(* What is left of an import that has failed.                              *)
Ended(i) ==
  IF i \in Retrying
  THEN [job[i] EXCEPT !.pc = "idle", !.here = FALSE]
  ELSE IdleJob

(* The connection is closed without a commit.                              *)
Rollback(i) ==
  /\ job' = [job EXCEPT ![i] = Ended(i)]
  /\ log' = LogWithout(i)

(* Some steps fail for no reason within the model, up to a bound.          *)
Mishap ==
  /\ mishaps < MaxMishaps
  /\ mishaps' = mishaps + 1

(* The insert fails: the paper is gone, or SQLite reports an error.        *)
Refuse(i) ==
  /\ job[i].pc = "register"
  /\ IF job[i].file[1] \in db.papers THEN Mishap ELSE UNCHANGED mishaps
  /\ originals' =
       IF CleansUp(i) THEN originals \ {Content(job[i].file)} ELSE originals
  /\ Rollback(i)
  /\ UNCHANGED <<db, upgrade, acknowledged>>

-----------------------------------------------------------------------------
(* `import-pdf`, second transaction: publish_native_document.              *)

(* The stored original is verified and parsed, without the database.       *)
Parse(i) ==
  /\ job[i].pc = "parse" /\ Content(job[i].file) \in originals
  /\ job' = [job EXCEPT ![i].pc = "publish"]
  /\ UNCHANGED <<db, log, originals, upgrade, mishaps, acknowledged>>

(* The generation is there and the active one: the import is a repetition. *)
Reuses(f, p) == <<f, p>> \in db.generations /\ db.active[f] = p

(* Mutant of CanPublish: a generation that is there is activated again.    *)
CanPublishAgain(f, p) == f \in db.registered

CanPublish(f, p) ==
  f \in db.registered /\ (<<f, p>> \in db.generations => Reuses(f, p))

(* The index entries of the active generations of a file.                  *)
ActiveEntries(active, f) == {<<f, p>> : p \in {active[f]} \ {None}}

(* Mutant of Activated: the old entries are deleted after the pointer has  *)
(* moved.                                                                  *)
ActivatedFirst(f, p) ==
  LET to == [db.active EXCEPT ![f] = p] IN
  [db EXCEPT !.generations = @ \cup {<<f, p>>},
             !.indexed = (@ \cup {<<f, p>>}) \ ActiveEntries(to, f),
             !.active = to]

(* Mutant of Activated: the pointer is keyed by the content of the file.   *)
ActivatedByContent(f, p) ==
  LET same == {g \in db.registered : Content(g) = Content(f)} IN
  [db EXCEPT !.generations = @ \cup {<<g, p>> : g \in same},
             !.indexed = @ \cup {<<f, p>>},
             !.active = [g \in FileVersions |-> IF g \in same THEN p ELSE @[g]]]

(* A new generation with its index entries, the entries of the one that    *)
(* was active deleted, and the pointer moved (_activate_generation).       *)
Activated(f, p) ==
  [db EXCEPT !.generations = @ \cup {<<f, p>>},
             !.indexed = (@ \cup {<<f, p>>}) \ ActiveEntries(db.active, f),
             !.active = [@ EXCEPT ![f] = p]]

Publish(i) ==
  LET f == job[i].file  p == job[i].profile IN
  /\ job[i].pc = "publish" /\ Readable /\ Unlocked
  /\ CanPublish(f, p)
  /\ IF Reuses(f, p)
     THEN UNCHANGED <<db, log>>
     ELSE db' = Activated(f, p) /\ log' = "own"
  /\ job' = [job EXCEPT ![i].pc = "published"]
  /\ UNCHANGED <<originals, upgrade, mishaps, acknowledged>>

(* The connection of a committed transaction is closed, and after the      *)
(* second one the import is reported as done.                              *)
Close(i) ==
  /\ \/ /\ job[i].pc = "registered"
        /\ job' = [job EXCEPT ![i].pc = "parse"]
        /\ UNCHANGED acknowledged
     \/ /\ job[i].pc = "published"
        /\ acknowledged' =
             acknowledged \cup {<<job[i].file, job[i].profile>>}
        /\ job' = [job EXCEPT ![i] = IdleJob]
  /\ log' = LogWithout(i)
  /\ UNCHANGED <<db, originals, upgrade, mishaps>>

(* Errors that end an import: the write lock is not free in five seconds,  *)
(* the database cannot be opened, the original or the file version is      *)
(* gone, or another generation has become the active one.                  *)
Fail(i) ==
  /\ \/ job[i].pc \in {"staged", "publish"} /\ ~Unlocked
     \/ job[i].pc = "parse" /\ Content(job[i].file) \notin originals
     \/ job[i].pc = "publish"
        /\ ~(Readable /\ CanPublish(job[i].file, job[i].profile))
     \/ job[i].pc = "staged" /\ ~Readable
     \/ job[i].pc = "original" /\ ~CanStore(Content(job[i].file))
  /\ Rollback(i)
  /\ UNCHANGED <<db, originals, upgrade, mishaps, acknowledged>>

(* Errors the model gives no reason for: I/O, a commit that fails.         *)
FailAnyway(i) ==
  /\ job[i].pc \in {"staged", "original", "register", "parse", "publish"}
  /\ Mishap
  /\ Rollback(i)
  /\ UNCHANGED <<db, originals, upgrade, acknowledged>>

(* The process is killed: SQLite rolls the open transaction back, and the  *)
(* log of a connection that was not closed stays.                          *)
Crash(i) ==
  /\ job[i].pc # "idle"
  /\ Mishap
  /\ job' = [job EXCEPT ![i] = Ended(i)]
  /\ UNCHANGED <<db, log, originals, upgrade, acknowledged>>

-----------------------------------------------------------------------------
(* `project create`: MigrationRunner.migrate_copy, then the insert.        *)

(* A consistent copy of the database, or an empty one if there is none.    *)
Copy(c) ==
  /\ upgrade[c].pc = "idle" /\ Readable
  /\ upgrade' = [upgrade EXCEPT ![c] = [pc |-> "copied", copy |-> db]]
  /\ log' = LogAfter(FALSE)
  /\ UNCHANGED <<db, originals, job, mishaps, acknowledged>>

(* The migrated and validated copy replaces the database.  A log beside it *)
(* now belongs to a file that is gone; when its pages happen to fit those  *)
(* of the copy, replaying it yields the database that was replaced.        *)
Replace(c) ==
  /\ upgrade[c].pc = "copied" /\ AllClosed
  /\ \/ /\ db' = upgrade[c].copy
        /\ log' = IF log = "none" THEN "none" ELSE "foreign"
     \/ log = "own" /\ UNCHANGED <<db, log>>
  /\ upgrade' = [upgrade EXCEPT ![c] = [pc |-> "replaced", copy |-> Empty]]
  /\ UNCHANGED <<originals, job, mishaps, acknowledged>>

(* The project is inserted, or reported as a duplicate.                    *)
InsertProject(c) ==
  /\ upgrade[c].pc = "replaced" /\ Readable /\ Unlocked
  /\ db' = [db EXCEPT !.project = TRUE]
  /\ log' = LogAfter(~db.project)
  /\ upgrade' = [upgrade EXCEPT ![c] = IdleUpgrade]
  /\ UNCHANGED <<originals, job, mishaps, acknowledged>>

(* The migration fails, os.replace is refused, or the process is killed.   *)
Abandon(c) ==
  /\ upgrade[c].pc # "idle"
  /\ upgrade' = [upgrade EXCEPT ![c] = IdleUpgrade]
  /\ UNCHANGED <<db, log, originals, job, mishaps, acknowledged>>

-----------------------------------------------------------------------------
Run(i) ==
  \/ Admit(i) \/ StoreOriginal(i) \/ Register(i)
  \/ Parse(i) \/ Publish(i) \/ Close(i) \/ Fail(i)

Import(i) == Stage(i) \/ Run(i) \/ Refuse(i) \/ FailAnyway(i) \/ Crash(i)

Create(c) == Copy(c) \/ Replace(c) \/ InsertProject(c) \/ Abandon(c)

Next ==
  \/ \E p \in Papers : CreatePaper(p)
  \/ \E i \in Importers : Import(i)
  \/ \E c \in Creators : Create(c)

Spec == Init /\ [][Next]_vars

(* An invocation goes on until it ends, the papers are created some time,  *)
(* and the caller of a retrying import starts it again.                    *)
FairSpec ==
  /\ Spec
  /\ \A p \in Papers : WF_vars(CreatePaper(p))
  /\ \A i \in Importers : WF_vars(Run(i) \/ Refuse(i))
  /\ \A i \in Retrying : WF_vars(Stage(i))

-----------------------------------------------------------------------------
Jobs ==
  [pc : {"idle", "staged", "original", "register", "registered", "parse",
         "publish", "published"},
   file : FileVersions \cup {None}, profile : Profiles \cup {None},
   here : BOOLEAN]

Upgrades == [pc : {"idle", "copied", "replaced"}, copy : Tables]

(* Type invariant: every process holds one file version and profile while  *)
(* it runs, and only one admission is in its transaction.                  *)
TypeOK ==
  /\ db \in Tables
  /\ log \in {"none", "own", "foreign"}
  /\ originals \subseteq Contents
  /\ job \in [Importers -> Jobs]
  /\ upgrade \in [Creators -> Upgrades]
  /\ mishaps \in 0..MaxMishaps
  /\ acknowledged \subseteq Generations
  /\ \A i, j \in Importers : InAdmission(i) /\ InAdmission(j) => i = j

(* Every registered file version has its original in the store, although   *)
(* originals are shared between papers, published before their row is      *)
(* committed, taken away when the insert fails, and rows may come back     *)
(* with an older copy of the database (admission.py:96-144).               *)
RegisteredHasOriginal == \A f \in db.registered : Content(f) \in originals

(* Full-text search sees the chunks of exactly the active generations:     *)
(* never of two generations of one file, never of none                     *)
(* (repository.py:550-573).                                                *)
IndexedIsActive ==
  db.indexed = UNION {ActiveEntries(db.active, f) : f \in FileVersions}

(* A pointer moves only to a generation that was not there before: the     *)
(* active generation of a file version tells which generations it has had, *)
(* so a snapshot of the pointers that is equal to an earlier one means     *)
(* that nothing has been published in between.                             *)
PointersNeverReturn ==
  [][\A f \in FileVersions :
       db'.active[f] # db.active[f] =>
         <<f, db'.active[f]>> \in db'.generations \ db.generations]_vars

(* The sources of the project change as VectorIndex says they do, one      *)
(* document at a time and forward.                                         *)
PublishedCount ==
  [f \in FileVersions |-> Cardinality({p \in Profiles : <<f, p>> \in db.generations})]

Index == INSTANCE VectorIndex WITH
  Files <- FileVersions, MaxVersion <- Cardinality(Profiles),
  current <- PublishedCount, served <- None

ImplementsSources == Index!IndexSpec

(* What has been reported as imported stays in the database.               *)
AcknowledgedKept == acknowledged \subseteq db.generations

(* What lies in the place of the database is the validated copy: no log    *)
(* of another database is applied to it.                                   *)
ValidatedCopyIsRead == Readable

(* When the other imports stop at some time, a repeated import ends with   *)
(* its generation in the database, whatever crash or error it went         *)
(* through: nothing it leaves behind stands in its own way.                *)
ImportCompletes ==
  (\A i \in Importers \ Retrying : <>[](job[i].pc = "idle")) =>
    \A i \in Retrying : \A f \in FileVersions : \A p \in Profiles :
      (job[i].pc = "staged" /\ job[i].file = f /\ job[i].profile = p)
        ~> (<<f, p>> \in db.generations)
=============================================================================
