------------------------- MODULE ProjectStoreProofs -------------------------
(***************************************************************************)
(* Proofs about ProjectStore, for every set of papers, contents, profiles  *)
(* and processes.                                                          *)
(***************************************************************************)
EXTENDS ProjectStore, FiniteSetTheorems, TLAPS

(* What holds of the tables of the database and of every copy of them: the *)
(* active generations exist and are the indexed ones.                      *)
Sound(t) ==
  /\ t \in Tables
  /\ \A f \in FileVersions :
       t.active[f] # None => <<f, t.active[f]>> \in t.generations
  /\ t.indexed = UNION {ActiveEntries(t.active, f) : f \in FileVersions}

Stored(t) == \A f \in t.registered : Content(f) \in originals

Lacks(t, c) == \A f \in t.registered : Content(f) # c

TablesInv == Sound(db) /\ \A c \in Creators : Sound(upgrade[c].copy)

(* A running import has its request, and the original of one that is about *)
(* to register is stored; when it was stored by this very import, no row   *)
(* refers to it, in the database or in a copy that may replace it.         *)
Requested(i) ==
  job[i].pc # "idle" \/ job[i].file # None =>
    job[i].file \in FileVersions /\ job[i].profile \in Profiles

Registering(i) ==
  job[i].pc = "register" =>
    /\ Content(job[i].file) \in originals
    /\ job[i].here =>
         /\ Lacks(db, Content(job[i].file))
         /\ \A c \in Creators : Lacks(upgrade[c].copy, Content(job[i].file))

JobsInv == \A i \in Importers : Requested(i) /\ Registering(i)

StoredInv == Stored(db) /\ \A c \in Creators : Stored(upgrade[c].copy)

IInv == TypeOK /\ TablesInv /\ JobsInv /\ StoredInv

-----------------------------------------------------------------------------
LEMMA EmptySound == Sound(Empty) /\ Sound(Created)
<1>1. Empty \in Tables /\ Created \in Tables
  BY DEF Empty, Created, Tables
<1>2. \A f \in FileVersions : Empty.active[f] = None /\ Created.active[f] = None
  BY DEF Empty, Created
<1>3. \A f \in FileVersions : ActiveEntries(Empty.active, f) = {} /\ ActiveEntries(Created.active, f) = {}
  BY <1>2 DEF ActiveEntries
<1>4. Empty.indexed = {} /\ Created.indexed = {}
  BY DEF Empty, Created
<1> QED
  BY <1>1, <1>2, <1>3, <1>4 DEF Sound

(* Tables that agree in generations, pointers and index are equally sound. *)
LEMMA SameSound ==
  ASSUME NEW t, NEW u \in Tables, Sound(t), u.generations = t.generations,
         u.active = t.active, u.indexed = t.indexed
  PROVE  Sound(u)
BY DEF Sound

LEMMA ActivatedSound ==
  ASSUME Sound(db), NEW f \in FileVersions, NEW p \in Profiles, <<f, p>> \notin db.generations
  PROVE  /\ Sound(Activated(f, p))
         /\ Activated(f, p).registered = db.registered
         /\ Activated(f, p).generations = db.generations \cup {<<f, p>>}
         /\ Activated(f, p).active = [db.active EXCEPT ![f] = p]
<1> DEFINE u == Activated(f, p)
<1>1. db \in Tables
  BY DEF Sound
<1>2. /\ u.registered = db.registered /\ u.project = db.project /\ u.papers = db.papers
      /\ u.generations = db.generations \cup {<<f, p>>}
      /\ u.active = [db.active EXCEPT ![f] = p]
      /\ u.indexed = (db.indexed \cup {<<f, p>>}) \ ActiveEntries(db.active, f)
  BY <1>1 DEF Activated, Tables
<1>3. u \in Tables
  <2>1. u.generations \subseteq Generations /\ u.indexed \subseteq Generations
    BY <1>1, <1>2 DEF Tables, Generations
  <2>2. u.active \in [FileVersions -> Profiles \cup {None}]
    BY <1>1, <1>2 DEF Tables
  <2>3. u = [db EXCEPT !.generations = u.generations, !.indexed = u.indexed,
                       !.active = u.active]
    BY <1>1, <1>2 DEF Tables, Activated
  <2> QED
    BY <1>1, <2>1, <2>2, <2>3 DEF Tables
<1>4. u.active[f] = p /\ \A g \in FileVersions : g # f => u.active[g] = db.active[g]
  BY <1>1, <1>2 DEF Tables
<1>5. \A g \in FileVersions : u.active[g] # None => <<g, u.active[g]>> \in u.generations
  BY <1>2, <1>4 DEF Sound
<1>6. db.active[f] # p
  BY NoneAssumption DEF Sound
<1>7. p # None
  BY NoneAssumption
<1>8. u.indexed = UNION {ActiveEntries(u.active, g) : g \in FileVersions}
  <2>1. ASSUME NEW x \in u.indexed
        PROVE  \E g \in FileVersions : x \in ActiveEntries(u.active, g)
    <3>1. CASE x = <<f, p>>
      BY <3>1, <1>4, <1>7 DEF ActiveEntries
    <3>2. CASE x # <<f, p>>
      <4>1. x \in db.indexed /\ x \notin ActiveEntries(db.active, f)
        BY <1>2, <2>1, <3>2
      <4>2. PICK g \in FileVersions : x \in ActiveEntries(db.active, g)
        BY <4>1 DEF Sound
      <4>3. g # f
        BY <4>1, <4>2
      <4>4. x \in ActiveEntries(u.active, g)
        BY <1>4, <4>2, <4>3 DEF ActiveEntries
      <4> QED
        BY <4>4
    <3> QED
      BY <3>1, <3>2
  <2>2. ASSUME NEW g \in FileVersions, NEW x \in ActiveEntries(u.active, g)
        PROVE  x \in u.indexed
    <3>1. CASE g = f
      <4>1. x = <<f, p>>
        BY <1>4, <2>2, <3>1 DEF ActiveEntries
      <4>2. x \notin ActiveEntries(db.active, f)
        BY <1>6, <4>1 DEF ActiveEntries
      <4> QED
        BY <1>2, <4>1, <4>2
    <3>2. CASE g # f
      <4>1. x \in ActiveEntries(db.active, g)
        BY <1>4, <2>2, <3>2 DEF ActiveEntries
      <4>2. x \in db.indexed
        BY <4>1 DEF Sound
      <4>3. x \notin ActiveEntries(db.active, f)
        BY <3>2, <4>1 DEF ActiveEntries
      <4> QED
        BY <1>2, <4>2, <4>3
    <3> QED
      BY <3>1, <3>2
  <2> QED
    BY <2>1, <2>2
<1> QED
  BY <1>2, <1>3, <1>5, <1>8 DEF Sound

-----------------------------------------------------------------------------
LEMMA InitInv == Init => IInv
<1> SUFFICES ASSUME Init PROVE IInv
  OBVIOUS
<1>1. Sound(db) /\ db.registered = {}
  <2>1. db = Empty \/ db = Created
    BY DEF Init
  <2>2. Empty.registered = {} /\ Created.registered = {}
    BY DEF Empty, Created
  <2> QED
    BY <2>1, <2>2, EmptySound
<1>2. \A c \in Creators : upgrade[c].copy = Empty /\ Empty.registered = {}
  BY DEF Init, IdleUpgrade, Empty
<1>3. TypeOK
  BY <1>1, MishapsAssumption, EmptySound
     DEF Init, TypeOK, Sound, IdleJob, Jobs, IdleUpgrade, Upgrades, InAdmission
<1>4. TablesInv /\ StoredInv
  BY <1>1, <1>2, EmptySound DEF TablesInv, StoredInv, Stored
<1>5. JobsInv
  BY DEF Init, JobsInv, Requested, Registering, IdleJob
<1> QED
  BY <1>3, <1>4, <1>5 DEF IInv

(* An importer changes its own record, and no other.                       *)
LEMMA OthersKept ==
  ASSUME job \in [Importers -> Jobs], NEW i \in Importers, NEW j \in Jobs,
         job' = [job EXCEPT ![i] = j]
  PROVE  /\ job' \in [Importers -> Jobs]
         /\ job'[i] = j
         /\ \A k \in Importers : k # i => job'[k] = job[k]
BY DEF Jobs

LEMMA EndedTyped ==
  ASSUME TypeOK, NEW i \in Importers
  PROVE  Ended(i) \in Jobs /\ Ended(i).pc = "idle" /\ ~Ended(i).here
BY DEF TypeOK, Ended, IdleJob, Jobs

(* A step of one importer keeps the admissions apart.                      *)
LEMMA JobStep ==
  ASSUME TypeOK, NEW i \in Importers, NEW j \in Jobs,
         job' = [job EXCEPT ![i] = j],
         j.pc \in {"original", "register"} => InAdmission(i) \/ Unlocked
  PROVE  /\ job' \in [Importers -> Jobs]
         /\ job'[i] = j
         /\ \A k \in Importers : k # i => job'[k] = job[k]
         /\ \A k, l \in Importers : (InAdmission(k) /\ InAdmission(l))' => k = l
<1>1. /\ job' \in [Importers -> Jobs]
      /\ job'[i] = j
      /\ \A k \in Importers : k # i => job'[k] = job[k]
  BY OthersKept DEF TypeOK
<1>2. ASSUME NEW k \in Importers, NEW l \in Importers, (InAdmission(k) /\ InAdmission(l))', k # l
      PROVE  FALSE
  <2>1. CASE k = i
    BY <1>1, <1>2, <2>1 DEF InAdmission, Unlocked, TypeOK
  <2>2. CASE l = i
    BY <1>1, <1>2, <2>2 DEF InAdmission, Unlocked, TypeOK
  <2>3. CASE k # i /\ l # i
    BY <1>1, <1>2, <2>3 DEF InAdmission, TypeOK
  <2> QED
    BY <2>1, <2>2, <2>3
<1> QED
  BY <1>1, <1>2

LogTypes == {"none", "own", "foreign"}

LEMMA LogTyped ==
  ASSUME log \in LogTypes
  PROVE  (\A w \in BOOLEAN : LogAfter(w) \in LogTypes) /\ \A i \in Importers : LogWithout(i) \in LogTypes
BY DEF LogTypes, LogAfter, LogWithout

(* A publication leaves the tables alone or adds a new generation.         *)
LEMMA PublishStep ==
  ASSUME IInv, NEW i \in Importers, Publish(i)
  PROVE  \/ db' = db
         \/ \E f \in FileVersions, p \in Profiles :
               /\ <<f, p>> \notin db.generations
               /\ db' = Activated(f, p)
               /\ Sound(db')
               /\ db'.registered = db.registered
               /\ db'.generations = db.generations \cup {<<f, p>>}
               /\ db'.active = [db.active EXCEPT ![f] = p]
<1> DEFINE f == job[i].file
           p == job[i].profile
<1>1. job[i].pc = "publish" /\ CanPublish(f, p)
  BY DEF Publish
<1>2. f \in FileVersions /\ p \in Profiles
  BY <1>1 DEF IInv, JobsInv, Requested
<1>3. CASE Reuses(f, p)
  BY <1>3 DEF Publish
<1>4. CASE ~Reuses(f, p)
  <2>1. db' = Activated(f, p)
    BY <1>4 DEF Publish
  <2>2. <<f, p>> \notin db.generations
    BY <1>1, <1>4 DEF CanPublish
  <2> HIDE DEF f, p
  <2>3. Sound(db)
    BY DEF IInv, TablesInv
  <2> QED
    BY <1>2, <2>1, <2>2, <2>3, ActivatedSound
<1> QED
  BY <1>3, <1>4

LEMMA ImportTyped ==
  ASSUME IInv, NEW i \in Importers, Import(i)
  PROVE  TypeOK'
<1> DEFINE f == job[i].file
           p == job[i].profile
<1>1. /\ TypeOK /\ job[i] \in Jobs /\ db \in Tables /\ log \in LogTypes
      /\ upgrade' = upgrade
      /\ job[i].pc # "idle" => f \in FileVersions /\ p \in Profiles
  BY DEF IInv, TypeOK, JobsInv, Requested, LogTypes, Import, Stage, Run, Admit, StoreOriginal, Register, Parse,
     Publish, Close, Fail, FailAnyway, Refuse, Crash
<1>2. db' \in Tables
  <2>1. CASE UNCHANGED db
    BY <1>1, <2>1
  <2>2. CASE Register(i)
    <3>1. f \in FileVersions
      BY <1>1, <2>2 DEF Register
    <3>2. db.registered \cup {f} \subseteq FileVersions
      BY <1>1, <3>1 DEF Tables
    <3>3. db' = [db EXCEPT !.registered = db.registered \cup {f}]
      BY <2>2 DEF Register
    <3> QED
      BY <1>1, <3>2, <3>3 DEF Tables
  <2>3. CASE Publish(i)
    BY <1>1, <2>3, PublishStep DEF Sound
  <2> QED
    BY <2>1, <2>2, <2>3 DEF Import, Stage, Run, Admit, StoreOriginal, Parse, Close, Fail, FailAnyway,
       Refuse, Crash
<1>3. log' \in LogTypes
  BY <1>1, LogTyped DEF Import, Stage, Run, Admit, StoreOriginal, Register, Parse, Publish, Close,
     Fail, FailAnyway, Refuse, Crash, Rollback, LogTypes
<1>4. originals' \subseteq Contents
  BY <1>1 DEF Import, Stage, Run, Admit, StoreOriginal, Register, Parse, Publish, Close,
     Fail, FailAnyway, Refuse, Crash, Rollback, TypeOK, FileVersions, Content
<1>5. mishaps' \in 0..MaxMishaps
  <2>1. UNCHANGED mishaps \/ Mishap
    BY DEF Import, Stage, Run, Admit, StoreOriginal, Register, Parse, Publish,
       Close, Fail, FailAnyway, Refuse, Crash
  <2>2. mishaps \in 0..MaxMishaps
    BY <1>1 DEF TypeOK
  <2> QED
    BY <2>1, <2>2, MishapsAssumption DEF Mishap
<1>6. acknowledged' \subseteq Generations
  <2>1. acknowledged \subseteq Generations
    BY <1>1 DEF TypeOK
  <2>2. CASE UNCHANGED acknowledged
    BY <2>1, <2>2
  <2>3. CASE acknowledged' = acknowledged \cup {<<f, p>>} /\ job[i].pc = "published"
    BY <1>1, <2>1, <2>3 DEF Generations
  <2>4. UNCHANGED acknowledged \/
        (acknowledged' = acknowledged \cup {<<f, p>>} /\ job[i].pc = "published")
    BY DEF Import, Stage, Run, Admit, StoreOriginal, Register, Parse, Publish, Close,
       Fail, FailAnyway, Refuse, Crash
  <2> QED
    BY <2>2, <2>3, <2>4
<1>7. \E j \in Jobs : /\ job' = [job EXCEPT ![i] = j]
                      /\ j.pc \in {"original", "register"} => InAdmission(i) \/ Unlocked
  <2>1. CASE Stage(i)
    <3>1. PICK r \in Requests(i) : r[1][1] \in db.papers /\ job' = [job EXCEPT ![i] =
            [pc |-> "staged", file |-> r[1], profile |-> r[2], here |-> FALSE]]
      BY <2>1 DEF Stage
    <3>2. r[1] \in FileVersions \cup {None} /\ r[2] \in Profiles \cup {None}
      BY <1>1 DEF Requests, Generations, Jobs
    <3>3. \A x \in FileVersions \cup {None}, y \in Profiles \cup {None} :
            [pc |-> "staged", file |-> x, profile |-> y, here |-> FALSE] \in Jobs
      BY DEF Jobs
    <3> QED
      BY <3>1, <3>2, <3>3
  <2>2. CASE Admit(i)
    <3>1. [job[i] EXCEPT !.pc = "original"] \in Jobs
      BY <1>1 DEF Jobs
    <3> QED
      BY <2>2, <3>1 DEF Admit
  <2>3. CASE StoreOriginal(i)
    <3> DEFINE h == Content(f) \notin originals
    <3>1. [job[i] EXCEPT !.pc = "register", !.here = h] \in Jobs
      BY <1>1 DEF Jobs
    <3>2. InAdmission(i)
      BY <2>3 DEF StoreOriginal, InAdmission
    <3> QED
      BY <2>3, <3>1, <3>2 DEF StoreOriginal
  <2>4. CASE Register(i)
    <3>1. [job[i] EXCEPT !.pc = "registered"] \in Jobs
      BY <1>1 DEF Jobs
    <3> QED
      BY <2>4, <3>1, <1>1 DEF Register, Jobs
  <2>5. CASE Parse(i)
    <3>1. [job[i] EXCEPT !.pc = "publish"] \in Jobs
      BY <1>1 DEF Jobs
    <3> QED
      BY <2>5, <3>1, <1>1 DEF Parse, Jobs
  <2>6. CASE Publish(i)
    <3>1. [job[i] EXCEPT !.pc = "published"] \in Jobs
      BY <1>1 DEF Jobs
    <3> QED
      BY <2>6, <3>1, <1>1 DEF Publish, Jobs
  <2>7. CASE Close(i)
    <3>1. [job[i] EXCEPT !.pc = "parse"] \in Jobs /\ IdleJob \in Jobs
      BY <1>1 DEF Jobs, IdleJob
    <3> QED
      BY <2>7, <3>1, <1>1 DEF Close, Jobs, IdleJob
  <2>8. CASE Fail(i) \/ FailAnyway(i) \/ Refuse(i) \/ Crash(i)
    BY <1>1, <2>8, EndedTyped DEF Fail, FailAnyway, Refuse, Crash, Rollback
  <2> QED
    BY <2>1, <2>2, <2>3, <2>4, <2>5, <2>6, <2>7, <2>8 DEF Import, Run
<1>8. /\ job' \in [Importers -> Jobs]
      /\ \A k, l \in Importers : (InAdmission(k) /\ InAdmission(l))' => k = l
  BY <1>1, <1>7, JobStep
<1> QED
  BY <1>1, <1>2, <1>3, <1>4, <1>5, <1>6, <1>8 DEF TypeOK, LogTypes

LEMMA OtherTyped ==
  ASSUME IInv,
         (\E p \in Papers : CreatePaper(p)) \/ (\E c \in Creators : Create(c)) \/ UNCHANGED vars
  PROVE  TypeOK'
<1>1. TypeOK /\ db \in Tables /\ log \in LogTypes /\ Empty \in Tables
  BY EmptySound DEF IInv, TypeOK, LogTypes, Sound
<1>2. ASSUME NEW p \in Papers, CreatePaper(p) PROVE TypeOK'
  <2>1. db' \in Tables
    BY <1>1, <1>2 DEF CreatePaper, Tables
  <2>2. log' \in LogTypes
    BY <1>1, <1>2, LogTyped DEF CreatePaper
  <2> QED
    BY <1>1, <1>2, <2>1, <2>2 DEF CreatePaper, TypeOK, LogTypes, InAdmission
<1>3. ASSUME NEW c \in Creators, Create(c) PROVE TypeOK'
  <2>1. upgrade[c] \in Upgrades
    BY <1>1 DEF TypeOK
  <2>2. db' \in Tables
    BY <1>1, <1>3, <2>1 DEF Create, Copy, Replace, InsertProject, Abandon, Upgrades, Tables
  <2>3. log' \in LogTypes
    <3>1. (~db.project) \in BOOLEAN
      OBVIOUS
    <3> QED
      BY <1>1, <1>3, <3>1, LogTyped DEF Create, Copy, Replace, InsertProject, Abandon, LogTypes
  <2>4. upgrade' \in [Creators -> Upgrades]
    <3>1. /\ [pc |-> "copied", copy |-> db] \in Upgrades
          /\ [pc |-> "replaced", copy |-> Empty] \in Upgrades
          /\ IdleUpgrade \in Upgrades
      BY <1>1 DEF Upgrades, IdleUpgrade
    <3> QED
      BY <1>1, <1>3, <3>1 DEF Create, Copy, Replace, InsertProject, Abandon, TypeOK
  <2> QED
    BY <1>1, <1>3, <2>2, <2>3, <2>4
       DEF Create, Copy, Replace, InsertProject, Abandon, TypeOK, LogTypes, InAdmission
<1>4. CASE UNCHANGED vars
  BY <1>1, <1>4 DEF vars, TypeOK, InAdmission
<1> QED
  BY <1>2, <1>3, <1>4

-----------------------------------------------------------------------------
LEMMA CopiesAfter ==
  ASSUME TypeOK, NEW c \in Creators, Create(c)
  PROVE  \A d \in Creators : upgrade'[d].copy \in {upgrade[d].copy, db, Empty}
<1>1. CASE Copy(c)
  BY <1>1 DEF Copy, TypeOK
<1>2. CASE Replace(c)
  BY <1>2 DEF Replace, TypeOK
<1>3. CASE InsertProject(c) \/ Abandon(c)
  BY <1>3 DEF InsertProject, Abandon, IdleUpgrade, TypeOK
<1> QED
  BY <1>1, <1>2, <1>3 DEF Create

(* The database stays sound, and so do the copies of it.                   *)
LEMMA TablesStep ==
  ASSUME IInv, [Next]_vars, TypeOK'
  PROVE  TablesInv'
<1>1. Sound(db) /\ \A c \in Creators : Sound(upgrade[c].copy)
  BY DEF IInv, TablesInv
<1>2. TypeOK /\ db \in Tables /\ db' \in Tables
  BY DEF IInv, TypeOK
<1>3. CASE \E p \in Papers : CreatePaper(p)
  <2>1. /\ db'.generations = db.generations /\ db'.active = db.active
        /\ db'.indexed = db.indexed /\ upgrade' = upgrade
    BY <1>2, <1>3 DEF CreatePaper, Tables
  <2> QED
    BY <1>1, <1>2, <2>1, SameSound DEF TablesInv
<1>4. ASSUME NEW i \in Importers, Import(i) PROVE TablesInv'
  <2>1. upgrade' = upgrade
    BY <1>4 DEF Import, Stage, Run, Admit, StoreOriginal, Register, Parse, Publish, Close, Fail,
       FailAnyway, Refuse, Crash
  <2>2. CASE UNCHANGED db
    BY <1>1, <2>1, <2>2 DEF TablesInv
  <2>3. CASE Register(i)
    <3>1. /\ db'.generations = db.generations /\ db'.active = db.active
          /\ db'.indexed = db.indexed
      BY <1>2, <2>3 DEF Register, Tables
    <3> QED
      BY <1>1, <1>2, <2>1, <3>1, SameSound DEF TablesInv
  <2>4. CASE Publish(i)
    <3>1. Sound(db')
      BY <1>1, <2>4, PublishStep
    <3> QED
      BY <1>1, <2>1, <3>1 DEF TablesInv
  <2> QED
    BY <1>4, <2>2, <2>3, <2>4 DEF Import, Stage, Run, Admit, StoreOriginal, Parse, Close, Fail,
       FailAnyway, Refuse, Crash
<1>5. ASSUME NEW c \in Creators, Create(c) PROVE TablesInv'
  <2>1. \A d \in Creators : upgrade'[d].copy \in {upgrade[d].copy, db, Empty}
    BY <1>5, CopiesAfter DEF IInv
  <2>2. \A d \in Creators : Sound(upgrade'[d].copy)
    BY <1>1, <2>1, EmptySound
  <2>3. \/ db' \in {db, upgrade[c].copy}
        \/ db' = [db EXCEPT !.project = TRUE]
    BY <1>5 DEF Create, Copy, Replace, InsertProject, Abandon
  <2>4. CASE db' = [db EXCEPT !.project = TRUE]
    <3>1. /\ db'.generations = db.generations /\ db'.active = db.active
          /\ db'.indexed = db.indexed
      BY <1>2, <2>4 DEF Tables
    <3> QED
      BY <1>1, <1>2, <2>2, <3>1, SameSound DEF TablesInv
  <2> QED
    BY <1>1, <2>2, <2>3, <2>4 DEF TablesInv
<1>6. CASE UNCHANGED vars
  BY <1>1, <1>6 DEF vars, TablesInv
<1> QED
  BY <1>3, <1>4, <1>5, <1>6 DEF Next

(* What is registered after a step of an import: one file version more.    *)
LEMMA RegisteredAfter ==
  ASSUME IInv, NEW i \in Importers, Import(i)
  PROVE  \/ db'.registered = db.registered
         \/ /\ Register(i) /\ InAdmission(i)
            /\ db'.registered = db.registered \cup {job[i].file}
<1>1. db \in Tables
  BY DEF IInv, TypeOK
<1>2. CASE Register(i)
  BY <1>1, <1>2 DEF Register, Tables, InAdmission
<1>3. CASE Publish(i)
  BY <1>3, PublishStep
<1> QED
  BY <1>2, <1>3 DEF Import, Stage, Run, Admit, StoreOriginal, Parse, Close, Fail, FailAnyway,
     Refuse, Crash

(* An original is taken away only when nothing refers to it.               *)
LEMMA OriginalsAfter ==
  ASSUME IInv, NEW i \in Importers, Import(i)
  PROVE  \/ originals \subseteq originals'
         \/ /\ Refuse(i) /\ InAdmission(i)
            /\ originals' = originals \ {Content(job[i].file)}
            /\ Lacks(db, Content(job[i].file))
            /\ \A c \in Creators : Lacks(upgrade[c].copy, Content(job[i].file))
<1>1. CASE Refuse(i)
  BY <1>1 DEF Refuse, CleansUp, InAdmission, IInv, JobsInv, Registering
<1>2. CASE StoreOriginal(i)
  BY <1>2 DEF StoreOriginal
<1> QED
  BY <1>1, <1>2 DEF Import, Stage, Run, Admit, Register, Parse, Publish, Close, Fail, FailAnyway, Crash

LEMMA StoredStep ==
  ASSUME IInv, [Next]_vars
  PROVE  StoredInv'
<1>1. Stored(db) /\ \A c \in Creators : Stored(upgrade[c].copy)
  BY DEF IInv, StoredInv
<1>2. TypeOK /\ db \in Tables
  BY DEF IInv, TypeOK
<1>3. CASE \E p \in Papers : CreatePaper(p)
  <2>1. db'.registered = db.registered /\ upgrade' = upgrade /\ originals' = originals
    BY <1>2, <1>3 DEF CreatePaper, Tables
  <2> QED
    BY <1>1, <2>1 DEF StoredInv, Stored
<1>4. ASSUME NEW i \in Importers, Import(i) PROVE StoredInv'
  <2> DEFINE c == Content(job[i].file)
  <2>1. upgrade' = upgrade
    BY <1>4 DEF Import, Stage, Run, Admit, StoreOriginal, Register, Parse, Publish, Close, Fail,
       FailAnyway, Refuse, Crash
  <2>2. CASE Register(i)
    <3>1. c \in originals /\ originals' = originals
      BY <2>2 DEF Register, IInv, JobsInv, Registering
    <3>2. \A f \in db'.registered : Content(f) \in originals
      BY <1>1, <1>4, <3>1, RegisteredAfter DEF Stored
    <3> QED
      BY <1>1, <2>1, <3>1, <3>2 DEF StoredInv, Stored
  <2>3. CASE ~Register(i)
    <3>1. db'.registered = db.registered
      BY <1>4, <2>3, RegisteredAfter
    <3> QED
      BY <1>1, <1>4, <2>1, <3>1, OriginalsAfter DEF StoredInv, Stored, Lacks
  <2> QED
    BY <2>2, <2>3
<1>5. ASSUME NEW c \in Creators, Create(c) PROVE StoredInv'
  <2>1. \A d \in Creators : upgrade'[d].copy \in {upgrade[d].copy, db, Empty}
    BY <1>5, CopiesAfter DEF IInv
  <2>2. \/ db' \in {db, upgrade[c].copy}
        \/ db'.registered = db.registered
    BY <1>2, <1>5 DEF Create, Copy, Replace, InsertProject, Abandon, Tables
  <2>3. originals' = originals /\ Empty.registered = {}
    BY <1>5 DEF Create, Copy, Replace, InsertProject, Abandon, Empty
  <2>4. \A d \in Creators : \A f \in upgrade'[d].copy.registered : Content(f) \in originals
    BY <1>1, <2>1, <2>3 DEF Stored
  <2>5. \A f \in db'.registered : Content(f) \in originals
    BY <1>1, <2>2 DEF Stored
  <2> QED
    BY <2>3, <2>4, <2>5 DEF StoredInv, Stored
<1>6. CASE UNCHANGED vars
  BY <1>1, <1>6 DEF vars, StoredInv, Stored
<1> QED
  BY <1>3, <1>4, <1>5, <1>6 DEF Next

(* What a step of an import leaves of every import's record.               *)
LEMMA JobAfter ==
  ASSUME IInv, NEW i \in Importers, Import(i)
  PROVE  /\ \A k \in Importers : k # i => job'[k] = job[k]
         /\ Requested(i)'
         /\ job'[i].pc = "register" => StoreOriginal(i)
<1>1. TypeOK /\ job[i] \in Jobs /\ Requested(i)
  BY DEF IInv, TypeOK, JobsInv
<1>2. CASE Stage(i)
  <2>1. PICK r \in Requests(i) : r[1][1] \in db.papers /\ job' = [job EXCEPT ![i] =
          [pc |-> "staged", file |-> r[1], profile |-> r[2], here |-> FALSE]]
    BY <1>2 DEF Stage
  <2>2. job'[i].pc = "staged" /\ job'[i].file = r[1] /\ job'[i].profile = r[2]
    BY <1>1, <2>1 DEF TypeOK
  <2>3. r[1] \in FileVersions /\ r[2] \in Profiles
    BY <1>1 DEF Requests, Requested, Generations
  <2> QED
    BY <1>1, <2>1, <2>2, <2>3 DEF TypeOK, Requested
<1>3. CASE Close(i)
  <2>1. PICK j : job' = [job EXCEPT ![i] = j] /\ j \in {[job[i] EXCEPT !.pc = "parse"], IdleJob}
    BY <1>3 DEF Close
  <2>2. job'[i] = j
    BY <1>1, <2>1 DEF TypeOK
  <2>3. job[i].pc # "idle"
    BY <1>3 DEF Close
  <2>4. CASE j = IdleJob
    BY <1>1, <2>1, <2>2, <2>4 DEF TypeOK, Requested, IdleJob
  <2>5. CASE j = [job[i] EXCEPT !.pc = "parse"]
    BY <1>1, <2>1, <2>2, <2>3, <2>5 DEF TypeOK, Jobs, Requested
  <2> QED
    BY <2>1, <2>4, <2>5
<1>4. CASE Fail(i) \/ FailAnyway(i) \/ Refuse(i) \/ Crash(i)
  <2>1. job' = [job EXCEPT ![i] = Ended(i)]
    BY <1>4 DEF Fail, FailAnyway, Refuse, Crash, Rollback
  <2>2. job'[i] = Ended(i)
    BY <1>1, <2>1 DEF TypeOK
  <2>3. /\ Ended(i).pc = "idle"
        /\ Ended(i).file # None => Ended(i).file = job[i].file /\ Ended(i).profile = job[i].profile
    BY <1>1 DEF Ended, IdleJob, Jobs
  <2> QED
    BY <1>1, <2>1, <2>2, <2>3 DEF TypeOK, Requested
<1>5. CASE Admit(i) \/ StoreOriginal(i) \/ Register(i) \/ Parse(i) \/ Publish(i)
  <2>1. /\ job'[i].file = job[i].file /\ job'[i].profile = job[i].profile
        /\ job[i].pc # "idle"
        /\ \A k \in Importers : k # i => job'[k] = job[k]
    BY <1>1, <1>5 DEF Admit, StoreOriginal, Register, Parse, Publish, TypeOK, Jobs
  <2>2. job'[i].pc = "register" => StoreOriginal(i)
    BY <1>1, <1>5 DEF Admit, StoreOriginal, Register, Parse, Publish, TypeOK, Jobs
  <2> QED
    BY <1>1, <2>1, <2>2 DEF Requested
<1> QED
  BY <1>2, <1>3, <1>4, <1>5 DEF Import, Run

(* While an import is about to register, its admission holds the write     *)
(* lock and keeps the database file open: nobody commits or replaces it.   *)
LEMMA JobsStep ==
  ASSUME IInv, [Next]_vars
  PROVE  JobsInv'
<1>1. /\ TypeOK /\ db \in Tables /\ JobsInv /\ StoredInv
  BY DEF IInv, TypeOK
<1>2. ASSUME NEW k \in Importers, job'[k] = job[k] PROVE Requested(k)'
  BY <1>1, <1>2 DEF JobsInv, Requested
<1>3. ASSUME NEW k \in Importers, job'[k] = job[k], originals \subseteq originals',
             db'.registered = db.registered,
             \A c \in Creators : upgrade'[c].copy \in {upgrade[c].copy, db, Empty}
      PROVE  Registering(k)'
  <2>1. Empty.registered = {}
    BY DEF Empty
  <2>2. Registering(k)
    BY <1>1 DEF JobsInv
  <2> QED
    BY <1>3, <2>1, <2>2 DEF Registering, Lacks
<1>4. ASSUME NEW p \in Papers, CreatePaper(p) PROVE JobsInv'
  <2>1. db'.registered = db.registered /\ UNCHANGED <<upgrade, originals, job>>
    BY <1>1, <1>4 DEF CreatePaper, Tables
  <2> QED
    BY <1>2, <1>3, <2>1 DEF JobsInv
<1>5. ASSUME NEW i \in Importers, Import(i) PROVE JobsInv'
  <2>1. upgrade' = upgrade
    BY <1>5 DEF Import, Stage, Run, Admit, StoreOriginal, Register, Parse, Publish, Close, Fail,
       FailAnyway, Refuse, Crash
  <2>2. ASSUME NEW k \in Importers, k # i PROVE Registering(k)'
    <3>1. job'[k] = job[k]
      BY <1>5, <2>2, JobAfter
    <3>2. CASE job[k].pc = "register"
      <4>1. ~InAdmission(i)
        BY <1>1, <2>2, <3>2 DEF TypeOK, InAdmission
      <4>2. db'.registered = db.registered /\ originals \subseteq originals'
        BY <1>5, <4>1, RegisteredAfter, OriginalsAfter
      <4> QED
        BY <1>3, <2>1, <3>1, <4>2
    <3>3. CASE job[k].pc # "register"
      BY <3>1, <3>3 DEF Registering
    <3> QED
      BY <3>2, <3>3
  <2>3. Registering(i)'
    <3>1. CASE StoreOriginal(i)
      <4> DEFINE c == Content(job[i].file)
      <4>1. /\ job'[i].file = job[i].file /\ job'[i].here = (c \notin originals)
            /\ originals' = originals \cup {c} /\ db' = db
        BY <1>1, <3>1 DEF StoreOriginal, TypeOK, Jobs
      <4>2. c \notin originals => Lacks(db, c) /\ \A d \in Creators : Lacks(upgrade[d].copy, c)
        BY <1>1 DEF StoredInv, Stored, Lacks
      <4> QED
        BY <2>1, <4>1, <4>2 DEF Registering
    <3>2. CASE ~StoreOriginal(i)
      BY <1>5, <3>2, JobAfter DEF Registering
    <3> QED
      BY <3>1, <3>2
  <2>4. \A k \in Importers : Requested(k)'
    BY <1>2, <1>5, JobAfter
  <2> QED
    BY <2>2, <2>3, <2>4 DEF JobsInv
<1>6. ASSUME NEW c \in Creators, Create(c) PROVE JobsInv'
  <2>1. job' = job /\ originals' = originals
    BY <1>6 DEF Create, Copy, Replace, InsertProject, Abandon
  <2>2. \A d \in Creators : upgrade'[d].copy \in {upgrade[d].copy, db, Empty}
    BY <1>1, <1>6, CopiesAfter
  <2>3. CASE Replace(c)
    <3>1. \A k \in Importers : job[k].pc # "register"
      BY <2>3 DEF Replace, AllClosed, Open, InAdmission
    <3> QED
      BY <1>2, <2>1, <3>1 DEF JobsInv, Registering
  <2>4. CASE ~Replace(c)
    <3>1. db'.registered = db.registered
      BY <1>1, <1>6, <2>4 DEF Create, Copy, InsertProject, Abandon, Tables
    <3> QED
      BY <1>2, <1>3, <2>1, <2>2, <3>1 DEF JobsInv
  <2> QED
    BY <2>3, <2>4
<1>7. CASE UNCHANGED vars
  BY <1>2, <1>3, <1>7 DEF vars, JobsInv
<1> QED
  BY <1>4, <1>5, <1>6, <1>7 DEF Next

LEMMA StepInv == IInv /\ [Next]_vars => IInv'
<1> SUFFICES ASSUME IInv, [Next]_vars PROVE IInv'
  OBVIOUS
<1>1. TypeOK'
  BY ImportTyped, OtherTyped DEF Next
<1> QED
  BY <1>1, TablesStep, StoredStep, JobsStep DEF IInv

(* The tables, the jobs and what is stored of a project agree in every     *)
(* reachable state, whatever imports, crashes and upgrades interleave.     *)
THEOREM AlwaysInv == Spec => []IInv
BY InitInv, StepInv, PTL DEF Spec

-----------------------------------------------------------------------------
(* Types are kept, and of all admissions only one is in its transaction.   *)
THEOREM TypeCorrect == Spec => []TypeOK
BY AlwaysInv, PTL DEF IInv

(* A registered file version has its original, although originals are      *)
(* stored before their row is committed, removed when the insert fails,    *)
(* shared between papers, and rows may return with a copy of the database. *)
THEOREM OriginalsKept == Spec => []RegisteredHasOriginal
<1>1. IInv => RegisteredHasOriginal
  BY DEF IInv, StoredInv, Stored, RegisteredHasOriginal
<1> QED
  BY <1>1, AlwaysInv, PTL

(* Full-text search sees the chunks of exactly the active generations.     *)
THEOREM IndexExact == Spec => []IndexedIsActive
<1>1. IInv => IndexedIsActive
  BY DEF IInv, TablesInv, Sound, IndexedIsActive
<1> QED
  BY <1>1, AlwaysInv, PTL

-----------------------------------------------------------------------------
(* Without a replacement of the database, the generations and pointers     *)
(* change by one publication at a time.                                    *)
LEMMA OnePublication ==
  ASSUME IInv, [Next]_vars, Creators = {}
  PROVE  \/ db'.generations = db.generations /\ db'.active = db.active
         \/ \E f \in FileVersions, p \in Profiles :
               /\ <<f, p>> \notin db.generations
               /\ db'.generations = db.generations \cup {<<f, p>>}
               /\ db'.active = [db.active EXCEPT ![f] = p]
<1>1. db \in Tables
  BY DEF IInv, TypeOK
<1>2. CASE \E p \in Papers : CreatePaper(p)
  BY <1>1, <1>2 DEF CreatePaper, Tables
<1>3. ASSUME NEW i \in Importers, Register(i)
      PROVE  db'.generations = db.generations /\ db'.active = db.active
  BY <1>1, <1>3 DEF Register, Tables
<1>4. ASSUME NEW i \in Importers, Import(i), ~Register(i), ~Publish(i) PROVE db' = db
  BY <1>4 DEF Import, Stage, Run, Admit, StoreOriginal, Parse, Close, Fail, FailAnyway, Refuse, Crash
<1>5. CASE UNCHANGED vars
  BY <1>5 DEF vars
<1>6. ASSUME NEW i \in Importers, Publish(i)
      PROVE  \/ db' = db
             \/ \E f \in FileVersions, p \in Profiles :
                   /\ <<f, p>> \notin db.generations
                   /\ db'.generations = db.generations \cup {<<f, p>>}
                   /\ db'.active = [db.active EXCEPT ![f] = p]
  BY <1>6, PublishStep
<1> QED
  BY <1>2, <1>3, <1>4, <1>5, <1>6 DEF Next

(* When no `project create` runs on an existing project, a pointer moves   *)
(* only to a generation that was not there before.                         *)
THEOREM PointersForward ==
  ASSUME Creators = {} PROVE Spec => PointersNeverReturn
<1>1. IInv /\ [Next]_vars =>
        [\A f \in FileVersions :
           db'.active[f] # db.active[f] =>
             <<f, db'.active[f]>> \in db'.generations \ db.generations]_vars
  <2> SUFFICES ASSUME IInv, [Next]_vars, NEW f \in FileVersions, db'.active[f] # db.active[f]
               PROVE  <<f, db'.active[f]>> \in db'.generations \ db.generations
    OBVIOUS
  <2>1. PICK g \in FileVersions, p \in Profiles :
          /\ <<g, p>> \notin db.generations
          /\ db'.generations = db.generations \cup {<<g, p>>}
          /\ db'.active = [db.active EXCEPT ![g] = p]
    BY OnePublication
  <2>2. db.active \in [FileVersions -> Profiles \cup {None}]
    BY DEF IInv, TypeOK, Tables
  <2>3. f = g /\ db'.active[f] = p
    BY <2>1, <2>2
  <2> QED
    BY <2>1, <2>3
<1> QED
  BY <1>1, AlwaysInv, PTL DEF Spec, PointersNeverReturn

Of(generations, f) == {p \in Profiles : <<f, p>> \in generations}

LEMMA CountIncreases ==
  ASSUME NEW generations, NEW f \in FileVersions, NEW p \in Profiles, <<f, p>> \notin generations
  PROVE  LET more == generations \cup {<<f, p>>} IN
         /\ Cardinality(Of(more, f)) = Cardinality(Of(generations, f)) + 1
         /\ Cardinality(Of(generations, f)) \in 0..Cardinality(Profiles)
         /\ Cardinality(Of(generations, f)) < Cardinality(Profiles)
         /\ \A g \in FileVersions : g # f => Of(more, g) = Of(generations, g)
<1> DEFINE more == generations \cup {<<f, p>>}
           old == Of(generations, f)
<1>1. old \subseteq Profiles /\ IsFiniteSet(old) /\ p \notin old
  BY ProfilesAssumption, FS_Subset DEF Of
<1>2. Of(more, f) = old \cup {p}
  BY DEF Of
<1>3. Cardinality(old \cup {p}) = Cardinality(old) + 1
  BY <1>1, FS_AddElement
<1>4. /\ Cardinality(old \cup {p}) <= Cardinality(Profiles)
      /\ Cardinality(Profiles) \in Nat /\ Cardinality(old) \in Nat
  BY <1>1, ProfilesAssumption, FS_Subset, FS_CardinalityType
<1>5. \A g \in FileVersions : g # f => Of(more, g) = Of(generations, g)
  BY DEF Of
<1> HIDE DEF old, more
<1>6. Cardinality(old) < Cardinality(Profiles) /\ Cardinality(old) \in 0..Cardinality(Profiles)
  BY <1>3, <1>4
<1> QED
  BY <1>2, <1>3, <1>5, <1>6 DEF old, more

(* When no `project create` runs on an existing project, its sources       *)
(* change as VectorIndex, and with it VectorGenerations, assumes.          *)
THEOREM SourcesImplement ==
  ASSUME Creators = {} PROVE Spec => ImplementsSources
<1>1. Init => Index!IndexInit
  <2> SUFFICES ASSUME Init PROVE PublishedCount = [f \in FileVersions |-> 0]
    BY DEF Index!IndexInit, Index!Unpublished
  <2>1. db = Created /\ Created.generations = {}
    BY DEF Init, Created, Empty
  <2>2. \A f \in FileVersions : {p \in Profiles : <<f, p>> \in db.generations} = {}
    BY <2>1
  <2> QED
    BY <2>2, FS_EmptySet DEF PublishedCount
<1>2. IInv /\ [Next]_vars => [Index!IndexNext]_Index!indexVars
  <2> SUFFICES ASSUME IInv, [Next]_vars, PublishedCount' # PublishedCount
               PROVE  PublishedCount' \in Index!Successors(PublishedCount)
    BY DEF Index!IndexNext, Index!SourceChange, Index!indexVars
  <2>1. PublishedCount = [f \in FileVersions |-> Cardinality(Of(db.generations, f))]
    BY DEF PublishedCount, Of
  <2>2. PublishedCount' = [f \in FileVersions |-> Cardinality(Of(db'.generations, f))]
    BY DEF PublishedCount, Of
  <2>3. PICK f \in FileVersions, p \in Profiles :
          /\ <<f, p>> \notin db.generations
          /\ db'.generations = db.generations \cup {<<f, p>>}
    BY <2>1, <2>2, OnePublication
  <2>4. /\ PublishedCount[f] < Cardinality(Profiles)
        /\ PublishedCount' = [PublishedCount EXCEPT ![f] = PublishedCount[f] + 1]
    BY <2>1, <2>2, <2>3, CountIncreases
  <2> QED
    BY <2>4 DEF Index!Successors
<1> QED
  BY <1>1, <1>2, AlwaysInv, PTL DEF Spec, ImplementsSources, Index!IndexSpec
=============================================================================
