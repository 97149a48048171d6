------------------------- MODULE LocalAnswerProofs --------------------------
(***************************************************************************)
(* Proofs about LocalAnswer: it keeps the invariants of its question, its  *)
(* stream and its operation, and answers only what is current and what a   *)
(* whole stream and a clean operation have brought.                        *)
(***************************************************************************)
EXTENDS LocalAnswer, GenerationStreamProofs

-----------------------------------------------------------------------------
(* The question (SinglePaperAsk), for any number of files and publications.*)
(* The invariant follows what the reads have established so far: pointers  *)
(* only grow, so a source read twice has been the source all the time in   *)
(* between, in which the index was read.                                   *)

(* An index that is served is that of the current sources.                 *)
ServedInv == served # None => served = current

(* What has been read is not newer than what is active, and what was read  *)
(* later is not older.                                                     *)
ReadInv ==
  /\ at > 1 => source \in Sources /\ source[2] <= current[source[1]]
  /\ at > 2 => /\ scope \in Sources /\ scope[2] <= current[scope[1]]
               /\ source[1] = scope[1] => source[2] <= scope[2]
  /\ at > 3 => /\ identity \in Snapshots
               /\ Precedes(identity, current)
               /\ scope[2] <= identity[scope[1]]

(* What the reads have shown to belong together.                           *)
AgreeInv ==
  /\ at > 4 => \A f \in Paper :
                 identity[f] = IF f = scope[1] THEN scope[2] ELSE 0
  /\ at > 6 => scope = source

(* The request never contradicts its source without a publication.         *)
NotInternal == verdict # "internal"

IInv == AskTypeOK /\ ServedInv /\ ReadInv /\ AgreeInv /\ NotInternal

(* Where the reads of a kind stand in ask.                                 *)
LEMMA ScriptFacts ==
  /\ Len(Script) = 24
  /\ \A i \in 1..24 :
       /\ Script[i] = "source" <=> i = 1
       /\ Script[i] = "scope" <=> i = 2
       /\ Script[i] = "identity" <=> i = 3
       /\ Script[i] = "compare" <=> i = 6
       /\ i = 4 => Script[i] = "recheck source"
       /\ i = 24 => Script[i] = "recheck identity"
  BY DEF Script

(* Publishing a document never lowers a pointer.                           *)
LEMMA SuccessorsGrow ==
  ASSUME NEW s \in Snapshots, NEW t \in Successors(s)
  PROVE  t \in Snapshots /\ Precedes(s, t)
  <1>1. PICK f \in Files : s[f] < MaxVersion /\ t = [s EXCEPT ![f] = s[f] + 1]
    BY DEF Successors
  <1>2. \A g \in Files : s[g] \in 0..MaxVersion
    BY DEF Snapshots
  <1>3. s[f] + 1 \in 0..MaxVersion
    BY <1>1, <1>2, VersionAssumption
  <1>4. t \in Snapshots
    BY <1>1, <1>3 DEF Snapshots
  <1>5. \A g \in Files : t[g] = IF g = f THEN s[g] + 1 ELSE s[g]
    BY <1>1 DEF Snapshots
  <1>6. Precedes(s, t)
    BY <1>2, <1>5, VersionAssumption DEF Precedes
  <1> QED BY <1>4, <1>6

LEMMA InitInv == AskInit => IInv
  <1> SUFFICES ASSUME AskInit PROVE IInv
    OBVIOUS
  <1>1. AskTypeOK
    <2>1. current \in Snapshots
      BY VersionAssumption DEF AskInit, IndexInit, Unpublished, Snapshots
    <2>2. at \in 1..Len(Script)
      <3>1. at = 1 /\ Len(Script) = 24
        BY ScriptFacts DEF AskInit
      <3> QED BY <3>1
    <2> QED BY <2>1, <2>2 DEF AskInit, IndexInit, AskTypeOK
  <1>2. ServedInv /\ ReadInv /\ AgreeInv /\ NotInternal
    BY DEF AskInit, IndexInit, ServedInv, ReadInv, AgreeInv, NotInternal
  <1> QED BY <1>1, <1>2 DEF IInv

(* What a read may return without an answer.                               *)
Refusals == {"abstained", "no answer", "not_current", "unavailable", "internal"}

(* A read that passes goes on by one or releases the answer at the end; one *)
(* that does not stays.                                                    *)
Moves ==
  /\ at' \in 1..24
  /\ \/ at' = at + 1 /\ verdict' = "none"
     \/ at' = at /\ verdict' \in Refusals
     \/ at' = at /\ at = 24 /\ verdict' = "answered"

LEMMA PassMoves ==
  ASSUME at \in 1..24, verdict = "none", Pass
  PROVE  Moves
  <1>1. CASE at = 24
    BY <1>1, ScriptFacts DEF Pass, AtEnd, Moves
  <1>2. CASE at # 24
    <2>1. at' = at + 1 /\ verdict' = "none"
      BY <1>2, ScriptFacts DEF Pass, AtEnd
    <2> QED BY <1>2, <2>1 DEF Moves
  <1> QED BY <1>1, <1>2

LEMMA AskMoves ==
  ASSUME IInv, Ask
  PROVE  UNCHANGED indexVars /\ verdict = "none" /\ Moves
  <1>1. at \in 1..24
    BY ScriptFacts DEF IInv, AskTypeOK
  <1>2. ASSUME NEW r \in Refusals, Return(r)
        PROVE  Moves
    BY <1>1, <1>2 DEF Return, Moves
  <1>3. UNCHANGED indexVars /\ verdict = "none"
    BY DEF Ask, Reads, AdmitSource, PrepareScope, PrepareIdentity, RecheckSource,
           RecheckIdentity, Compare, SearchLexical, SearchSemantic,
           ResolveParents, BuildBundle, AskModel, RebuildBundle, LastLook, ReleaseSource
  <1>4. Pass \/ \E r \in Refusals : Return(r)
    BY DEF Ask, Check, Resolve, Refusals, AdmitSource, PrepareScope,
           PrepareIdentity, RecheckSource, RecheckIdentity, Compare,
           SearchLexical, SearchSemantic, ResolveParents, BuildBundle, AskModel,
           RebuildBundle, LastLook, ReleaseSource
  <1> QED BY <1>1, <1>2, <1>3, <1>4, PassMoves

(* A read changes what it has read, and nothing else, at its own place.    *)
LEMMA AskReads ==
  ASSUME IInv, Ask
  PROVE  /\ at = 1 => AdmitSource
         /\ at = 2 => PrepareScope
         /\ at = 3 => PrepareIdentity
         /\ at = 4 => RecheckSource
         /\ at = 6 => Compare
         /\ at = 24 => RecheckIdentity
         /\ at # 1 => source' = source
         /\ at # 2 => scope' = scope
         /\ at # 3 => identity' = identity
  <1> USE ScriptFacts DEF IInv, AskTypeOK, Reads
  <1>0. at \in 1..24
    OBVIOUS
  <1>1. CASE AdmitSource BY <1>0, <1>1 DEF AdmitSource
  <1>2. CASE PrepareScope BY <1>0, <1>2 DEF PrepareScope
  <1>3. CASE PrepareIdentity BY <1>0, <1>3 DEF PrepareIdentity
  <1>4. CASE RecheckSource BY <1>0, <1>4 DEF RecheckSource
  <1>5. CASE RecheckIdentity BY <1>0, <1>5 DEF RecheckIdentity
  <1>6. CASE Compare BY <1>0, <1>6 DEF Compare
  <1>7. CASE SearchLexical BY <1>0, <1>7 DEF SearchLexical
  <1>8. CASE SearchSemantic BY <1>0, <1>8 DEF SearchSemantic
  <1>9. CASE ResolveParents BY <1>0, <1>9 DEF ResolveParents
  <1>10. CASE BuildBundle BY <1>0, <1>10 DEF BuildBundle
  <1>11. CASE AskModel BY <1>0, <1>11 DEF AskModel
  <1>12. CASE RebuildBundle BY <1>0, <1>12 DEF RebuildBundle
  <1>13. CASE ReleaseSource BY <1>0, <1>13 DEF ReleaseSource
  <1>14. CASE LastLook BY <1>0, <1>14 DEF LastLook
  <1> QED
    BY <1>1, <1>2, <1>3, <1>4, <1>5, <1>6, <1>7, <1>8, <1>9, <1>10, <1>11,
       <1>12, <1>13, <1>14 DEF Ask

LEMMA AskStepInv ==
  ASSUME IInv, Ask
  PROVE  IInv'
  <1>1. at \in 1..24 /\ at' \in 1..24 /\ (at' = at \/ at' = at + 1)
    BY AskMoves, ScriptFacts DEF IInv, AskTypeOK, Moves
  <1>2. UNCHANGED <<current, served>>
    BY AskMoves DEF indexVars
  <1>a. /\ source \in Sources \cup {None}
        /\ at > 1 => source \in Sources /\ source[2] <= current[source[1]]
        /\ scope \in Sources \cup {None}
        /\ at > 2 => /\ scope \in Sources /\ scope[2] <= current[scope[1]]
                     /\ source[1] = scope[1] => source[2] <= scope[2]
        /\ identity \in Snapshots \cup {None}
        /\ at > 3 => /\ identity \in Snapshots
                     /\ Precedes(identity, current)
                     /\ scope[2] <= identity[scope[1]]
    BY DEF IInv, AskTypeOK, ReadInv
  <1>b. ASSUME NEW src \in Sources, IsSole(src)
        PROVE  src[2] <= current[src[1]] /\ src[2] = current[src[1]]
    <2>1. src[1] \in Paper /\ src[2] \in 1..MaxVersion
      BY DEF Sources
    <2>2. current[src[1]] = src[2]
      BY <1>b, <2>1 DEF IsSole
    <2> QED BY <2>1, <2>2, VersionAssumption
  <1>3. /\ source' \in Sources \cup {None}
        /\ at' > 1 => source' \in Sources /\ source'[2] <= current[source'[1]]
    <2>1. CASE at = 1
      <3>1. AdmitSource
        BY <2>1, AskReads
      <3>2. CASE \E src \in Sources : IsSole(src) /\ source' = src /\ Pass
        BY <1>b, <3>2
      <3>3. CASE Return("not_current") /\ UNCHANGED source
        BY <1>a, <2>1, <3>3 DEF Return
      <3> QED BY <3>1, <3>2, <3>3 DEF AdmitSource
    <2>2. CASE at # 1
      <3>1. source' = source
        BY <2>2, AskReads
      <3> QED BY <1>1, <1>a, <2>2, <3>1
    <2> QED BY <2>1, <2>2
  <1>4. /\ scope' \in Sources \cup {None}
        /\ at' > 2 => /\ scope' \in Sources /\ scope'[2] <= current[scope'[1]]
                      /\ source'[1] = scope'[1] => source'[2] <= scope'[2]
    <2>1. CASE at = 2
      <3>1. PrepareScope
        BY <1>1, <2>1, AskReads
      <3>2. CASE \E src \in Sources : IsSole(src) /\ scope' = src /\ Pass
        <4>1. PICK src \in Sources : IsSole(src) /\ scope' = src
          BY <3>2
        <4>2. src[2] <= current[src[1]] /\ src[2] = current[src[1]]
          BY <1>b, <4>1
        <4>3. source' = source /\ source[2] <= current[source[1]]
          BY <1>a, <2>1, AskReads
        <4> QED BY <4>1, <4>2, <4>3
      <3>3. CASE Return("not_current") /\ UNCHANGED scope
        BY <1>a, <2>1, <3>3 DEF Return
      <3> QED BY <3>1, <3>2, <3>3 DEF PrepareScope
    <2>2. CASE at # 2
      <3>1. scope' = scope /\ (at > 2 => source' = source)
        BY <1>1, <2>2, AskReads
      <3> QED BY <1>1, <1>a, <2>2, <3>1
    <2> QED BY <2>1, <2>2
  <1>5. /\ identity' \in Snapshots \cup {None}
        /\ at' > 3 => /\ identity' \in Snapshots
                      /\ Precedes(identity', current)
                      /\ scope'[2] <= identity'[scope'[1]]
    <2>1. CASE at = 3
      <3>1. identity' = served /\ scope' = scope /\ (at' > 3 => served # None)
        BY <2>1, AskReads DEF PrepareIdentity, Check, Return
      <3>2. CASE at' > 3
        <4>1. served = current /\ current \in Snapshots
          BY <3>1, <3>2 DEF IInv, ServedInv, AskTypeOK
        <4>2. scope[2] <= current[scope[1]]
          BY <2>1 DEF IInv, ReadInv
        <4>3. Precedes(current, current)
          BY <4>1, VersionAssumption DEF Precedes, Snapshots
        <4> QED BY <3>1, <4>1, <4>2, <4>3
      <3>3. CASE ~(at' > 3)
        BY <3>1, <3>3 DEF IInv, AskTypeOK
      <3> QED BY <3>2, <3>3
    <2>2. CASE at # 3
      <3>1. identity' = identity /\ (at > 3 => scope' = scope)
        BY <2>2, AskReads
      <3> QED BY <1>1, <1>a, <2>2, <3>1
    <2> QED BY <2>1, <2>2
  <1>6. at' > 4 => \A f \in Paper :
                     identity'[f] = IF f = scope'[1] THEN scope'[2] ELSE 0
    <2>1. CASE at = 4 /\ at' = 5
      <3>1. IsSole(scope) /\ UNCHANGED <<scope, identity>>
        <4>1. RecheckSource
          BY <2>1, AskReads
        <4>2. IsSole(scope) \/ at' = at
          BY <4>1 DEF RecheckSource, Check, Return
        <4>3. IsSole(scope)
          BY <2>1, <4>2
        <4>4. UNCHANGED <<scope, identity>>
          BY <4>1 DEF RecheckSource
        <4> QED BY <4>3, <4>4
      <3>2. /\ scope[1] \in Paper /\ scope[2] \in 1..MaxVersion
            /\ identity \in Snapshots /\ current \in Snapshots
            /\ \A f \in Files : identity[f] <= current[f]
            /\ scope[2] <= identity[scope[1]]
        <4>1. scope \in Paper \X (1..MaxVersion) /\ Precedes(identity, current)
          BY <1>a, <2>1 DEF Sources
        <4>2. current \in Snapshots
          BY DEF IInv, AskTypeOK
        <4> QED BY <1>a, <2>1, <4>1, <4>2 DEF Precedes
      <3>3. \A f \in Paper : current[f] = IF f = scope[1] THEN scope[2] ELSE 0
        BY <3>1 DEF IsSole
      <3>4. ASSUME NEW f \in Paper
            PROVE  identity[f] = IF f = scope[1] THEN scope[2] ELSE 0
        <4>1. f \in Files
          BY PaperAssumption
        <4>2. identity[f] \in Nat /\ identity[f] <= current[f]
          BY <3>2, <4>1, VersionAssumption DEF Snapshots
        <4> QED BY <3>2, <3>3, <4>2, VersionAssumption
      <3> QED BY <3>1, <3>4
    <2>2. CASE at # 4 \/ at' # 5
      BY <1>1, <2>2, AskReads DEF IInv, AgreeInv
    <2> QED BY <2>1, <2>2
  <1>7. at' > 6 => scope' = source'
    <2>1. CASE at = 6 /\ at' = 7
      BY <2>1, AskReads DEF Compare, Check, Return
    <2>2. CASE at # 6 \/ at' # 7
      BY <1>1, <2>2, AskReads DEF IInv, AgreeInv
    <2> QED BY <2>1, <2>2
  <1>8. hits' \subseteq {"lexical", "semantic"}
    BY DEF Ask, AdmitSource, PrepareScope, PrepareIdentity, RecheckSource,
           RecheckIdentity, Compare, SearchLexical, SearchSemantic,
           ResolveParents, BuildBundle, AskModel, RebuildBundle, LastLook, ReleaseSource,
           IInv, AskTypeOK
  <1>9. AskTypeOK'
    BY <1>1, <1>2, <1>3, <1>4, <1>5, <1>8, AskMoves, ScriptFacts
    DEF IInv, AskTypeOK, Moves, Refusals
  <1>10. NotInternal'
    <2> SUFFICES ASSUME verdict' = "internal" PROVE FALSE
      BY DEF NotInternal
    <2>1. Compare /\ at = 6
      <3>1. Compare
        BY DEF Ask, Check, Pass, Return, Resolve, Reads, AdmitSource,
               PrepareScope, PrepareIdentity, RecheckSource, RecheckIdentity,
               SearchLexical, SearchSemantic, ResolveParents, BuildBundle,
               AskModel, RebuildBundle, LastLook, ReleaseSource
      <3> QED BY <1>1, <3>1, ScriptFacts DEF Compare, Reads
    <2>2. scope # source /\ IsSole(source)
      <3>1. verdict = "none"
        BY <2>1 DEF Compare, Reads
      <3>2. scope # source
        BY <2>1, <3>1 DEF Compare, Check, Pass
      <3>3. ~Moved
        BY <2>1, <3>2 DEF Compare, Check, Return
      <3> QED BY <3>2, <3>3 DEF Moved
    <2>3. /\ source \in Paper \X (1..MaxVersion)
          /\ scope \in Paper \X (1..MaxVersion)
          /\ scope[2] <= current[scope[1]]
          /\ source[1] = scope[1] => source[2] <= scope[2]
      BY <1>a, <2>1 DEF Sources
    <2>4. \A f \in Paper : current[f] = IF f = source[1] THEN source[2] ELSE 0
      BY <2>2 DEF IsSole
    <2>5. scope[1] = source[1]
      BY <2>3, <2>4, VersionAssumption
    <2>6. scope[2] = source[2]
      BY <2>3, <2>4, <2>5, VersionAssumption
    <2> QED BY <2>2, <2>3, <2>5, <2>6
  <1> QED
    BY <1>2, <1>3, <1>4, <1>5, <1>6, <1>7, <1>9, <1>10
    DEF IInv, ServedInv, ReadInv, AgreeInv

(* Others publish: nothing that was read becomes newer than the pointers.  *)
LEMMA IndexStepInv ==
  ASSUME IInv, IndexNext, UNCHANGED askVars
  PROVE  IInv'
  <1>1. current \in Snapshots /\ served \in Snapshots \cup {None}
    BY DEF IInv, AskTypeOK
  <1>2. current' \in Snapshots /\ Precedes(current, current')
    <2>1. CASE SourceChange
      BY <1>1, <2>1, SuccessorsGrow DEF SourceChange
    <2>2. CASE IndexChange
      BY <1>1, <2>2, VersionAssumption DEF IndexChange, Precedes, Snapshots
    <2> QED BY <2>1, <2>2 DEF IndexNext
  <1>3. ServedInv' /\ served' \in Snapshots \cup {None}
    BY <1>1 DEF IndexNext, SourceChange, IndexChange, ServedInv
  <1>4. AskTypeOK'
    BY <1>2, <1>3 DEF IInv, AskTypeOK, askVars
  <1>5. AgreeInv'
    BY DEF IInv, AgreeInv, askVars
  <1>6. ReadInv'
    <2>0. at > 1 => source[2] <= current'[source[1]]
      <3> SUFFICES ASSUME at > 1 PROVE source[2] <= current'[source[1]]
        OBVIOUS
      <3>1. source[1] \in Files /\ source[2] \in 1..MaxVersion
        BY PaperAssumption DEF IInv, ReadInv, Sources
      <3>2. source[2] <= current[source[1]]
        BY DEF IInv, ReadInv
      <3> QED
        BY <1>1, <1>2, <3>1, <3>2, VersionAssumption DEF Precedes, Snapshots
    <2>1. at > 2 => scope[2] <= current'[scope[1]]
      <3> SUFFICES ASSUME at > 2 PROVE scope[2] <= current'[scope[1]]
        OBVIOUS
      <3>1. scope[1] \in Files /\ scope[2] \in 1..MaxVersion
        BY PaperAssumption DEF IInv, ReadInv, Sources
      <3>2. scope[2] <= current[scope[1]]
        BY DEF IInv, ReadInv
      <3> QED
        BY <1>1, <1>2, <3>1, <3>2, VersionAssumption DEF Precedes, Snapshots
    <2>2. at > 3 => Precedes(identity, current')
      BY <1>1, <1>2, VersionAssumption DEF IInv, ReadInv, Precedes, Snapshots
    <2> QED BY <2>0, <2>1, <2>2 DEF IInv, ReadInv, askVars
  <1>7. NotInternal'
    BY DEF IInv, NotInternal, askVars
  <1> QED BY <1>3, <1>4, <1>5, <1>6, <1>7 DEF IInv

(* What an ask has read is what it was served, in the order of its checks  *)
(* (single_paper_ask.py), in every state the question reaches.             *)
THEOREM Invariance == AskSpec => []IInv
  <1>1. IInv /\ [AskNext]_questionVars => IInv'
    <2> SUFFICES ASSUME IInv, [AskNext]_questionVars PROVE IInv'
      OBVIOUS
    <2>1. CASE Ask BY <2>1, AskStepInv
    <2>2. CASE IndexNext /\ UNCHANGED askVars BY <2>2, IndexStepInv
    <2>3. CASE UNCHANGED questionVars
      BY <2>3 DEF questionVars, indexVars, askVars, IInv, AskTypeOK, ServedInv, ReadInv,
                  AgreeInv, NotInternal
    <2> QED BY <2>1, <2>2, <2>3 DEF AskNext
  <1> QED BY <1>1, InitInv, PTL DEF AskSpec

(* Type correctness for every instance.                                    *)
THEOREM TypeCorrect == AskSpec => []AskTypeOK
  <1>1. IInv => AskTypeOK BY DEF IInv
  <1> QED BY <1>1, Invariance, PTL

(* The three transactions of the admission agree for every instance, and   *)
(* no publication that lands between them is reported as an internal       *)
(* error: a source that was read later is never older.                     *)
THEOREM Agreement == AskSpec => []AdmissionsAgree
  <1>1. IInv => AdmissionsAgree
    <2>1. ASSUME IInv, at > 6
          PROVE  /\ scope = source /\ identity # None
                 /\ \A f \in Paper :
                      identity[f] = IF f = source[1] THEN source[2] ELSE 0
      <3>1. at > 3 /\ at > 4
        <4>1. at \in 1..24
          BY <2>1, ScriptFacts DEF IInv, AskTypeOK
        <4> QED BY <2>1, <4>1
      <3>2. identity # None
        BY <2>1, <3>1, NoneAssumption DEF IInv, ReadInv
      <3> QED BY <2>1, <3>1, <3>2 DEF IInv, AgreeInv
    <2> QED BY <2>1 DEF AdmissionsAgree, IInv, NotInternal
  <1> QED BY <1>1, Invariance, PTL

(* An answer is current at its release for every instance: the last read   *)
(* looks at the index only, and the invariant says what that implies for   *)
(* the source.                                                             *)
THEOREM AnswersCurrent == AskSpec => ReleasedCurrent
  <1> DEFINE Fresh ==
        /\ {f \in Paper : current[f] # 0} = {source[1]}
        /\ current[source[1]] = source[2]
        /\ served = current /\ identity = current
  <1>1. IInv /\ [AskNext]_questionVars =>
          [verdict # "answered" /\ verdict' = "answered" => Fresh]_questionVars
    <2> SUFFICES ASSUME IInv, AskNext, verdict # "answered", verdict' = "answered"
                 PROVE  Fresh
      OBVIOUS
    <2>1. Ask
      BY DEF AskNext, askVars
    <2>2. at = 24 /\ at' = at
      BY <2>1, AskMoves DEF Moves, Refusals
    <2>3. RecheckIdentity
      BY <2>1, <2>2, AskReads
    <2>4. served = identity
      BY <2>3 DEF RecheckIdentity, Check, Return
    <2>5. identity \in Snapshots /\ source \in Sources /\ scope = source
      BY <2>2 DEF IInv, ReadInv, AgreeInv
    <2>6. served = current
      BY <2>4, <2>5, NoneAssumption DEF IInv, ServedInv
    <2>7. \A f \in Paper : current[f] = IF f = source[1] THEN source[2] ELSE 0
      BY <2>2, <2>4, <2>5, <2>6 DEF IInv, AgreeInv
    <2>8. source[1] \in Paper /\ source[2] \in Nat /\ source[2] # 0
      BY <2>5, VersionAssumption DEF Sources
    <2> QED BY <2>4, <2>6, <2>7, <2>8
  <1> QED BY <1>1, Invariance, PTL DEF AskSpec, ReleasedCurrent

-----------------------------------------------------------------------------
(* The composition.                                                        *)

(* What every step is for the question.                                    *)
LEMMA NextAsk == [Next]_vars => [AskNext]_questionVars
<1> SUFFICES ASSUME [Next]_vars PROVE [AskNext]_questionVars
  OBVIOUS
<1>1. CASE Reading \/ BeginModel \/ EndModel \/ ServiceEnds
  BY <1>1 DEF Reading, BeginModel, EndModel, ServiceEnds, AskNext, Ask
<1>2. CASE RunModel \/ Beside \/ UserCancels \/ UNCHANGED vars
  BY <1>2 DEF RunModel, Beside, UserCancels, vars
<1>3. CASE Publishing
  BY <1>3 DEF Publishing, AskNext
<1> QED
  BY <1>1, <1>2, <1>3 DEF Next, Asking

(* The question's own variables change only by the steps of SinglePaperAsk *)
(* (the composition is written so), which brings its theorems here.        *)
LEMMA AskBehaves == Spec => AskSpec
<1>1. Init => AskInit
  BY DEF Init
<1> QED
  BY <1>1, NextAsk, PTL DEF Spec, AskSpec

(* An answer is current at its release, whatever the server, its threads   *)
(* and the user do between the reads.                                      *)
THEOREM AnswersStayCurrent == Spec => ReleasedCurrent
  BY AskBehaves, AnswersCurrent, PTL

(* And the three transactions of its admission agree.                      *)
THEOREM AdmissionsStayAgreed == Spec => []AdmissionsAgree
  BY AskBehaves, Agreement, PTL

-----------------------------------------------------------------------------
(* What every step is for the stream.                                      *)
LEMMA NextStream == [Next]_vars => StreamStep \/ UNCHANGED generationVars
<1> SUFFICES ASSUME [Next]_vars PROVE StreamStep \/ UNCHANGED generationVars
  OBVIOUS
<1>1. CASE Reading \/ EndModel \/ ServiceEnds \/ Publishing
  BY <1>1 DEF Reading, EndModel, ServiceEnds, Publishing
<1>2. CASE BeginModel
  BY <1>2 DEF BeginModel, BeginOperation
<1>3. CASE RunModel
  <2>1. Main \/ UNCHANGED generationVars
    BY <1>3 DEF RunModel, Operate, OpenLease, OpenWorkspace, RunProbe,
           StartServer, AwaitReady, CountAndAdmit, Generate, EndGenerate,
           ReleaseServer, CloseWorkspace, EndStage
  <2> QED
    BY <2>1 DEF StreamStep
<1>4. CASE Beside
  BY <1>4 DEF Beside, Others, StreamStep
<1>5. CASE UserCancels
  BY <1>5 DEF UserCancels, CancelSet, StreamStep
<1>6. CASE UNCHANGED vars
  BY <1>6 DEF vars
<1> QED
  BY <1>1, <1>2, <1>3, <1>4, <1>5, <1>6 DEF Next, Asking

(* The stream keeps its invariant.                                         *)
THEOREM StreamInvariance == Spec => []StreamInv
<1>1. Init => StreamInv
  BY StreamInitInv DEF Init
<1>2. StreamInv /\ [Next]_vars => StreamInv'
  BY NextStream, StreamStepInv, StreamStutterInv
<1> QED
  BY <1>1, <1>2, PTL DEF Spec

(* An open connection has one holder, whichever of the three threads       *)
(* closes it, and nobody closes the iterator under its reader.             *)
THEOREM Owned == Spec => []OneOwner
  BY StreamInvariance, StreamSafe, PTL

(* Recovery runs only when somebody else disconnects, or has.              *)
THEOREM RecoveryDisconnected == Spec => []RecoverySeesDisconnect
  BY StreamInvariance, StreamSafe, PTL
-----------------------------------------------------------------------------
(* The stages of the operation and what is left behind in each.            *)
Running == stage \in {"preflight", "version", "devices", "session"}
Serving == {"serve", "template", "tokens", "generate"}
Soft == {"none", "cancelled", "timeout", "context"}

OperationTypeOK ==
  /\ stage \in {"idle", "preflight", "version", "devices", "session", "over"}
  /\ step \in {"lease", "workspace", "run", "release", "sweep", "raise"} \cup Serving
  /\ lease \in {"none", "prepared", "bound", "released", "poisoned"}
  /\ workspace \in {"none", "open", "closed"}
  /\ server \in {"none", "up", "down", "lost"}
  /\ primary \in Soft \cup Faults
  /\ cleanup \in {"none"} \cup Faults
  /\ outcome \in Soft \cup Faults \cup {"result"}

(* Before a stage has failed, or while it serves, nothing is unknown.      *)
WorkInv ==
  /\ stage = "idle" => step = "lease"
  /\ stage = "idle" \/ Running => outcome = "none"
  /\ step \in {"lease", "workspace", "run"} /\ stage # "over" =>
       /\ primary = "none" /\ cleanup = "none" /\ server = "none"
       /\ step # "run" => files = {} /\ workspace = "none"
       /\ step = "run" => workspace = "open"
  /\ step \in Serving =>
       /\ stage \in {"session", "over"} /\ primary = "none" /\ cleanup = "none"
       /\ server = "up" /\ workspace = "open"
  /\ step \in {"workspace", "run"} => lease = "prepared" \/ stage = "over"

(* What the cleanup still has to remove, unless a fault is recorded.       *)
CleanupInv ==
  /\ Running /\ step = "release" =>
       /\ cleanup = "none"
       /\ \/ primary \in Faults
          \/ /\ stage = "session" <=> server = "up"
             /\ server \in {"none", "up"}
             /\ server # "up" => lease \in {"prepared", "released"}
             /\ workspace = "open" \/ files = {}
       /\ stage # "session" => server = "none"
  /\ Running /\ step = "sweep" =>
       \/ primary \in Faults \/ cleanup # "none"
       \/ /\ server \in {"none", "down"} /\ lease = "released"
          /\ workspace = "open" \/ files = {}
          /\ stage # "session" => server = "none"
  /\ Running /\ step = "raise" =>
       \/ primary \in Faults \/ cleanup # "none"
       \/ /\ server \in {"none", "down"} /\ lease = "released" /\ files = {}
          /\ stage # "session" => server = "none"

OperationInv == OperationTypeOK /\ WorkInv /\ CleanupInv /\ SoftOutcomeIsClean

(* The places of a running stage.                                          *)
LEMMA AtRunning ==
  ASSUME NEW where
  PROVE  At(where) <=> Running /\ step = where
  BY DEF At, Running, Stages

(* Every step of the main thread in the operation keeps it.                *)
LEMMA OperateInv ==
  ASSUME OperationInv, Operate \/ BeginOperation
  PROVE  OperationInv'
<1> USE OperationInv, AtRunning
        DEF OperationInv, OperationTypeOK, WorkInv, CleanupInv, SoftOutcomeIsClean,
            Running, Serving, Soft, Faults, GoOn, Except
<1>1. CASE OpenLease
  BY <1>1 DEF OpenLease
<1>2. CASE OpenWorkspace
  BY <1>2 DEF OpenWorkspace
<1>3. CASE RunProbe
  BY <1>3 DEF RunProbe
<1>4. CASE StartServer
  BY <1>4 DEF StartServer
<1>5. CASE AwaitReady
  BY <1>5 DEF AwaitReady, RequestFails
<1>6. CASE CountAndAdmit
  BY <1>6 DEF CountAndAdmit, RequestFails
<1>7. CASE Generate
  BY <1>7 DEF Generate, operationVars
<1>8. CASE EndGenerate
  BY <1>8 DEF EndGenerate
<1>9. CASE ReleaseServer
  BY <1>9 DEF ReleaseServer, Record
<1>10. CASE CloseWorkspace
  BY <1>10 DEF CloseWorkspace, Record, Leavings
<1>11. CASE EndStage
  BY <1>11 DEF EndStage, Raised, NextStage
<1>12. CASE BeginOperation
  BY <1>12 DEF BeginOperation, Stages
<1> QED
  BY <1>1, <1>2, <1>3, <1>4, <1>5, <1>6, <1>7, <1>8, <1>9, <1>10, <1>11, <1>12
  DEF Operate
(* What every step is for the operation.                                   *)
LEMMA NextOperation ==
  [Next]_vars => \/ AtModel /\ (Operate \/ BeginOperation)
                 \/ UNCHANGED operationVars
<1> SUFFICES ASSUME [Next]_vars
             PROVE  (AtModel /\ (Operate \/ BeginOperation)) \/ UNCHANGED operationVars
  OBVIOUS
<1>1. CASE Reading \/ EndModel \/ ServiceEnds \/ Publishing
  BY <1>1 DEF Reading, EndModel, ServiceEnds, Publishing
<1>2. CASE BeginModel \/ RunModel
  BY <1>2 DEF BeginModel, RunModel
<1>3. CASE Beside \/ UserCancels
  BY <1>3 DEF Beside, Others, UserCancels, operationVars
<1>4. CASE UNCHANGED vars
  BY <1>4 DEF vars
<1> QED
  BY <1>1, <1>2, <1>3, <1>4 DEF Next, Asking

(* The operation keeps its invariant whatever runs beside it.              *)
THEOREM OperationInvariance == Spec => []OperationInv
<1>1. Init => OperationInv
  BY DEF Init, OperationInit, OperationInv, OperationTypeOK, WorkInv,
         CleanupInv,
         SoftOutcomeIsClean, Running, Serving, Soft, Faults
<1>2. OperationInv /\ [Next]_vars => OperationInv'
  <2>1. ASSUME OperationInv, UNCHANGED operationVars PROVE OperationInv'
    BY <2>1 DEF operationVars, OperationInv, OperationTypeOK, WorkInv,
           CleanupInv,
                SoftOutcomeIsClean, Running
  <2> QED
    BY <2>1, NextOperation, OperateInv
<1> QED
  BY <1>1, <1>2, PTL DEF Spec

(* A result, a cancellation, a timeout or a context limit is reported only *)
(* with the server down, the lease released and the secrets removed.       *)
THEOREM SoftIsClean == Spec => []SoftOutcomeIsClean
<1>1. OperationInv => SoftOutcomeIsClean
  BY DEF OperationInv
<1> QED
  BY <1>1, OperationInvariance, PTL

-----------------------------------------------------------------------------
(* Where the model stands in ask.                                          *)
LEMMA ScriptPlaces ==
  /\ Len(Script) = 24
  /\ \A i \in 1..24 : Script[i] = "model" <=> i = 19
  BY DEF Script

(* A step of the question is a read of Ask, or leaves its place and its    *)
(* verdict alone.                                                          *)
LEMMA NextPlace ==
  ASSUME IInv, [Next]_vars
  PROVE  \/ Ask /\ Moves /\ verdict = "none"
         \/ UNCHANGED <<at, verdict>>
<1>1. CASE Ask
  BY <1>1, AskMoves
<1>2. CASE (IndexNext /\ UNCHANGED askVars) \/ UNCHANGED questionVars
  BY <1>2 DEF askVars, questionVars
<1> QED
  BY <1>1, <1>2, NextAsk DEF AskNext

-----------------------------------------------------------------------------
(* What an answer rests on: the model was passed with a result, and the    *)
(* result was returned with the reply of a stream that has ended.          *)
AnswerInv ==
  /\ stage = "session" /\ step \in {"release", "sweep", "raise"} /\ primary = "none" =>
       reply = "released"
  /\ outcome = "result" => reply = "released"
  /\ at > 19 => outcome = "result"
  /\ verdict = "answered" => at = 24

(* A released reply stays.                                                 *)
LEMMA ReplyStays ==
  ASSUME StreamInv, [Next]_vars, reply = "released"
  PROVE  reply' = "released"
<1>1. pc = "over"
  BY DEF StreamInv, ReplyInv
<1> QED
  BY <1>1, NextStream DEF StreamStep, Main, Server, Timer, Watcher, CancelSet,
     generationVars, Start, Connect, CheckResponse, Unwind, BeginRead,
     ReceiveNothing, ReceiveAny, Receive, EndRead, Catch, Recover, Finally,
     JoinWatcher, Release, CloseStep, BeginClose, CloseIterator, CancelTimer,
     JoinTimer, Claim, CloseNext, FinishClose, Answer, NoAnswer, Fire, EndTimer,
     Watch, EndWatcher, StreamInv, PlaceInv

(* The operation hands on a result only with that reply.                   *)
LEMMA OperateAnswers ==
  ASSUME OperationInv, StreamInv, AnswerInv, [Next]_vars
  PROVE  /\ stage' = "session" /\ step' \in {"release", "sweep", "raise"}
              /\ primary' = "none" => reply' = "released"
         /\ outcome' = "result" => reply' = "released"
         /\ outcome = "result" => outcome' = "result"
<1>1. CASE AtModel /\ (Operate \/ BeginOperation)
  <2> USE AtRunning DEF Running
  <2>1. CASE BeginOperation
    BY <2>1 DEF BeginOperation, Stages, OperationInv, WorkInv
  <2>2. CASE Operate
    <3>1. Running /\ outcome = "none"
      BY <2>2 DEF Operate, OpenLease, OpenWorkspace, RunProbe, StartServer,
             AwaitReady, CountAndAdmit, Generate, EndGenerate, ReleaseServer,
             CloseWorkspace, EndStage, OperationInv, WorkInv
    <3>2. CASE OpenLease \/ OpenWorkspace \/ RunProbe \/ StartServer \/ AwaitReady
               \/ CountAndAdmit \/ Generate
      BY <3>1, <3>2 DEF OpenLease, OpenWorkspace, RunProbe, StartServer,
             AwaitReady,
             CountAndAdmit, Generate, operationVars, GoOn, Except, RequestFails, Faults
    <3>3. CASE EndGenerate
      BY <3>1, <3>3, ReplyStays DEF EndGenerate, GoOn, Except, OperationInv,
             WorkInv, Serving
    <3>4. CASE ReleaseServer \/ CloseWorkspace
      BY <3>1, <3>4, ReplyStays DEF ReleaseServer, CloseWorkspace, AnswerInv
    <3>5. CASE EndStage
      BY <3>1, <3>5, ReplyStays DEF EndStage, Raised, NextStage, AnswerInv,
             OperationInv,
             OperationTypeOK, Soft, Faults
    <3> QED
      BY <2>2, <3>2, <3>3, <3>4, <3>5 DEF Operate
  <2> QED
    BY <1>1, <2>1, <2>2
<1>2. CASE UNCHANGED operationVars
  BY <1>2, ReplyStays DEF operationVars, AnswerInv
<1> QED
  BY <1>1, <1>2, NextOperation

(* Every step keeps it.                                                    *)
LEMMA AnswerStepInv ==
  ASSUME IInv, OperationInv, StreamInv, AnswerInv, [Next]_vars
  PROVE  AnswerInv'
<1>1. at \in 1..24
  BY ScriptFacts DEF IInv, AskTypeOK
<1>2. at' > 19 => outcome' = "result"
  <2>1. CASE at > 19 \/ UNCHANGED <<at, verdict>>
    BY <2>1, OperateAnswers DEF AnswerInv
  <2>2. CASE at <= 19 /\ Ask /\ Moves
    <3> SUFFICES ASSUME at' > 19 PROVE outcome' = "result"
      OBVIOUS
    <3>1. at = 19 /\ at' = 20 /\ verdict' = "none"
      BY <1>1, <2>2 DEF Moves
    <3>2. Script[at] = "model"
      BY <1>1, <3>1, ScriptPlaces
    <3>3. EndModel
      BY <3>1, <3>2 DEF Next, Asking, Reading, BeginModel, RunModel,
             ServiceEnds,
             Beside, UserCancels, Publishing, vars, questionVars, askVars, LastLook,
             Reads, AdmitSource, PrepareScope, PrepareIdentity, RecheckSource,
             RecheckIdentity, Compare, SearchLexical, SearchSemantic,
             ResolveParents, BuildBundle, RebuildBundle, ReleaseSource
    <3> QED
      BY <3>1, <3>3 DEF EndModel, operationVars
  <2> QED
    BY <1>1, <2>1, <2>2, NextPlace
<1>3. verdict' = "answered" => at' = 24
  BY <1>1, NextPlace DEF Moves, AnswerInv, Refusals
<1> QED
  BY <1>2, <1>3, OperateAnswers DEF AnswerInv

(* An answer rests on a whole stream and an operation that has returned.   *)
THEOREM WholeAnswers == Spec => []AnswerIsWhole
<1>1. Init => AnswerInv
  BY DEF Init, AskInit, OperationInit, AnswerInv
<1>2. IInv /\ OperationInv /\ StreamInv /\ AnswerInv /\ [Next]_vars => AnswerInv'
  BY AnswerStepInv
<1>3. Spec => []IInv
  BY AskBehaves, Invariance, PTL
<1>4. StreamInv /\ AnswerInv => AnswerIsWhole
  BY DEF StreamInv, AnswerInv, AnswerIsWhole
<1> QED
  BY <1>1, <1>2, <1>3, <1>4, OperationInvariance, StreamInvariance, PTL DEF Spec

=============================================================================
