----------------------- MODULE EvidencePipelineProofs -----------------------
(***************************************************************************)
(* Proofs about EvidencePipeline, for papers of any size, any budgets and  *)
(* similarities, and any number of generations published meanwhile.        *)
(***************************************************************************)
EXTENDS EvidencePipeline, RankingProofs

-----------------------------------------------------------------------------
(* Pages.                                                                  *)

Words == [text : Nat, start : Nat, end : Nat, stop : BOOLEAN, tokens : Nat]

(* The words of a page follow each other and are not empty.                *)
PageOK(page) ==
  /\ page \in Seq(Words)
  /\ \A i \in 1 .. Len(page) : page[i].start < page[i].end
  /\ \A i, j \in 1 .. Len(page) : i < j => page[i].end < page[j].start

(* A sequence read in the order of a permutation of its positions.         *)
LEMMA Permuted ==
    ASSUME NEW T, NEW n \in Nat, NEW s \in [1 .. n -> T], NEW order \in [1 .. n -> 1 .. n],
           NEW out, out = [p \in 1 .. n |-> s[order[p]]]
    PROVE  out \in [1 .. n -> T]
OBVIOUS

(* The reading order has the boxes of the page.                            *)
LEMMA ReadingOrderIs ==
    ASSUME NEW n \in Nat, NEW boxes \in [1 .. n -> WordBoxes]
    PROVE  ReadingOrder(boxes) \in [1 .. n -> WordBoxes]
<1> DEFINE keys == [i \in 1 .. n |-> <<boxes[i].line, boxes[i].x>>]
<1> DEFINE byHeight == Sorted(boxes, LAMBDA b : <<b.line, b.x>>)
<1>1. keys \in [1 .. n -> Tuples(2)]
  <2>1. ASSUME NEW i \in 1 .. n PROVE <<boxes[i].line, boxes[i].x>> \in Tuples(2)
    <3>1. boxes[i].line \in Int /\ boxes[i].x \in Int
      BY DEF WordBoxes
    <3> QED
      BY <3>1 DEF Tuples
  <2> QED
    BY <2>1
<1>2. byHeight = [p \in 1 .. n |-> boxes[SortingOf(keys)[p]]]
  BY DEF Sorted
<1>3. SortingOf(keys) \in [1 .. n -> 1 .. n]
  <2> HIDE DEF keys
  <2> QED
    BY <1>1, SortingSorts, 2 \in Nat
<1>4. byHeight \in [1 .. n -> WordBoxes]
  BY <1>2, <1>3, Permuted
<1> DEFINE line(i, v) == IF i > 1 /\ byHeight[i].line - v <= LineTolerance
                         THEN v ELSE byHeight[i].line
<1> DEFINE Is(f) == f = [i \in DOMAIN byHeight |->
                           IF i > 1 /\ byHeight[i].line - f[i - 1] <= LineTolerance
                           THEN f[i - 1] ELSE byHeight[i].line]
<1> DEFINE lineOf == CHOOSE f : Is(f)
<1> DEFINE placed == [i \in DOMAIN byHeight |-> [box |-> byHeight[i], row |-> lineOf[i]]]
<1> DEFINE read == Sorted(placed, LAMBDA p : <<p.row, p.box.x, p.box.line>>)
<1>5. ReadingOrder(boxes) = [i \in DOMAIN read |-> read[i].box]
  BY DEF ReadingOrder
<1> HIDE DEF byHeight
<1>6. \A i \in 1 .. n : byHeight[i] \in WordBoxes /\ byHeight[i].line \in Int /\ byHeight[i].x \in Int
  BY <1>4 DEF WordBoxes
<1>7. DOMAIN byHeight = 1 .. n
  BY <1>4
<1> DEFINE st == [x \in (1 .. n) \X Int |-> line(x[1], x[2])]
<1>8. \A i \in 1 .. n, v \in Int : st[<<i, v>>] = line(i, v) /\ line(i, v) \in Int
  BY <1>6
<1>9. Stepping(st, 1 .. n, Int)
  <2> HIDE DEF line
  <2>1. \A x \in (1 .. n) \X Int : line(x[1], x[2]) \in Int
    <3>1. \A x \in (1 .. n) \X Int : x[1] \in 1 .. n /\ x[2] \in Int
      OBVIOUS
    <3> QED
      BY <1>8, <3>1
  <2> QED
    BY <2>1 DEF Stepping
<1> HIDE DEF st
<1>10. PICK g : PrefixValues(g, n, Int, 0, st)
  BY <1>9, PrefixesExist, 0 \in Int
<1>11. /\ \A i \in 0 .. n : g[i] \in Int
       /\ \A i \in 1 .. n : g[i] = st[<<i, g[i - 1]>>]
  BY <1>10 DEF PrefixValues
<1>12. \A i \in 1 .. n : i - 1 \in 0 .. n /\ g[i - 1] \in Int
  BY <1>11
<1> DEFINE e == [i \in 1 .. n |-> g[i]]
<1>13. ASSUME NEW i \in 1 .. n PROVE e[i] = line(i, e[i - 1])
  <2>1. e[i] = line(i, g[i - 1])
    BY <1>8, <1>11, <1>12
  <2>2. CASE i > 1
    <3>1. i - 1 \in 1 .. n
      BY <2>2
    <3> QED
      BY <2>1, <3>1
  <2>3. CASE ~ (i > 1)
    BY <2>1, <2>3
  <2> QED
    BY <2>2, <2>3
<1>14. e = [i \in 1 .. n |-> line(i, e[i - 1])]
  <2>1. e = [i \in 1 .. n |-> e[i]]
    OBVIOUS
  <2> HIDE DEF e, line
  <2> QED
    BY <1>13, <2>1
<1> HIDE DEF e
<1>15. Is(lineOf)
  <2>1. Is(e)
    BY <1>7, <1>14
  <2> QED
    BY <2>1
<1> HIDE DEF lineOf
<1> DEFINE M == {k \in 0 .. n : k # 0 => lineOf[k] \in Int}
<1>16. 0 \in M
  OBVIOUS
<1>17. \A k \in 0 .. (n - 1) : k \in M => k + 1 \in M
  <2> SUFFICES ASSUME NEW k \in 0 .. (n - 1), k \in M PROVE k + 1 \in M
    OBVIOUS
  <2>1. k # 0 => lineOf[k] \in Int
    OBVIOUS
  <2> HIDE DEF M
  <2>2. k + 1 \in 1 .. n /\ (k + 1) - 1 = k /\ k + 1 \in 0 .. n
    OBVIOUS
  <2>3. lineOf[k + 1] = IF k + 1 > 1 /\ byHeight[k + 1].line - lineOf[k] <= LineTolerance
                        THEN lineOf[k] ELSE byHeight[k + 1].line
    BY <1>7, <1>15, <2>2
  <2>4. lineOf[k + 1] \in Int
    BY <1>6, <2>1, <2>2, <2>3
  <2> QED
    BY <2>2, <2>4 DEF M
<1> HIDE DEF M
<1>18. \A k \in 0 .. n : k \in M
  BY <1>16, <1>17, UpTo
<1>19. \A k \in 1 .. n : lineOf[k] \in Int
  BY <1>18 DEF M
<1> DEFINE last == [i \in 1 .. n |-> <<placed[i].row, placed[i].box.x, placed[i].box.line>>]
<1>20. \A i \in 1 .. n : placed[i].box = byHeight[i] /\ placed[i].row = lineOf[i]
  BY <1>7
<1>21. DOMAIN placed = 1 .. n
  BY <1>7
<1> HIDE DEF placed
<1>22. last \in [1 .. n -> Tuples(3)]
  <2>1. ASSUME NEW i \in 1 .. n
        PROVE <<placed[i].row, placed[i].box.x, placed[i].box.line>> \in Tuples(3)
    <3>1. placed[i].row = lineOf[i] /\ placed[i].box = byHeight[i]
      BY <1>20
    <3>2. placed[i].row \in Int /\ placed[i].box.x \in Int /\ placed[i].box.line \in Int
      BY <1>6, <1>19, <3>1
    <3> QED
      BY <3>2 DEF Tuples
  <2> QED
    BY <2>1
<1>23. read = [p \in 1 .. n |-> placed[SortingOf(last)[p]]]
  BY <1>21 DEF Sorted
<1> HIDE DEF last
<1>24. SortingOf(last) \in [1 .. n -> 1 .. n]
  BY <1>22, SortingSorts, 3 \in Nat
<1> HIDE DEF read
<1>25. ASSUME NEW p \in 1 .. n PROVE read[p].box \in WordBoxes
  <2>1. read[p] = placed[SortingOf(last)[p]] /\ SortingOf(last)[p] \in 1 .. n
    BY <1>23, <1>24
  <2>2. \A i \in 1 .. n : placed[i].box = byHeight[i]
    BY <1>20
  <2> QED
    BY <1>6, <2>1, <2>2
<1> QED
  BY <1>5, <1>23, <1>25
(* The words made of a page's boxes follow each other.                     *)
LEMMA CanonicalIs ==
    ASSUME NEW n \in Nat, NEW boxes \in [1 .. n -> WordBoxes]
    PROVE  PageOK(CanonicalWords(boxes)) /\ Len(CanonicalWords(boxes)) = n
<1> DEFINE read == ReadingOrder(boxes)
<1> DEFINE at(i, v) == IF i = 1 THEN 0 ELSE v + read[i - 1].len + 1
<1> DEFINE Is(f) == f = [i \in DOMAIN read |-> IF i = 1 THEN 0 ELSE f[i - 1] + read[i - 1].len + 1]
<1> DEFINE start == CHOOSE f : Is(f)
<1> DEFINE page == [i \in DOMAIN read |->
                      [text |-> read[i].text, start |-> start[i], end |-> start[i] + read[i].len,
                       stop |-> read[i].stop, tokens |-> read[i].tokens]]
<1>1. CanonicalWords(boxes) = page
  BY DEF CanonicalWords
<1>2. read \in [1 .. n -> WordBoxes]
  BY ReadingOrderIs
<1> HIDE DEF read
<1>3. DOMAIN read = 1 .. n
  BY <1>2
<1>4. \A i \in 1 .. n : /\ read[i].text \in Nat /\ read[i].len \in Nat /\ read[i].len > 0
                        /\ read[i].stop \in BOOLEAN /\ read[i].tokens \in Nat
  <2> SUFFICES ASSUME NEW i \in 1 .. n
               PROVE  /\ read[i].text \in Nat /\ read[i].len \in Nat /\ read[i].len > 0
                      /\ read[i].stop \in BOOLEAN /\ read[i].tokens \in Nat
    OBVIOUS
  <2>1. read[i] \in WordBoxes
    BY <1>2
  <2>2. read[i].text \in Nat /\ read[i].len \in Nat \ {0} /\ read[i].tokens \in Nat
    BY <2>1 DEF WordBoxes
  <2>3. read[i].stop \in BOOLEAN
    BY <2>1, Zenon DEF WordBoxes
  <2>4. read[i].len \in Nat /\ read[i].len > 0
    BY <2>2
  <2> QED
    BY <2>2, <2>3, <2>4
<1> DEFINE st == [x \in (1 .. n) \X Nat |-> at(x[1], x[2])]
<1>5. ASSUME NEW i \in 1 .. n, NEW v \in Nat PROVE at(i, v) \in Nat
  <2>1. i # 1 => i - 1 \in 1 .. n
    OBVIOUS
  <2> QED
    BY <1>4, <2>1
<1>6. \A i \in 1 .. n, v \in Nat : st[<<i, v>>] = at(i, v)
  OBVIOUS
<1>7. Stepping(st, 1 .. n, Nat)
  <2> HIDE DEF at
  <2>1. \A x \in (1 .. n) \X Nat : x[1] \in 1 .. n /\ x[2] \in Nat
    OBVIOUS
  <2>2. \A x \in (1 .. n) \X Nat : at(x[1], x[2]) \in Nat
    BY <1>5, <2>1
  <2> QED
    BY <2>2 DEF Stepping
<1> HIDE DEF st
<1>8. PICK g : PrefixValues(g, n, Nat, 0, st)
  BY <1>7, PrefixesExist, 0 \in Nat
<1>9. /\ \A i \in 0 .. n : g[i] \in Nat
      /\ \A i \in 1 .. n : g[i] = st[<<i, g[i - 1]>>]
  BY <1>8 DEF PrefixValues
<1>10. \A i \in 1 .. n : i - 1 \in 0 .. n /\ g[i - 1] \in Nat
  BY <1>9
<1> DEFINE e == [i \in 1 .. n |-> g[i]]
<1>11. ASSUME NEW i \in 1 .. n PROVE e[i] = at(i, e[i - 1])
  <2>1. e[i] = at(i, g[i - 1])
    BY <1>6, <1>9, <1>10
  <2>2. CASE i # 1
    <3>1. i - 1 \in 1 .. n
      BY <2>2
    <3> QED
      BY <2>1, <3>1
  <2>3. CASE i = 1
    BY <2>1, <2>3
  <2> QED
    BY <2>2, <2>3
<1>12. e = [i \in 1 .. n |-> at(i, e[i - 1])]
  <2>1. e = [i \in 1 .. n |-> e[i]]
    OBVIOUS
  <2> HIDE DEF e, at
  <2> QED
    BY <1>11, <2>1
<1> HIDE DEF e
<1>13. Is(start)
  <2>1. Is(e)
    BY <1>3, <1>12
  <2> QED
    BY <2>1
<1> HIDE DEF start
<1>14. \A i \in 1 .. n : start[i] = IF i = 1 THEN 0 ELSE start[i - 1] + read[i - 1].len + 1
  BY <1>3, <1>13
<1> DEFINE M == {k \in 0 .. n : \A j \in 1 .. k : /\ start[j] \in Nat
                   /\ \A i \in 1 .. (j - 1) : start[i] + read[i].len < start[j]}
<1>15. 0 \in M
  OBVIOUS
<1>16. \A k \in 0 .. (n - 1) : k \in M => k + 1 \in M
  <2> SUFFICES ASSUME NEW k \in 0 .. (n - 1), k \in M PROVE k + 1 \in M
    OBVIOUS
  <2>1. \A j \in 1 .. k : /\ start[j] \in Nat
                          /\ \A i \in 1 .. (j - 1) : start[i] + read[i].len < start[j]
    OBVIOUS
  <2> HIDE DEF M
  <2>2. /\ k + 1 \in 1 .. n /\ (k + 1) - 1 = k /\ k + 1 \in 0 .. n
        /\ 1 .. k + 1 = (1 .. k) \cup {k + 1} /\ (k # 0 => k \in 1 .. k /\ k \in 1 .. n)
    OBVIOUS
  <2>3. start[k + 1] = IF k + 1 = 1 THEN 0 ELSE start[k] + read[k].len + 1
    BY <1>14, <2>2
  <2>4. CASE k = 0
    <3>1. start[1] \in Nat
      BY <2>3, <2>4
    <3> QED
      BY <2>2, <2>4, <3>1 DEF M
  <2>5. CASE k # 0
    <3>1. start[k] \in Nat /\ read[k].len \in Nat /\ start[k + 1] = start[k] + read[k].len + 1
      BY <1>4, <2>1, <2>2, <2>3, <2>5
    <3>2. ASSUME NEW i \in 1 .. k PROVE start[i] + read[i].len < start[k + 1]
      <4>1. CASE i = k
        BY <3>1, <4>1
      <4>2. CASE i # k
        <5>1. i \in 1 .. (k - 1) /\ i \in 1 .. n
          BY <4>2
        <5>2. start[i] + read[i].len < start[k] /\ start[i] \in Nat /\ read[i].len \in Nat
          BY <1>4, <2>1, <2>2, <2>5, <5>1
        <5> QED
          BY SMTT(30), <3>1, <5>2
      <4> QED
        BY <4>1, <4>2
    <3> QED
      BY <2>1, <2>2, <3>1, <3>2 DEF M
  <2> QED
    BY <2>4, <2>5
<1> HIDE DEF M
<1>17. \A k \in 0 .. n : k \in M
  BY <1>15, <1>16, UpTo
<1>18. n \in M
  BY <1>17
<1>19. \A j \in 1 .. n : /\ start[j] \in Nat
                         /\ \A i \in 1 .. (j - 1) : start[i] + read[i].len < start[j]
  BY <1>18 DEF M
<1>20. \A i \in 1 .. n : /\ page[i].start = start[i] /\ page[i].end = start[i] + read[i].len
                         /\ page[i] \in Words
  BY <1>3, <1>4, <1>19 DEF Words
<1>21. page \in Seq(Words) /\ Len(page) = n
  <2>1. page = [i \in 1 .. n |-> page[i]]
    BY <1>3
  <2> HIDE DEF page
  <2>2. page \in [1 .. n -> Words]
    BY <1>20, <2>1
  <2> QED
    BY <2>2
<1> HIDE DEF page
<1>22. \A i \in 1 .. n : page[i].start < page[i].end
  BY SMTT(30), <1>4, <1>19, <1>20
<1>23. \A i, j \in 1 .. n : i < j => page[i].end < page[j].start
  <2> SUFFICES ASSUME NEW i \in 1 .. n, NEW j \in 1 .. n, i < j PROVE page[i].end < page[j].start
    OBVIOUS
  <2>1. i \in 1 .. (j - 1)
    OBVIOUS
  <2> QED
    BY <1>19, <1>20, <2>1
<1> QED
  BY <1>1, <1>21, <1>22, <1>23 DEF PageOK

-----------------------------------------------------------------------------
(* Packing.                                                                *)

Ranges == {r \in Nat \X Nat : r[1] <= r[2]}

(* The entry made of a resolved range.                                     *)
EntryOf(l, r) ==
  [label |-> l, chunk |-> r.chunk, range |-> r.range, text |-> r.text,
   provenance |-> r.provenance]

Entries(R) == {EntryOf(l, r) : l \in Nat, r \in R}
Contexts == [range : Ranges, labels : SUBSET Nat]
Omissions == {"none", "DUPLICATE_CANDIDATE", "ENTRY_LIMIT_EXCEEDED", "PREVIEW_BYTES_EXCEEDED"}
Dispositions(I) == [unit : I, omission : Omissions, labels : Seq(Nat)]

(* What packing holds, for units with ranges in R and identities in I.     *)
Packings(R, I) ==
  [entries : Seq(Entries(R)), contexts : Seq(Contexts), dispositions : Seq(Dispositions(I))]

RangesOK(R) == \A r \in R : r.range \in Ranges

UnitOK(u, R, I) ==
  /\ u.id \in I /\ u.duplicate \in BOOLEAN
  /\ u.ranges \in Seq(R)
  /\ u.contexts \in Seq([range : Ranges, of : SUBSET Nat])

NewEntries(p, u) == [i \in DOMAIN u.ranges |-> EntryOf(Len(p.entries) + i, u.ranges[i])]
NewContexts(p, u) ==
  [k \in DOMAIN u.contexts |->
     [range |-> u.contexts[k].range, labels |-> {Len(p.entries) + i : i \in u.contexts[k].of}]]
NewLabels(p, u) == [i \in DOMAIN u.ranges |-> Len(p.entries) + i]

(* What a proposed unit adds to a packing. *)
LEMMA ProposedParts ==
    ASSUME NEW R, NEW I, NEW p \in Packings(R, I), NEW u
    PROVE  /\ Proposed(p, u).entries = p.entries \o NewEntries(p, u)
           /\ Proposed(p, u).contexts = p.contexts \o NewContexts(p, u)
           /\ Proposed(p, u).dispositions =
                Append(p.dispositions, [unit |-> u.id, omission |-> "none", labels |-> NewLabels(p, u)])
           /\ Proposed(p, u) = [entries |-> Proposed(p, u).entries,
                                contexts |-> Proposed(p, u).contexts,
                                dispositions |-> Proposed(p, u).dispositions]
<1> DEFINE e == p.entries \o NewEntries(p, u)
<1> DEFINE c == p.contexts \o NewContexts(p, u)
<1> DEFINE d == Append(p.dispositions,
                       [unit |-> u.id, omission |-> "none", labels |-> NewLabels(p, u)])
<1>1. Proposed(p, u) = [p EXCEPT !.entries = e, !.contexts = c, !.dispositions = d]
  BY DEF Proposed, NewEntries, NewContexts, NewLabels, EntryOf
<1> HIDE DEF e, c, d
<1>2. p = [entries |-> p.entries, contexts |-> p.contexts, dispositions |-> p.dispositions]
  BY DEF Packings
<1>3. Proposed(p, u) = [entries |-> e, contexts |-> c, dispositions |-> d]
  BY <1>1, <1>2
<1> QED
  BY <1>3 DEF e, c, d

(* What an omission adds to a packing: a disposition without labels. *)
LEMMA OmitParts ==
    ASSUME NEW R, NEW I, NEW p \in Packings(R, I), NEW u, NEW reason
    PROVE  /\ Omit(p, u, reason).entries = p.entries
           /\ Omit(p, u, reason).contexts = p.contexts
           /\ Omit(p, u, reason).dispositions =
                Append(p.dispositions, [unit |-> u.id, omission |-> reason, labels |-> <<>>])
           /\ Omit(p, u, reason) = [entries |-> p.entries, contexts |-> p.contexts,
                                    dispositions |-> Omit(p, u, reason).dispositions]
<1> DEFINE d == Append(p.dispositions, [unit |-> u.id, omission |-> reason, labels |-> <<>>])
<1>1. Omit(p, u, reason) = [p EXCEPT !.dispositions = d]
  BY DEF Omit
<1> HIDE DEF d
<1>2. p = [entries |-> p.entries, contexts |-> p.contexts, dispositions |-> p.dispositions]
  BY DEF Packings
<1>3. Omit(p, u, reason) = [entries |-> p.entries, contexts |-> p.contexts, dispositions |-> d]
  BY <1>1, <1>2
<1> QED
  BY <1>3 DEF d

(* What a unit adds.                                                       *)
LEMMA NewAre ==
    ASSUME NEW R, NEW I, NEW p \in Packings(R, I), NEW u, UnitOK(u, R, I)
    PROVE  /\ NewEntries(p, u) \in Seq(Entries(R)) /\ Len(NewEntries(p, u)) = Len(u.ranges)
           /\ NewContexts(p, u) \in Seq(Contexts) /\ Len(NewContexts(p, u)) = Len(u.contexts)
           /\ NewLabels(p, u) \in Seq(Nat) /\ Len(NewLabels(p, u)) = Len(u.ranges)
           /\ Len(p.entries) \in Nat /\ Len(u.ranges) \in Nat
<1> DEFINE n == Len(p.entries)
<1> DEFINE m == Len(u.ranges)
<1> DEFINE l == Len(u.contexts)
<1>1. n \in Nat /\ m \in Nat /\ l \in Nat
  BY DEF Packings, UnitOK
<1>2. DOMAIN u.ranges = 1 .. m /\ DOMAIN u.contexts = 1 .. l
  BY DEF UnitOK
<1>3. /\ \A i \in 1 .. m : u.ranges[i] \in R
      /\ \A k \in 1 .. l : u.contexts[k] \in [range : Ranges, of : SUBSET Nat]
  <2> DEFINE X == [range : Ranges, of : SUBSET Nat]
  <2>1. u.ranges \in Seq(R) /\ u.contexts \in Seq(X)
    BY DEF UnitOK
  <2> HIDE DEF X
  <2>2. \A k \in 1 .. l : u.contexts[k] \in X
    BY <2>1
  <2> QED
    BY <2>1, <2>2 DEF X
<1> HIDE DEF n, m, l
<1>4. \A i \in 1 .. m : n + i \in Nat /\ EntryOf(n + i, u.ranges[i]) \in Entries(R)
  BY <1>1, <1>3 DEF Entries
<1>5. ASSUME NEW k \in 1 .. l
      PROVE  [range |-> u.contexts[k].range, labels |-> {n + i : i \in u.contexts[k].of}] \in Contexts
  <2>1. u.contexts[k].range \in Ranges /\ u.contexts[k].of \in SUBSET Nat
    BY <1>3
  <2>2. {n + i : i \in u.contexts[k].of} \in SUBSET Nat
    BY <1>1, <2>1
  <2> QED
    BY <2>1, <2>2 DEF Contexts
<1>6. NewEntries(p, u) \in [1 .. m -> Entries(R)]
  <2> HIDE DEF n
  <2>1. NewEntries(p, u) = [i \in 1 .. m |-> EntryOf(n + i, u.ranges[i])]
    BY <1>2 DEF NewEntries, n
  <2> QED
    BY <1>4, <2>1
<1>7. NewContexts(p, u) \in [1 .. l -> Contexts]
  <2>1. NewContexts(p, u) = [k \in 1 .. l |-> [range |-> u.contexts[k].range,
                                               labels |-> {n + i : i \in u.contexts[k].of}]]
    BY <1>2 DEF NewContexts, n
  <2> QED
    BY <1>5, <2>1
<1>8. NewLabels(p, u) \in [1 .. m -> Nat]
  <2>1. NewLabels(p, u) = [i \in 1 .. m |-> n + i]
    BY <1>2 DEF NewLabels, n
  <2> QED
    BY <1>4, <2>1
<1>9. \A S, k : k \in Nat => \A f \in [1 .. k -> S] : f \in Seq(S) /\ Len(f) = k
  OBVIOUS
<1> QED
  BY <1>1, <1>6, <1>7, <1>8, <1>9 DEF n, m, l

(* Packing keeps its types.                                                *)
LEMMA ProposedType ==
    ASSUME NEW R, NEW I, NEW p \in Packings(R, I), NEW u, UnitOK(u, R, I)
    PROVE  Proposed(p, u) \in Packings(R, I)
<1> DEFINE q == Proposed(p, u)
<1> DEFINE d == [unit |-> u.id, omission |-> "none", labels |-> NewLabels(p, u)]
<1>1. p.entries \in Seq(Entries(R)) /\ p.contexts \in Seq(Contexts) /\ p.dispositions \in Seq(Dispositions(I))
  BY DEF Packings
<1>2. d \in Dispositions(I)
  BY NewAre DEF Dispositions, Omissions, UnitOK
<1>5. NewEntries(p, u) \in Seq(Entries(R)) /\ NewContexts(p, u) \in Seq(Contexts)
  BY NewAre
<1>3. q.dispositions = Append(p.dispositions, d)
  BY ProposedParts
<1> HIDE DEF d
<1>4. p.entries \o NewEntries(p, u) \in Seq(Entries(R))
  BY <1>1, <1>5
<1>10. p.contexts \o NewContexts(p, u) \in Seq(Contexts)
  BY <1>1, <1>5
<1>6. q.entries \in Seq(Entries(R))
  BY <1>4, ProposedParts
<1>7. q.contexts \in Seq(Contexts)
  BY <1>10, ProposedParts
<1>8. q.dispositions \in Seq(Dispositions(I))
  BY <1>1, <1>2, <1>3
<1>9. q = [entries |-> q.entries, contexts |-> q.contexts, dispositions |-> q.dispositions]
  BY ProposedParts
<1> HIDE DEF q
<1> QED
  BY <1>6, <1>7, <1>8, <1>9 DEF Packings, q

(* An omission keeps the shape of a packing. *)
LEMMA OmitType ==
    ASSUME NEW R, NEW I, NEW p \in Packings(R, I), NEW u, UnitOK(u, R, I), NEW reason \in Omissions
    PROVE  Omit(p, u, reason) \in Packings(R, I)
<1> DEFINE q == Omit(p, u, reason)
<1> DEFINE d == [unit |-> u.id, omission |-> reason, labels |-> <<>>]
<1>1. p.entries \in Seq(Entries(R)) /\ p.contexts \in Seq(Contexts) /\ p.dispositions \in Seq(Dispositions(I))
  BY DEF Packings
<1>2. d \in Dispositions(I)
  BY DEF Dispositions, UnitOK
<1>3. q.dispositions = Append(p.dispositions, d)
  BY OmitParts
<1> HIDE DEF d
<1>8. q.dispositions \in Seq(Dispositions(I))
  BY <1>1, <1>2, <1>3
<1>9. q = [entries |-> p.entries, contexts |-> p.contexts, dispositions |-> q.dispositions]
  BY OmitParts
<1> HIDE DEF q
<1> QED
  BY <1>1, <1>8, <1>9 DEF Packings, q

(* The bytes of a sequence of things that have a range.                    *)
BytesOf(s) == [i \in DOMAIN s |-> RangeBytes(s[i].range)]
UnitBytes(u) == Total(BytesOf(u.ranges)) + Total(BytesOf(u.contexts))

HaveRanges(s, n) == Len(s) = n /\ DOMAIN s = 1 .. n /\ \A i \in 1 .. n : s[i].range \in Ranges

(* The bytes of entries are counted in naturals. *)
LEMMA BytesAre ==
    ASSUME NEW n \in Nat, NEW s, HaveRanges(s, n)
    PROVE  /\ BytesOf(s) \in [1 .. n -> Nat] /\ Total(BytesOf(s)) \in Nat
           /\ n = 0 => Total(BytesOf(s)) = 0
<1>1. \A r \in Ranges : RangeBytes(r) \in Nat
  BY BundleAssumption DEF Ranges, RangeBytes
<1>2. BytesOf(s) \in [1 .. n -> Nat]
  BY <1>1 DEF HaveRanges, BytesOf
<1> QED
  BY <1>2, TotalNat

(* The bytes of two sequences with ranges, one behind the other.           *)
JoinRanges(u, s, n, t, m) ==
  /\ \A i \in 1 .. n : u[i].range = s[i].range
  /\ \A i \in 1 .. m : u[n + i].range = t[i].range

(* Bytes add up over a concatenation. *)
LEMMA BytesJoin ==
    ASSUME NEW n \in Nat, NEW m \in Nat, NEW s, HaveRanges(s, n), NEW t, HaveRanges(t, m),
           NEW u, HaveRanges(u, n + m), JoinRanges(u, s, n, t, m)
    PROVE  Total(BytesOf(u)) = Total(BytesOf(s)) + Total(BytesOf(t))
<1>1. n + m \in Nat
  OBVIOUS
<1>2. BytesOf(s) \in [1 .. n -> Int] /\ BytesOf(t) \in [1 .. m -> Int]
      /\ BytesOf(u) \in [1 .. n + m -> Int]
  <2>1. BytesOf(s) \in [1 .. n -> Nat] /\ BytesOf(t) \in [1 .. m -> Nat]
        /\ BytesOf(u) \in [1 .. n + m -> Nat]
    BY <1>1, BytesAre
  <2>2. \A k : [1 .. k -> Nat] \subseteq [1 .. k -> Int]
    OBVIOUS
  <2> QED
    BY <2>1, <2>2
<1>3. \A i \in 1 .. n : BytesOf(u)[i] = BytesOf(s)[i]
  <2>1. \A i \in 1 .. n : i \in 1 .. n + m
    OBVIOUS
  <2> QED
    BY <2>1 DEF BytesOf, HaveRanges, JoinRanges
<1>4. \A i \in 1 .. m : BytesOf(u)[n + i] = BytesOf(t)[i]
  <2>1. \A i \in 1 .. m : n + i \in 1 .. n + m
    OBVIOUS
  <2> QED
    BY <2>1 DEF BytesOf, HaveRanges, JoinRanges
<1> QED
  BY ZenonT(60), <1>2, <1>3, <1>4, TotalParts

(* A unit adds its ranges and its bytes.                                   *)
LEMMA ProposedSize ==
    ASSUME NEW R, RangesOK(R), NEW I, NEW p \in Packings(R, I), NEW u, UnitOK(u, R, I)
    PROVE  /\ Len(Proposed(p, u).entries) = Len(p.entries) + Len(u.ranges)
           /\ PreviewBytes(Proposed(p, u)) = PreviewBytes(p) + UnitBytes(u)
           /\ Len(p.entries) \in Nat /\ Len(u.ranges) \in Nat
           /\ PreviewBytes(p) \in Nat /\ UnitBytes(u) \in Nat
<1> DEFINE q == Proposed(p, u)
<1> DEFINE n == Len(p.entries)
<1> DEFINE m == Len(u.ranges)
<1> DEFINE k == Len(p.contexts)
<1> DEFINE l == Len(u.contexts)
<1>1. /\ p.entries \in Seq(Entries(R)) /\ p.contexts \in Seq(Contexts)
      /\ u.ranges \in Seq(R) /\ u.contexts \in Seq([range : Ranges, of : SUBSET Nat])
  BY DEF Packings, UnitOK
<1>2. n \in Nat /\ m \in Nat /\ k \in Nat /\ l \in Nat
  <2> DEFINE X == [range : Ranges, of : SUBSET Nat]
  <2>1. u.contexts \in Seq(X)
    BY <1>1
  <2> HIDE DEF X
  <2> QED
    BY <1>1, <2>1
<1>3. /\ q.entries = p.entries \o NewEntries(p, u) /\ q.contexts = p.contexts \o NewContexts(p, u)
  BY ProposedParts
<1>4. /\ NewEntries(p, u) \in Seq(Entries(R)) /\ Len(NewEntries(p, u)) = m
      /\ NewContexts(p, u) \in Seq(Contexts) /\ Len(NewContexts(p, u)) = l
  BY NewAre
<1>5. HaveRanges(u.ranges, m)
  BY <1>1 DEF HaveRanges, RangesOK
<1>6. HaveRanges(u.contexts, l)
  <2> DEFINE X == [range : Ranges, of : SUBSET Nat]
  <2>1. u.contexts \in Seq(X) /\ \A x \in X : x.range \in Ranges
    BY <1>1
  <2> HIDE DEF X
  <2> QED
    BY <2>1 DEF HaveRanges
<1>7. \A x \in Entries(R) : x.range \in Ranges
  BY DEF Entries, EntryOf, RangesOK
<1>8. \A x \in Contexts : x.range \in Ranges
  BY DEF Contexts
<1>9. HaveRanges(p.entries, n) /\ HaveRanges(p.contexts, k)
  BY <1>1, <1>7, <1>8 DEF HaveRanges
<1>10. DOMAIN u.ranges = 1 .. m /\ DOMAIN u.contexts = 1 .. l
  BY <1>5, <1>6 DEF HaveRanges
<1> HIDE DEF n, m, k, l, q
<1>11. /\ Len(q.entries) = n + m /\ q.entries \in Seq(Entries(R))
       /\ \A i \in 1 .. n : q.entries[i] = p.entries[i]
       /\ \A i \in 1 .. m : q.entries[n + i] = NewEntries(p, u)[i]
  <2> DEFINE e == p.entries
  <2> DEFINE w == NewEntries(p, u)
  <2> DEFINE T == Entries(R)
  <2>0. e \in Seq(T) /\ w \in Seq(T)
    BY <1>1, <1>4
  <2>1. Len(e) = n /\ Len(w) = m /\ q.entries = e \o w
    BY <1>3, <1>4 DEF n
  <2> HIDE DEF e, w, T
  <2>2. /\ e \o w \in Seq(T) /\ Len(e \o w) = Len(e) + Len(w)
        /\ \A i \in 1 .. Len(e) : (e \o w)[i] = e[i]
        /\ \A i \in 1 .. Len(w) : (e \o w)[Len(e) + i] = w[i]
    BY <2>0, JoinIs
  <2>3. /\ Len(q.entries) = n + m /\ q.entries \in Seq(T)
        /\ \A i \in 1 .. n : q.entries[i] = e[i]
        /\ \A i \in 1 .. m : q.entries[n + i] = w[i]
    BY <2>1, <2>2
  <2> QED
    BY <2>3 DEF e, w, T
<1>12. /\ Len(q.contexts) = k + l /\ q.contexts \in Seq(Contexts)
       /\ \A i \in 1 .. k : q.contexts[i] = p.contexts[i]
       /\ \A i \in 1 .. l : q.contexts[k + i] = NewContexts(p, u)[i]
  <2> DEFINE e == p.contexts
  <2> DEFINE w == NewContexts(p, u)
  <2>0. e \in Seq(Contexts) /\ w \in Seq(Contexts)
    BY <1>1, <1>4
  <2>1. Len(e) = k /\ Len(w) = l /\ q.contexts = e \o w
    BY <1>3, <1>4 DEF k
  <2> HIDE DEF e, w
  <2>2. /\ e \o w \in Seq(Contexts) /\ Len(e \o w) = Len(e) + Len(w)
        /\ \A i \in 1 .. Len(e) : (e \o w)[i] = e[i]
        /\ \A i \in 1 .. Len(w) : (e \o w)[Len(e) + i] = w[i]
    BY <2>0, JoinIs
  <2>3. /\ Len(q.contexts) = k + l /\ q.contexts \in Seq(Contexts)
        /\ \A i \in 1 .. k : q.contexts[i] = e[i]
        /\ \A i \in 1 .. l : q.contexts[k + i] = w[i]
    BY <2>1, <2>2
  <2> QED
    BY <2>3 DEF e, w
<1>13. \A i \in 1 .. m : NewEntries(p, u)[i].range = u.ranges[i].range
  BY <1>10 DEF NewEntries, EntryOf
<1>14. \A i \in 1 .. l : NewContexts(p, u)[i].range = u.contexts[i].range
  BY <1>10 DEF NewContexts
<1>15. HaveRanges(q.entries, n + m)
  BY <1>7, <1>11 DEF HaveRanges
<1>16. HaveRanges(q.contexts, k + l)
  BY <1>8, <1>12 DEF HaveRanges
<1>17. Total(BytesOf(q.entries)) = Total(BytesOf(p.entries)) + Total(BytesOf(u.ranges))
  <2>1. JoinRanges(q.entries, p.entries, n, u.ranges, m)
    BY <1>11, <1>13 DEF JoinRanges
  <2> QED
    BY <1>2, <1>5, <1>9, <1>15, <2>1, BytesJoin
<1>18. Total(BytesOf(q.contexts)) = Total(BytesOf(p.contexts)) + Total(BytesOf(u.contexts))
  <2>1. JoinRanges(q.contexts, p.contexts, k, u.contexts, l)
    BY <1>12, <1>14 DEF JoinRanges
  <2> QED
    BY <1>2, <1>6, <1>9, <1>16, <2>1, BytesJoin
<1>19. /\ Total(BytesOf(p.entries)) \in Nat /\ Total(BytesOf(u.ranges)) \in Nat
       /\ Total(BytesOf(p.contexts)) \in Nat /\ Total(BytesOf(u.contexts)) \in Nat
  BY <1>2, <1>5, <1>6, <1>9, BytesAre
<1>20. \A v : PreviewBytes(v) = Total(BytesOf(v.entries)) + Total(BytesOf(v.contexts))
  BY DEF PreviewBytes, BytesOf
<1>21. PreviewBytes(q) = PreviewBytes(p) + UnitBytes(u) /\ PreviewBytes(p) \in Nat /\ UnitBytes(u) \in Nat
  BY <1>17, <1>18, <1>19, <1>20 DEF UnitBytes
<1> QED
  BY <1>2, <1>11, <1>21 DEF n, m, q

(* The labels given to units, and the numbers of the entries.              *)
LabelsOf(d) == [i \in DOMAIN d |-> d[i].labels]
Numbers(n) == [i \in 1 .. n |-> i]
SizeReasons == {"ENTRY_LIMIT_EXCEEDED", "PREVIEW_BYTES_EXCEEDED"}

(* The labels number the entries; the size is in the budget; what was left *)
(* out for it exceeds it, and would in addition to what is there now.      *)
Labelled(p) ==
  /\ \A i \in 1 .. Len(p.entries) : p.entries[i].label = i
  /\ FlattenSeq(LabelsOf(p.dispositions)) = Numbers(Len(p.entries))
Within(p, B) == ~ Exceeds(p, B)
TooLarge(p, U, B) ==
  \A i \in 1 .. Len(p.dispositions) :
    p.dispositions[i].omission \in SizeReasons =>
      \E u \in U : /\ u.id = p.dispositions[i].unit /\ ~ u.duplicate
                   /\ Exceeds(Proposed(p, u), B)

(* A unit that is in has an entry for each of its ranges.                  *)
CitesUnit(p, labels, u) ==
  /\ DOMAIN labels = 1 .. Len(u.ranges)
  /\ \A k \in 1 .. Len(u.ranges) :
       /\ labels[k] \in 1 .. Len(p.entries)
       /\ p.entries[labels[k]] = EntryOf(labels[k], u.ranges[k])
Extends(q, p) ==
  \A k \in 1 .. Len(p.entries) : k \in 1 .. Len(q.entries) /\ q.entries[k] = p.entries[k]

PackedOK(p, R, I, U, B) ==
  p \in Packings(R, I) /\ Labelled(p) /\ Within(p, B) /\ TooLarge(p, U, B)

(* Labels cite the same unit in a longer list of entries. *)
LEMMA ExtendsCites ==
    ASSUME NEW q, NEW p, Extends(q, p), NEW labels, NEW u, CitesUnit(p, labels, u)
    PROVE  CitesUnit(q, labels, u)
BY DEF Extends, CitesUnit

(* One more disposition appends its labels. *)
LEMMA LabelsAppend ==
    ASSUME NEW I, NEW d \in Seq(Dispositions(I)), NEW x \in Dispositions(I)
    PROVE  FlattenSeq(LabelsOf(Append(d, x))) = FlattenSeq(LabelsOf(d)) \o x.labels
<1>1. d \in Seq(Dispositions(I)) /\ Len(d) \in Nat /\ DOMAIN d = 1 .. Len(d)
      /\ \A i \in 1 .. Len(d) : d[i] \in Dispositions(I)
  OBVIOUS
<1>2. \A y \in Dispositions(I) : y.labels \in Seq(Nat)
  BY DEF Dispositions
<1>3. LabelsOf(d) \in [1 .. Len(d) -> Seq(Nat)]
  BY <1>1, <1>2 DEF LabelsOf
<1>4. LabelsOf(d) \in Seq(Seq(Nat)) /\ Len(LabelsOf(d)) = Len(d)
  BY <1>1, <1>3
<1>5. x.labels \in Seq(Nat)
  BY <1>2
<1>6. LabelsOf(Append(d, x)) = Append(LabelsOf(d), x.labels)
  <2> DEFINE n == Len(d)
  <2>1. DOMAIN Append(d, x) = 1 .. n + 1
        /\ \A i \in 1 .. n + 1 : Append(d, x)[i] = IF i = n + 1 THEN x ELSE d[i]
    OBVIOUS
  <2> DEFINE a == LabelsOf(d)
  <2>2. Append(a, x.labels) = [i \in 1 .. n + 1 |-> IF i = n + 1 THEN x.labels ELSE a[i]]
    <3>1. Len(a) = n
      BY <1>4
    <3> HIDE DEF a, n
    <3> QED
      BY SMTT(30), <3>1 DEF Append
  <2>3. \A i \in 1 .. n : a[i] = d[i].labels
    BY <1>1 DEF LabelsOf
  <2> HIDE DEF a
  <2>4. LabelsOf(Append(d, x)) = [i \in 1 .. n + 1 |-> Append(d, x)[i].labels]
    BY <2>1 DEF LabelsOf
  <2>5. ASSUME NEW i \in 1 .. n + 1
        PROVE  Append(d, x)[i].labels = IF i = n + 1 THEN x.labels ELSE a[i]
    <3>1. CASE i = n + 1
      BY <2>1, <3>1
    <3>2. CASE i # n + 1
      <4>1. i \in 1 .. n
        BY <1>1, <3>2
      <4> QED
        BY <2>1, <2>3, <3>2, <4>1
    <3> QED
      BY <3>1, <3>2
  <2> QED
    BY <2>2, <2>4, <2>5 DEF a
<1> HIDE DEF LabelsOf
<1> QED
  BY <1>4, <1>5, <1>6, FlattenAppend

(* Leaving a unit out changes nothing that a budget counts.                *)
LEMMA OmitSize ==
    ASSUME NEW R, NEW I, NEW p \in Packings(R, I), NEW u, NEW reason, NEW B
    PROVE  /\ PreviewBytes(Omit(p, u, reason)) = PreviewBytes(p)
           /\ Exceeds(Omit(p, u, reason), B) <=> Exceeds(p, B)
<1>1. /\ Omit(p, u, reason).entries = p.entries
      /\ Omit(p, u, reason).contexts = p.contexts
      /\ Omit(p, u, reason).dispositions =
           Append(p.dispositions, [unit |-> u.id, omission |-> reason, labels |-> <<>>])
      /\ Omit(p, u, reason) = [entries |-> p.entries, contexts |-> p.contexts,
                               dispositions |-> Omit(p, u, reason).dispositions]
  BY OmitParts, Zenon
<1>2. PreviewBytes(Omit(p, u, reason)) = PreviewBytes(p)
  BY <1>1 DEF PreviewBytes
<1> QED
  BY <1>1, <1>2 DEF Exceeds

(* What exceeds a budget also does in addition to more.                    *)
LEMMA ExceedsMore ==
    ASSUME NEW R, RangesOK(R), NEW I, NEW p \in Packings(R, I), NEW q \in Packings(R, I),
           Len(p.entries) <= Len(q.entries), PreviewBytes(p) <= PreviewBytes(q),
           NEW u, UnitOK(u, R, I), NEW B, B \in [entries : Nat, bytes : Nat],
           Exceeds(Proposed(p, u), B)
    PROVE  Exceeds(Proposed(q, u), B)
<1>1. /\ Len(Proposed(p, u).entries) = Len(p.entries) + Len(u.ranges)
      /\ PreviewBytes(Proposed(p, u)) = PreviewBytes(p) + UnitBytes(u)
      /\ Len(p.entries) \in Nat /\ Len(u.ranges) \in Nat
      /\ PreviewBytes(p) \in Nat /\ UnitBytes(u) \in Nat
  BY ProposedSize
<1>2. /\ Len(Proposed(q, u).entries) = Len(q.entries) + Len(u.ranges)
      /\ PreviewBytes(Proposed(q, u)) = PreviewBytes(q) + UnitBytes(u)
      /\ Len(q.entries) \in Nat /\ Len(u.ranges) \in Nat
      /\ PreviewBytes(q) \in Nat /\ UnitBytes(u) \in Nat
  BY ProposedSize
<1>3. B.entries \in Nat /\ B.bytes \in Nat
  OBVIOUS
<1>4. Len(Proposed(p, u).entries) > B.entries \/ PreviewBytes(Proposed(p, u)) > B.bytes
  BY DEF Exceeds
<1>5. ASSUME Len(Proposed(p, u).entries) > B.entries PROVE Len(Proposed(q, u).entries) > B.entries
  <2> DEFINE a == Len(Proposed(p, u).entries)
  <2> DEFINE b == Len(Proposed(q, u).entries)
  <2> DEFINE c == Len(p.entries)
  <2> DEFINE d == Len(q.entries)
  <2> DEFINE m == Len(u.ranges)
  <2> DEFINE top == B.entries
  <2>1. a = c + m /\ b = d + m /\ c \in Nat /\ d \in Nat /\ m \in Nat
    BY <1>1, <1>2
  <2>2. top \in Nat /\ a > top /\ c <= d
    BY <1>3, <1>5
  <2> HIDE DEF a, b, c, d, m, top
  <2>3. b > top
    BY <2>1, <2>2
  <2> QED
    BY <2>3 DEF b, top
<1>6. ASSUME PreviewBytes(Proposed(p, u)) > B.bytes PROVE PreviewBytes(Proposed(q, u)) > B.bytes
  BY <1>1, <1>2, <1>3, <1>6
<1> QED
  BY <1>4, <1>5, <1>6 DEF Exceeds

(* An omission keeps a packing well formed. *)
LEMMA OmitKeeps ==
    ASSUME NEW R, RangesOK(R), NEW I, NEW U, \A u \in U : UnitOK(u, R, I),
           NEW B \in [entries : Nat, bytes : Nat],
           NEW p, PackedOK(p, R, I, U, B), NEW u \in U, NEW reason \in Omissions \ {"none"},
           reason \in SizeReasons => ~ u.duplicate /\ Exceeds(Proposed(p, u), B)
    PROVE  PackedOK(Omit(p, u, reason), R, I, U, B)
<1> DEFINE q == Omit(p, u, reason)
<1> DEFINE x == [unit |-> u.id, omission |-> reason, labels |-> <<>>]
<1>1. p \in Packings(R, I) /\ UnitOK(u, R, I)
  BY DEF PackedOK
<1>2. q \in Packings(R, I)
  BY <1>1, OmitType
<1>3. q.entries = p.entries /\ q.dispositions = Append(p.dispositions, x)
  BY <1>1, OmitParts
<1>4. PreviewBytes(q) = PreviewBytes(p) /\ (Exceeds(q, B) <=> Exceeds(p, B))
  BY <1>1, OmitSize
<1>5. x \in Dispositions(I) /\ x.labels = <<>> /\ x.unit = u.id /\ x.omission = reason
  BY <1>1 DEF Dispositions, UnitOK
<1>6. p.dispositions \in Seq(Dispositions(I)) /\ Len(p.entries) \in Nat
  BY <1>1 DEF Packings
<1> HIDE DEF q, x
<1>7. Labelled(q)
  <2>1. FlattenSeq(LabelsOf(q.dispositions)) = FlattenSeq(LabelsOf(p.dispositions)) \o <<>>
    BY <1>3, <1>5, <1>6, LabelsAppend
  <2>2. Numbers(Len(p.entries)) \o <<>> = Numbers(Len(p.entries))
    <3>1. Numbers(Len(p.entries)) \in Seq(Nat)
      BY <1>6 DEF Numbers
    <3> QED
      BY <3>1
  <2> QED
    BY <1>3, <2>1, <2>2 DEF Labelled, PackedOK
<1>8. Within(q, B)
  BY <1>4 DEF Within, PackedOK
<1>9. \A v \in U : Exceeds(Proposed(p, v), B) => Exceeds(Proposed(q, v), B)
  <2> SUFFICES ASSUME NEW v \in U, Exceeds(Proposed(p, v), B) PROVE Exceeds(Proposed(q, v), B)
    OBVIOUS
  <2>1. UnitOK(v, R, I)
    OBVIOUS
  <2>2. Len(p.entries) <= Len(q.entries) /\ PreviewBytes(p) <= PreviewBytes(q)
    <3>1. PreviewBytes(p) \in Nat
      BY <1>1, ProposedSize
    <3> QED
      BY <1>3, <1>4, <1>6, <3>1
  <2> QED
    BY <1>1, <1>2, <2>1, <2>2, ExceedsMore
<1>10. TooLarge(q, U, B)
  <2> SUFFICES ASSUME NEW i \in 1 .. Len(q.dispositions), q.dispositions[i].omission \in SizeReasons
               PROVE  \E v \in U : /\ v.id = q.dispositions[i].unit /\ ~ v.duplicate
                                   /\ Exceeds(Proposed(q, v), B)
    BY DEF TooLarge
  <2>1. Len(p.dispositions) \in Nat /\ Len(q.dispositions) = Len(p.dispositions) + 1
        /\ q.dispositions[i] = IF i = Len(p.dispositions) + 1 THEN x ELSE p.dispositions[i]
    BY <1>3, <1>6
  <2>2. CASE i = Len(p.dispositions) + 1
    BY <1>5, <1>9, <2>1, <2>2
  <2>3. CASE i # Len(p.dispositions) + 1
    <3>1. i \in 1 .. Len(p.dispositions) /\ q.dispositions[i] = p.dispositions[i]
      BY <2>1, <2>3
    <3>2. PICK v \in U : /\ v.id = p.dispositions[i].unit /\ ~ v.duplicate
                         /\ Exceeds(Proposed(p, v), B)
      BY <3>1 DEF PackedOK, TooLarge
    <3> QED
      BY <1>9, <3>1, <3>2
  <2> QED
    BY <2>2, <2>3
<1> QED
  BY <1>2, <1>7, <1>8, <1>10 DEF PackedOK, q

(* A unit that fits keeps what packing keeps.                              *)
LEMMA ProposedKeeps ==
    ASSUME NEW R, RangesOK(R), NEW I, NEW U, \A u \in U : UnitOK(u, R, I),
           NEW B \in [entries : Nat, bytes : Nat],
           NEW p, PackedOK(p, R, I, U, B), NEW u \in U, ~ Exceeds(Proposed(p, u), B)
    PROVE  /\ PackedOK(Proposed(p, u), R, I, U, B)
           /\ CitesUnit(Proposed(p, u), NewLabels(p, u), u) /\ Extends(Proposed(p, u), p)
<1> DEFINE q == Proposed(p, u)
<1> DEFINE x == [unit |-> u.id, omission |-> "none", labels |-> NewLabels(p, u)]
<1> DEFINE n == Len(p.entries)
<1> DEFINE m == Len(u.ranges)
<1>1. p \in Packings(R, I) /\ UnitOK(u, R, I)
  BY DEF PackedOK
<1>2. q \in Packings(R, I)
  BY <1>1, ProposedType
<1>3. q.entries = p.entries \o NewEntries(p, u) /\ q.dispositions = Append(p.dispositions, x)
  BY <1>1, ProposedParts
<1>0. /\ Len(Proposed(p, u).entries) = Len(p.entries) + Len(u.ranges)
      /\ PreviewBytes(Proposed(p, u)) = PreviewBytes(p) + UnitBytes(u)
      /\ Len(p.entries) \in Nat /\ Len(u.ranges) \in Nat
      /\ PreviewBytes(p) \in Nat /\ UnitBytes(u) \in Nat
  BY <1>1, ProposedSize
<1>4. /\ Len(q.entries) = n + m /\ PreviewBytes(q) = PreviewBytes(p) + UnitBytes(u)
      /\ n \in Nat /\ m \in Nat /\ PreviewBytes(p) \in Nat /\ UnitBytes(u) \in Nat
  BY <1>0, Zenon
<1>5. /\ NewEntries(p, u) \in Seq(Entries(R)) /\ Len(NewEntries(p, u)) = m
      /\ NewLabels(p, u) \in Seq(Nat) /\ Len(NewLabels(p, u)) = m
  BY <1>1, NewAre
<1>6. p.dispositions \in Seq(Dispositions(I)) /\ p.entries \in Seq(Entries(R))
  BY <1>1 DEF Packings
<1>7. x \in Dispositions(I) /\ x.labels = NewLabels(p, u) /\ x.omission = "none"
  BY <1>1, <1>5 DEF Dispositions, UnitOK, Omissions
<1>8. u.ranges \in Seq(R) /\ DOMAIN u.ranges = 1 .. m
  BY <1>1 DEF UnitOK
<1>9. /\ \A i \in 1 .. m : NewEntries(p, u)[i].label = n + i
      /\ NewLabels(p, u) = [i \in 1 .. m |-> n + i]
  BY <1>8 DEF NewEntries, NewLabels, EntryOf
<1>10. /\ \A i \in 1 .. n : q.entries[i] = p.entries[i]
       /\ \A i \in 1 .. m : q.entries[n + i] = NewEntries(p, u)[i]
  <2> DEFINE e == p.entries
  <2> DEFINE w == NewEntries(p, u)
  <2> DEFINE T == Entries(R)
  <2>0. e \in Seq(T) /\ w \in Seq(T)
    BY <1>5, <1>6
  <2>1. Len(w) = m /\ Len(e) = n /\ q.entries = e \o w
    BY <1>3, <1>5, <1>6
  <2> HIDE DEF e, w, T, n, m, q
  <2>2. /\ e \o w \in Seq(T) /\ Len(e \o w) = Len(e) + Len(w)
        /\ \A i \in 1 .. Len(e) : (e \o w)[i] = e[i]
        /\ \A i \in 1 .. Len(w) : (e \o w)[Len(e) + i] = w[i]
    BY <2>0, JoinIs
  <2>3. /\ \A i \in 1 .. n : q.entries[i] = e[i]
        /\ \A i \in 1 .. m : q.entries[n + i] = w[i]
    BY <2>1, <2>2
  <2> QED
    BY <2>3 DEF e, w
<1>11. \A i \in 1 .. n : p.entries[i].label = i
  BY DEF PackedOK, Labelled
<1>12. FlattenSeq(LabelsOf(p.dispositions)) = Numbers(n)
  BY DEF PackedOK, Labelled
<1>13. FlattenSeq(LabelsOf(q.dispositions)) = FlattenSeq(LabelsOf(p.dispositions)) \o NewLabels(p, u)
  BY ZenonT(60), <1>3, <1>6, <1>7, LabelsAppend
<1> HIDE DEF n, m, q, x
<1>14. Numbers(n) \o [i \in 1 .. m |-> n + i] = Numbers(n + m)
  BY <1>4 DEF Numbers
<1>15. \A i \in 1 .. n + m : q.entries[i].label = i
  <2> SUFFICES ASSUME NEW i \in 1 .. n + m PROVE q.entries[i].label = i
    OBVIOUS
  <2>1. CASE i <= n
    <3>1. i \in 1 .. n
      BY <1>4, <2>1
    <3> QED
      BY <1>10, <1>11, <3>1
  <2>2. CASE i > n
    <3>1. i - n \in 1 .. m /\ n + (i - n) = i
      BY <1>4, <2>2
    <3> QED
      BY <1>9, <1>10, <3>1
  <2> QED
    BY <1>4, <2>1, <2>2
<1>16. Labelled(q)
  <2>1. FlattenSeq(LabelsOf(q.dispositions)) = Numbers(n + m)
    BY <1>9, <1>12, <1>13, <1>14
  <2> QED
    BY <1>4, <1>15, <2>1 DEF Labelled
<1>17. Within(q, B)
  BY DEF Within, q
<1>18. \A v \in U : Exceeds(Proposed(p, v), B) => Exceeds(Proposed(q, v), B)
  <2> SUFFICES ASSUME NEW v \in U, Exceeds(Proposed(p, v), B) PROVE Exceeds(Proposed(q, v), B)
    OBVIOUS
  <2>1. UnitOK(v, R, I)
    OBVIOUS
  <2>2. Len(p.entries) <= Len(q.entries)
    BY <1>4 DEF n
  <2>3. PreviewBytes(p) <= PreviewBytes(q)
    BY <1>4
  <2> QED
    BY <1>1, <1>2, <2>1, <2>2, <2>3, ExceedsMore
<1>19. TooLarge(q, U, B)
  <2> SUFFICES ASSUME NEW i \in 1 .. Len(q.dispositions), q.dispositions[i].omission \in SizeReasons
               PROVE  \E v \in U : /\ v.id = q.dispositions[i].unit /\ ~ v.duplicate
                                   /\ Exceeds(Proposed(q, v), B)
    BY DEF TooLarge
  <2>1. Len(p.dispositions) \in Nat /\ Len(q.dispositions) = Len(p.dispositions) + 1
        /\ q.dispositions[i] = IF i = Len(p.dispositions) + 1 THEN x ELSE p.dispositions[i]
    BY <1>3, <1>6
  <2>2. i # Len(p.dispositions) + 1
    BY <1>7, <2>1 DEF SizeReasons
  <2>3. i \in 1 .. Len(p.dispositions) /\ q.dispositions[i] = p.dispositions[i]
    BY <2>1, <2>2
  <2>4. PICK v \in U : /\ v.id = p.dispositions[i].unit /\ ~ v.duplicate
                       /\ Exceeds(Proposed(p, v), B)
    BY <2>3 DEF PackedOK, TooLarge
  <2> QED
    BY <1>18, <2>3, <2>4
<1>20. CitesUnit(q, NewLabels(p, u), u)
  <2>1. ASSUME NEW k \in 1 .. m
        PROVE  /\ NewLabels(p, u)[k] = n + k /\ n + k \in 1 .. n + m
               /\ q.entries[n + k] = EntryOf(n + k, u.ranges[k])
    <3>1. NewEntries(p, u)[k] = EntryOf(n + k, u.ranges[k])
      BY <1>8 DEF NewEntries, n
    <3> QED
      BY <1>4, <1>9, <1>10, <3>1
  <2> QED
    BY <1>4, <1>9, <2>1 DEF CitesUnit, m
<1>21. Extends(q, p)
  <2>1. ASSUME NEW k \in 1 .. n PROVE k \in 1 .. n + m /\ q.entries[k] = p.entries[k]
    BY <1>4, <1>10
  <2> QED
    BY <1>4, <2>1 DEF Extends, n
<1> QED
  BY <1>2, <1>16, <1>17, <1>19, <1>20, <1>21 DEF PackedOK, q

(* q has one disposition more than p, that of the unit u.                  *)
Disposal(q, p, u, x) ==
  /\ q.dispositions = Append(p.dispositions, x) /\ x.unit = u.id
  /\ x.omission = "none" => CitesUnit(q, x.labels, u)
Disposes(q, p, u) == Extends(q, p) /\ \E x : Disposal(q, p, u, x)

(* Packing one unit keeps a packing well formed. *)
LEMMA PackUnitKeeps ==
    ASSUME NEW R, RangesOK(R), NEW I, NEW U, \A u \in U : UnitOK(u, R, I),
           NEW B \in [entries : Nat, bytes : Nat],
           NEW p, PackedOK(p, R, I, U, B), NEW u \in U
    PROVE  /\ PackedOK(PackUnit(p, u, B), R, I, U, B)
           /\ Disposes(PackUnit(p, u, B), p, u)
<1>1. p \in Packings(R, I)
  BY DEF PackedOK
<1>2. ASSUME NEW reason, reason # "none"
      PROVE  Disposes(Omit(p, u, reason), p, u)
  <2> DEFINE x == [unit |-> u.id, omission |-> reason, labels |-> <<>>]
  <2>1. Omit(p, u, reason) = [p EXCEPT !.dispositions = Append(p.dispositions, x)]
    BY DEF Omit
  <2>2. p = [entries |-> p.entries, contexts |-> p.contexts, dispositions |-> p.dispositions]
    BY <1>1 DEF Packings
  <2>3. x.unit = u.id /\ x.omission # "none"
    BY <1>2
  <2> HIDE DEF x
  <2>4. Disposal(Omit(p, u, reason), p, u, x)
    BY <2>1, <2>2, <2>3 DEF Disposal
  <2>5. Omit(p, u, reason).entries = p.entries
    BY <2>1, <2>2
  <2>6. Extends(Omit(p, u, reason), p)
    BY <2>5 DEF Extends
  <2> QED
    BY <2>4, <2>6 DEF Disposes
<1>3. CASE u.duplicate
  <2> DEFINE reason == "DUPLICATE_CANDIDATE"
  <2>1. PackUnit(p, u, B) = Omit(p, u, reason)
    BY <1>3 DEF PackUnit
  <2>2. reason \in Omissions \ {"none"} /\ reason \notin SizeReasons
    BY DEF Omissions, SizeReasons
  <2> HIDE DEF reason
  <2>3. PackedOK(Omit(p, u, reason), R, I, U, B)
    BY <2>2, OmitKeeps
  <2>4. Disposes(Omit(p, u, reason), p, u)
    BY <1>2, <2>2
  <2> QED
    BY <2>1, <2>3, <2>4
<1>4. CASE ~ u.duplicate /\ Exceeds(Proposed(p, u), B)
  <2> DEFINE reason == OmissionReason(Proposed(p, u), B)
  <2>1. PackUnit(p, u, B) = Omit(p, u, reason)
    BY <1>4 DEF PackUnit
  <2>2. reason \in Omissions \ {"none"}
    BY DEF Omissions, OmissionReason
  <2> HIDE DEF reason
  <2>3. PackedOK(Omit(p, u, reason), R, I, U, B)
    BY <1>4, <2>2, OmitKeeps
  <2>4. Disposes(Omit(p, u, reason), p, u)
    BY <1>2, <2>2
  <2> QED
    BY <2>1, <2>3, <2>4
<1>5. CASE ~ u.duplicate /\ ~ Exceeds(Proposed(p, u), B)
  <2>1. PackUnit(p, u, B) = Proposed(p, u)
    BY <1>5 DEF PackUnit
  <2>2. /\ PackedOK(Proposed(p, u), R, I, U, B)
        /\ CitesUnit(Proposed(p, u), NewLabels(p, u), u) /\ Extends(Proposed(p, u), p)
    BY <1>5, ProposedKeeps
  <2> DEFINE x == [unit |-> u.id, omission |-> "none", labels |-> NewLabels(p, u)]
  <2>3. Proposed(p, u).dispositions = Append(p.dispositions, x)
    BY <1>1, ProposedParts
  <2>4. x.unit = u.id /\ x.labels = NewLabels(p, u)
    OBVIOUS
  <2> HIDE DEF x
  <2>5. Disposal(Proposed(p, u), p, u, x)
    BY <2>2, <2>3, <2>4 DEF Disposal
  <2> QED
    BY <2>1, <2>2, <2>5 DEF Disposes
<1> QED
  BY <1>3, <1>4, <1>5

(* What packing makes of a sequence of units.                              *)
UnitsOK(U, R, I) == \A u \in U : UnitOK(u, R, I)

DisposedAt(p, i, u) ==
  /\ p.dispositions[i].unit = u.id
  /\ p.dispositions[i].omission = "none" => CitesUnit(p, p.dispositions[i].labels, u)
Disposed(p, n, units) ==
  Len(p.dispositions) = n /\ \A i \in 1 .. n : DisposedAt(p, i, units[i])

(* Packing a list of units makes a well-formed packing that disposes of each. *)
LEMMA PackUnitsIs ==
    ASSUME NEW R, RangesOK(R), NEW I, NEW U, UnitsOK(U, R, I),
           NEW B \in [entries : Nat, bytes : Nat], NEW n \in Nat, NEW units, IsList(units, n, U)
    PROVE  PackedOK(PackUnits(units, B), R, I, U, B) /\ Disposed(PackUnits(units, B), n, units)
<1> DEFINE Q == {p \in Packings(R, I) : PackedOK(p, R, I, U, B)}
<1> DEFINE empty == [entries |-> <<>>, contexts |-> <<>>, dispositions |-> <<>>]
<1> DEFINE step(k, v) == PackUnit(v, units[k], B)
<1> DEFINE st == [x \in (1 .. n) \X Q |-> step(x[1], x[2])]
<1> DEFINE Is(h) == h = [A \in SUBSET (1 .. n) |->
                           IF A = {} THEN empty ELSE step(Max(A), h[A \ {Max(A)}])]
<1> DEFINE it == CHOOSE h : Is(h)
<1>0. \A p : p \in Q <=> PackedOK(p, R, I, U, B)
  BY DEF PackedOK
<1>24. units \in [1 .. n -> U] /\ \A u \in U : UnitOK(u, R, I)
  BY DEF IsList, UnitsOK
<1>1. \A k \in 1 .. n, v \in Q : step(k, v) \in Q
  <2> SUFFICES ASSUME NEW k \in 1 .. n, NEW v \in Q PROVE step(k, v) \in Q
    OBVIOUS
  <2>1. PackedOK(v, R, I, U, B) /\ units[k] \in U
    BY <1>0, <1>24
  <2>2. PackedOK(PackUnit(v, units[k], B), R, I, U, B)
    BY <1>24, <2>1, PackUnitKeeps
  <2> QED
    BY <1>0, <2>2
<1>2. \A k \in 1 .. n, v \in Q : st[<<k, v>>] = step(k, v)
  OBVIOUS
<1>3. \A x \in (1 .. n) \X Q : x[1] \in 1 .. n /\ x[2] \in Q
  OBVIOUS
<1>4. empty \in Q
  <2>1. empty \in Packings(R, I)
    BY DEF Packings
  <2>2. empty.entries = <<>> /\ empty.contexts = <<>> /\ empty.dispositions = <<>>
    OBVIOUS
  <2>3. Labelled(empty)
    <3>1. LabelsOf(<<>>) = <<>> /\ Numbers(0) = <<>> /\ Len(<<>>) = 0
      BY DEF LabelsOf, Numbers
    <3> QED
      BY <2>2, <3>1, FlattenEmpty DEF Labelled
  <2>4. PreviewBytes(empty) = 0
    <3>1. BytesOf(<<>>) \in [1 .. 0 -> Nat]
      BY DEF BytesOf
    <3>2. Total(BytesOf(<<>>)) = 0
      BY <3>1, TotalNat, 0 \in Nat
    <3>3. PreviewBytes(empty) = Total(BytesOf(<<>>)) + Total(BytesOf(<<>>))
      BY <2>2 DEF PreviewBytes, BytesOf
    <3> QED
      BY <3>2, <3>3
  <2>5. Within(empty, B)
    BY <2>2, <2>4 DEF Within, Exceeds
  <2>6. TooLarge(empty, U, B)
    BY <2>2 DEF TooLarge
  <2> HIDE DEF empty
  <2> QED
    BY <1>0, <2>1, <2>3, <2>5, <2>6 DEF PackedOK
<1>5. PackUnits(units, B) = it[1 .. n]
  <2>1. DOMAIN units = 1 .. n
    BY <1>24
  <2> QED
    BY <2>1 DEF PackUnits, FoldLeft, MapThenFoldSet
<1> HIDE DEF Q, step, empty
<1>6. st \in [(1 .. n) \X Q -> Q]
  BY <1>1, <1>3
<1> HIDE DEF st
<1>7. Stepping(st, 1 .. n, Q)
  BY <1>6 DEF Stepping
<1>8. \E h : Is(h)
  <2>1. PICK h : Folds(h, n, Q, empty, st)
    BY <1>4, <1>7, FoldExists
  <2>2. ASSUME NEW A \in SUBSET (1 .. n), A # {}
        PROVE  st[<<Max(A), h[A \ {Max(A)}]>>] = step(Max(A), h[A \ {Max(A)}])
    <3>1. Max(A) \in 1 .. n
      BY <2>2, MaxMinIn, 1 \in Int, n \in Int
    <3>2. h[A \ {Max(A)}] \in Q
      BY <2>1 DEF Folds
    <3> QED
      BY <1>2, <3>1, <3>2
  <2>3. h = [A \in SUBSET (1 .. n) |-> IF A = {} THEN empty ELSE step(Max(A), h[A \ {Max(A)}])]
    BY <2>1, <2>2 DEF Folds
  <2> QED
    BY <2>3
<1>9. Is(it)
  BY <1>8
<1> HIDE DEF it
<1>10. it[{}] = empty
  BY <1>9
<1>11. \A k \in 1 .. n : it[1 .. k] = step(k, it[1 .. (k - 1)])
  <2> SUFFICES ASSUME NEW k \in 1 .. n PROVE it[1 .. k] = step(k, it[1 .. (k - 1)])
    OBVIOUS
  <2>1. /\ 1 .. k \in SUBSET (1 .. n) /\ 1 .. k # {}
        /\ Max(1 .. k) = k /\ (1 .. k) \ {Max(1 .. k)} = 1 .. (k - 1)
    BY PrefixStep
  <2>2. it[1 .. k] = step(Max(1 .. k), it[(1 .. k) \ {Max(1 .. k)}])
    BY <1>9, <2>1
  <2> QED
    BY <2>1, <2>2
<1>12. StepsOn(it, n, Q, empty, st)
  BY <1>2, <1>10, <1>11 DEF StepsOn
<1>13. PICK g : PrefixValues(g, n, Q, empty, st) /\ g[n] = it[1 .. n]
  BY <1>4, <1>7, <1>12, FoldPrefixes
<1>14. /\ g \in [0 .. n -> Q] /\ g[0] = empty
       /\ \A k \in 1 .. n : g[k] = st[<<k, g[k - 1]>>]
  BY <1>13 DEF PrefixValues
<1>15. \A k \in 1 .. n : g[k - 1] \in Q
  BY <1>14
<1>16. \A k \in 1 .. n : g[k] = step(k, g[k - 1])
  BY <1>2, <1>14, <1>15
<1>17. \A k \in 1 .. n : Disposes(g[k], g[k - 1], units[k])
  <2> SUFFICES ASSUME NEW k \in 1 .. n PROVE Disposes(g[k], g[k - 1], units[k])
    OBVIOUS
  <2>1. PackedOK(g[k - 1], R, I, U, B) /\ units[k] \in U
    BY <1>0, <1>15, <1>24
  <2> DEFINE v == g[k - 1]
  <2>2. g[k] = PackUnit(v, units[k], B)
    BY <1>16 DEF step
  <2>3. PackedOK(v, R, I, U, B)
    BY <2>1
  <2> HIDE DEF v
  <2> DEFINE u == units[k]
  <2>4. u \in U
    BY <2>1
  <2> HIDE DEF u
  <2>5. PackedOK(PackUnit(v, u, B), R, I, U, B) /\ Disposes(PackUnit(v, u, B), v, u)
    BY <1>24, <2>3, <2>4, PackUnitKeeps
  <2> QED
    BY <2>2, <2>5 DEF v, u
<1>18. \A k \in 0 .. n : g[k].dispositions \in Seq(Dispositions(I))
  <2>1. \A k \in 0 .. n : g[k] \in Q
    BY <1>14
  <2> QED
    BY <2>1 DEF Q, Packings
<1> DEFINE M == {k \in 0 .. n : Disposed(g[k], k, units)}
<1>19. 0 \in M
  <2>1. g[0].dispositions = <<>>
    BY <1>14 DEF empty
  <2> QED
    BY <2>1 DEF Disposed
<1>20. \A k \in 0 .. (n - 1) : k \in M => k + 1 \in M
  <2> SUFFICES ASSUME NEW k \in 0 .. (n - 1), k \in M PROVE k + 1 \in M
    OBVIOUS
  <2>1. Len(g[k].dispositions) = k /\ \A i \in 1 .. k : DisposedAt(g[k], i, units[i])
    BY DEF Disposed
  <2> HIDE DEF M
  <2>2. k + 1 \in 1 .. n /\ (k + 1) - 1 = k /\ k + 1 \in 0 .. n /\ k \in 0 .. n
    OBVIOUS
  <2>3. Disposes(g[k + 1], g[k], units[k + 1])
    BY <1>17, <2>2
  <2>9. PICK x : Disposal(g[k + 1], g[k], units[k + 1], x)
    BY <2>3 DEF Disposes
  <2>10. Extends(g[k + 1], g[k])
    BY <2>3 DEF Disposes
  <2> DEFINE d == g[k].dispositions
  <2>4. d \in Seq(Dispositions(I)) /\ Len(d) = k
    BY <1>18, <2>1, <2>2
  <2> DEFINE e == Append(d, x)
  <2>5. Len(e) = k + 1 /\ \A i \in 1 .. k + 1 : e[i] = IF i = k + 1 THEN x ELSE d[i]
    <3> HIDE DEF d
    <3> QED
      BY <2>4
  <2>6. g[k + 1].dispositions = e
    BY <2>9 DEF Disposal
  <2> HIDE DEF e
  <2>7. ASSUME NEW i \in 1 .. k + 1 PROVE DisposedAt(g[k + 1], i, units[i])
    <3>1. CASE i = k + 1
      <4>1. g[k + 1].dispositions[i] = x
        BY <2>5, <2>6, <3>1
      <4> QED
        BY <2>9, <3>1, <4>1 DEF DisposedAt, Disposal
    <3>2. CASE i # k + 1
      <4>1. i \in 1 .. k
        BY <3>2
      <4>2. g[k + 1].dispositions[i] = g[k].dispositions[i]
        BY <2>5, <2>6, <3>2
      <4>3. DisposedAt(g[k], i, units[i])
        BY <2>1, <4>1
      <4> DEFINE labels == g[k].dispositions[i].labels
      <4> DEFINE u == units[i]
      <4>4. CitesUnit(g[k], labels, u) => CitesUnit(g[k + 1], labels, u)
        BY <2>10, ExtendsCites
      <4> QED
        BY <4>2, <4>3, <4>4 DEF DisposedAt
    <3> QED
      BY <3>1, <3>2
  <2>8. Len(g[k + 1].dispositions) = k + 1
    BY <2>5, <2>6
  <2> QED
    BY <2>2, <2>7, <2>8 DEF M, Disposed
<1> HIDE DEF M
<1>21. \A k \in 0 .. n : k \in M
  BY <1>19, <1>20, UpTo
<1>22. n \in M
  BY <1>21
<1>23. n \in 0 .. n /\ g[n] \in Q
  BY <1>14
<1> QED
  BY <1>0, <1>5, <1>13, <1>22, <1>23 DEF M

-----------------------------------------------------------------------------
(* The paper.                                                              *)

ChunkRecords == [page : Nat, first : Nat, last : Nat]
SpanRecords == [chunk : Nat, first : Nat, last : Nat, embeddable : BOOLEAN]
Docs == [pages : Seq(Seq(Words)), chunks : Seq(ChunkRecords), spans : Seq(SpanRecords)]

ChunkOK(d, c) ==
  /\ c.page \in 1 .. Len(d.pages) /\ c.first \in Nat \ {0}
  /\ c.first <= c.last /\ c.last <= Len(d.pages[c.page])
SpanOK(d, s) ==
  /\ s.chunk \in 1 .. Len(d.chunks)
  /\ d.chunks[s.chunk].first <= s.first /\ s.first <= s.last
  /\ s.last <= d.chunks[s.chunk].last

(* Chunks are inside their pages and spans inside their chunks.            *)
DocOK(d) ==
  /\ d \in Docs
  /\ \A p \in 1 .. Len(d.pages) : PageOK(d.pages[p])
  /\ \A c \in 1 .. Len(d.chunks) : ChunkOK(d, d.chunks[c])
  /\ \A s \in 1 .. Len(d.spans) : SpanOK(d, d.spans[s])

(* The parts of a document and their types. *)
LEMMA DocTypes ==
    ASSUME NEW d, DocOK(d)
    PROVE  /\ d.pages \in Seq(Seq(Words)) /\ d.chunks \in Seq(ChunkRecords)
           /\ d.spans \in Seq(SpanRecords)
           /\ Len(d.pages) \in Nat /\ Len(d.chunks) \in Nat /\ Len(d.spans) \in Nat
           /\ DOMAIN d.pages = 1 .. Len(d.pages) /\ DOMAIN d.chunks = 1 .. Len(d.chunks)
           /\ DOMAIN d.spans = 1 .. Len(d.spans)
<1>1. /\ d.pages \in Seq(Seq(Words)) /\ d.chunks \in Seq(ChunkRecords)
      /\ d.spans \in Seq(SpanRecords)
  BY DEF DocOK, Docs
<1>2. \A T : \A s \in Seq(T) : Len(s) \in Nat /\ DOMAIN s = 1 .. Len(s)
  OBVIOUS
<1> HIDE DEF ChunkRecords, SpanRecords, Words
<1> QED
  BY <1>1, <1>2, Zenon

(* What is known of each chunk and span.                                   *)
LEMMA DocParts ==
    ASSUME NEW d, DocOK(d)
    PROVE  /\ \A c \in 1 .. Len(d.chunks) :
                ChunkOK(d, d.chunks[c]) /\ d.chunks[c].last \in Nat
           /\ \A s \in 1 .. Len(d.spans) :
                SpanOK(d, d.spans[s]) /\ d.spans[s].last \in Nat /\ d.spans[s].first \in Nat
<1>1. d.chunks \in Seq(ChunkRecords) /\ d.spans \in Seq(SpanRecords)
  BY DocTypes
<1>2. \A x \in ChunkRecords : x.last \in Nat
  BY DEF ChunkRecords
<1>3. \A x \in SpanRecords : x.last \in Nat /\ x.first \in Nat
  BY DEF SpanRecords
<1> QED
  BY <1>1, <1>2, <1>3 DEF DocOK

(* A page is a sequence of words with natural positions. *)
LEMMA PageTypes ==
    ASSUME NEW page, PageOK(page)
    PROVE  /\ Len(page) \in Nat /\ DOMAIN page = 1 .. Len(page)
           /\ \A i \in 1 .. Len(page) : /\ page[i].start \in Nat /\ page[i].end \in Nat
                                        /\ page[i].tokens \in Nat
<1>1. page \in Seq(Words)
  BY DEF PageOK
<1>2. \A x \in Words : x.start \in Nat /\ x.end \in Nat /\ x.tokens \in Nat
  BY DEF Words
<1> QED
  BY <1>1, <1>2

(* The range of words of a page.                                           *)
LEMMA RangeOfWords ==
    ASSUME NEW page, PageOK(page), NEW i \in Nat \ {0}, NEW j \in Nat, i <= j, j <= Len(page)
    PROVE  <<page[i].start, page[j].end>> \in Ranges
<1>1. /\ Len(page) \in Nat
      /\ \A k \in 1 .. Len(page) : /\ page[k].start \in Nat /\ page[k].end \in Nat
                                   /\ page[k].start < page[k].end
  BY PageTypes DEF PageOK
<1>2. i \in 1 .. Len(page) /\ j \in 1 .. Len(page)
  BY <1>1
<1>3. CASE i = j
  BY <1>1, <1>2, <1>3 DEF Ranges
<1>4. CASE i < j
  <2>1. page[i].end < page[j].start
    BY <1>2, <1>4 DEF PageOK
  <2> QED
    BY <1>1, <1>2, <2>1 DEF Ranges
<1> QED
  BY <1>3, <1>4

(* Chunks and spans of a document have ranges of positions. *)
LEMMA RangesOfDoc ==
    ASSUME NEW d, DocOK(d)
    PROVE  /\ \A c \in 1 .. Len(d.chunks) : ChunkRange(d, c) \in Ranges
           /\ \A s \in 1 .. Len(d.spans) : SpanRange(d, s) \in Ranges
<1>1. ASSUME NEW c \in 1 .. Len(d.chunks) PROVE ChunkRange(d, c) \in Ranges
  <2> DEFINE k == d.chunks[c]
  <2>2. ChunkOK(d, k) /\ k.last \in Nat
    BY DocParts
  <2>3. ChunkRange(d, c) = <<d.pages[k.page][k.first].start, d.pages[k.page][k.last].end>>
    BY DEF ChunkRange
  <2> HIDE DEF k
  <2>4. PageOK(d.pages[k.page])
    BY <2>2 DEF DocOK, ChunkOK
  <2> QED
    BY <2>2, <2>3, <2>4, RangeOfWords DEF ChunkOK
<1>2. ASSUME NEW s \in 1 .. Len(d.spans) PROVE SpanRange(d, s) \in Ranges
  <2> DEFINE x == d.spans[s]
  <2> DEFINE k == d.chunks[x.chunk]
  <2>2. SpanOK(d, x) /\ x.last \in Nat /\ x.first \in Nat
    BY DocParts
  <2>3. SpanRange(d, s) = <<d.pages[k.page][x.first].start, d.pages[k.page][x.last].end>>
    BY DEF SpanRange
  <2>4. x.chunk \in 1 .. Len(d.chunks)
    BY <2>2 DEF SpanOK
  <2>5. ChunkOK(d, k) /\ k.last \in Nat
    BY <2>4, DocParts
  <2>6. k.first <= x.first /\ x.first <= x.last /\ x.last <= k.last
    BY <2>2 DEF SpanOK
  <2> HIDE DEF k, x
  <2>7. PageOK(d.pages[k.page])
    BY <2>5 DEF DocOK, ChunkOK
  <2>8. Len(d.pages[k.page]) \in Nat
    BY <2>7, PageTypes
  <2>9. x.first \in Nat \ {0} /\ x.last <= Len(d.pages[k.page])
    BY <2>2, <2>5, <2>6, <2>8 DEF ChunkOK
  <2> QED
    BY <2>2, <2>3, <2>6, <2>7, <2>9, RangeOfWords
<1> QED
  BY <1>1, <1>2

(* The next word to cut is a word of a page.                               *)
LEMMA UncutIs ==
    ASSUME DocOK(doc), Uncut # {}, NEW next, next = SmallestBy(Uncut, LAMBDA w : w)
    PROVE  /\ next \in Uncut /\ next[1] \in 1 .. Len(doc.pages)
           /\ next[2] \in 1 .. Len(doc.pages[next[1]])
           /\ \A y \in Uncut : y = next \/ Before(next, y)
<1> DEFINE P == Len(doc.pages)
<1> DEFINE f == [p \in 1 .. P |-> DOMAIN doc.pages[p]]
<1>1. P \in Nat /\ DOMAIN doc.pages = 1 .. P
  BY DocTypes
<1>2. \A p \in 1 .. P : PageOK(doc.pages[p])
  BY DEF DocOK
<1>3. \A p \in 1 .. P : f[p] = 1 .. Len(doc.pages[p]) /\ Len(doc.pages[p]) \in Nat
  BY <1>2, PageTypes
<1>4. \A p \in 1 .. P : f[p] = DOMAIN doc.pages[p]
  OBVIOUS
<1> HIDE DEF f, P
<1>5. Intervals(f, P)
  <2> SUFFICES ASSUME NEW p \in 1 .. P PROVE f[p] \in SUBSET Int /\ IsFiniteSet(f[p])
    BY DEF Intervals
  <2> DEFINE k == Len(doc.pages[p])
  <2>1. f[p] = 1 .. k /\ k \in Int
    BY <1>3
  <2> HIDE DEF k
  <2> QED
    BY <2>1, FS_Interval, 1 \in Int
<1>6. IsFiniteSet(Positions(f, P)) /\ Positions(f, P) \in SUBSET Tuples(2)
  BY <1>1, <1>5, PositionsFinite
<1>7. Uncut \subseteq Positions(f, P)
  BY <1>1, <1>4 DEF Uncut, Positions
<1>8. IsFiniteSet(Uncut) /\ Uncut \in SUBSET Tuples(2)
  BY <1>6, <1>7, FS_Subset
<1>9. next \in Uncut /\ \A y \in Uncut : y = next \/ Before(next, y)
  BY <1>8, SmallestIs, 2 \in Nat
<1>10. PICK p \in 1 .. P : next \in {p} \X f[p]
  BY <1>7, <1>9 DEF Positions
<1>11. next[1] = p /\ next[2] \in f[p]
  BY <1>10
<1> QED
  BY <1>3, <1>9, <1>11 DEF P

(* A chunk ends on its page, at its first word or later. *)
LEMMA ChunkEndIs ==
    ASSUME NEW page, PageOK(page), NEW first \in 1 .. Len(page)
    PROVE  ChunkEnd(page, first) \in first .. Len(page)
<1> DEFINE furthest == Least(first + MaxWords - 1, Len(page))
<1> DEFINE breaks == {i \in (first + PreferredWords - 1) .. furthest : page[i].stop}
<1>1. ChunkEnd(page, first) = IF furthest < Len(page) /\ breaks # {} THEN Max(breaks) ELSE furthest
  BY DEF ChunkEnd
<1>2. Len(page) \in Nat
  BY PageTypes
<1>3. furthest \in first .. Len(page)
  BY <1>2, PageAssumption DEF Least
<1> HIDE DEF furthest
<1>4. ASSUME breaks # {} PROVE Max(breaks) \in breaks
  <2> DEFINE a == first + PreferredWords - 1
  <2>1. a \in Int /\ furthest \in Int
    BY <1>3, PageAssumption
  <2> HIDE DEF a
  <2>2. breaks \in SUBSET (a .. furthest)
    BY DEF a
  <2> HIDE DEF breaks
  <2> QED
    BY <1>4, <2>1, <2>2, MaxMinIn
<1>5. \A i \in breaks : i \in first .. Len(page)
  BY <1>2, <1>3, PageAssumption
<1> QED
  BY <1>1, <1>3, <1>4, <1>5

(* A span ends in its chunk, at its first word or later. *)
LEMMA SpanEndIs ==
    ASSUME NEW words, NEW first \in Nat, NEW last \in Nat, first <= last
    PROVE  SpanEnd(words, first, last) \in first .. last
<1> DEFINE S == {first} \cup {i \in first .. last : \A j \in first .. i : Fits(words, first, j)}
<1>1. S \in SUBSET (first .. last) /\ S # {}
  OBVIOUS
<1>2. SpanEnd(words, first, last) = Max(S)
  BY DEF SpanEnd
<1> HIDE DEF S
<1>3. Max(S) \in S
  BY <1>1, MaxMinIn, first \in Int, last \in Int
<1> QED
  BY <1>1, <1>2, <1>3

(* The next word to cover is a word of a chunk.                            *)
LEMMA UncoveredIs ==
    ASSUME DocOK(doc), Uncovered # {}, NEW next, next = SmallestBy(Uncovered, LAMBDA w : w)
    PROVE  /\ next \in Uncovered /\ next[1] \in 1 .. Len(doc.chunks)
           /\ next[2] \in doc.chunks[next[1]].first .. doc.chunks[next[1]].last
           /\ \A y \in Uncovered : y = next \/ Before(next, y)
<1> DEFINE P == Len(doc.chunks)
<1> DEFINE f == [c \in 1 .. P |-> doc.chunks[c].first .. doc.chunks[c].last]
<1>1. P \in Nat /\ DOMAIN doc.chunks = 1 .. P
  BY DocTypes
<1>2. \A c \in 1 .. P : doc.chunks[c].first \in Nat /\ doc.chunks[c].last \in Nat
  BY DocParts DEF ChunkOK
<1>4. \A c \in 1 .. P : f[c] = doc.chunks[c].first .. doc.chunks[c].last
  OBVIOUS
<1> HIDE DEF f, P
<1>5. Intervals(f, P)
  <2> SUFFICES ASSUME NEW c \in 1 .. P PROVE f[c] \in SUBSET Int /\ IsFiniteSet(f[c])
    BY DEF Intervals
  <2> DEFINE a == doc.chunks[c].first
  <2> DEFINE k == doc.chunks[c].last
  <2>1. f[c] = a .. k /\ k \in Int /\ a \in Int
    BY <1>2, <1>4
  <2> HIDE DEF k, a
  <2> QED
    BY <2>1, FS_Interval
<1>6. IsFiniteSet(Positions(f, P)) /\ Positions(f, P) \in SUBSET Tuples(2)
  BY <1>1, <1>5, PositionsFinite
<1>7. Uncovered \subseteq Positions(f, P)
  BY <1>1, <1>4 DEF Uncovered, Positions
<1>8. IsFiniteSet(Uncovered) /\ Uncovered \in SUBSET Tuples(2)
  BY <1>6, <1>7, FS_Subset
<1>9. next \in Uncovered /\ \A y \in Uncovered : y = next \/ Before(next, y)
  BY <1>8, SmallestIs, 2 \in Nat
<1>10. PICK c \in 1 .. P : next \in {c} \X f[c]
  BY <1>7, <1>9 DEF Positions
<1>11. next[1] = c /\ next[2] \in f[c]
  BY <1>10
<1> QED
  BY <1>4, <1>9, <1>11 DEF P

(* A page, a chunk or a span more.                                         *)
LEMMA MorePages ==
    ASSUME NEW d, DocOK(d), NEW page, PageOK(page)
    PROVE  DocOK([d EXCEPT !.pages = Append(@, page)])
<1> DEFINE T == Seq(Words)
<1> DEFINE pages == Append(d.pages, page)
<1> DEFINE e == [d EXCEPT !.pages = pages]
<1>1. d \in [pages : Seq(T), chunks : Seq(ChunkRecords), spans : Seq(SpanRecords)] /\ page \in T
  BY DEF DocOK, Docs, PageOK
<1> HIDE DEF T
<1>2. d.pages \in Seq(T) /\ page \in T
  BY <1>1
<1>3. /\ Append(d.pages, page) \in Seq(T) /\ Len(Append(d.pages, page)) = Len(d.pages) + 1
      /\ Len(d.pages) \in Nat
      /\ \A i \in 1 .. Len(d.pages) : Append(d.pages, page)[i] = d.pages[i]
      /\ Append(d.pages, page)[Len(d.pages) + 1] = page
      /\ \A i \in 1 .. Len(d.pages) + 1 : i = Len(d.pages) + 1 \/ i \in 1 .. Len(d.pages)
  BY <1>2, AppendIs
<1>4. /\ pages \in Seq(T) /\ Len(pages) = Len(d.pages) + 1 /\ Len(d.pages) \in Nat
      /\ \A i \in 1 .. Len(d.pages) : pages[i] = d.pages[i]
      /\ pages[Len(d.pages) + 1] = page
      /\ \A i \in 1 .. Len(d.pages) + 1 : i = Len(d.pages) + 1 \/ i \in 1 .. Len(d.pages)
  BY <1>3
<1> HIDE DEF pages
<1>5. e \in [pages : Seq(T), chunks : Seq(ChunkRecords), spans : Seq(SpanRecords)]
  BY <1>1, <1>4
<1>6. e.pages = pages /\ e.chunks = d.chunks /\ e.spans = d.spans
  BY <1>1
<1> HIDE DEF e
<1>7. \A p \in 1 .. Len(e.pages) : PageOK(e.pages[p])
  BY <1>4, <1>6 DEF DocOK
<1>8. \A c \in 1 .. Len(e.chunks) : ChunkOK(e, e.chunks[c])
  <2> SUFFICES ASSUME NEW c \in 1 .. Len(d.chunks) PROVE ChunkOK(e, d.chunks[c])
    BY <1>6
  <2>1. ChunkOK(d, d.chunks[c])
    BY DEF DocOK
  <2> DEFINE k == d.chunks[c]
  <2> HIDE DEF k
  <2>2. ChunkOK(d, k)
    BY <2>1 DEF k
  <2>3. ChunkOK(e, k)
    BY <1>4, <1>6, <2>2 DEF ChunkOK
  <2> QED
    BY <2>3 DEF k
<1>9. \A s \in 1 .. Len(e.spans) : SpanOK(e, e.spans[s])
  BY <1>6 DEF DocOK, SpanOK
<1> QED
  BY <1>5, <1>7, <1>8, <1>9 DEF DocOK, Docs, T, e, pages

(* One more chunk keeps a document well formed. *)
LEMMA MoreChunks ==
    ASSUME NEW d, DocOK(d), NEW c \in ChunkRecords, ChunkOK(d, c)
    PROVE  DocOK([d EXCEPT !.chunks = Append(@, c)])
<1> DEFINE chunks == Append(d.chunks, c)
<1> DEFINE e == [d EXCEPT !.chunks = chunks]
<1>1. d \in Docs
  BY DEF DocOK
<1>2. d.chunks \in Seq(ChunkRecords)
  BY DocTypes
<1> HIDE DEF ChunkRecords
<1>3. /\ Append(d.chunks, c) \in Seq(ChunkRecords)
      /\ Len(Append(d.chunks, c)) = Len(d.chunks) + 1 /\ Len(d.chunks) \in Nat
      /\ \A i \in 1 .. Len(d.chunks) : Append(d.chunks, c)[i] = d.chunks[i]
      /\ Append(d.chunks, c)[Len(d.chunks) + 1] = c
      /\ \A i \in 1 .. Len(d.chunks) + 1 : i = Len(d.chunks) + 1 \/ i \in 1 .. Len(d.chunks)
  BY <1>2, AppendIs
<1>4. /\ chunks \in Seq(ChunkRecords) /\ Len(chunks) = Len(d.chunks) + 1
      /\ Len(d.chunks) \in Nat
      /\ \A i \in 1 .. Len(d.chunks) : chunks[i] = d.chunks[i]
      /\ chunks[Len(d.chunks) + 1] = c
      /\ \A i \in 1 .. Len(d.chunks) + 1 : i = Len(d.chunks) + 1 \/ i \in 1 .. Len(d.chunks)
  BY <1>3
<1> HIDE DEF chunks
<1>5. e \in Docs
  BY <1>1, <1>4 DEF Docs
<1>6. e.chunks = chunks /\ e.pages = d.pages /\ e.spans = d.spans
  BY <1>1 DEF Docs
<1> HIDE DEF e
<1>7. \A i \in 1 .. Len(e.chunks) : ChunkOK(e, e.chunks[i])
  <2>1. \A k : ChunkOK(d, k) => ChunkOK(e, k)
    BY <1>6 DEF ChunkOK
  <2>2. \A i \in 1 .. Len(d.chunks) : ChunkOK(d, d.chunks[i])
    BY DEF DocOK
  <2> QED
    BY <1>4, <1>6, <2>1, <2>2
<1>8. \A s \in 1 .. Len(e.spans) : SpanOK(e, e.spans[s])
  <2> SUFFICES ASSUME NEW s \in 1 .. Len(d.spans) PROVE SpanOK(e, d.spans[s])
    BY <1>6
  <2> DEFINE k == d.spans[s]
  <2>1. SpanOK(d, k)
    BY DEF DocOK
  <2> HIDE DEF k
  <2>2. SpanOK(e, k)
    BY <1>4, <1>6, <2>1 DEF SpanOK
  <2> QED
    BY <2>2 DEF k
<1>9. \A p \in 1 .. Len(e.pages) : PageOK(e.pages[p])
  BY <1>6 DEF DocOK
<1> QED
  BY <1>5, <1>7, <1>8, <1>9 DEF DocOK, e, chunks

(* One more span keeps a document well formed. *)
LEMMA MoreSpans ==
    ASSUME NEW d, DocOK(d), NEW s \in SpanRecords, SpanOK(d, s)
    PROVE  DocOK([d EXCEPT !.spans = Append(@, s)])
<1> DEFINE spans == Append(d.spans, s)
<1> DEFINE e == [d EXCEPT !.spans = spans]
<1>1. d \in Docs
  BY DEF DocOK
<1>2. d.spans \in Seq(SpanRecords)
  BY DocTypes
<1> HIDE DEF SpanRecords
<1>3. /\ Append(d.spans, s) \in Seq(SpanRecords)
      /\ Len(Append(d.spans, s)) = Len(d.spans) + 1 /\ Len(d.spans) \in Nat
      /\ \A i \in 1 .. Len(d.spans) : Append(d.spans, s)[i] = d.spans[i]
      /\ Append(d.spans, s)[Len(d.spans) + 1] = s
      /\ \A i \in 1 .. Len(d.spans) + 1 : i = Len(d.spans) + 1 \/ i \in 1 .. Len(d.spans)
  BY <1>2, AppendIs
<1>4. /\ spans \in Seq(SpanRecords) /\ Len(spans) = Len(d.spans) + 1
      /\ \A i \in 1 .. Len(d.spans) : spans[i] = d.spans[i]
      /\ spans[Len(d.spans) + 1] = s
      /\ \A i \in 1 .. Len(d.spans) + 1 : i = Len(d.spans) + 1 \/ i \in 1 .. Len(d.spans)
  BY <1>3
<1> HIDE DEF spans
<1>5. e \in Docs
  BY <1>1, <1>4 DEF Docs
<1>6. e.spans = spans /\ e.pages = d.pages /\ e.chunks = d.chunks
  BY <1>1 DEF Docs
<1> HIDE DEF e
<1>7. \A i \in 1 .. Len(e.spans) : SpanOK(e, e.spans[i])
  <2>1. \A k : SpanOK(d, k) => SpanOK(e, k)
    BY <1>6 DEF SpanOK
  <2>2. \A i \in 1 .. Len(d.spans) : SpanOK(d, d.spans[i])
    BY DEF DocOK
  <2> QED
    BY <1>4, <1>6, <2>1, <2>2
<1>8. \A c \in 1 .. Len(e.chunks) : ChunkOK(e, e.chunks[c])
  BY <1>6 DEF DocOK, ChunkOK
<1>9. \A p \in 1 .. Len(e.pages) : PageOK(e.pages[p])
  BY <1>6 DEF DocOK
<1> QED
  BY <1>5, <1>7, <1>8, <1>9 DEF DocOK, e, spans

Extraction == DocOK(doc) /\ unread \in Seq(Seq(WordBoxes))

(* Reading a page keeps what is extracted well formed. *)
LEMMA ReadPageKeeps ==
    ASSUME Extraction, ReadPage
    PROVE  Extraction'
<1> DEFINE T == Seq(WordBoxes)
<1> DEFINE boxes == Head(unread)
<1>1. unread \in Seq(T) /\ unread # <<>> /\ unread' = Tail(unread) /\ DocOK(doc)
      /\ doc' = [doc EXCEPT !.pages = Append(@, CanonicalWords(boxes))]
  BY DEF Extraction, ReadPage
<1> HIDE DEF T
<1>2. unread' \in Seq(T) /\ boxes \in T
  BY <1>1
<1> HIDE DEF boxes
<1>3. boxes \in [1 .. Len(boxes) -> WordBoxes] /\ Len(boxes) \in Nat
  <2>1. boxes \in Seq(WordBoxes)
    BY <1>2 DEF T
  <2> HIDE DEF WordBoxes
  <2> QED
    BY <2>1
<1> DEFINE n == Len(boxes)
<1> DEFINE page == CanonicalWords(boxes)
<1>5. n \in Nat /\ boxes \in [1 .. n -> WordBoxes]
  BY <1>3
<1> HIDE DEF n, WordBoxes
<1>4. PageOK(page)
  BY <1>5, CanonicalIs
<1> HIDE DEF page
<1>6. doc' = [doc EXCEPT !.pages = Append(@, page)]
  BY <1>1 DEF page
<1>7. DocOK(doc')
  BY <1>1, <1>4, <1>6, MorePages
<1> QED
  BY <1>2, <1>7 DEF Extraction, T

(* A chunk begins at the first word that is in none.                       *)
ChunkCut(c) ==
  /\ c \in ChunkRecords /\ ChunkOK(doc, c)
  /\ unread' = unread /\ doc' = [doc EXCEPT !.chunks = Append(@, c)]
  /\ <<c.page, c.first>> \in Uncut
  /\ \A y \in Uncut : y = <<c.page, c.first>> \/ Before(<<c.page, c.first>>, y)

(* What CutChunk cuts: the words from the first uncut one to ChunkEnd. *)
LEMMA CutChunkIs ==
    ASSUME Extraction, CutChunk
    PROVE  \E c : ChunkCut(c)
<1> DEFINE next == SmallestBy(Uncut, LAMBDA w : w)
<1> DEFINE page == doc.pages[next[1]]
<1> DEFINE c == [page |-> next[1], first |-> next[2], last |-> ChunkEnd(page, next[2])]
<1>1. /\ DocOK(doc) /\ Uncut # {} /\ unread' = unread
      /\ doc' = [doc EXCEPT !.chunks = Append(@, c)]
  BY DEF Extraction, CutChunk
<1> HIDE DEF next
<1>2. /\ next[1] \in 1 .. Len(doc.pages) /\ next[2] \in 1 .. Len(page)
      /\ next \in Uncut /\ \A y \in Uncut : y = next \/ Before(next, y)
  BY <1>1, UncutIs DEF next
<1>11. next = <<next[1], next[2]>>
  BY <1>2 DEF Uncut
<1>3. PageOK(page) /\ Len(doc.pages) \in Nat
  BY <1>1, <1>2, DocTypes DEF DocOK
<1>4. page = doc.pages[next[1]]
  OBVIOUS
<1> HIDE DEF page
<1>5. Len(page) \in Nat
  BY <1>3, PageTypes
<1> DEFINE last == ChunkEnd(page, next[2])
<1>6. last \in next[2] .. Len(page)
  BY <1>2, <1>3, ChunkEndIs
<1> HIDE DEF last
<1>7. c = [page |-> next[1], first |-> next[2], last |-> last]
  BY DEF last
<1> HIDE DEF c
<1>8. c \in ChunkRecords
  BY <1>2, <1>3, <1>5, <1>6, <1>7 DEF ChunkRecords
<1>9. ChunkOK(doc, c)
  BY <1>2, <1>4, <1>5, <1>6, <1>7 DEF ChunkOK
<1>10. c.page = next[1] /\ c.first = next[2]
  BY <1>7
<1>12. ChunkCut(c)
  <2>1. <<c.page, c.first>> = next
    BY <1>10, <1>11
  <2> QED
    BY <1>1, <1>2, <1>8, <1>9, <2>1 DEF ChunkCut
<1> QED
  BY <1>12

(* Cutting a chunk keeps what is extracted well formed. *)
LEMMA CutChunkKeeps ==
    ASSUME Extraction, CutChunk
    PROVE  Extraction'
<1>1. PICK c : ChunkCut(c)
  BY CutChunkIs
<1>2. /\ c \in ChunkRecords /\ ChunkOK(doc, c) /\ unread' = unread
      /\ doc' = [doc EXCEPT !.chunks = Append(@, c)] /\ DocOK(doc)
  BY <1>1 DEF ChunkCut, Extraction
<1>3. DocOK(doc')
  BY <1>2, MoreChunks
<1> QED
  BY <1>2, <1>3 DEF Extraction

(* A span begins at the first word that is in none, and goes as far as     *)
(* fits; a word that does not fit is alone in one that is not embedded.    *)
SpanFits(d, s) ==
  LET chunk == d.chunks[s.chunk]
      page == d.pages[chunk.page]
  IN /\ ~ s.embeddable => s.first = s.last
     /\ s.embeddable => Fits(page, s.first, s.last)
     /\ s.embeddable /\ s.last < chunk.last => ~ Fits(page, s.first, s.last + 1)

SpanCut(s) ==
  /\ s \in SpanRecords /\ SpanOK(doc, s) /\ SpanFits(doc, s)
  /\ unread' = unread /\ doc' = [doc EXCEPT !.spans = Append(@, s)]
  /\ <<s.chunk, s.first>> \in Uncovered
  /\ \A y \in Uncovered : y = <<s.chunk, s.first>> \/ Before(<<s.chunk, s.first>>, y)

(* A span fits the tokenizer or is one word, and is as long as fits. *)
LEMMA SpanEndFits ==
    ASSUME NEW words, NEW first \in Nat, NEW limit \in Nat, first <= limit,
           NEW last, last = SpanEnd(words, first, limit)
    PROVE  /\ ~ Fits(words, first, last) => first = last
           /\ Fits(words, first, last) /\ last < limit => ~ Fits(words, first, last + 1)
<1> DEFINE S == {first} \cup {i \in first .. limit : \A j \in first .. i : Fits(words, first, j)}
<1>1. S \in SUBSET (first .. limit) /\ S # {} /\ first \in Int /\ limit \in Int
  OBVIOUS
<1>2. last = Max(S)
  BY DEF SpanEnd
<1>3. last \in S /\ \A x \in S : x <= last
  <2> HIDE DEF S
  <2>1. Max(S) \in S /\ \A x \in S : Max(S) >= x
    BY <1>1, MaxMinIn
  <2>2. \A x \in first .. limit : x \in Int
    OBVIOUS
  <2>3. \A x \in S : x \in Int
    BY <1>1, <2>2
  <2>4. last \in S /\ \A x \in S : last >= x
    BY <1>2, <2>1
  <2> QED
    BY <2>3, <2>4
<1>4. last \in first .. limit
  BY <1>1, <1>3
<1>5. last # first => \A j \in first .. last : Fits(words, first, j)
  BY <1>3
<1>6. ~ Fits(words, first, last) => first = last
  BY <1>4, <1>5
<1>7. ASSUME Fits(words, first, last), last < limit, Fits(words, first, last + 1) PROVE FALSE
  <2>1. \A j \in first .. last : Fits(words, first, j)
    <3>1. CASE last = first
      BY <1>7, <3>1
    <3>2. CASE last # first
      BY <1>5, <3>2
    <3> QED
      BY <3>1, <3>2
  <2>2. \A j \in first .. last + 1 : j = last + 1 \/ j \in first .. last
    BY <1>4
  <2>3. \A j \in first .. last + 1 : Fits(words, first, j)
    BY <1>7, <2>1, <2>2
  <2>4. last + 1 \in S
    BY <1>4, <1>7, <2>3
  <2> HIDE DEF S
  <2> QED
    BY <1>3, <1>4, <2>4
<1> QED
  BY <1>6, <1>7

(* What CutSpan cuts: the words from the first uncovered one to SpanEnd. *)
LEMMA CutSpanIs ==
    ASSUME Extraction, CutSpan
    PROVE  \E s : SpanCut(s)
<1> DEFINE next == SmallestBy(Uncovered, LAMBDA w : w)
<1> DEFINE chunk == doc.chunks[next[1]]
<1> DEFINE words == doc.pages[chunk.page]
<1> DEFINE last == SpanEnd(words, next[2], chunk.last)
<1> DEFINE s == [chunk |-> next[1], first |-> next[2], last |-> last,
                 embeddable |-> Fits(words, next[2], last)]
<1>1. /\ DocOK(doc) /\ Uncovered # {} /\ unread' = unread
      /\ doc' = [doc EXCEPT !.spans = Append(@, s)]
  BY DEF Extraction, CutSpan
<1> HIDE DEF next
<1>2. /\ next[1] \in 1 .. Len(doc.chunks) /\ next[2] \in chunk.first .. chunk.last
      /\ next \in Uncovered /\ \A y \in Uncovered : y = next \/ Before(next, y)
  BY <1>1, UncoveredIs DEF next
<1>11. next = <<next[1], next[2]>>
  BY <1>2 DEF Uncovered
<1>3. ChunkOK(doc, chunk) /\ chunk.last \in Nat /\ chunk.first \in Nat /\ Len(doc.chunks) \in Nat
  BY <1>1, <1>2, DocTypes, DocParts DEF ChunkOK
<1>4. chunk = doc.chunks[next[1]] /\ words = doc.pages[chunk.page]
  OBVIOUS
<1> HIDE DEF chunk, words
<1>12. /\ ~ Fits(words, next[2], last) => next[2] = last
       /\ Fits(words, next[2], last) /\ last < chunk.last => ~ Fits(words, next[2], last + 1)
  <2> DEFINE a == next[2]
  <2> DEFINE b == chunk.last
  <2> DEFINE e == SpanEnd(words, a, b)
  <2>1. a \in Nat /\ b \in Nat /\ a <= b
    BY <1>2, <1>3
  <2> HIDE DEF a, b
  <2>2. e = SpanEnd(words, a, b)
    OBVIOUS
  <2> HIDE DEF e
  <2>3. /\ ~ Fits(words, a, e) => a = e
        /\ Fits(words, a, e) /\ e < b => ~ Fits(words, a, e + 1)
    BY <2>1, <2>2, SpanEndFits
  <2> QED
    BY <2>3 DEF a, b, e
<1>5. last \in next[2] .. chunk.last
  BY <1>2, <1>3, SpanEndIs
<1> HIDE DEF last
<1>6. Fits(words, next[2], last) \in BOOLEAN
  BY DEF Fits
<1>7. s \in SpanRecords
  <2> DEFINE e == Fits(words, next[2], last)
  <2>1. e \in BOOLEAN
    BY <1>6
  <2> HIDE DEF e
  <2>2. next[1] \in Nat /\ next[2] \in Nat /\ last \in Nat
    BY <1>2, <1>3, <1>5
  <2>3. [chunk |-> next[1], first |-> next[2], last |-> last, embeddable |-> e] \in SpanRecords
    BY <2>1, <2>2, Zenon DEF SpanRecords
  <2> QED
    BY <2>3 DEF e
<1>8. /\ s.chunk = next[1] /\ s.first = next[2] /\ s.last = last
      /\ s.embeddable = Fits(words, next[2], last)
  OBVIOUS
<1> HIDE DEF s
<1>9. SpanOK(doc, s)
  BY <1>2, <1>3, <1>4, <1>5, <1>8 DEF SpanOK
<1>10. SpanFits(doc, s)
  BY <1>4, <1>8, <1>12 DEF SpanFits
<1>13. SpanCut(s)
  <2>1. <<s.chunk, s.first>> = next
    BY <1>8, <1>11
  <2> QED
    BY <1>1, <1>2, <1>7, <1>9, <1>10, <2>1 DEF SpanCut
<1> QED
  BY <1>13

(* Cutting a span keeps what is extracted well formed. *)
LEMMA CutSpanKeeps ==
    ASSUME Extraction, CutSpan
    PROVE  Extraction'
<1>1. PICK s : SpanCut(s)
  BY CutSpanIs
<1>2. /\ s \in SpanRecords /\ SpanOK(doc, s) /\ unread' = unread
      /\ doc' = [doc EXCEPT !.spans = Append(@, s)] /\ DocOK(doc)
  BY <1>1 DEF SpanCut, Extraction
<1>3. DocOK(doc')
  BY <1>2, MoreSpans
<1> QED
  BY <1>2, <1>3 DEF Extraction

-----------------------------------------------------------------------------
(* The scan.                                                               *)

Stores == [active : Nat, other : Nat, index : Nat \X Nat]

(* From the start of the scan until its hits are ordered.                  *)
Scanning ==
  \/ stage = "scan"
  \/ stage = "order" /\ mode # "lexical"
  \/ stage = "lexical" /\ mode \notin {"hybrid", "lexical"}

SeenRows(s) == {row \in Eligible(s) : row < s.next}

ScanOK(s) ==
  /\ s = [index |-> s.index, matrix |-> s.matrix, score |-> s.score,
          next |-> s.next, best |-> s.best]
  /\ s.index \in Nat \X Nat /\ s.next \in Nat \ {0}
  /\ s.matrix \in Seq(0 .. Len(doc.spans))
  /\ Scored(s.score, 1 .. Len(s.matrix))
  /\ Top(s.best, SeenRows(s), s.score, ScanLimit)

ScanInv == Extraction /\ store \in Stores /\ (Scanning => ScanOK(scan))

(* The limit of a scan is a number. *)
LEMMA ScanLimitNat == ScanLimit \in Nat
BY PipelineAssumption, RankingAssumption DEF ScanLimit

(* The matrix holds spans of the document, or 0 for the other paper. *)
LEMMA MatrixIs ==
    ASSUME DocOK(doc)
    PROVE  Matrix \in Seq(0 .. Len(doc.spans))
<1> DEFINE S == {s \in DOMAIN doc.spans : doc.spans[s].embeddable}
<1> DEFINE n == Len(doc.spans)
<1> DEFINE T == 0 .. n
<1>1. n \in Nat /\ DOMAIN doc.spans = 1 .. n
  BY DocTypes
<1>2. S \in SUBSET (1 .. n) /\ IsFiniteSet(1 .. n)
  BY <1>1, FS_Interval, 1 \in Int
<1>3. Matrix = IF mode = "ranked" THEN Ascending(S) ELSE <<0>> \o Ascending(S)
  BY DEF Matrix
<1> HIDE DEF S, n
<1>10. n \in Nat
  BY <1>1
<1>4. S \in SUBSET Int /\ IsFiniteSet(S)
  <2>1. S \in SUBSET Int
    BY <1>2, <1>10
  <2>2. IsFiniteSet(S)
    BY <1>2, FS_Subset
  <2> QED
    BY <2>1, <2>2
<1> DEFINE m == Cardinality(S)
<1>5. m \in Nat /\ Ascending(S) \in [1 .. m -> S]
  BY <1>4, AscendingIs
<1> HIDE DEF m
<1>6. \A x \in S : x \in T
  <2>1. \A x \in 1 .. n : x \in 0 .. n
    BY <1>10
  <2>2. \A x \in S : x \in 1 .. n
    BY <1>2
  <2> QED
    BY <2>1, <2>2
<1>7. 0 \in T
  BY <1>1
<1> HIDE DEF T
<1>8. Ascending(S) \in Seq(T)
  BY <1>5, <1>6
<1>9. <<0>> \o Ascending(S) \in Seq(T)
  BY <1>7, <1>8
<1> QED
  BY <1>3, <1>8, <1>9 DEF T, n

(* The rows that are scanned are numbers of rows.                          *)
LEMMA EligibleIs ==
    ASSUME NEW s, NEW T, s.matrix \in Seq(T)
    PROVE  /\ Len(s.matrix) \in Nat /\ DOMAIN s.matrix = 1 .. Len(s.matrix)
           /\ Eligible(s) \in SUBSET (1 .. Len(s.matrix)) /\ Eligible(s) \in SUBSET Int
           /\ IsFiniteSet(Eligible(s))
<1> DEFINE n == Len(s.matrix)
<1>1. n \in Nat /\ DOMAIN s.matrix = 1 .. n
  OBVIOUS
<1>2. Eligible(s) \in SUBSET (1 .. n)
  BY <1>1 DEF Eligible
<1> HIDE DEF n
<1>3. IsFiniteSet(1 .. n)
  BY <1>1, FS_Interval, 1 \in Int, n \in Int
<1>4. IsFiniteSet(Eligible(s)) /\ Eligible(s) \in SUBSET Int
  BY <1>1, <1>2, <1>3, FS_Subset
<1> QED
  BY <1>1, <1>2, <1>4 DEF n

(* Before the first block the best of no rows is nothing. *)
LEMMA TopOfNone ==
    ASSUME NEW score, NEW limit \in Nat
    PROVE  Top(<<>>, {}, score, limit)
<1>1. Cardinality({}) = 0
  BY FS_EmptySet
<1>2. <<>> \in Seq(Hits) /\ Len(<<>>) = 0 /\ Least(limit, 0) = 0
  BY DEF Least
<1> QED
  BY <1>1, <1>2 DEF Top

(* Starting a scan establishes that it has the best of the rows read. *)
LEMMA StartScanKeeps ==
    ASSUME ScanInv, StartScan
    PROVE  ScanInv'
<1>1. CASE ~ IndexCurrent(store, store.index)
  BY <1>1 DEF ScanInv, StartScan, Stop, paper, retrieval, Scanning, Extraction
<1>2. CASE IndexCurrent(store, store.index)
  <2>1. PICK score \in [DOMAIN Matrix -> Scores] :
          scan' = [index |-> store.index, matrix |-> Matrix, score |-> score,
                   next |-> 1, best |-> <<>>]
    BY <1>2 DEF StartScan
  <2>2. doc' = doc /\ unread' = unread /\ store' = store /\ mode' = mode
    BY <1>2 DEF StartScan, paper
  <2> DEFINE M == Matrix
  <2> DEFINE s == [index |-> store.index, matrix |-> M, score |-> score,
                   next |-> 1, best |-> <<>>]
  <2>3. M \in Seq(0 .. Len(doc.spans)) /\ score \in [DOMAIN M -> Scores]
    BY MatrixIs DEF ScanInv, Extraction
  <2> HIDE DEF M
  <2>4. /\ s.index = store.index /\ s.matrix = M /\ s.score = score /\ s.next = 1 /\ s.best = <<>>
        /\ s = [index |-> s.index, matrix |-> s.matrix, score |-> s.score,
                next |-> s.next, best |-> s.best]
    OBVIOUS
  <2> HIDE DEF s
  <2> DEFINE T == 0 .. Len(doc.spans)
  <2>5. s.matrix \in Seq(T)
    BY <2>3, <2>4
  <2> HIDE DEF T
  <2>6. /\ Len(s.matrix) \in Nat /\ DOMAIN s.matrix = 1 .. Len(s.matrix)
        /\ Eligible(s) \in SUBSET (1 .. Len(s.matrix)) /\ Eligible(s) \in SUBSET Int
        /\ IsFiniteSet(Eligible(s))
    BY <2>5, EligibleIs
  <2>7. SeenRows(s) = {}
    BY <2>4, <2>6 DEF SeenRows
  <2>8. Top(s.best, SeenRows(s), s.score, ScanLimit)
    BY <2>4, <2>7, ScanLimitNat, TopOfNone
  <2>9. Scored(s.score, 1 .. Len(s.matrix))
    BY <2>3, <2>4, <2>6, PipelineAssumption DEF Scored
  <2>10. s.index \in Nat \X Nat /\ s.next \in Nat \ {0}
    BY <2>4 DEF ScanInv, Stores
  <2>11. ScanOK(s)
    BY <2>4, <2>5, <2>8, <2>9, <2>10 DEF ScanOK, T
  <2>12. scan' = s
    BY <2>1 DEF s, M
  <2>13. ScanOK(scan)'
    BY <2>2, <2>11, <2>12 DEF ScanOK, ScanLimit
  <2> QED
    BY <2>2, <2>13 DEF ScanInv, Extraction
<1> QED
  BY <1>1, <1>2

(* Scanning a block keeps the best of the rows read. *)
LEMMA ScanNextBlockKeeps ==
    ASSUME ScanInv, ScanNextBlock
    PROVE  ScanInv'
<1> DEFINE n == Len(scan.matrix)
<1> DEFINE next == scan.next
<1> DEFINE block == BlockRows(next, BlockLength, n)
<1> DEFINE best == ScanBlock(scan.best, block, Eligible(scan), scan.score, ScanLimit)
<1> DEFINE s == [scan EXCEPT !.next = @ + BlockLength, !.best = best]
<1> DEFINE T == 0 .. Len(doc.spans)
<1>1. /\ doc' = doc /\ unread' = unread /\ store' = store /\ mode' = mode /\ stage' = stage
      /\ scan' = s /\ next <= n
  BY DEF ScanNextBlock, paper
<1>2. ScanOK(scan)
  BY DEF ScanInv, Scanning, ScanNextBlock
<1>3. /\ scan = [index |-> scan.index, matrix |-> scan.matrix, score |-> scan.score,
                 next |-> next, best |-> scan.best]
      /\ scan.index \in Nat \X Nat /\ next \in Nat \ {0}
      /\ scan.matrix \in Seq(T)
      /\ Scored(scan.score, 1 .. n)
      /\ Top(scan.best, SeenRows(scan), scan.score, ScanLimit)
  BY <1>2 DEF ScanOK
<1> HIDE DEF T, best
<1>4. s = [index |-> scan.index, matrix |-> scan.matrix, score |-> scan.score,
           next |-> next + BlockLength, best |-> best]
  <2> DEFINE a == scan.index
  <2> DEFINE b == scan.matrix
  <2> DEFINE c == scan.score
  <2> DEFINE d == scan.best
  <2> DEFINE e == next + BlockLength
  <2>1. scan = [index |-> a, matrix |-> b, score |-> c, next |-> next, best |-> d]
    BY <1>3
  <2>2. s = [scan EXCEPT !.next = e, !.best = best]
    OBVIOUS
  <2> HIDE DEF a, b, c, d, e, s, next
  <2>3. s = [index |-> a, matrix |-> b, score |-> c, next |-> e, best |-> best]
    BY <2>1, <2>2
  <2> QED
    BY <2>3 DEF a, b, c, e
<1> HIDE DEF s
<1>5. /\ n \in Nat /\ Eligible(scan) \in SUBSET (1 .. n) /\ Eligible(scan) \in SUBSET Int
      /\ IsFiniteSet(Eligible(scan))
  BY <1>3, EligibleIs
<1> DEFINE E == SeenRows(scan)
<1> DEFINE F == block \cap Eligible(scan)
<1>6. \A row \in Eligible(scan) : row \in 1 .. n
  BY <1>5
<1>7. BlockLength \in Nat \ {0}
  BY PipelineAssumption
<1>8. /\ E = {row \in Eligible(scan) : row < next}
      /\ \A row \in Eligible(scan) :
           row \in block <=> next <= row /\ row < next + BlockLength
  <2>1. E = {row \in Eligible(scan) : row < next}
    BY DEF SeenRows
  <2>2. block = next .. (Least(next + BlockLength, n + 1) - 1)
    BY DEF BlockRows
  <2>3. ASSUME NEW row \in Eligible(scan)
        PROVE  row \in block <=> next <= row /\ row < next + BlockLength
    <3>1. row \in Int /\ row <= n /\ n \in Nat /\ next \in Nat
      BY <1>3, <1>5, <1>6
    <3> HIDE DEF block, n, next
    <3> QED
      BY <1>7, <2>2, <3>1 DEF Least
  <2> QED
    BY <2>1, <2>3
<1> HIDE DEF block
<1>9. E \cap F = {} /\ E \in SUBSET Int /\ F \in SUBSET Int
  <2>1. \A row \in Eligible(scan) : row \in Int
    BY <1>5
  <2> QED
    BY <1>3, <1>8, <2>1
<1>10. IsFiniteSet(E) /\ IsFiniteSet(F)
  <2>1. E \in SUBSET Eligible(scan) /\ F \in SUBSET Eligible(scan)
    BY DEF SeenRows
  <2> QED
    BY <1>5, <2>1, FS_Subset
<1>11. E \cup F = SeenRows(s)
  <2>1. Eligible(s) = Eligible(scan) /\ s.next = next + BlockLength
    BY <1>4 DEF Eligible
  <2>2. SeenRows(s) = {row \in Eligible(scan) : row < next + BlockLength}
    BY <2>1 DEF SeenRows
  <2>3. \A row \in Eligible(scan) : row \in E \cup F <=> row < next + BlockLength
    <3>1. \A row \in Eligible(scan) : row \in Int
      BY <1>5
    <3>2. next \in Nat
      BY <1>3
    <3> HIDE DEF next
    <3> QED
      BY <1>7, <1>8, <3>1, <3>2
  <2>4. E \subseteq Eligible(scan)
    BY DEF SeenRows
  <2> HIDE DEF E
  <2> QED
    BY <2>2, <2>3, <2>4
<1>12. Scored(scan.score, E \cup F)
  <2>1. \A row \in E \cup F : row \in 1 .. n
    BY <1>6 DEF SeenRows
  <2> QED
    BY <1>3, <2>1 DEF Scored
<1> DEFINE el == Eligible(scan)
<1>13. block \cap el = F /\ best = ScanBlock(scan.best, block, el, scan.score, ScanLimit)
  BY DEF best
<1> HIDE DEF E, F, n, next, el
<1>14. Top(scan.best, E, scan.score, ScanLimit)
  BY <1>3 DEF E
<1>15. Top(ScanBlock(scan.best, block, el, scan.score, ScanLimit), E \cup F, scan.score, ScanLimit)
  BY <1>9, <1>10, <1>12, <1>13, <1>14, ScanLimitNat, ScanBlockKeeps
<1>16. Top(s.best, SeenRows(s), s.score, ScanLimit)
  BY <1>4, <1>11, <1>13, <1>15
<1>17. ScanOK(s)
  <2>1. /\ s.index = scan.index /\ s.matrix = scan.matrix /\ s.score = scan.score
        /\ s.next = next + BlockLength /\ s.best = best
    BY <1>4
  <2>2. s = [index |-> s.index, matrix |-> s.matrix, score |-> s.score,
             next |-> s.next, best |-> s.best]
    BY <1>4, <2>1
  <2>3. s.next \in Nat \ {0}
    BY <1>3, <1>7, <2>1
  <2> QED
    BY <1>3, <1>16, <2>1, <2>2, <2>3 DEF ScanOK, T, n
<1>18. ScanOK(scan)'
  BY <1>1, <1>17 DEF ScanOK, ScanLimit
<1> QED
  BY <1>1, <1>18 DEF ScanInv, Extraction

(* Initially the scan invariant holds. *)
LEMMA ScanInvInit == Init => ScanInv
<1> SUFFICES ASSUME Init PROVE ScanInv
  OBVIOUS
<1>1. store \in Stores
  BY DEF Init, Stores
<1>2. ~ Scanning
  BY DEF Init, Scanning
<1>3. unread \in Seq(Seq(WordBoxes))
  <2> DEFINE T == Seq(WordBoxes)
  <2>1. unread \in Layouts /\ Layouts \subseteq Seq(T)
    BY PipelineAssumption DEF Init
  <2> HIDE DEF T
  <2> QED
    BY <2>1 DEF T
<1>4. DocOK(doc)
  <2>1. doc = [pages |-> <<>>, chunks |-> <<>>, spans |-> <<>>]
    BY DEF Init
  <2>2. doc.pages = <<>> /\ doc.chunks = <<>> /\ doc.spans = <<>> /\ Len(<<>>) = 0
    BY <2>1
  <2>3. doc \in Docs
    <3>1. \A T : <<>> \in Seq(T)
      OBVIOUS
    <3> QED
      BY <2>1, <3>1 DEF Docs
  <2> QED
    BY <2>2, <2>3 DEF DocOK
<1> QED
  BY <1>1, <1>2, <1>3, <1>4 DEF ScanInv, Extraction

(* A publication changes only the generations, within their bounds. *)
LEMMA PublishKeepsStores ==
    ASSUME store \in Stores, PublishDocument \/ PublishOther \/ PublishIndex
    PROVE  /\ store' \in Stores /\ stage' = stage /\ stage \in Reads
           /\ UNCHANGED <<paper, retrieval, request, evidence, result>>
<1> DEFINE active == [store EXCEPT !.active = @ + 1]
<1> DEFINE other == [store EXCEPT !.other = @ + 1]
<1> DEFINE index == [store EXCEPT !.index = <<store.active, store.other>>]
<1>1. active \in Stores /\ other \in Stores /\ index \in Stores
  BY DEF Stores
<1>2. store' \in {active, other, index}
  BY DEF PublishDocument, PublishOther, PublishIndex, Publish
<1> HIDE DEF active, other, index
<1> QED
  BY <1>1, <1>2 DEF PublishDocument, PublishOther, PublishIndex, Publish

(* Every step keeps the scan invariant. *)
LEMMA ScanInvStep ==
    ASSUME ScanInv, [Next]_vars
    PROVE  ScanInv'
<1>1. CASE ReadPage
  <2>1. Extraction'
    BY <1>1, ReadPageKeeps DEF ScanInv
  <2> QED
    BY <1>1, <2>1 DEF ScanInv, ReadPage, Scanning
<1>2. CASE CutChunk
  <2>1. Extraction'
    BY <1>2, CutChunkKeeps DEF ScanInv
  <2> QED
    BY <1>2, <2>1 DEF ScanInv, CutChunk, Scanning
<1>3. CASE CutSpan
  <2>1. Extraction'
    BY <1>3, CutSpanKeeps DEF ScanInv
  <2> QED
    BY <1>3, <2>1 DEF ScanInv, CutSpan, Scanning
<1>4. CASE Ask
  BY <1>4 DEF Ask, ScanInv, Extraction, Scanning, paper
<1> DEFINE Same == /\ doc' = doc /\ unread' = unread /\ store' = store /\ mode' = mode
                   /\ scan' = scan
<1>5. ASSUME Same, Scanning' => Scanning PROVE ScanInv'
  <2>1. ScanOK(scan) => ScanOK(scan)'
    BY <1>5 DEF ScanOK, ScanLimit
  <2> QED
    BY <1>5, <2>1 DEF ScanInv, Extraction
<1>6. CASE SearchLexical
  BY <1>5, <1>6 DEF SearchLexical, Scanning, paper
<1>7. CASE StartScan
  BY <1>7, StartScanKeeps
<1>8. CASE ScanNextBlock
  BY <1>8, ScanNextBlockKeeps
<1>9. CASE EndScan
  BY <1>5, <1>9 DEF EndScan, Stop, Scanning, paper, retrieval
<1>10. CASE Order
  BY <1>5, <1>10 DEF Order, Scanning, paper
<1>11. CASE ResolveParent
  BY <1>5, <1>11 DEF ResolveParent, Stop, Scanning, paper, retrieval
<1>12. CASE RequestEvidence
  <2>1. stage' = "build" /\ UNCHANGED <<paper, store, mode>>
    BY <1>12 DEF RequestEvidence
  <2> QED
    BY <2>1 DEF ScanInv, Extraction, Scanning, paper
<1>13. CASE Build
  BY <1>5, <1>13 DEF Build, Stop, Scanning, paper, retrieval
<1>14. CASE VerifyProposal
  BY <1>5, <1>14 DEF VerifyProposal, Scanning, paper, retrieval
<1>15. CASE PublishDocument \/ PublishOther \/ PublishIndex
  <2>1. store' \in Stores /\ stage' = stage /\ UNCHANGED <<paper, retrieval>>
    BY <1>15, PublishKeepsStores DEF ScanInv
  <2>2. doc' = doc /\ unread' = unread /\ mode' = mode /\ scan' = scan
    BY <2>1 DEF paper, retrieval
  <2>3. ScanOK(scan) => ScanOK(scan)'
    BY <2>2 DEF ScanOK, ScanLimit
  <2> QED
    BY <2>1, <2>2, <2>3 DEF ScanInv, Extraction, Scanning
<1>16. CASE UNCHANGED vars
  BY <1>5, <1>16 DEF vars, Scanning, paper, retrieval
<1> QED
  BY <1>1, <1>2, <1>3, <1>4, <1>6, <1>7, <1>8, <1>9, <1>10, <1>11, <1>12, <1>13, <1>14, <1>15,
     <1>16 DEF Next

(* The scan holds the best of the rows read, in every reachable state. *)
LEMMA ScanInvariant == Spec => []ScanInv
BY ScanInvInit, ScanInvStep, PTL DEF Spec

(* At the end of every scan, whatever the blocks, the similarities and the *)
(* limit, its hits are the best of all the eligible rows of the matrix, in *)
(* order, the lower row first among equals (exact_memmap.py).              *)
THEOREM ScanFindsTheBest == Spec => []ScanIsTopK
<1>1. ScanInv => ScanIsTopK
  <2> SUFFICES ASSUME ScanInv, stage = "scan", scan.next > Len(scan.matrix) PROVE ScanIsTopK
    BY DEF ScanIsTopK
  <2> DEFINE best == scan.best
  <2> DEFINE E == Eligible(scan)
  <2> DEFINE n == Len(scan.matrix)
  <2> DEFINE T == 0 .. Len(doc.spans)
  <2>1. /\ scan.next \in Nat \ {0} /\ scan.matrix \in Seq(T)
        /\ Top(best, SeenRows(scan), scan.score, ScanLimit) /\ Scored(scan.score, 1 .. n)
    BY DEF ScanInv, Scanning, ScanOK
  <2> HIDE DEF T
  <2>2. n \in Nat /\ E \in SUBSET (1 .. n)
    BY <2>1, EligibleIs
  <2>3. SeenRows(scan) = E
    <3>1. \A row \in E : row \in Int /\ row <= n
      BY <2>2
    <3> QED
      BY <2>1, <2>2, <3>1 DEF SeenRows
  <2> HIDE DEF E, n, best
  <2>4. Top(best, E, scan.score, ScanLimit)
    BY <2>1, <2>3
  <2>5. /\ best \in Seq(Hits)
        /\ \A i \in 1 .. Len(best) : best[i].row \in E
        /\ \A i, j \in 1 .. Len(best) : i < j => Better(scan.score, best[i].row, best[j].row)
        /\ Len(best) = Least(ScanLimit, Cardinality(E))
        /\ \A row \in E \ {best[i].row : i \in 1 .. Len(best)} :
             \A i \in 1 .. Len(best) : Better(scan.score, best[i].row, row)
    BY <2>4 DEF Top
  <2>6. DOMAIN best = 1 .. Len(best) /\ Len(best) \in Nat
    BY <2>5
  <2>7. ASSUME NEW r \in 1 .. Len(best), NEW row \in E \ {best[q].row : q \in 1 .. r}
        PROVE  Better(scan.score, best[r].row, row)
    <3>1. CASE row \in {best[i].row : i \in 1 .. Len(best)}
      <4>1. PICK i \in 1 .. Len(best) : row = best[i].row
        BY <3>1
      <4>2. i \notin 1 .. r
        BY <2>7, <4>1
      <4>3. r < i
        BY <2>6, <4>2
      <4> QED
        BY <2>5, <4>1, <4>3
    <3>2. CASE row \notin {best[i].row : i \in 1 .. Len(best)}
      BY <2>5, <3>2
    <3> QED
      BY <3>1, <3>2
  <2>8. \A r \in DOMAIN best : \A row \in E \ {best[q].row : q \in 1 .. r} :
          Better(scan.score, best[r].row, row)
    BY <2>6, <2>7
  <2>9. {best[r].row : r \in DOMAIN best} \subseteq E
    BY <2>5, <2>6
  <2> QED
    BY <2>5, <2>8, <2>9 DEF ScanIsTopK, Better, E, n, best
<1> QED
  BY <1>1, ScanInvariant, PTL

-----------------------------------------------------------------------------
(* Retrieval.                                                              *)

ChunkIds == Nat \X (1 .. Len(doc.chunks))
SpanIds == 1 .. Len(doc.spans)

(* What a query returned, in the mode it ran in.                           *)
FoundSet == CASE mode = "hybrid" -> Fused(ChunkIds, SpanIds)
              [] mode = "semantic" -> SemanticHitsOf(ChunkIds, SpanIds)
              [] mode = "lexical" -> LexicalHitsOf(ChunkIds)

FoundOK == mode # "ranked" /\ \E n \in Nat : IsList(found, n, FoundSet)

RetrievalInv ==
  /\ ScanInv
  /\ stage = "extract" => branches = <<>> /\ found = <<>>
  /\ stage # "extract" => mode \in {"hybrid", "semantic", "lexical", "ranked"}
  /\ branches \in Seq(Seq(ChunkIds))
  /\ mode = "hybrid" /\ stage \in {"semantic", "scan", "order"} => Len(branches) > 0
  /\ stage \in {"resolve", "request"} => FoundOK

(* Chunk identities are pairs of integers, span identities integers. *)
LEMMA ChunkIdsAre ==
    ASSUME DocOK(doc)
    PROVE  ChunkIds \in SUBSET Tuples(2) /\ SpanIds \in SUBSET Int
<1> DEFINE n == Len(doc.chunks)
<1>1. n \in Nat /\ Len(doc.spans) \in Nat
  BY DocTypes
<1> HIDE DEF n
<1>2. \A c \in Nat \X (1 .. n) : c \in Tuples(2)
  <2> SUFFICES ASSUME NEW a \in Nat, NEW b \in 1 .. n PROVE <<a, b>> \in Tuples(2)
    OBVIOUS
  <2>1. a \in Int /\ b \in Int
    BY <1>1
  <2>2. <<a, b>> = [j \in 1 .. 2 |-> IF j = 1 THEN a ELSE b]
    OBVIOUS
  <2> QED
    BY <2>1, <2>2 DEF Tuples
<1> QED
  BY <1>1, <1>2 DEF ChunkIds, SpanIds, n

(* What the full-text index answers are chunks of the paper. *)
LEMMA AnswersAre ==
    ASSUME DocOK(doc), store \in Stores, NEW answer \in LexicalAnswers
    PROVE  answer \in Seq(ChunkIds)
<1> DEFINE n == Len(doc.chunks)
<1>1. n \in Nat /\ DOMAIN doc.chunks = 1 .. n
  BY DocTypes
<1>2. \E k \in 0 .. Depth : \E order \in [1 .. k -> DOMAIN doc.chunks] :
        answer = [r \in DOMAIN order |-> <<store.active, order[r]>>]
  BY DEF LexicalAnswers
<1>6. PICK k \in 0 .. Depth : \E order \in [1 .. k -> DOMAIN doc.chunks] :
        answer = [r \in DOMAIN order |-> <<store.active, order[r]>>]
  BY <1>2
<1>7. PICK order \in [1 .. k -> DOMAIN doc.chunks] :
        answer = [r \in DOMAIN order |-> <<store.active, order[r]>>]
  BY <1>6
<1>3. k \in Nat /\ order \in [1 .. k -> 1 .. n]
  BY <1>1, <1>7, PipelineAssumption
<1>4. ChunkIds = Nat \X (1 .. n) /\ store.active \in Nat
  BY DEF ChunkIds, Stores
<1> HIDE DEF n
<1>5. answer \in [1 .. k -> ChunkIds]
  BY <1>7, <1>3, <1>4
<1> QED
  BY <1>3, <1>5

(* Semantic hits name chunks and spans of the paper. *)
LEMMA SemanticHitsAre ==
    ASSUME DocOK(doc), ScanOK(scan)
    PROVE  \E n \in Nat : IsList(SemanticHits, n, SemanticHitsOf(ChunkIds, SpanIds))
<1> DEFINE n == Len(scan.best)
<1> DEFINE T == 0 .. Len(doc.spans)
<1>1. /\ scan.index \in Nat \X Nat /\ scan.matrix \in Seq(T)
      /\ Top(scan.best, SeenRows(scan), scan.score, ScanLimit)
  BY DEF ScanOK
<1>2. Len(doc.spans) \in Nat /\ Len(doc.chunks) \in Nat
  BY DocTypes
<1> HIDE DEF T
<1>3. /\ scan.best \in Seq(Hits)
      /\ \A i \in 1 .. n : scan.best[i].row \in SeenRows(scan)
  BY <1>1 DEF Top
<1>4. n \in Nat /\ DOMAIN scan.best = 1 .. n
  BY <1>3
<1> HIDE DEF n
<1>5. /\ DOMAIN scan.matrix = 1 .. Len(scan.matrix)
      /\ Eligible(scan) \in SUBSET (1 .. Len(scan.matrix))
  BY <1>1, EligibleIs
<1>6. ASSUME NEW r \in 1 .. n
      PROVE  LET span == scan.matrix[scan.best[r].row]
             IN [chunk |-> <<scan.index[1], doc.spans[span].chunk>>, span |-> span, rank |-> r]
                  \in SemanticHitsOf(ChunkIds, SpanIds)
  <2> DEFINE row == scan.best[r].row
  <2> DEFINE span == scan.matrix[row]
  <2>1. row \in Eligible(scan)
    BY <1>3 DEF SeenRows
  <2>2. span # 0 /\ row \in 1 .. Len(scan.matrix)
    BY <1>5, <2>1 DEF Eligible
  <2> HIDE DEF row
  <2>3. span \in T
    BY <1>1, <2>2
  <2>4. span \in SpanIds
    BY <1>2, <2>2, <2>3 DEF T, SpanIds
  <2> HIDE DEF span
  <2>5. doc.spans[span].chunk \in 1 .. Len(doc.chunks)
    BY <2>4, DocParts DEF SpanIds, SpanOK
  <2>6. scan.index[1] \in Nat
    BY <1>1
  <2>7. <<scan.index[1], doc.spans[span].chunk>> \in ChunkIds
    BY <2>5, <2>6 DEF ChunkIds
  <2>8. r \in Int
    BY <1>4
  <2> QED
    BY <2>4, <2>7, <2>8 DEF SemanticHitsOf, span, row
<1>7. SemanticHits \in [1 .. n -> SemanticHitsOf(ChunkIds, SpanIds)]
  BY <1>4, <1>6 DEF SemanticHits
<1> QED
  BY <1>4, <1>7 DEF IsList

(* Lexical hits name chunks of the paper. *)
LEMMA LexicalHitsAre ==
    ASSUME DocOK(doc), branches \in Seq(Seq(ChunkIds)), Len(branches) > 0
    PROVE  \E n \in Nat : IsList(LexicalHits, n, LexicalHitsOf(ChunkIds))
<1> DEFINE b == branches[1]
<1> DEFINE n == Len(b)
<1>1. b \in Seq(ChunkIds)
  <2> DEFINE T == Seq(ChunkIds)
  <2>1. branches \in Seq(T)
    OBVIOUS
  <2> HIDE DEF T
  <2>2. branches[1] \in T
    BY <2>1
  <2> QED
    BY <2>2 DEF T
<1>2. LexicalHits = [r \in DOMAIN b |-> [chunk |-> b[r], rank |-> r]]
  BY DEF LexicalHits
<1> HIDE DEF b
<1>3. n \in Nat /\ DOMAIN b = 1 .. n /\ \A r \in 1 .. n : b[r] \in ChunkIds
  BY <1>1
<1> HIDE DEF n
<1>4. \A r \in 1 .. n : [chunk |-> b[r], rank |-> r] \in LexicalHitsOf(ChunkIds)
  BY <1>3 DEF LexicalHitsOf
<1>5. LexicalHits \in [1 .. n -> LexicalHitsOf(ChunkIds)]
  BY <1>2, <1>3, <1>4
<1> QED
  BY <1>3, <1>5 DEF IsList

(* What ordering finds are hits of the paper, of the shape of the mode. *)
LEMMA OrderFinds ==
    ASSUME RetrievalInv, Order, mode # "ranked"
    PROVE  FoundOK'
<1>1. /\ DocOK(doc) /\ branches \in Seq(Seq(ChunkIds))
      /\ stage = "order" /\ doc' = doc /\ mode' = mode
      /\ mode \in {"hybrid", "semantic", "lexical"}
      /\ mode # "lexical" => ScanOK(scan)
      /\ mode = "hybrid" => Len(branches) > 0
  BY DEF RetrievalInv, ScanInv, Extraction, Scanning, Order, paper
<1>2. ChunkIds' = ChunkIds /\ SpanIds' = SpanIds
  BY <1>1 DEF ChunkIds, SpanIds
<1>3. ChunkIds \in SUBSET Tuples(2) /\ SpanIds \in SUBSET Int
  BY <1>1, ChunkIdsAre
<1>4. Limit \in Nat
  BY PipelineAssumption
<1>5. CASE mode = "hybrid"
  <2>1. found' = FuseCandidates(LexicalHits, SemanticHits, Limit)
    BY <1>5 DEF Order
  <2>2. PICK n \in Nat : IsList(LexicalHits, n, LexicalHitsOf(ChunkIds))
    BY <1>1, <1>5, LexicalHitsAre
  <2>3. PICK m \in Nat : IsList(SemanticHits, m, SemanticHitsOf(ChunkIds, SpanIds))
    BY <1>1, <1>5, SemanticHitsAre
  <2>4. \E k \in Nat : IsList(FuseCandidates(LexicalHits, SemanticHits, Limit), k,
                              Fused(ChunkIds, SpanIds))
    BY <1>3, <1>4, <2>2, <2>3, FuseIs, 2 \in Nat
  <2>5. FoundSet' = Fused(ChunkIds, SpanIds)
    BY <1>1, <1>2, <1>5 DEF FoundSet
  <2> QED
    BY <1>1, <1>5, <2>1, <2>4, <2>5 DEF FoundOK
<1>6. CASE mode = "semantic"
  <2>1. found' = SemanticHits
    BY <1>6 DEF Order
  <2>2. PICK m \in Nat : IsList(SemanticHits, m, SemanticHitsOf(ChunkIds, SpanIds))
    BY <1>1, <1>6, SemanticHitsAre
  <2>3. FoundSet' = SemanticHitsOf(ChunkIds, SpanIds)
    BY <1>1, <1>2, <1>6 DEF FoundSet
  <2> QED
    BY <1>1, <1>6, <2>1, <2>2, <2>3 DEF FoundOK
<1>7. CASE mode = "lexical"
  <2>1. found' = MergeBranches(branches, Limit)
    BY <1>7 DEF Order
  <2> DEFINE T == Seq(ChunkIds)
  <2> DEFINE n == Len(branches)
  <2>2. branches \in Seq(T)
    BY <1>1
  <2> HIDE DEF T
  <2>3. n \in Nat /\ IsList(branches, n, T)
    BY <2>2 DEF IsList
  <2> HIDE DEF n
  <2>4. \E k \in Nat : IsList(MergeBranches(branches, Limit), k, LexicalHitsOf(ChunkIds))
    BY <1>3, <1>4, <2>3, MergeIs, 2 \in Nat DEF T
  <2>5. FoundSet' = LexicalHitsOf(ChunkIds)
    BY <1>1, <1>2, <1>7 DEF FoundSet
  <2> QED
    BY <1>1, <1>7, <2>1, <2>4, <2>5 DEF FoundOK
<1> QED
  BY <1>1, <1>5, <1>6, <1>7

(* Initially the retrieval invariant holds. *)
LEMMA RetrievalInvInit == Init => RetrievalInv
<1> SUFFICES ASSUME Init PROVE RetrievalInv
  OBVIOUS
<1>1. ScanInv
  BY ScanInvInit
<1>2. branches = <<>> /\ found = <<>> /\ stage = "extract"
  BY DEF Init
<1>3. <<>> \in Seq(Seq(ChunkIds))
  OBVIOUS
<1> QED
  BY <1>1, <1>2, <1>3 DEF RetrievalInv

(* A lexical answer appends a branch of chunks. *)
LEMMA SearchLexicalKeeps ==
    ASSUME RetrievalInv, SearchLexical
    PROVE  /\ branches' \in Seq(Seq(ChunkIds)) /\ Len(branches') > 0
           /\ doc' = doc /\ mode' = mode /\ stage' \in {"lexical", "semantic", "order"}
<1>1. DocOK(doc) /\ store \in Stores /\ branches \in Seq(Seq(ChunkIds))
  BY DEF RetrievalInv, ScanInv, Extraction
<1>2. PICK answer \in LexicalAnswers : branches' = Append(branches, answer)
  BY DEF SearchLexical
<1> DEFINE T == Seq(ChunkIds)
<1>3. answer \in T /\ branches \in Seq(T)
  BY <1>1, AnswersAre
<1> HIDE DEF T
<1>4. branches' \in Seq(T) /\ Len(branches') > 0
  BY <1>2, <1>3
<1> QED
  BY <1>4 DEF SearchLexical, paper, T

(* Every step keeps the retrieval invariant. *)
LEMMA RetrievalInvStep ==
    ASSUME RetrievalInv, [Next]_vars
    PROVE  RetrievalInv'
<1>0. ScanInv'
  BY ScanInvStep DEF RetrievalInv
<1>1. ASSUME stage = "extract", stage' = "extract", UNCHANGED retrieval PROVE RetrievalInv'
  <2>1. branches' = <<>> /\ found' = <<>>
    BY <1>1 DEF RetrievalInv, retrieval
  <2>2. <<>> \in Seq(Seq(ChunkIds'))
    OBVIOUS
  <2> QED
    BY <1>0, <1>1, <2>1, <2>2 DEF RetrievalInv
<1>2. CASE ReadPage \/ CutChunk \/ CutSpan
  <2>1. stage = "extract" /\ stage' = "extract" /\ UNCHANGED retrieval
    BY <1>2 DEF ReadPage, CutChunk, CutSpan
  <2> QED
    BY <1>1, <2>1
<1> DEFINE Same == doc' = doc /\ mode' = mode
<1>3. ASSUME Same PROVE ChunkIds' = ChunkIds /\ SpanIds' = SpanIds /\ FoundSet' = FoundSet
  <2>1. ChunkIds' = ChunkIds /\ SpanIds' = SpanIds
    BY <1>3 DEF ChunkIds, SpanIds
  <2> QED
    BY <1>3, <2>1 DEF FoundSet
<1>4. CASE Ask
  <2>1. /\ stage = "extract" /\ stage' \in {"lexical", "semantic"} /\ mode' \in Modes
        /\ doc' = doc /\ branches' = branches /\ found' = found
        /\ stage' = "semantic" => mode' # "hybrid"
    BY <1>4 DEF Ask, paper
  <2>2. mode' \in {"hybrid", "semantic", "lexical", "ranked"}
    BY <2>1, PipelineAssumption
  <2>3. ChunkIds' = ChunkIds
    BY <2>1 DEF ChunkIds
  <2>4. branches' \in Seq(Seq(ChunkIds'))
    BY <2>1, <2>3 DEF RetrievalInv
  <2> QED
    BY <1>0, <2>1, <2>2, <2>4 DEF RetrievalInv
<1>5. CASE SearchLexical
  <2>1. /\ branches' \in Seq(Seq(ChunkIds)) /\ Len(branches') > 0
        /\ doc' = doc /\ mode' = mode /\ stage' \in {"lexical", "semantic", "order"}
    BY <1>5, SearchLexicalKeeps
  <2>2. branches' \in Seq(Seq(ChunkIds'))
    BY <1>3, <2>1
  <2>3. mode' \in {"hybrid", "semantic", "lexical", "ranked"}
    BY <1>5, <2>1 DEF RetrievalInv, SearchLexical
  <2> QED
    BY <1>0, <2>1, <2>2, <2>3 DEF RetrievalInv
<1>6. ASSUME Same, UNCHANGED branches, stage # "extract", stage' # "extract",
             stage' \in {"semantic", "scan", "order"} => stage \in {"semantic", "scan", "order"},
             stage' \in {"resolve", "request"} => FoundOK'
      PROVE  RetrievalInv'
  <2>1. branches' \in Seq(Seq(ChunkIds'))
    BY <1>3, <1>6 DEF RetrievalInv
  <2> QED
    BY <1>0, <1>6, <2>1 DEF RetrievalInv
<1>7. ASSUME Same, UNCHANGED found, FoundOK PROVE FoundOK'
  BY <1>3, <1>7 DEF FoundOK
<1>8. CASE StartScan
  BY <1>6, <1>8 DEF StartScan, Stop, paper, retrieval
<1>9. CASE ScanNextBlock
  BY <1>6, <1>9 DEF ScanNextBlock, paper
<1>10. CASE EndScan
  BY <1>6, <1>10 DEF EndScan, Stop, paper, retrieval
<1>11. CASE Order
  <2>1. /\ Same /\ UNCHANGED branches /\ stage = "order"
        /\ stage' \in {"resolve", "over", "request"}
        /\ stage' = "over" <=> mode = "ranked"
    BY <1>11 DEF Order, paper
  <2>2. stage' \in {"resolve", "request"} => FoundOK'
    BY <1>11, <2>1, OrderFinds
  <2> QED
    BY <1>6, <2>1, <2>2
<1>12. CASE ResolveParent
  <2>1. /\ Same /\ UNCHANGED <<branches, found>> /\ stage = "resolve"
        /\ stage' \in {"resolve", "over", "request"}
    BY <1>12 DEF ResolveParent, Stop, paper, retrieval
  <2>2. FoundOK'
    BY <1>7, <2>1 DEF RetrievalInv
  <2> QED
    BY <1>6, <2>1, <2>2
<1>13. CASE RequestEvidence
  <2>1. Same /\ branches' = <<>> /\ stage = "request" /\ stage' = "build"
    BY <1>13 DEF RequestEvidence, paper
  <2>2. <<>> \in Seq(Seq(ChunkIds'))
    OBVIOUS
  <2> QED
    BY <1>0, <2>1, <2>2 DEF RetrievalInv
<1>14. CASE Build
  BY <1>6, <1>14 DEF Build, Stop, paper, retrieval
<1>15. CASE VerifyProposal
  BY <1>6, <1>15 DEF VerifyProposal, paper, retrieval
<1>16. CASE PublishDocument \/ PublishOther \/ PublishIndex
  <2>1. stage' = stage /\ stage \in Reads /\ UNCHANGED <<paper, retrieval>>
    BY <1>16, PublishKeepsStores DEF RetrievalInv, ScanInv
  <2>2. Same /\ UNCHANGED <<branches, found>> /\ stage # "extract"
    BY <2>1 DEF paper, retrieval, Reads
  <2>3. stage' \in {"resolve", "request"} => FoundOK'
    BY <1>7, <2>1, <2>2 DEF RetrievalInv
  <2> QED
    BY <1>6, <2>1, <2>2, <2>3
<1>17. CASE UNCHANGED vars
  <2>1. Same /\ UNCHANGED <<stage, branches, found>> /\ UNCHANGED retrieval
    BY <1>17 DEF vars, paper, retrieval
  <2>2. CASE stage = "extract"
    BY <1>1, <2>1, <2>2
  <2>3. CASE stage # "extract"
    <3>1. stage' \in {"resolve", "request"} => FoundOK'
      BY <1>7, <2>1 DEF RetrievalInv
    <3> QED
      BY <1>6, <2>1, <2>3, <3>1
  <2> QED
    BY <2>2, <2>3
<1> QED
  BY <1>2, <1>4, <1>5, <1>8, <1>9, <1>10, <1>11, <1>12, <1>13, <1>14, <1>15, <1>16, <1>17 DEF Next

(* What was found are hits of the paper, in every reachable state. *)
LEMMA RetrievalInvariant == Spec => []RetrievalInv
BY RetrievalInvInit, RetrievalInvStep, PTL DEF Spec

-----------------------------------------------------------------------------
(* Requests.                                                               *)

(* A reference names a chunk of the paper, and a span when it asserts one; *)
(* it asserts something.                                                   *)
RefOK(d, ref) ==
  /\ ref = [chunk |-> ref.chunk, rank |-> ref.rank, lexical |-> ref.lexical,
            semantic |-> ref.semantic, span |-> ref.span]
  /\ ref.chunk \in Nat \X (1 .. Len(d.chunks))
  /\ ref.semantic # <<>> => ref.span \in 1 .. Len(d.spans)
  /\ ref.lexical # <<>> \/ ref.semantic # <<>>

RefList(d, s, n) == DOMAIN s = 1 .. n /\ s = [i \in 1 .. n |-> s[i]] /\ \A i \in 1 .. n : RefOK(d, s[i])

(* A unit that is asked for is at positions of the list of candidates.     *)
AskedOK(asked, n) ==
  \/ asked.kind = "standalone" /\ asked.position \in 1 .. n
  \/ asked.kind = "group" /\ \A k \in 1 .. 2 : asked.members[k].position \in 1 .. n

AskedList(s, m, n) == DOMAIN s = 1 .. m /\ \A i \in 1 .. m : AskedOK(s[i], n)

RequestOK(d, r) ==
  /\ r.kind \in {"bundle", "groups"} /\ r.budget \in [entries : Nat, bytes : Nat]
  /\ \E n \in Nat : /\ RefList(d, r.candidates, n)
                    /\ r.kind = "groups" => \E m \in Nat : AskedList(r.units, m, n)

(* Every hit found becomes a reference to a chunk and ranges of the paper. *)
LEMMA ReferencesAre ==
    ASSUME RetrievalInv, stage = "request"
    PROVE  /\ Len(found) \in Nat /\ DOMAIN found = 1 .. Len(found)
           /\ \A i \in 1 .. Len(found) : RefOK(doc, Reference(i))
<1>1. mode \in {"hybrid", "semantic", "lexical"} /\ FoundOK
  BY DEF RetrievalInv, FoundOK
<1>2. PICK n \in Nat : found \in [1 .. n -> FoundSet]
  BY <1>1 DEF FoundOK, IsList
<1>3. Len(found) = n /\ DOMAIN found = 1 .. n
  BY <1>2
<1>4. ASSUME NEW i \in 1 .. n PROVE RefOK(doc, Reference(i))
  <2> DEFINE hit == found[i]
  <2> DEFINE chunkRange == ChunkRange(doc, hit.chunk[2])
  <2> DEFINE spanRange == SpanRange(doc, hit.span)
  <2> DEFINE lexical == [chunk |-> hit.chunk, rank |-> i, lexical |-> chunkRange,
                         semantic |-> <<>>, span |-> 0]
  <2> DEFINE semantic == [chunk |-> hit.chunk, rank |-> i, lexical |-> <<>>,
                          semantic |-> spanRange, span |-> hit.span]
  <2> DEFINE both == [chunk |-> hit.chunk, rank |-> i, lexical |-> chunkRange,
                      semantic |-> spanRange, span |-> hit.span]
  <2>1. hit \in FoundSet
    BY <1>2
  <2>2. Reference(i) = CASE mode = "lexical" -> lexical
                         [] mode = "semantic" -> semantic
                         [] mode = "hybrid" ->
                              IF hit.semantic = Missing THEN lexical
                              ELSE IF hit.lexical = Missing THEN semantic
                              ELSE [semantic EXCEPT !.lexical = lexical.lexical]
    BY DEF Reference
  <2>12. chunkRange # <<>> /\ spanRange # <<>>
    BY DEF ChunkRange, SpanRange
  <2> HIDE DEF hit, chunkRange, spanRange
  <2>3. [semantic EXCEPT !.lexical = lexical.lexical] = both
    OBVIOUS
  <2>4. hit.chunk \in ChunkIds
    BY <1>1, <2>1 DEF FoundSet, Fused, Candidates, SemanticHitsOf, LexicalHitsOf
  <2>5. mode = "semantic" => hit.span \in SpanIds
    BY <2>1 DEF FoundSet, SemanticHitsOf
  <2>6. mode = "hybrid" /\ hit.semantic # Missing => hit.span \in SpanIds
    BY <2>1 DEF FoundSet, Fused, CandidateOK
  <2>7. RefOK(doc, lexical)
    BY <2>4, <2>12 DEF RefOK, ChunkIds
  <2>8. hit.span \in SpanIds => RefOK(doc, semantic) /\ RefOK(doc, both)
    BY <2>4, <2>12 DEF RefOK, ChunkIds, SpanIds
  <2> HIDE DEF lexical, semantic, both
  <2>9. CASE mode = "lexical"
    BY <2>2, <2>7, <2>9
  <2>10. CASE mode = "semantic"
    BY <2>2, <2>5, <2>8, <2>10
  <2>11. CASE mode = "hybrid"
    BY <2>2, <2>3, <2>6, <2>7, <2>8, <2>11
  <2> QED
    BY <1>1, <2>9, <2>10, <2>11
<1> QED
  BY <1>3, <1>4

(* The candidate lists a caller asks with are lists of references. *)
LEMMA CandidateListsAre ==
    ASSUME RetrievalInv, stage = "request", NEW s \in CandidateLists
    PROVE  \E n \in Nat : RefList(doc, s, n)
<1> DEFINE n == Len(found)
<1> DEFINE longer(range) == IF range = <<>> THEN <<>> ELSE <<range[1], range[2] + 1>>
<1> DEFINE a == AsFound
<1> DEFINE one == a[1]
<1> DEFINE shifted == [one EXCEPT !.lexical = longer(@), !.semantic = longer(@)]
<1> DEFINE T == {Reference(i) : i \in 1 .. n} \cup {shifted}
<1>1. n \in Nat /\ DOMAIN found = 1 .. n /\ \A i \in 1 .. n : RefOK(doc, Reference(i))
  BY ReferencesAre
<1>2. found # <<>> => n > 0
  <2>1. PICK k \in Nat : found \in [1 .. k -> FoundSet]
    BY DEF RetrievalInv, FoundOK, IsList
  <2> QED
    BY <1>1, <2>1
<1>3. s = a \/ (n > 0 /\ s \in {Append(a, one), Reverse(a), <<shifted>> \o Tail(a)})
  BY <1>2 DEF CandidateLists
<1> HIDE DEF n
<1>4. a = [i \in 1 .. n |-> Reference(i)]
  BY <1>1 DEF AsFound
<1> HIDE DEF a
<1>5. n > 0 => RefOK(doc, one)
  BY <1>1, <1>4
<1> HIDE DEF one
<1>6. n > 0 => RefOK(doc, shifted)
  <2> SUFFICES ASSUME n > 0 PROVE RefOK(doc, shifted)
    OBVIOUS
  <2> DEFINE l == longer(one.lexical)
  <2> DEFINE m == longer(one.semantic)
  <2>1. one = [chunk |-> one.chunk, rank |-> one.rank, lexical |-> one.lexical,
               semantic |-> one.semantic, span |-> one.span]
    BY <1>5 DEF RefOK
  <2>2. (m # <<>> <=> one.semantic # <<>>) /\ (l # <<>> <=> one.lexical # <<>>)
    <3>1. \A x : (longer(x) # <<>>) <=> (x # <<>>)
      OBVIOUS
    <3> HIDE DEF longer
    <3> QED
      BY <3>1
  <2>3. shifted = [chunk |-> one.chunk, rank |-> one.rank, lexical |-> l,
                   semantic |-> m, span |-> one.span]
    <3> DEFINE c == one.chunk
    <3> DEFINE k == one.rank
    <3> DEFINE x == one.lexical
    <3> DEFINE y == one.semantic
    <3> DEFINE p == one.span
    <3>1. one = [chunk |-> c, rank |-> k, lexical |-> x, semantic |-> y, span |-> p]
      BY <2>1
    <3>2. l = longer(x) /\ m = longer(y)
      OBVIOUS
    <3>3. shifted = [one EXCEPT !.lexical = l, !.semantic = m]
      BY DEF shifted
    <3> HIDE DEF c, k, x, y, p, l, m, longer, shifted
    <3>4. shifted = [chunk |-> c, rank |-> k, lexical |-> l, semantic |-> m, span |-> p]
      BY <3>1, <3>3
    <3> QED
      BY <3>4 DEF c, k, p
  <2> HIDE DEF l, m, shifted, longer
  <2>4. shifted.chunk = one.chunk /\ shifted.semantic = m /\ shifted.span = one.span
        /\ shifted.rank = one.rank /\ shifted.lexical = l
    BY <2>3
  <2> QED
    BY <1>5, <2>2, <2>3, <2>4 DEF RefOK
<1> HIDE DEF shifted
<1>7. n > 0 => \A x \in T : RefOK(doc, x)
  BY <1>1, <1>6
<1>8. a \in Seq(T) /\ shifted \in T /\ (n > 0 => one \in T) /\ Len(a) = n
  BY <1>1, <1>4 DEF one
<1> HIDE DEF T
<1>9. ASSUME n > 0, s \in Seq(T) PROVE RefList(doc, s, Len(s)) /\ Len(s) \in Nat
  <2>1. Len(s) \in Nat /\ DOMAIN s = 1 .. Len(s) /\ s = [i \in 1 .. Len(s) |-> s[i]]
        /\ \A i \in 1 .. Len(s) : s[i] \in T
    BY <1>9
  <2> QED
    BY <1>7, <1>9, <2>1 DEF RefList
<1>10. CASE s = a
  <2>1. RefList(doc, s, n)
    BY <1>1, <1>4, <1>10 DEF RefList
  <2> QED
    BY <1>1, <2>1
<1>11. CASE n > 0 /\ s = Append(a, one)
  BY <1>8, <1>9, <1>11
<1>12. CASE n > 0 /\ s = Reverse(a)
  <2>1. s = [i \in 1 .. n |-> a[(n - i) + 1]]
    BY <1>8, <1>12 DEF Reverse
  <2>2. \A i \in 1 .. n : (n - i) + 1 \in 1 .. n
    BY <1>1
  <2>3. \A i \in 1 .. n : a[i] \in T
    BY <1>8
  <2>4. s \in [1 .. n -> T]
    BY <2>1, <2>2, <2>3
  <2>5. s \in Seq(T)
    BY <1>1, <2>4
  <2> QED
    BY <1>9, <1>12, <2>5
<1>13. CASE n > 0 /\ s = <<shifted>> \o Tail(a)
  <2>1. Tail(a) \in Seq(T)
    BY <1>8, <1>13
  <2>2. <<shifted>> \in Seq(T)
    BY <1>8
  <2>3. s \in Seq(T)
    BY <1>13, <2>1, <2>2
  <2> QED
    BY <1>9, <1>13, <2>3
<1> QED
  BY <1>3, <1>10, <1>11, <1>12, <1>13

AloneUnits(n) == {[kind |-> "standalone", position |-> p] : p \in 1 .. n}

(* Positions alone are standalone units. *)
LEMMA AloneIs ==
    ASSUME NEW n \in Nat, NEW S \in SUBSET (1 .. n)
    PROVE  Alone(S) \in Seq(AloneUnits(n))
<1> DEFINE a == Ascending(S)
<1> DEFINE m == Cardinality(S)
<1>1. IsFiniteSet(S) /\ S \in SUBSET Int
  <2>1. IsFiniteSet(1 .. n)
    BY FS_Interval, 1 \in Int, n \in Int
  <2>2. IsFiniteSet(S)
    BY <2>1, FS_Subset
  <2> QED
    BY <2>2
<1>2. m \in Nat /\ a \in [1 .. m -> S]
  BY <1>1, AscendingIs
<1>3. Alone(S) = [k \in DOMAIN a |-> [kind |-> "standalone", position |-> a[k]]]
  BY DEF Alone
<1> HIDE DEF a, m
<1>4. \A k \in 1 .. m : [kind |-> "standalone", position |-> a[k]] \in AloneUnits(n)
  BY <1>2 DEF AloneUnits
<1>5. Alone(S) \in [1 .. m -> AloneUnits(n)]
  BY <1>2, <1>3, <1>4
<1> QED
  BY <1>2, <1>5

(* Units that are alone behind one that is not.                            *)
LEMMA AskedIs ==
    ASSUME NEW n \in Nat, NEW x, AskedOK(x, n), NEW S \in SUBSET (1 .. n)
    PROVE  /\ \E m \in Nat : AskedList(<<x>> \o Alone(S), m, n)
           /\ \E m \in Nat : AskedList(Alone(S), m, n)
<1> DEFINE T == AloneUnits(n) \cup {x}
<1>1. \A u \in AloneUnits(n) : AskedOK(u, n)
  BY DEF AloneUnits, AskedOK
<1>2. \A u \in T : AskedOK(u, n)
  BY <1>1
<1>3. Alone(S) \in Seq(AloneUnits(n))
  BY AloneIs
<1>4. Alone(S) \in Seq(T) /\ <<x>> \in Seq(T)
  BY <1>3
<1> HIDE DEF T
<1>5. \A s \in Seq(T) : \E m \in Nat : AskedList(s, m, n)
  <2> SUFFICES ASSUME NEW s \in Seq(T) PROVE \E m \in Nat : AskedList(s, m, n)
    OBVIOUS
  <2>1. Len(s) \in Nat /\ DOMAIN s = 1 .. Len(s) /\ \A i \in 1 .. Len(s) : s[i] \in T
    OBVIOUS
  <2>2. AskedList(s, Len(s), n)
    BY <1>2, <2>1 DEF AskedList
  <2> QED
    BY <2>1, <2>2
<1>6. <<x>> \o Alone(S) \in Seq(T)
  BY <1>4
<1> QED
  BY <1>4, <1>5, <1>6

(* A pair of members is a group of two positions. *)
LEMMA PairIs ==
    ASSUME NEW n \in Nat, NEW a, NEW b, a.position \in 1 .. n, b.position \in 1 .. n
    PROVE  AskedOK(Pair(a, b), n)
<1>1. Pair(a, b).kind = "group" /\ Pair(a, b).members = <<a, b>>
  BY DEF Pair
<1>2. \A k \in 1 .. 2 : k = 1 \/ k = 2
  OBVIOUS
<1> QED
  BY <1>1, <1>2 DEF AskedOK

(* A list of references twice is a list of references. *)
LEMMA TwiceIs ==
    ASSUME NEW n \in Nat, NEW s, RefList(doc, s, n)
    PROVE  RefList(doc, s \o s, n + n)
<1> DEFINE T == {s[i] : i \in 1 .. n}
<1>1. s \in [1 .. n -> T]
  BY DEF RefList
<1>2. s \in Seq(T) /\ Len(s) = n
  BY <1>1
<1>3. \A x \in T : RefOK(doc, x)
  BY DEF RefList
<1> HIDE DEF T
<1> DEFINE t == s \o s
<1>4. t \in Seq(T) /\ Len(t) = n + n
  BY <1>2
<1> HIDE DEF t
<1>5. DOMAIN t = 1 .. Len(t) /\ t = [i \in 1 .. Len(t) |-> t[i]] /\ \A i \in 1 .. Len(t) : t[i] \in T
  BY <1>4
<1>6. RefList(doc, t, n + n)
  BY <1>3, <1>4, <1>5 DEF RefList
<1> QED
  BY <1>6 DEF t

(* The requests for groups name positions of their list of references. *)
LEMMA GroupListsAre ==
    ASSUME RetrievalInv, stage = "request", NEW g \in GroupLists
    PROVE  \E n \in Nat : RefList(doc, g[1], n) /\ \E m \in Nat : AskedList(g[2], m, n)
<1> DEFINE n == Len(found)
<1> DEFINE twice == AsFound \o AsFound
<1> DEFINE swapped == Pair(Member(2, 2, 1), Member(1, 1, 1))
<1> DEFINE again == Pair(Member(n + 1, 1, 1), Member(n + 2, 2, 1))
<1> DEFINE both(i) == Pair(Member(i, i, 1), Member(n + i, i, 2))
<1>1. n \in Nat /\ DOMAIN found = 1 .. n /\ \A i \in 1 .. n : RefOK(doc, Reference(i))
  BY ReferencesAre
<1>2. \/ n # 0 /\ g = <<AsFound, Alone(1 .. n)>>
      \/ n # 0 /\ g = <<twice, Alone(1 .. (n + 1))>>
      \/ n >= 2 /\ g = <<AsFound, <<swapped>> \o Alone(3 .. n)>>
      \/ n >= 2 /\ g = <<twice, <<swapped, again>>>>
      \/ n >= 2 /\ g = <<twice, <<swapped>> \o Alone({n + 1})>>
      \/ \E i \in 1 .. n : g = <<twice, <<both(i)>>>>
  <2> DEFINE g1 == <<AsFound, Alone(1 .. n)>>
  <2> DEFINE g2 == <<twice, Alone(1 .. (n + 1))>>
  <2> DEFINE g3 == <<AsFound, <<swapped>> \o Alone(3 .. n)>>
  <2> DEFINE g4 == <<twice, <<swapped, again>>>>
  <2> DEFINE g5 == <<twice, <<swapped>> \o Alone({n + 1})>>
  <2> DEFINE g6(i) == <<twice, <<both(i)>>>>
  <2>1. InBoth \in SUBSET (1 .. n)
    BY <1>1 DEF InBoth
  <2>2. GroupLists = (IF n = 0 THEN {} ELSE {g1, g2}) \cup (IF n < 2 THEN {} ELSE {g3, g4, g5})
                       \cup {g6(i) : i \in InBoth}
    BY DEF GroupLists
  <2> HIDE DEF g1, g2, g3, g4, g5, g6, n
  <2>3. \/ n # 0 /\ (g = g1 \/ g = g2)
        \/ ~ (n < 2) /\ (g = g3 \/ g = g4 \/ g = g5)
        \/ \E i \in 1 .. n : g = g6(i)
    BY <2>1, <2>2
  <2>4. n < 2 \/ n >= 2
    BY <1>1
  <2> QED
    BY <2>3, <2>4 DEF g1, g2, g3, g4, g5, g6
<1>3. RefList(doc, AsFound, n)
  <2>1. AsFound = [i \in 1 .. n |-> Reference(i)]
    BY <1>1 DEF AsFound
  <2> QED
    BY <1>1, <2>1 DEF RefList
<1>4. RefList(doc, twice, n + n)
  BY <1>1, <1>3, TwiceIs
<1>5. \A p, i, k : Member(p, i, k).position = p
  BY DEF Member
<1>6. ASSUME NEW k \in Nat, NEW S \in SUBSET (1 .. k), k # 0 PROVE \E m \in Nat : AskedList(Alone(S), m, k)
  <2>1. 1 \in 1 .. k
    BY <1>6
  <2>2. AskedOK([kind |-> "standalone", position |-> 1], k)
    BY <2>1 DEF AskedOK
  <2> QED
    BY <2>2, AskedIs
<1>7. n >= 2 => AskedOK(swapped, n) /\ AskedOK(swapped, n + n) /\ AskedOK(again, n + n)
  <2> SUFFICES ASSUME n >= 2
               PROVE  AskedOK(swapped, n) /\ AskedOK(swapped, n + n) /\ AskedOK(again, n + n)
    OBVIOUS
  <2>1. 1 \in 1 .. n /\ 2 \in 1 .. n /\ 1 \in 1 .. (n + n) /\ 2 \in 1 .. (n + n)
        /\ n + 1 \in 1 .. (n + n) /\ n + 2 \in 1 .. (n + n) /\ n + n \in Nat
    BY <1>1
  <2> QED
    BY <1>1, <1>5, <2>1, PairIs
<1>8. \A i \in 1 .. n : AskedOK(both(i), n + n)
  <2> SUFFICES ASSUME NEW i \in 1 .. n PROVE AskedOK(both(i), n + n)
    OBVIOUS
  <2>1. i \in 1 .. (n + n) /\ n + i \in 1 .. (n + n) /\ n + n \in Nat
    BY <1>1
  <2> QED
    BY <1>5, <2>1, PairIs
<1>9. ASSUME NEW k \in Nat, NEW x, AskedOK(x, k) PROVE AskedList(<<x>>, 1, k)
  BY <1>9 DEF AskedList
<1>10. ASSUME NEW k \in Nat, NEW x, AskedOK(x, k), NEW y, AskedOK(y, k)
       PROVE  AskedList(<<x, y>>, 2, k)
  <2>1. \A i \in 1 .. 2 : i = 1 \/ i = 2
    OBVIOUS
  <2> QED
    BY <1>10, <2>1 DEF AskedList
<1> HIDE DEF n, twice, swapped, again, both
<1> DEFINE nn == n + n
<1>11. nn \in Nat
  BY <1>1
<1>12. CASE n # 0 /\ g = <<AsFound, Alone(1 .. n)>>
  <2>1. \E m \in Nat : AskedList(Alone(1 .. n), m, n)
    BY <1>1, <1>6, <1>12
  <2> QED
    BY <1>1, <1>3, <1>12, <2>1
<1>13. CASE n # 0 /\ g = <<twice, Alone(1 .. (n + 1))>>
  <2>1. 1 .. (n + 1) \in SUBSET (1 .. nn) /\ nn # 0
    BY <1>1, <1>13
  <2> DEFINE S == 1 .. (n + 1)
  <2> HIDE DEF S
  <2>2. S \in SUBSET (1 .. nn)
    BY <2>1 DEF S
  <2>3. \E m \in Nat : AskedList(Alone(S), m, nn)
    BY <1>6, <1>11, <2>1, <2>2
  <2> QED
    BY <1>4, <1>11, <1>13, <2>3 DEF S
<1>14. CASE n >= 2 /\ g = <<AsFound, <<swapped>> \o Alone(3 .. n)>>
  <2> DEFINE S == 3 .. n
  <2>1. S \in SUBSET (1 .. n)
    BY <1>1
  <2> HIDE DEF S
  <2>2. \E m \in Nat : AskedList(<<swapped>> \o Alone(S), m, n)
    BY <1>1, <1>7, <1>14, <2>1, AskedIs
  <2> QED
    BY <1>1, <1>3, <1>14, <2>2 DEF S
<1>15. CASE n >= 2 /\ g = <<twice, <<swapped, again>>>>
  <2>1. AskedList(<<swapped, again>>, 2, nn)
    BY <1>7, <1>10, <1>11, <1>15
  <2> QED
    BY <1>4, <1>11, <1>15, <2>1
<1>16. CASE n >= 2 /\ g = <<twice, <<swapped>> \o Alone({n + 1})>>
  <2> DEFINE S == {n + 1}
  <2>1. S \in SUBSET (1 .. nn)
    BY <1>1, <1>16
  <2> HIDE DEF S
  <2>2. AskedOK(swapped, nn)
    BY <1>7, <1>16
  <2> HIDE DEF nn
  <2>3. \E m \in Nat : AskedList(<<swapped>> \o Alone(S), m, nn)
    BY <1>11, <2>1, <2>2, AskedIs
  <2> QED
    BY <1>4, <1>11, <1>16, <2>3 DEF S, nn
<1>17. CASE \E i \in 1 .. n : g = <<twice, <<both(i)>>>>
  <2>1. PICK i \in 1 .. n : g = <<twice, <<both(i)>>>>
    BY <1>17
  <2>2. AskedList(<<both(i)>>, 1, nn)
    BY <1>8, <1>9, <1>11
  <2> QED
    BY <1>4, <1>11, <2>1, <2>2
<1> QED
  BY <1>2, <1>12, <1>13, <1>14, <1>15, <1>16, <1>17

(* What RequestEvidence sends is a well-formed request. *)
LEMMA RequestIs ==
    ASSUME RetrievalInv, RequestEvidence
    PROVE  RequestOK(doc, request')
<1>1. stage = "request"
  BY DEF RequestEvidence
<1>2. PICK budget \in Budgets, generation \in Generations,
           ask \in ({"bundle"} \X CandidateLists \X {<<>>})
                     \cup {<<"groups", g[1], g[2]>> : g \in GroupLists} :
        request' = [kind |-> ask[1], generation |-> generation, index |-> request.index,
                    mode |-> mode, candidates |-> ask[2], units |-> ask[3], budget |-> budget]
  BY DEF RequestEvidence
<1>3. budget \in [entries : Nat, bytes : Nat]
  BY PipelineAssumption
<1>4. /\ request'.kind = ask[1] /\ request'.candidates = ask[2] /\ request'.units = ask[3]
      /\ request'.budget = budget
  BY <1>2
<1>5. CASE ask \in {"bundle"} \X CandidateLists \X {<<>>}
  <2>1. ask[1] = "bundle" /\ ask[2] \in CandidateLists
    BY <1>5
  <2>2. \E n \in Nat : RefList(doc, ask[2], n)
    BY <1>1, <2>1, CandidateListsAre
  <2>3. "bundle" # "groups"
    OBVIOUS
  <2> QED
    BY <1>3, <1>4, <2>1, <2>2, <2>3 DEF RequestOK
<1>6. CASE ask \in {<<"groups", g[1], g[2]>> : g \in GroupLists}
  <2>1. PICK g \in GroupLists : ask = <<"groups", g[1], g[2]>>
    BY <1>6
  <2>2. ask[1] = "groups" /\ ask[2] = g[1] /\ ask[3] = g[2]
    BY <2>1
  <2>3. \E n \in Nat : RefList(doc, g[1], n) /\ \E m \in Nat : AskedList(g[2], m, n)
    BY <1>1, GroupListsAre
  <2> QED
    BY <1>3, <1>4, <2>2, <2>3 DEF RequestOK
<1> QED
  BY <1>2, <1>5, <1>6

-----------------------------------------------------------------------------
(* Resolution.                                                             *)

(* What the resolver makes of ranges of the chunks of a generation.        *)
Resolved(d, g) ==
  {EvidenceRange(d, c, x, p) : c \in {g} \X (1 .. Len(d.chunks)), x \in Ranges, p \in Seq(Nat)}

(* A request that is resolved is of the current generations, and each of   *)
(* its candidates is what the paper says.                                  *)
ResolvedOK(st, d, r, n) ==
  /\ r.generation = st.active
  /\ r.mode # "lexical" => IndexCurrent(st, r.index)
  /\ \A i \in 1 .. n : /\ r.candidates[i].chunk[1] = st.active
                       /\ CandidateError(d, r.candidates[i]) = "none"

(* A request without resolution error has valid references of the current generation. *)
LEMMA ResolvedIs ==
    ASSUME NEW st, NEW d, NEW r, NEW n \in Nat, DOMAIN r.candidates = 1 .. n,
           ResolutionError(st, d, r) = "none"
    PROVE  ResolvedOK(st, d, r, n)
<1> DEFINE refs == r.candidates
<1> DEFINE wrong == {i \in DOMAIN refs : CandidateError(d, refs[i]) # "none"}
<1>1. ResolutionError(st, d, r) =
        IF r.generation # st.active THEN "GENERATION_NOT_CURRENT"
        ELSE IF r.mode # "lexical" /\ ~IndexCurrent(st, r.index) THEN "VECTOR_NOT_CURRENT"
        ELSE IF \E i \in DOMAIN refs : refs[i].chunk[1] # r.generation THEN "SOURCE_SCOPE_MISMATCH"
        ELSE IF wrong # {} THEN CandidateError(d, refs[Min(wrong)])
        ELSE "none"
  BY DEF ResolutionError
<1>2. wrong # {} => Min(wrong) \in wrong
  <2> SUFFICES ASSUME wrong # {} PROVE Min(wrong) \in wrong
    OBVIOUS
  <2>1. wrong \in SUBSET (1 .. n)
    OBVIOUS
  <2> HIDE DEF wrong
  <2> QED
    BY <2>1, MaxMinIn, 1 \in Int, n \in Int
<1>3. \A i \in wrong : CandidateError(d, refs[i]) # "none"
  OBVIOUS
<1>4. wrong = {} => \A i \in 1 .. n : CandidateError(d, refs[i]) = "none"
  OBVIOUS
<1> HIDE DEF wrong
<1>5. /\ r.generation = st.active /\ (r.mode # "lexical" => IndexCurrent(st, r.index))
      /\ \A i \in DOMAIN refs : refs[i].chunk[1] = r.generation
      /\ wrong = {}
  BY <1>1, <1>2, <1>3
<1> QED
  BY <1>4, <1>5 DEF ResolvedOK

(* What the resolver makes of one candidate.                               *)
GroupOK(group, d, g) ==
  /\ group.ranges \in Seq(Resolved(d, g)) /\ Len(group.ranges) \in {0, 1, 2}
  /\ group.context = <<>> \/ group.context \in Ranges

(* A resolved range carries the text of the paper there. *)
LEMMA RangeIs ==
    ASSUME NEW d, NEW g, NEW chunk \in {g} \X (1 .. Len(d.chunks)), NEW x \in Ranges,
           NEW p \in Seq(Nat)
    PROVE  EvidenceRange(d, chunk, x, p) \in Resolved(d, g)
BY DEF Resolved

(* A valid reference resolves to the ranges it asserts. *)
LEMMA GroupIs ==
    ASSUME NEW d, DocOK(d), NEW ref, RefOK(d, ref), NEW g, ref.chunk[1] = g,
           CandidateError(d, ref) = "none", NEW position
    PROVE  GroupOK(ResolveGroup(d, ref, position), d, g)
<1> DEFINE whole == ChunkRange(d, ref.chunk[2])
<1> DEFINE lexical == IF ref.lexical = <<>> THEN <<>>
                      ELSE <<EvidenceRange(d, ref.chunk, ref.lexical, <<0>>)>>
<1> DEFINE semantic == IF ref.semantic = <<>> THEN <<>>
                       ELSE <<EvidenceRange(d, ref.chunk, ref.semantic, <<ref.span>>)>>
<1> DEFINE context == IF ref.lexical = <<>> /\ ref.semantic # whole THEN whole ELSE <<>>
<1> DEFINE R == Resolved(d, g)
<1>1. ResolveGroup(d, ref, position) =
        [position |-> position, reference |-> ref, ranges |-> lexical \o semantic, context |-> context]
  BY DEF ResolveGroup
<1>2. ref.chunk \in {g} \X (1 .. Len(d.chunks)) /\ ref.chunk[2] \in 1 .. Len(d.chunks)
  <2>1. ref.chunk \in Nat \X (1 .. Len(d.chunks))
    BY DEF RefOK
  <2> QED
    BY <2>1
<1>3. whole \in Ranges
  BY <1>2, RangesOfDoc
<1>4. ref.lexical # <<>> => ref.lexical = whole
  BY DEF CandidateError
<1>5. ref.semantic # <<>> => ref.semantic = SpanRange(d, ref.span) /\ ref.span \in 1 .. Len(d.spans)
  BY DEF CandidateError, RefOK
<1>6. ref.semantic # <<>> => ref.semantic \in Ranges /\ ref.span \in Nat
  <2>1. Len(d.spans) \in Nat
    BY DocTypes
  <2> QED
    BY <1>5, <2>1, RangesOfDoc
<1> HIDE DEF whole
<1>7. ref.lexical # <<>> => EvidenceRange(d, ref.chunk, ref.lexical, <<0>>) \in R
  <2>1. <<0>> \in Seq(Nat)
    OBVIOUS
  <2> QED
    BY <1>2, <1>3, <1>4, <2>1, RangeIs
<1>8. ref.semantic # <<>> => EvidenceRange(d, ref.chunk, ref.semantic, <<ref.span>>) \in R
  <2>1. ref.semantic # <<>> => <<ref.span>> \in Seq(Nat)
    BY <1>6
  <2> QED
    BY <1>2, <1>6, <2>1, RangeIs
<1> DEFINE e == EvidenceRange(d, ref.chunk, ref.lexical, <<0>>)
<1> DEFINE f == EvidenceRange(d, ref.chunk, ref.semantic, <<ref.span>>)
<1> HIDE DEF R, e, f
<1>9. lexical \in Seq(R) /\ semantic \in Seq(R) /\ Len(lexical) \in {0, 1} /\ Len(semantic) \in {0, 1}
  BY <1>7, <1>8 DEF e, f
<1> HIDE DEF lexical, semantic
<1>10. lexical \o semantic \in Seq(R) /\ Len(lexical \o semantic) = Len(lexical) + Len(semantic)
  BY <1>9
<1>11. Len(lexical \o semantic) \in {0, 1, 2}
  <2> DEFINE a == Len(lexical)
  <2> DEFINE b == Len(semantic)
  <2>1. a \in {0, 1} /\ b \in {0, 1} /\ Len(lexical \o semantic) = a + b
    BY <1>9, <1>10
  <2> HIDE DEF a, b
  <2> QED
    BY <2>1
<1>12. context = <<>> \/ context \in Ranges
  BY <1>3
<1> HIDE DEF context
<1> QED
  BY <1>1, <1>10, <1>11, <1>12 DEF GroupOK, R

(* Coalescing two ranges of a group leaves resolved ranges. *)
LEMMA CoalescedIs ==
    ASSUME NEW d, NEW g, NEW s \in Seq(Resolved(d, g))
    PROVE  Coalesced(s) \in Seq(Resolved(d, g))
<1> DEFINE R == Resolved(d, g)
<1> DEFINE one == [s[1] EXCEPT !.provenance = s[1].provenance \o s[2].provenance]
<1>1. Coalesced(s) = IF Len(s) = 2 /\ s[1].range = s[2].range THEN <<one>> ELSE s
  BY DEF Coalesced
<1>2. ASSUME Len(s) = 2 PROVE one \in R
  <2>0. s \in Seq(R)
    OBVIOUS
  <2> HIDE DEF R, one
  <2>9. \A i \in 1 .. Len(s) : s[i] \in R
    BY <2>0
  <2>8. s[1] \in R /\ s[2] \in R
    <3>1. 1 \in 1 .. Len(s) /\ 2 \in 1 .. Len(s)
      BY <1>2
    <3> QED
      BY <2>9, <3>1
  <2> USE DEF one
  <2>1. s[1] \in Resolved(d, g) /\ s[2] \in Resolved(d, g)
    BY <2>8 DEF R
  <2>2. PICK c \in {g} \X (1 .. Len(d.chunks)), x \in Ranges, p \in Seq(Nat) :
          s[1] = EvidenceRange(d, c, x, p)
    BY <2>1 DEF Resolved
  <2>3. PICK c2 \in {g} \X (1 .. Len(d.chunks)), x2 \in Ranges, p2 \in Seq(Nat) :
          s[2] = EvidenceRange(d, c2, x2, p2)
    BY <2>1 DEF Resolved
  <2>4. s[1].provenance = p /\ s[2].provenance = p2
    BY <2>2, <2>3 DEF EvidenceRange
  <2> DEFINE q == p \o p2
  <2>5. q \in Seq(Nat)
    OBVIOUS
  <2> HIDE DEF q
  <2>6. one = EvidenceRange(d, c, x, q)
    <3> DEFINE t == TextIn(d, c, x)
    <3> HIDE DEF t
    <3>1. s[1] = [chunk |-> c, range |-> x, text |-> t, provenance |-> p]
      BY <2>2 DEF EvidenceRange, t
    <3>2. one = [s[1] EXCEPT !.provenance = q]
      BY <2>4 DEF q
    <3> HIDE DEF one
    <3>3. one = [chunk |-> c, range |-> x, text |-> t, provenance |-> q]
      BY <3>1, <3>2
    <3> QED
      BY <3>3 DEF EvidenceRange, t
  <2> HIDE DEF one
  <2>7. EvidenceRange(d, c, x, q) \in Resolved(d, g)
    BY <2>5, RangeIs
  <2> QED
    BY <2>6, <2>7 DEF R
<1> HIDE DEF one, R
<1>3. Len(s) = 2 => <<one>> \in Seq(R)
  BY <1>2
<1> QED
  BY <1>1, <1>3 DEF R

-----------------------------------------------------------------------------
(* A bundle.                                                               *)

(* The unit of a candidate, and the units of candidates.                   *)
Added(d, ref, duplicate) ==
  LET group == ResolveGroup(d, ref, 1)
      ranges == Coalesced(group.ranges)
  IN [duplicate |-> duplicate, id |-> ref, ranges |-> ranges,
      contexts |-> StandaloneContext(group, ranges)]
AddedUnits(d, I) == {Added(d, ref, duplicate) : ref \in I, duplicate \in BOOLEAN}

(* The references of the units of a bundle.                                *)
UnitsOf(p) == {p.dispositions[i].unit : i \in 1 .. Len(p.dispositions)}

ValidRef(d, g, ref) == RefOK(d, ref) /\ ref.chunk[1] = g /\ CandidateError(d, ref) = "none"

(* The contexts of a standalone unit are ranges of the page. *)
LEMMA ContextOK ==
    ASSUME NEW d, NEW g, NEW group, GroupOK(group, d, g), NEW s \in Seq(Resolved(d, g))
    PROVE  StandaloneContext(group, s) \in Seq([range : Ranges, of : SUBSET Nat])
<1>1. DOMAIN s \in SUBSET Nat
  OBVIOUS
<1>2. CASE group.context = <<>>
  BY <1>2 DEF StandaloneContext
<1>3. CASE group.context # <<>>
  <2>1. group.context \in Ranges
    BY <1>3 DEF GroupOK
  <2> DEFINE x == [range |-> group.context, of |-> DOMAIN s]
  <2> DEFINE T == [range : Ranges, of : SUBSET Nat]
  <2>2. x \in T
    BY <1>1, <2>1
  <2>3. StandaloneContext(group, s) = <<x>>
    BY <1>3 DEF StandaloneContext
  <2> HIDE DEF x, T
  <2>4. <<x>> \in Seq(T)
    BY <2>2
  <2> QED
    BY <2>3, <2>4 DEF T
<1> QED
  BY <1>2, <1>3

(* Resolved ranges have text, range, chunk and provenance of a reference. *)
LEMMA ResolvedRanges ==
    ASSUME NEW d, NEW g
    PROVE  RangesOK(Resolved(d, g))
BY DEF RangesOK, Resolved, EvidenceRange

(* The units of resolved candidates are well-formed units to pack. *)
LEMMA AddedIs ==
    ASSUME NEW d, DocOK(d), NEW g, NEW I, \A ref \in I : ValidRef(d, g, ref)
    PROVE  UnitsOK(AddedUnits(d, I), Resolved(d, g), I)
<1> SUFFICES ASSUME NEW ref \in I, NEW duplicate \in BOOLEAN
             PROVE  UnitOK(Added(d, ref, duplicate), Resolved(d, g), I)
  BY DEF UnitsOK, AddedUnits
<1> DEFINE group == ResolveGroup(d, ref, 1)
<1> DEFINE ranges == Coalesced(group.ranges)
<1> DEFINE contexts == StandaloneContext(group, ranges)
<1> DEFINE u == Added(d, ref, duplicate)
<1>1. ValidRef(d, g, ref)
  OBVIOUS
<1>2. GroupOK(group, d, g)
  BY <1>1, GroupIs DEF ValidRef
<1>3. group.ranges \in Seq(Resolved(d, g))
  BY <1>2 DEF GroupOK
<1>7. u = [duplicate |-> duplicate, id |-> ref, ranges |-> ranges, contexts |-> contexts]
  BY DEF Added
<1> HIDE DEF group, u
<1>4. ranges \in Seq(Resolved(d, g))
  BY <1>3, CoalescedIs
<1> HIDE DEF ranges
<1>5. contexts \in Seq([range : Ranges, of : SUBSET Nat])
  BY <1>2, <1>4, ContextOK
<1> HIDE DEF contexts
<1>6. u.id = ref /\ u.duplicate = duplicate /\ u.ranges = ranges /\ u.contexts = contexts
  BY <1>7
<1>8. UnitOK(u, Resolved(d, g), I)
  BY <1>4, <1>5, <1>6 DEF UnitOK
<1> QED
  BY <1>8 DEF u

(* What a bundle is made of: a packing of the units of its candidates.     *)
Seals(b, kind, r, units, p, d) ==
  b = [error |-> "none", kind |-> kind, generation |-> r.generation, index |-> r.index,
       mode |-> r.mode, budget |-> r.budget, units |-> units,
       entries |-> p.entries, contexts |-> p.contexts,
       dispositions |-> p.dispositions, state |-> BundleState(p, d)]

BundleMade(b, p, st, d, r, n) ==
  /\ ResolvedOK(st, d, r, n)
  /\ Seals(b, "bundle", r, <<>>, p, d)
  /\ PackedOK(p, Resolved(d, st.active), UnitsOf(p), AddedUnits(d, UnitsOf(p)), r.budget)
  /\ Len(p.dispositions) = n
  /\ \A i \in 1 .. n : p.dispositions[i].unit = r.candidates[i]

(* A bundle built without error is the packing of its request's candidates. *)
LEMMA BuildBundleIs ==
    ASSUME NEW d, DocOK(d), NEW st, NEW r, NEW n \in Nat, RefList(d, r.candidates, n),
           r.budget \in [entries : Nat, bytes : Nat],
           NEW b, b = BuildBundle(st, d, r), b.error = "none"
    PROVE  \E p : BundleMade(b, p, st, d, r, n)
<1> DEFINE failure == ResolutionError(st, d, r)
<1> DEFINE groups == ResolvedGroups(d, r)
<1> DEFINE wrong == NormalizationError(groups)
<1> DEFINE unit(i) == LET ranges == Coalesced(groups[i].ranges)
                      IN [id |-> groups[i].reference, duplicate |-> IsDuplicate(groups, i),
                          ranges |-> ranges, contexts |-> StandaloneContext(groups[i], ranges)]
<1> DEFINE units == [i \in DOMAIN groups |-> unit(i)]
<1> DEFINE p == PackUnits(units, r.budget)
<1> DEFINE I == {r.candidates[i] : i \in 1 .. n}
<1> DEFINE g == st.active
<1>1. b = IF failure # "none" THEN Failed(failure)
          ELSE IF wrong # "none" THEN Failed(wrong)
          ELSE Sealed("bundle", r, <<>>, p, d)
  BY DEF BuildBundle
<1>2. DOMAIN r.candidates = 1 .. n /\ \A i \in 1 .. n : RefOK(d, r.candidates[i])
  BY DEF RefList
<1>3. groups = [i \in 1 .. n |-> ResolveGroup(d, r.candidates[i], i)]
  BY <1>2 DEF ResolvedGroups
<1> HIDE DEF failure, wrong, groups
<1>4. failure = "none" /\ wrong = "none"
  <2> DEFINE s == Sealed("bundle", r, <<>>, p, d)
  <2> HIDE DEF s, p
  <2>1. \A c : Failed(c).error = c
    BY DEF Failed
  <2> QED
    BY <1>1, <2>1
<1>5. b = Sealed("bundle", r, <<>>, p, d)
  BY <1>1, <1>4
<1>6. ResolvedOK(st, d, r, n)
  BY <1>2, <1>4, ResolvedIs DEF failure
<1>7. \A ref \in I : ValidRef(d, g, ref)
  BY <1>2, <1>6 DEF ResolvedOK, ValidRef
<1>8. UnitsOK(AddedUnits(d, I), Resolved(d, g), I)
  <2> HIDE DEF I, g
  <2> QED
    BY <1>7, AddedIs
<1>9. ASSUME NEW i \in 1 .. n
      PROVE  unit(i) = Added(d, r.candidates[i], IsDuplicate(groups, i)) /\ unit(i).id = r.candidates[i]
  <2> DEFINE ref == r.candidates[i]
  <2>1. groups[i] = ResolveGroup(d, ref, i)
    BY <1>3
  <2>2. /\ ResolveGroup(d, ref, i).ranges = ResolveGroup(d, ref, 1).ranges
        /\ ResolveGroup(d, ref, i).context = ResolveGroup(d, ref, 1).context
        /\ ResolveGroup(d, ref, i).reference = ref
    BY DEF ResolveGroup
  <2>3. \A s : StandaloneContext(groups[i], s) = StandaloneContext(ResolveGroup(d, ref, 1), s)
    BY <2>1, <2>2 DEF StandaloneContext
  <2>4. groups[i].ranges = ResolveGroup(d, ref, 1).ranges /\ groups[i].reference = ref
    BY <2>1, <2>2
  <2> HIDE DEF ref
  <2> QED
    BY <2>3, <2>4 DEF Added, ref
<1>10. \A i \in 1 .. n : IsDuplicate(groups, i) \in BOOLEAN
  BY DEF IsDuplicate
<1>11. ASSUME NEW i \in 1 .. n PROVE unit(i) \in AddedUnits(d, I)
  <2> DEFINE ref == r.candidates[i]
  <2> DEFINE dup == IsDuplicate(groups, i)
  <2>1. ref \in I
    OBVIOUS
  <2>2. dup \in BOOLEAN
    BY <1>10
  <2>3. unit(i) = Added(d, ref, dup)
    BY <1>9
  <2> HIDE DEF ref, dup, I, unit
  <2>4. Added(d, ref, dup) \in {Added(d, x, y) : x \in I, y \in BOOLEAN}
    BY <2>1, <2>2
  <2> QED
    BY <2>3, <2>4 DEF AddedUnits
<1>12. DOMAIN groups = 1 .. n
  BY <1>3
<1>13. IsList(units, n, AddedUnits(d, I)) /\ \A i \in 1 .. n : units[i].id = r.candidates[i]
  <2> HIDE DEF unit, I
  <2>1. units = [i \in 1 .. n |-> unit(i)]
    BY <1>12
  <2> HIDE DEF units
  <2>2. units \in [1 .. n -> AddedUnits(d, I)]
    BY <1>11, <2>1
  <2>3. \A i \in 1 .. n : units[i].id = r.candidates[i]
    BY <1>9, <2>1
  <2> QED
    BY <2>2, <2>3 DEF IsList
<1> HIDE DEF units, unit
<1> DEFINE U == AddedUnits(d, I)
<1> DEFINE R == Resolved(d, g)
<1> DEFINE B == r.budget
<1>14. RangesOK(R)
  BY ResolvedRanges
<1>15. UnitsOK(U, R, I) /\ IsList(units, n, U) /\ B \in [entries : Nat, bytes : Nat]
  BY <1>8, <1>13
<1>16. p = PackUnits(units, B)
  OBVIOUS
<1> HIDE DEF U, R, I, B, p
<1>17. PackedOK(p, R, I, U, B) /\ Disposed(p, n, units)
  BY <1>14, <1>15, <1>16, PackUnitsIs
<1>18. Len(p.dispositions) = n /\ \A i \in 1 .. n : p.dispositions[i].unit = r.candidates[i]
  BY <1>13, <1>17 DEF Disposed, DisposedAt
<1>19. UnitsOf(p) = I
  BY <1>18 DEF UnitsOf, I
<1>20. PackedOK(p, Resolved(d, st.active), UnitsOf(p), AddedUnits(d, UnitsOf(p)), r.budget)
  BY <1>17, <1>19 DEF U, R, B, g
<1>21. Seals(b, "bundle", r, <<>>, p, d)
  BY <1>5 DEF Sealed, Seals
<1> QED
  BY <1>6, <1>18, <1>20, <1>21 DEF BundleMade

(***************************************************************************)
(* Groups.                                                                 *)
(***************************************************************************)

(* A resolved range of a candidate, and the units made of one candidate or *)
(* of two ranges.                                                          *)
RangeOfRef(d, g, x) ==
  \E ref : /\ ValidRef(d, g, ref)
           /\ \E i \in DOMAIN ResolveGroup(d, ref, 1).ranges : x = ResolveGroup(d, ref, 1).ranges[i]

SingleUnit(d, g, u) == \E ref : ValidRef(d, g, ref) /\ u.ranges = ResolveGroup(d, ref, 1).ranges

IsPair(d, g, u, x, y) ==
  /\ RangeOfRef(d, g, x) /\ RangeOfRef(d, g, y)
  /\ u.ranges = <<x, y>> /\ u.id = <<Child(x), Child(y)>>
  /\ CanonicalPair(d, Child(x), Child(y)) = <<Child(x), Child(y)>>
PairUnit(d, g, u) == \E x, y : IsPair(d, g, u, x, y)

LogicalOK(d, g, asked, u) ==
  \/ asked.kind = "standalone" /\ SingleUnit(d, g, u)
  \/ asked.kind = "group" /\ PairUnit(d, g, u)

(* The groups the resolver made of the candidates of a request.            *)
GroupsOf(groups, d, g, refs, n) ==
  \A i \in 1 .. n : ValidRef(d, g, refs[i]) /\ groups[i] = ResolveGroup(d, refs[i], i)

(* Every reference of a resolved request is valid and resolves. *)
LEMMA GroupsAre ==
    ASSUME NEW d, DocOK(d), NEW g, NEW refs, NEW n, NEW groups, GroupsOf(groups, d, g, refs, n),
           NEW i \in 1 .. n
    PROVE  /\ ValidRef(d, g, refs[i]) /\ GroupOK(groups[i], d, g)
           /\ groups[i].ranges = ResolveGroup(d, refs[i], 1).ranges /\ groups[i].reference = refs[i]
<1> DEFINE ref == refs[i]
<1>1. ValidRef(d, g, ref) /\ groups[i] = ResolveGroup(d, ref, i)
  BY DEF GroupsOf
<1>2. RefOK(d, ref) /\ ref.chunk[1] = g /\ CandidateError(d, ref) = "none"
  BY <1>1 DEF ValidRef
<1> HIDE DEF ref
<1>3. GroupOK(ResolveGroup(d, ref, i), d, g)
  BY <1>2, GroupIs
<1>4. /\ ResolveGroup(d, ref, i).ranges = ResolveGroup(d, ref, 1).ranges
      /\ ResolveGroup(d, ref, i).reference = ref
  BY DEF ResolveGroup
<1> QED
  BY <1>1, <1>3, <1>4 DEF ref

(* Pairs in their order.                                                   *)
ChildOK(d, c) ==
  /\ c = [chunk |-> c.chunk, range |-> c.range]
  /\ c.chunk \in Nat \X (1 .. Len(d.chunks)) /\ c.range \in Nat \X Nat

(* A pair after a sequence.                                                *)
IsPairOf(t, a, b, T) == t \in Seq(T) /\ Len(t) = 2 /\ t[1] = a /\ t[2] = b

(* A pair is a sequence of two. *)
LEMMA PairIsSeq ==
    ASSUME NEW T, NEW a \in T, NEW b \in T
    PROVE  IsPairOf(<<a, b>>, a, b, T)
<1> DEFINE t == <<a, b>>
<1>1. t \in Seq(T) /\ Len(t) = 2 /\ t[1] = a /\ t[2] = b
  OBVIOUS
<1> HIDE DEF t
<1>2. IsPairOf(t, a, b, T)
  BY <1>1 DEF IsPairOf
<1> QED
  BY <1>2 DEF t

LongerBy(u, s, a, b, T) ==
  /\ u \in Seq(T) /\ Len(u) = Len(s) + 2
  /\ \A i \in 1 .. Len(s) : u[i] = s[i]
  /\ u[Len(s) + 1] = a /\ u[Len(s) + 2] = b

(* Appending a pair adds its two elements at the end. *)
LEMMA JoinPair ==
    ASSUME NEW T, NEW s, s \in Seq(T), NEW a, NEW b, NEW t, IsPairOf(t, a, b, T)
    PROVE  LongerBy(s \o t, s, a, b, T)
<1>1. t \in Seq(T) /\ Len(t) = 2 /\ t[1] = a /\ t[2] = b
  BY DEF IsPairOf
<1>2. /\ s \o t \in Seq(T) /\ Len(s \o t) = Len(s) + Len(t)
      /\ \A i \in 1 .. Len(s) : (s \o t)[i] = s[i]
      /\ \A i \in 1 .. Len(t) : (s \o t)[Len(s) + i] = t[i]
  <2>1. s \in Seq(T) /\ t \in Seq(T)
    BY <1>1
  <2> QED
    BY <2>1
<1>3. 1 \in 1 .. Len(t) /\ 2 \in 1 .. Len(t)
  BY <1>1
<1> QED
  BY <1>1, <1>2, <1>3 DEF LongerBy

KeyOf(d, c) == <<PageOf(d, c.chunk)>> \o c.range \o c.chunk

(* The sort key of a child is a tuple of integers. *)
LEMMA ChildKey ==
    ASSUME NEW d, DocOK(d), NEW c, ChildOK(d, c)
    PROVE  /\ KeyOf(d, c) \in Tuples(5)
           /\ KeyOf(d, c)[2] = c.range[1] /\ KeyOf(d, c)[3] = c.range[2]
           /\ KeyOf(d, c)[4] = c.chunk[1] /\ KeyOf(d, c)[5] = c.chunk[2]
<1> DEFINE p == PageOf(d, c.chunk)
<1> DEFINE r == c.range
<1> DEFINE k == c.chunk
<1>1. r \in Nat \X Nat /\ k \in Nat \X (1 .. Len(d.chunks))
  BY DEF ChildOK
<1>2. p \in Int /\ k[2] \in Int
  <2>1. Len(d.chunks) \in Nat /\ Len(d.pages) \in Nat
    BY DocTypes
  <2>2. k[2] \in 1 .. Len(d.chunks)
    BY <1>1
  <2>3. d.chunks[k[2]].page \in 1 .. Len(d.pages)
    BY <2>2, DocParts DEF ChunkOK
  <2> QED
    BY <2>1, <2>2, <2>3 DEF PageOf
<1>3. KeyOf(d, c) = <<p>> \o r \o k
  BY DEF KeyOf
<1> HIDE DEF p, r, k
<1> DEFINE a == r[1]
<1> DEFINE b == r[2]
<1> DEFINE e == k[1]
<1> DEFINE f == k[2]
<1> DEFINE o == <<p>>
<1> DEFINE Z == Int
<1>4. a \in Z /\ b \in Z /\ e \in Z /\ f \in Z /\ r = <<a, b>> /\ k = <<e, f>>
  BY <1>1, <1>2
<1> DEFINE s == o \o r
<1> DEFINE t == s \o k
<1>8. o \in Seq(Z) /\ Len(o) = 1
  BY <1>2
<1> HIDE DEF a, b, e, f, o, Z
<1>13. IsPairOf(r, a, b, Z) /\ IsPairOf(k, e, f, Z)
  BY <1>4, PairIsSeq
<1>9. LongerBy(o \o r, o, a, b, Z)
  BY <1>8, <1>13, JoinPair
<1>5. s \in Seq(Z) /\ Len(s) = 3 /\ s[2] = a /\ s[3] = b
  BY <1>8, <1>9 DEF LongerBy
<1> HIDE DEF s
<1>10. LongerBy(s \o k, s, e, f, Z)
  BY <1>5, <1>13, JoinPair
<1>11. 2 \in 1 .. Len(s) /\ 3 \in 1 .. Len(s)
  BY <1>5
<1>6. t \in Seq(Z) /\ Len(t) = 5 /\ t[2] = a /\ t[3] = b /\ t[4] = e /\ t[5] = f
  BY <1>5, <1>10, <1>11 DEF LongerBy
<1>12. KeyOf(d, c) = t
  BY <1>3 DEF s, o
<1> HIDE DEF t
<1>7. t \in Tuples(5)
  <2>1. \A T : \A x \in Seq(T) : x \in [1 .. Len(x) -> T]
    OBVIOUS
  <2>2. t \in [1 .. 5 -> Z]
    BY <1>6, <2>1
  <2> QED
    BY <2>2 DEF Tuples, Z
<1> QED
  BY <1>6, <1>7, <1>12 DEF a, b, e, f, r, k

(* A canonical pair is the pair or the pair swapped. *)
LEMMA PairIsCanonical ==
    ASSUME NEW d, DocOK(d), NEW a, ChildOK(d, a), NEW b, ChildOK(d, b),
           NEW x, NEW y, CanonicalPair(d, a, b) = <<x, y>>
    PROVE  /\ (x = a /\ y = b) \/ (x = b /\ y = a)
           /\ CanonicalPair(d, x, y) = <<x, y>>
<1> DEFINE key(c) == KeyOf(d, c)
<1>1. \A u, v : CanonicalPair(d, u, v) = IF Before(key(u), key(v)) THEN <<u, v>> ELSE <<v, u>>
  BY DEF CanonicalPair, KeyOf
<1>2. key(a) \in Tuples(5) /\ key(b) \in Tuples(5)
  BY ChildKey
<1>3. ASSUME key(a) = key(b) PROVE a = b
  <2>1. /\ key(a)[2] = a.range[1] /\ key(a)[3] = a.range[2]
        /\ key(a)[4] = a.chunk[1] /\ key(a)[5] = a.chunk[2]
    BY ChildKey
  <2>2. /\ key(b)[2] = b.range[1] /\ key(b)[3] = b.range[2]
        /\ key(b)[4] = b.chunk[1] /\ key(b)[5] = b.chunk[2]
    BY ChildKey
  <2> HIDE DEF key
  <2>3. a.range[1] = b.range[1] /\ a.range[2] = b.range[2] /\ a.chunk[1] = b.chunk[1] /\ a.chunk[2] = b.chunk[2]
    BY <1>3, <2>1, <2>2
  <2>4. a.range = b.range /\ a.chunk = b.chunk
    BY <2>3 DEF ChildOK
  <2> QED
    BY <2>4 DEF ChildOK
<1> HIDE DEF key
<1>4. CASE Before(key(a), key(b))
  <2>1. x = a /\ y = b
    BY <1>1, <1>4
  <2> QED
    BY <1>1, <1>4, <2>1
<1>5. CASE ~ Before(key(a), key(b))
  <2>1. x = b /\ y = a
    BY <1>1, <1>5
  <2>2. Before(key(b), key(a)) \/ key(a) = key(b)
    BY <1>2, <1>5, BeforeTotal, 5 \in Nat
  <2> QED
    BY <1>1, <1>3, <2>1, <2>2
<1> QED
  BY <1>4, <1>5

(* The ranges of a resolved candidate.                                     *)
LEMMA ChildrenAre ==
    ASSUME NEW d, DocOK(d), NEW g \in Nat, NEW x \in Resolved(d, g)
    PROVE  ChildOK(d, Child(x))
<1>1. PICK c \in {g} \X (1 .. Len(d.chunks)), w \in Ranges, p \in Seq(Nat) :
        x = EvidenceRange(d, c, w, p)
  BY DEF Resolved
<1>2. x.chunk = c /\ x.range = w
  BY <1>1 DEF EvidenceRange
<1>3. c \in Nat \X (1 .. Len(d.chunks)) /\ w \in Nat \X Nat
  BY DEF Ranges
<1>4. Child(x) = [chunk |-> c, range |-> w]
  BY <1>2 DEF Child
<1> QED
  BY <1>3, <1>4 DEF ChildOK

(* A member of a group is one range of the candidate at its position.      *)
IsRangeOf(x, group) == \E i \in DOMAIN group.ranges : x = group.ranges[i]

Chosen(group, child) == group.ranges[CHOOSE i \in DOMAIN group.ranges : Child(group.ranges[i]) = child]

(* A member of a group is one of the ranges of its position. *)
LEMMA MemberIs ==
    ASSUME NEW groups, NEW member, MatchesOnce(groups, member)
    PROVE  LET group == groups[member.position]
           IN IsRangeOf(Chosen(group, member.child), group) /\ Child(Chosen(group, member.child)) = member.child
<1> DEFINE group == groups[member.position]
<1> DEFINE D == {i \in DOMAIN group.ranges : Child(group.ranges[i]) = member.child}
<1>1. Cardinality(D) = 1
  BY DEF MatchesOnce
<1>2. D # {}
  <2> HIDE DEF D
  <2> QED
    BY <1>1, FS_EmptySet
<1>3. \E i \in DOMAIN group.ranges : Child(group.ranges[i]) = member.child
  BY <1>2
<1> DEFINE k == CHOOSE i \in DOMAIN group.ranges : Child(group.ranges[i]) = member.child
<1>4. k \in DOMAIN group.ranges /\ Child(group.ranges[k]) = member.child
  BY <1>3
<1> QED
  BY <1>4 DEF IsRangeOf, Chosen

(* A range of a resolved group is a range of its reference. *)
LEMMA RangesOfRef ==
    ASSUME NEW d, DocOK(d), NEW g, NEW refs, NEW n, NEW groups, GroupsOf(groups, d, g, refs, n),
           NEW i \in 1 .. n, NEW x, IsRangeOf(x, groups[i])
    PROVE  RangeOfRef(d, g, x) /\ x \in Resolved(d, g)
<1> DEFINE ref == refs[i]
<1>1. /\ ValidRef(d, g, ref) /\ GroupOK(groups[i], d, g)
      /\ groups[i].ranges = ResolveGroup(d, ref, 1).ranges
  BY GroupsAre
<1> HIDE DEF ref
<1>2. PICK k \in DOMAIN groups[i].ranges : x = groups[i].ranges[k]
  BY DEF IsRangeOf
<1>3. RangeOfRef(d, g, x)
  BY <1>1, <1>2 DEF RangeOfRef
<1>4. groups[i].ranges \in Seq(Resolved(d, g))
  BY <1>1 DEF GroupOK
<1> DEFINE s == groups[i].ranges
<1> DEFINE R == Resolved(d, g)
<1>5. s \in Seq(R) /\ k \in DOMAIN s /\ x = s[k]
  BY <1>2, <1>4
<1> HIDE DEF s, R
<1>6. x \in R
  BY <1>5
<1> QED
  BY <1>3, <1>6 DEF R

(* What the group service makes of one unit it is asked for.               *)
MembersOnce(groups, asked) ==
  asked.kind = "group" => MatchesOnce(groups, asked.members[1]) /\ MatchesOnce(groups, asked.members[2])

(* A standalone logical unit has the coalesced ranges of its position. *)
LEMMA SingleIs ==
    ASSUME NEW d, DocOK(d), NEW g, NEW refs, NEW n, NEW groups, GroupsOf(groups, d, g, refs, n),
           NEW asked, AskedOK(asked, n), asked.kind = "standalone"
    PROVE  LET u == LogicalUnit(d, groups, asked)
           IN UnitOK(u, Resolved(d, g), {u.id}) /\ LogicalOK(d, g, asked, u)
<1> DEFINE i == asked.position
<1> DEFINE group == groups[i]
<1> DEFINE u == LogicalUnit(d, groups, asked)
<1> DEFINE contexts == StandaloneContext(group, group.ranges)
<1>1. i \in 1 .. n
  BY DEF AskedOK
<1>2. /\ ValidRef(d, g, refs[i]) /\ GroupOK(group, d, g)
      /\ group.ranges = ResolveGroup(d, refs[i], 1).ranges
  BY <1>1, GroupsAre
<1>3. u = [id |-> group.reference, duplicate |-> FALSE, ranges |-> group.ranges, contexts |-> contexts]
  BY DEF LogicalUnit
<1>4. group.ranges \in Seq(Resolved(d, g))
  BY <1>2 DEF GroupOK
<1> HIDE DEF group, u
<1>5. contexts \in Seq([range : Ranges, of : SUBSET Nat])
  BY <1>2, <1>4, ContextOK
<1> HIDE DEF contexts
<1>6. u.duplicate = FALSE /\ u.ranges = group.ranges /\ u.contexts = contexts
  BY <1>3
<1>7. UnitOK(u, Resolved(d, g), {u.id})
  BY <1>4, <1>5, <1>6 DEF UnitOK
<1>8. SingleUnit(d, g, u)
  BY <1>2, <1>6 DEF SingleUnit
<1> QED
  BY <1>7, <1>8 DEF LogicalOK, u

(* The contexts of two groups make the contexts of one unit. *)
LEMMA TwoContexts ==
    ASSUME NEW d, NEW g, NEW a, GroupOK(a, d, g), NEW b, GroupOK(b, d, g)
    PROVE  (IF a.context = <<>> THEN <<>> ELSE <<[range |-> a.context, of |-> {1}]>>)
             \o (IF b.context = <<>> THEN <<>> ELSE <<[range |-> b.context, of |-> {2}]>>)
             \in Seq([range : Ranges, of : SUBSET Nat])
<1> DEFINE T == [range : Ranges, of : SUBSET Nat]
<1> DEFINE x == [range |-> a.context, of |-> {1}]
<1> DEFINE y == [range |-> b.context, of |-> {2}]
<1>1. (a.context # <<>> => x \in T) /\ (b.context # <<>> => y \in T)
  BY DEF GroupOK
<1> DEFINE s == IF a.context = <<>> THEN <<>> ELSE <<x>>
<1> DEFINE t == IF b.context = <<>> THEN <<>> ELSE <<y>>
<1> HIDE DEF T, x, y
<1>2. s \in Seq(T) /\ t \in Seq(T)
  BY <1>1
<1>3. s \o t \in Seq(T)
  <2> HIDE DEF s, t
  <2> QED
    BY <1>2
<1> QED
  BY <1>3 DEF T, x, y

(* A group unit has the ranges of its two members. *)
LEMMA TogetherIs ==
    ASSUME NEW d, DocOK(d), NEW g \in Nat, NEW refs, NEW n, NEW groups, GroupsOf(groups, d, g, refs, n),
           NEW asked, AskedOK(asked, n), asked.kind = "group", MembersOnce(groups, asked)
    PROVE  LET u == LogicalUnit(d, groups, asked)
           IN UnitOK(u, Resolved(d, g), {u.id}) /\ LogicalOK(d, g, asked, u)
<1> DEFINE a == asked.members[1]
<1> DEFINE b == asked.members[2]
<1> DEFINE pair == CanonicalPair(d, a.child, b.child)
<1> DEFINE member(c) == IF a.child = c THEN a ELSE b
<1> DEFINE x == pair[1]
<1> DEFINE y == pair[2]
<1> DEFINE G == groups[member(x).position]
<1> DEFINE H == groups[member(y).position]
<1> DEFINE u == LogicalUnit(d, groups, asked)
<1> DEFINE contexts == (IF G.context = <<>> THEN <<>> ELSE <<[range |-> G.context, of |-> {1}]>>)
                         \o (IF H.context = <<>> THEN <<>> ELSE <<[range |-> H.context, of |-> {2}]>>)
<1> DEFINE v == Chosen(G, x)
<1> DEFINE w == Chosen(H, y)
<1>1. a.position \in 1 .. n /\ b.position \in 1 .. n
  BY DEF AskedOK
<1>2. MatchesOnce(groups, a) /\ MatchesOnce(groups, b)
  BY DEF MembersOnce
<1>3. ASSUME NEW m, m = a \/ m = b
      PROVE  /\ MatchesOnce(groups, m) /\ m.position \in 1 .. n
             /\ IsRangeOf(Chosen(groups[m.position], m.child), groups[m.position])
             /\ Child(Chosen(groups[m.position], m.child)) = m.child
             /\ GroupOK(groups[m.position], d, g)
             /\ RangeOfRef(d, g, Chosen(groups[m.position], m.child))
             /\ Chosen(groups[m.position], m.child) \in Resolved(d, g)
  <2> DEFINE i == m.position
  <2> DEFINE z == Chosen(groups[i], m.child)
  <2>1. MatchesOnce(groups, m) /\ i \in 1 .. n
    BY <1>1, <1>2, <1>3
  <2>2. IsRangeOf(z, groups[i]) /\ Child(z) = m.child
    BY <2>1, MemberIs
  <2>3. GroupOK(groups[i], d, g)
    BY <2>1, GroupsAre
  <2> HIDE DEF z
  <2>4. RangeOfRef(d, g, z) /\ z \in Resolved(d, g)
    BY <2>1, <2>2, RangesOfRef
  <2> QED
    BY <2>1, <2>2, <2>3, <2>4 DEF z
<1>4. ASSUME NEW m, m = a \/ m = b PROVE ChildOK(d, m.child)
  <2> DEFINE z == Chosen(groups[m.position], m.child)
  <2>1. z \in Resolved(d, g) /\ Child(z) = m.child
    BY <1>3, <1>4
  <2> HIDE DEF z
  <2>2. ChildOK(d, Child(z))
    BY <2>1, ChildrenAre
  <2> QED
    BY <2>1, <2>2
<1>5. pair = <<a.child, b.child>> \/ pair = <<b.child, a.child>>
  BY DEF CanonicalPair
<1>6. pair = <<x, y>> /\ ((x = a.child /\ y = b.child) \/ (x = b.child /\ y = a.child))
  BY <1>5
<1>7. CanonicalPair(d, x, y) = <<x, y>>
  <2> DEFINE p == a.child
  <2> DEFINE q == b.child
  <2>1. ChildOK(d, p) /\ ChildOK(d, q)
    BY <1>4
  <2>2. CanonicalPair(d, p, q) = <<x, y>>
    BY <1>6
  <2> HIDE DEF p, q, x, y
  <2>3. CanonicalPair(d, x, y) = <<x, y>>
    BY <2>1, <2>2, PairIsCanonical
  <2> QED
    BY <2>3
<1>8. /\ member(x).child = x /\ (member(x) = a \/ member(x) = b)
      /\ member(y).child = y /\ (member(y) = a \/ member(y) = b)
  BY <1>6
<1>9. /\ GroupOK(G, d, g) /\ RangeOfRef(d, g, v) /\ v \in Resolved(d, g) /\ Child(v) = x
      /\ GroupOK(H, d, g) /\ RangeOfRef(d, g, w) /\ w \in Resolved(d, g) /\ Child(w) = y
  <2> DEFINE m == member(x)
  <2> DEFINE o == member(y)
  <2>1. m.child = x /\ (m = a \/ m = b) /\ o.child = y /\ (o = a \/ o = b)
    BY <1>8
  <2> HIDE DEF m, o
  <2>2. /\ GroupOK(groups[m.position], d, g) /\ RangeOfRef(d, g, Chosen(groups[m.position], m.child))
        /\ Chosen(groups[m.position], m.child) \in Resolved(d, g)
        /\ Child(Chosen(groups[m.position], m.child)) = m.child
    BY <1>3, <2>1
  <2>3. /\ GroupOK(groups[o.position], d, g) /\ RangeOfRef(d, g, Chosen(groups[o.position], o.child))
        /\ Chosen(groups[o.position], o.child) \in Resolved(d, g)
        /\ Child(Chosen(groups[o.position], o.child)) = o.child
    BY <1>3, <2>1
  <2> QED
    BY <2>1, <2>2, <2>3 DEF m, o
<1>10. u = [id |-> pair, duplicate |-> FALSE, ranges |-> <<v, w>>, contexts |-> contexts]
  <2>1. \A c : asked.members[IF asked.members[1].child = c THEN 1 ELSE 2] = member(c)
    OBVIOUS
  <2> HIDE DEF member
  <2> QED
    BY <2>1 DEF LogicalUnit, Chosen
<1> HIDE DEF pair, x, y, G, H, u, v, w, member
<1>11. contexts \in Seq([range : Ranges, of : SUBSET Nat])
  BY <1>9, TwoContexts
<1>12. <<v, w>> \in Seq(Resolved(d, g))
  <2> DEFINE R == Resolved(d, g)
  <2>1. v \in R /\ w \in R
    BY <1>9
  <2> HIDE DEF R
  <2>2. <<v, w>> \in Seq(R)
    BY <2>1
  <2> QED
    BY <2>2 DEF R
<1> HIDE DEF contexts
<1>13. u.id = pair /\ u.duplicate = FALSE /\ u.ranges = <<v, w>> /\ u.contexts = contexts
  BY <1>10
<1>14. UnitOK(u, Resolved(d, g), {u.id})
  BY <1>11, <1>12, <1>13 DEF UnitOK
<1>15. IsPair(d, g, u, v, w)
  BY <1>6, <1>7, <1>9, <1>13 DEF IsPair
<1> QED
  BY <1>14, <1>15 DEF LogicalOK, PairUnit, u

(* A unit without error matches each of its members once. *)
LEMMA UnitErrorIs ==
    ASSUME NEW d, NEW groups, NEW units, NEW i, UnitError(d, groups, units, i) = "none"
    PROVE  MembersOnce(groups, units[i])
<1> SUFFICES ASSUME units[i].kind = "group", NEW k \in 1 .. 2, ~ MatchesOnce(groups, units[i].members[k])
             PROVE  FALSE
  BY DEF MembersOnce
<1>1. \E j \in 1 .. 2 : ~ MatchesOnce(groups, units[i].members[j])
  OBVIOUS
<1>2. UnitError(d, groups, units, i) = "INVALID_GROUP_IDENTITY"
  BY <1>1 DEF UnitError
<1> QED
  BY <1>2

(* What a bundle of groups is made of.                                     *)
Packable(p, m) == {i \in 1 .. m : p.dispositions[i].omission = "none"}
Record(p, asked, i) ==
  [kind |-> asked[i].kind, labels |-> p.dispositions[i].labels,
   group |-> IF asked[i].kind = "group" THEN p.dispositions[i].unit ELSE <<>>]
Records(p, asked, m) == {Record(p, asked, i) : i \in Packable(p, m)}

UnitAt(p, d, g, asked, i, u) == DisposedAt(p, i, u) /\ LogicalOK(d, g, asked[i], u)

GroupsMade(b, p, st, d, r, n, m) ==
  /\ ResolvedOK(st, d, r, n)
  /\ Seals(b, "groups", r, Records(p, r.units, m), p, d)
  /\ \E I, U : PackedOK(p, Resolved(d, st.active), I, U, r.budget)
  /\ Len(p.dispositions) = m
  /\ \A i \in 1 .. m : \E u : UnitAt(p, d, st.active, r.units, i, u)

(* A bundle of groups built without error is the packing of its units. *)
LEMMA BuildGroupsIs ==
    ASSUME NEW d, DocOK(d), NEW st, st.active \in Nat, NEW r, NEW n \in Nat, RefList(d, r.candidates, n),
           NEW m \in Nat, AskedList(r.units, m, n), r.budget \in [entries : Nat, bytes : Nat],
           NEW b, b = BuildGroups(st, d, r, r.units), b.error = "none"
    PROVE  \E p : GroupsMade(b, p, st, d, r, n, m)
<1> DEFINE failure == ResolutionError(st, d, r)
<1> DEFINE groups == ResolvedGroups(d, r)
<1> DEFINE asked == r.units
<1> DEFINE error(i) == UnitError(d, groups, asked, i)
<1> DEFINE wrong == {i \in DOMAIN asked : error(i) # "none"}
<1> DEFINE units == [i \in DOMAIN asked |-> LogicalUnit(d, groups, asked[i])]
<1> DEFINE p == PackUnits(units, r.budget)
<1> DEFINE g == st.active
<1> DEFINE records == {[kind |-> asked[i].kind, labels |-> p.dispositions[i].labels,
                        group |-> IF asked[i].kind = "group" THEN p.dispositions[i].unit ELSE <<>>]
                        : i \in {i \in DOMAIN asked : p.dispositions[i].omission = "none"}}
<1>1. b = IF failure # "none" THEN Failed("GROUP_MEMBER_RESOLUTION_FAILED")
          ELSE IF wrong # {} THEN Failed(error(Min(wrong)))
          ELSE Sealed("groups", r, records, p, d)
  BY DEF BuildGroups
<1>2. DOMAIN r.candidates = 1 .. n /\ \A i \in 1 .. n : RefOK(d, r.candidates[i])
  BY DEF RefList
<1>3. groups = [i \in 1 .. n |-> ResolveGroup(d, r.candidates[i], i)]
  BY <1>2 DEF ResolvedGroups
<1>4. DOMAIN asked = 1 .. m /\ \A i \in 1 .. m : AskedOK(asked[i], n)
  BY DEF AskedList
<1> HIDE DEF failure, groups, asked, p
<1>5. wrong # {} => error(Min(wrong)) # "none"
  <2> SUFFICES ASSUME wrong # {} PROVE error(Min(wrong)) # "none"
    OBVIOUS
  <2>1. wrong \in SUBSET (1 .. m)
    BY <1>4
  <2>2. \A i \in wrong : error(i) # "none"
    OBVIOUS
  <2> HIDE DEF wrong, error
  <2>3. Min(wrong) \in wrong
    BY <2>1, MaxMinIn, 1 \in Int, m \in Int
  <2> QED
    BY <2>2, <2>3
<1>6. wrong = {} => \A i \in 1 .. m : error(i) = "none"
  BY <1>4
<1> HIDE DEF wrong, error, records
<1>7. failure = "none" /\ wrong = {}
  <2> DEFINE s == Sealed("groups", r, records, p, d)
  <2> HIDE DEF s
  <2>1. \A c : Failed(c).error = c
    BY DEF Failed
  <2> QED
    BY <1>1, <1>5, <2>1
<1>8. b = Sealed("groups", r, records, p, d)
  BY <1>1, <1>7
<1>9. ResolvedOK(st, d, r, n)
  BY <1>2, <1>7, ResolvedIs DEF failure
<1>10. GroupsOf(groups, d, g, r.candidates, n)
  BY <1>2, <1>3, <1>9 DEF ResolvedOK, ValidRef, GroupsOf
<1> DEFINE unit(i) == LogicalUnit(d, groups, asked[i])
<1>11. ASSUME NEW i \in 1 .. m
       PROVE  UnitOK(unit(i), Resolved(d, g), {unit(i).id}) /\ LogicalOK(d, g, asked[i], unit(i))
  <2> DEFINE a == asked[i]
  <2>1. AskedOK(a, n)
    BY <1>4
  <2>2. MembersOnce(groups, a)
    <3>1. UnitError(d, groups, asked, i) = "none"
      BY <1>6, <1>7 DEF error
    <3> QED
      BY <3>1, UnitErrorIs
  <2>3. a.kind = "standalone" \/ a.kind = "group"
    BY <2>1 DEF AskedOK
  <2>4. g \in Nat
    OBVIOUS
  <2> HIDE DEF a, g
  <2>5. CASE a.kind = "standalone"
    <3> DEFINE refs == r.candidates
    <3>1. GroupsOf(groups, d, g, refs, n)
      BY <1>10
    <3> HIDE DEF refs
    <3>2. LET u == LogicalUnit(d, groups, a)
          IN UnitOK(u, Resolved(d, g), {u.id}) /\ LogicalOK(d, g, a, u)
      BY <2>1, <2>5, <3>1, SingleIs
    <3> QED
      BY <3>2 DEF a
  <2>6. CASE a.kind = "group"
    <3> DEFINE refs == r.candidates
    <3>1. GroupsOf(groups, d, g, refs, n)
      BY <1>10
    <3> HIDE DEF refs
    <3>2. LET u == LogicalUnit(d, groups, a)
          IN UnitOK(u, Resolved(d, g), {u.id}) /\ LogicalOK(d, g, a, u)
      BY <2>1, <2>2, <2>4, <2>6, <3>1, TogetherIs
    <3> QED
      BY <3>2 DEF a
  <2> QED
    BY <2>3, <2>5, <2>6
<1> DEFINE U == {unit(i) : i \in 1 .. m}
<1> DEFINE I == {unit(i).id : i \in 1 .. m}
<1> DEFINE R == Resolved(d, g)
<1> DEFINE B == r.budget
<1>12. units = [i \in 1 .. m |-> unit(i)]
  BY <1>4
<1> HIDE DEF units, unit
<1>13. IsList(units, m, U)
  BY <1>12 DEF IsList
<1>14. UnitsOK(U, R, I)
  <2> SUFFICES ASSUME NEW i \in 1 .. m PROVE UnitOK(unit(i), R, I)
    BY DEF UnitsOK
  <2>1. UnitOK(unit(i), R, {unit(i).id})
    BY <1>11
  <2>2. unit(i).id \in I
    OBVIOUS
  <2> HIDE DEF I, R
  <2> QED
    BY <2>1, <2>2 DEF UnitOK
<1>15. RangesOK(R)
  BY ResolvedRanges
<1>16. B \in [entries : Nat, bytes : Nat] /\ p = PackUnits(units, B)
  BY DEF p, units
<1> HIDE DEF U, R, I, B
<1>17. PackedOK(p, R, I, U, B) /\ Disposed(p, m, units)
  BY <1>13, <1>14, <1>15, <1>16, PackUnitsIs
<1>18. Len(p.dispositions) = m /\ \A i \in 1 .. m : DisposedAt(p, i, units[i])
  BY <1>17 DEF Disposed
<1>19. \A i \in 1 .. m : \E u : UnitAt(p, d, st.active, r.units, i, u)
  <2> SUFFICES ASSUME NEW i \in 1 .. m PROVE \E u : UnitAt(p, d, st.active, r.units, i, u)
    OBVIOUS
  <2>1. DisposedAt(p, i, unit(i)) /\ LogicalOK(d, g, asked[i], unit(i))
    BY <1>11, <1>12, <1>18
  <2>2. UnitAt(p, d, st.active, r.units, i, unit(i))
    BY <2>1 DEF UnitAt, asked
  <2> QED
    BY <2>2
<1>20. records = Records(p, r.units, m)
  BY <1>4 DEF records, Records, Record, Packable, asked
<1>21. Seals(b, "groups", r, Records(p, r.units, m), p, d)
  BY <1>8, <1>20 DEF Sealed, Seals
<1>22. \E J, V : PackedOK(p, Resolved(d, st.active), J, V, r.budget)
  BY <1>17 DEF R, B
<1> QED
  BY <1>9, <1>18, <1>19, <1>21, <1>22 DEF GroupsMade

-----------------------------------------------------------------------------
(* The evidence a caller holds.                                            *)

MadeBundle(b, st, d, r, n) ==
  /\ n \in Nat /\ RefList(d, r.candidates, n) /\ r.budget \in [entries : Nat, bytes : Nat]
  /\ b = BuildBundle(st, d, r) /\ b.error = "none"
MadeGroups(b, st, d, r, n, m) ==
  /\ n \in Nat /\ RefList(d, r.candidates, n) /\ r.budget \in [entries : Nat, bytes : Nat]
  /\ m \in Nat /\ AskedList(r.units, m, n)
  /\ b = BuildGroups(st, d, r, r.units) /\ b.error = "none"

(* It was built for some request from the project as it was then.          *)
Held(b, st, d) ==
  (\E r, n : MadeBundle(b, st, d, r, n)) \/ (\E r, n, m : MadeGroups(b, st, d, r, n, m))

(* What both kinds of bundles have.                                        *)
PackedIn(b, p, st, d, I, U) ==
  /\ PackedOK(p, Resolved(d, st.active), I, U, b.budget)
  /\ b = [error |-> "none", kind |-> b.kind, generation |-> b.generation, index |-> b.index,
          mode |-> b.mode, budget |-> b.budget, units |-> b.units,
          entries |-> p.entries, contexts |-> p.contexts,
          dispositions |-> p.dispositions, state |-> BundleState(p, d)]
  /\ b.generation = st.active
  /\ b.mode # "lexical" => IndexCurrent(st, b.index)

(* A sealed packing of valid candidates is a bundle of the current generation. *)
LEMMA SealedIs ==
    ASSUME NEW b, NEW kind, NEW r, NEW units, NEW p, NEW d, Seals(b, kind, r, units, p, d),
           NEW st, NEW n, ResolvedOK(st, d, r, n), NEW I, NEW U,
           PackedOK(p, Resolved(d, st.active), I, U, r.budget)
    PROVE  PackedIn(b, p, st, d, I, U)
<1> DEFINE state == BundleState(p, d)
<1> HIDE DEF state
<1>1. b = [error |-> "none", kind |-> kind, generation |-> r.generation, index |-> r.index,
           mode |-> r.mode, budget |-> r.budget, units |-> units,
           entries |-> p.entries, contexts |-> p.contexts,
           dispositions |-> p.dispositions, state |-> state]
  BY DEF Seals, state
<1>2. /\ b.kind = kind /\ b.generation = r.generation /\ b.index = r.index
      /\ b.mode = r.mode /\ b.budget = r.budget /\ b.units = units
  BY <1>1
<1>3. b = [error |-> "none", kind |-> b.kind, generation |-> b.generation, index |-> b.index,
           mode |-> b.mode, budget |-> b.budget, units |-> b.units,
           entries |-> p.entries, contexts |-> p.contexts,
           dispositions |-> p.dispositions, state |-> state]
  BY <1>1, <1>2
<1>4. b.generation = st.active /\ (b.mode # "lexical" => IndexCurrent(st, b.index))
  BY <1>2 DEF ResolvedOK
<1> QED
  BY <1>2, <1>3, <1>4 DEF PackedIn, state

(* The bundle the caller holds is a sealed, well-formed packing. *)
LEMMA HeldIs ==
    ASSUME NEW d, DocOK(d), NEW st, st.active \in Nat, NEW b, Held(b, st, d)
    PROVE  \E p, I, U : PackedIn(b, p, st, d, I, U)
<1>1. CASE \E r, n : MadeBundle(b, st, d, r, n)
  <2>1. PICK r, n : MadeBundle(b, st, d, r, n)
    BY <1>1
  <2>2. /\ n \in Nat /\ RefList(d, r.candidates, n) /\ r.budget \in [entries : Nat, bytes : Nat]
        /\ b = BuildBundle(st, d, r) /\ b.error = "none"
    BY <2>1 DEF MadeBundle
  <2>3. \E p : BundleMade(b, p, st, d, r, n)
    BY <2>2, BuildBundleIs
  <2>4. PICK p : BundleMade(b, p, st, d, r, n)
    BY <2>3
  <2> DEFINE I == UnitsOf(p)
  <2> DEFINE U == AddedUnits(d, I)
  <2>5. /\ ResolvedOK(st, d, r, n) /\ Seals(b, "bundle", r, <<>>, p, d)
        /\ PackedOK(p, Resolved(d, st.active), I, U, r.budget)
    BY <2>4 DEF BundleMade
  <2> HIDE DEF I, U
  <2>6. PackedIn(b, p, st, d, I, U)
    BY <2>5, SealedIs
  <2> QED
    BY <2>6
<1>2. CASE \E r, n, m : MadeGroups(b, st, d, r, n, m)
  <2>1. PICK r, n, m : MadeGroups(b, st, d, r, n, m)
    BY <1>2
  <2>2. /\ n \in Nat /\ RefList(d, r.candidates, n) /\ r.budget \in [entries : Nat, bytes : Nat]
        /\ m \in Nat /\ AskedList(r.units, m, n)
        /\ b = BuildGroups(st, d, r, r.units) /\ b.error = "none"
    BY <2>1 DEF MadeGroups
  <2>3. \E p : GroupsMade(b, p, st, d, r, n, m)
    BY <2>2, BuildGroupsIs
  <2>4. PICK p : GroupsMade(b, p, st, d, r, n, m)
    BY <2>3
  <2>5. PICK I, U : PackedOK(p, Resolved(d, st.active), I, U, r.budget)
    BY <2>4 DEF GroupsMade
  <2> DEFINE units == Records(p, r.units, m)
  <2>6. ResolvedOK(st, d, r, n) /\ Seals(b, "groups", r, units, p, d)
    BY <2>4 DEF GroupsMade
  <2> HIDE DEF units
  <2>7. PackedIn(b, p, st, d, I, U)
    BY <2>5, <2>6, SealedIs
  <2> QED
    BY <2>7
<1> QED
  BY <1>1, <1>2 DEF Held

(* A bundle that is not of groups is a packing of its candidates' units.   *)
LEMMA HeldBundle ==
    ASSUME NEW d, DocOK(d), NEW st, st.active \in Nat, NEW b, Held(b, st, d), b.kind = "bundle"
    PROVE  \E r, n, p : MadeBundle(b, st, d, r, n) /\ BundleMade(b, p, st, d, r, n)
<1>1. ASSUME NEW r, NEW n, NEW m, MadeGroups(b, st, d, r, n, m) PROVE FALSE
  <2>2. /\ n \in Nat /\ RefList(d, r.candidates, n) /\ r.budget \in [entries : Nat, bytes : Nat]
        /\ m \in Nat /\ AskedList(r.units, m, n)
        /\ b = BuildGroups(st, d, r, r.units) /\ b.error = "none"
    BY <1>1 DEF MadeGroups
  <2>3. \E p : GroupsMade(b, p, st, d, r, n, m)
    BY <2>2, BuildGroupsIs
  <2>4. PICK p : GroupsMade(b, p, st, d, r, n, m)
    BY <2>3
  <2>5. b.kind = "groups"
    BY <2>4 DEF GroupsMade, Seals
  <2> QED
    BY <2>5
<1>2. PICK r, n : MadeBundle(b, st, d, r, n)
  BY <1>1 DEF Held
<1>3. /\ n \in Nat /\ RefList(d, r.candidates, n) /\ r.budget \in [entries : Nat, bytes : Nat]
      /\ b = BuildBundle(st, d, r) /\ b.error = "none"
  BY <1>2 DEF MadeBundle
<1>4. \E p : BundleMade(b, p, st, d, r, n)
  BY <1>3, BuildBundleIs
<1> QED
  BY <1>2, <1>4

-----------------------------------------------------------------------------
(* Verification.                                                           *)

EntryFacts(e, d, g) ==
  /\ e = [label |-> e.label, chunk |-> e.chunk, range |-> e.range, text |-> e.text,
          provenance |-> e.provenance]
  /\ e.chunk[1] = g /\ e.text = TextIn(d, e.chunk, e.range)

(* An entry of a packing carries the text of the paper at its range. *)
LEMMA EntryIs ==
    ASSUME NEW d, NEW g, NEW e \in Entries(Resolved(d, g))
    PROVE  EntryFacts(e, d, g)
<1>1. PICK l \in Nat, r \in Resolved(d, g) : e = EntryOf(l, r)
  BY DEF Entries
<1>2. PICK c \in {g} \X (1 .. Len(d.chunks)), x \in Ranges, p \in Seq(Nat) :
        r = EvidenceRange(d, c, x, p)
  BY DEF Resolved
<1> DEFINE t == TextIn(d, c, x)
<1>3. r.chunk = c /\ r.range = x /\ r.text = t /\ r.provenance = p
  BY <1>2 DEF EvidenceRange
<1> HIDE DEF t
<1>4. e = [label |-> l, chunk |-> c, range |-> x, text |-> t, provenance |-> p]
  BY <1>1, <1>3 DEF EntryOf
<1>5. e.label = l /\ e.chunk = c /\ e.range = x /\ e.text = t /\ e.provenance = p
  BY <1>4
<1>6. c[1] = g
  OBVIOUS
<1> QED
  BY <1>4, <1>5, <1>6 DEF EntryFacts, t

(* What the caller hands in: the bundle, or one with another text.         *)
SameEntry(e, f) == e.label = f.label /\ e.chunk = f.chunk /\ e.range = f.range /\ e.provenance = f.provenance

CopyOf(c, b) ==
  /\ c.kind = b.kind /\ c.generation = b.generation /\ c.index = b.index /\ c.mode = b.mode
  /\ c.budget = b.budget /\ c.units = b.units /\ c.contexts = b.contexts
  /\ c.dispositions = b.dispositions /\ c.state = b.state
  /\ DOMAIN c.entries = DOMAIN b.entries
  /\ \A i \in DOMAIN b.entries : SameEntry(c.entries[i], b.entries[i])

(* The caller's altered copy differs in the text of one entry only. *)
LEMMA CopyIsLike ==
    ASSUME NEW b, NEW p, NEW st, NEW d, NEW I, NEW U, PackedIn(b, p, st, d, I, U),
           b.entries # <<>>, NEW x
    PROVE  /\ CopyOf([b EXCEPT !.entries[1].text = x], b)
           /\ [b EXCEPT !.entries[1].text = x].entries[1].text = x
<1> DEFINE g == st.active
<1> DEFINE s == p.entries
<1> DEFINE c == [b EXCEPT !.entries[1].text = x]
<1> DEFINE y == [s[1] EXCEPT !.text = x]
<1> DEFINE t == [s EXCEPT ![1] = y]
<1> DEFINE state == BundleState(p, d)
<1> HIDE DEF state
<1>1. b = [error |-> "none", kind |-> b.kind, generation |-> b.generation, index |-> b.index,
           mode |-> b.mode, budget |-> b.budget, units |-> b.units,
           entries |-> s, contexts |-> p.contexts,
           dispositions |-> p.dispositions, state |-> state]
  BY DEF PackedIn, state
<1>2. s \in Seq(Entries(Resolved(d, g)))
  BY DEF PackedIn, PackedOK, Packings
<1>3. b.entries = s /\ b.contexts = p.contexts /\ b.dispositions = p.dispositions /\ b.state = state
  BY <1>1
<1>4. c = [b EXCEPT !.entries = t]
  BY <1>3
<1> DEFINE T == Entries(Resolved(d, g))
<1>5. DOMAIN s = 1 .. Len(s) /\ Len(s) \in Nat /\ (s # <<>> => 1 \in 1 .. Len(s))
      /\ \A i \in 1 .. Len(s) : s[i] \in T
  <2>1. s \in Seq(T)
    BY <1>2
  <2> HIDE DEF T, s
  <2> QED
    BY <2>1
<1>6. \A i \in 1 .. Len(s) : EntryFacts(s[i], d, g)
  BY <1>5, EntryIs
<1>7. 1 \in 1 .. Len(s)
  BY <1>3, <1>5
<1>8. s[1] = [label |-> s[1].label, chunk |-> s[1].chunk, range |-> s[1].range, text |-> s[1].text,
              provenance |-> s[1].provenance]
  BY <1>6, <1>7 DEF EntryFacts
<1>9. SameEntry(y, s[1]) /\ y.text = x
  <2> DEFINE f == s[1]
  <2>1. f = [label |-> f.label, chunk |-> f.chunk, range |-> f.range, text |-> f.text,
             provenance |-> f.provenance]
    BY <1>8
  <2> HIDE DEF f
  <2>2. [f EXCEPT !.text = x] = [label |-> f.label, chunk |-> f.chunk, range |-> f.range, text |-> x,
             provenance |-> f.provenance]
    BY <2>1
  <2>3. SameEntry([f EXCEPT !.text = x], f) /\ [f EXCEPT !.text = x].text = x
    BY <2>2 DEF SameEntry
  <2> QED
    BY <2>3 DEF f
<1> HIDE DEF y, s
<1>10. /\ DOMAIN t = 1 .. Len(s) /\ \A i \in 1 .. Len(s) : SameEntry(t[i], s[i])
       /\ t[1].text = x
  <2>1. \A i \in 1 .. Len(s) : t[i] = IF i = 1 THEN y ELSE s[i]
    BY <1>5
  <2> QED
    BY <1>5, <1>7, <1>9, <2>1 DEF SameEntry
<1> HIDE DEF t, c
<1>11. c = [error |-> "none", kind |-> b.kind, generation |-> b.generation, index |-> b.index,
           mode |-> b.mode, budget |-> b.budget, units |-> b.units,
           entries |-> t, contexts |-> p.contexts,
           dispositions |-> p.dispositions, state |-> state]
  <2> DEFINE k == b.kind
  <2> DEFINE l == b.generation
  <2> DEFINE m == b.index
  <2> DEFINE n == b.mode
  <2> DEFINE o == b.budget
  <2> DEFINE q == b.units
  <2> DEFINE v == p.contexts
  <2> DEFINE w == p.dispositions
  <2>1. b = [error |-> "none", kind |-> k, generation |-> l, index |-> m, mode |-> n, budget |-> o,
             units |-> q, entries |-> s, contexts |-> v, dispositions |-> w, state |-> state]
    BY <1>1
  <2> HIDE DEF k, l, m, n, o, q, v, w
  <2>2. c = [error |-> "none", kind |-> k, generation |-> l, index |-> m, mode |-> n, budget |-> o,
             units |-> q, entries |-> t, contexts |-> v, dispositions |-> w, state |-> state]
    BY <1>4, <2>1
  <2> QED
    BY <2>2 DEF k, l, m, n, o, q, v, w
<1>12. /\ c.kind = b.kind /\ c.generation = b.generation /\ c.index = b.index /\ c.mode = b.mode
       /\ c.budget = b.budget /\ c.units = b.units /\ c.contexts = p.contexts
       /\ c.dispositions = p.dispositions /\ c.state = state /\ c.entries = t
  BY <1>11
<1>13. CopyOf(c, b) /\ c.entries[1].text = x
  BY <1>3, <1>5, <1>10, <1>12 DEF CopyOf
<1> QED
  BY <1>13 DEF c

Current(c, st) ==
  /\ c.generation = st.active
  /\ \A i \in DOMAIN c.entries : c.entries[i].chunk[1] = st.active
  /\ c.mode # "lexical" => IndexCurrent(st, c.index)

Numbered(c, n) == DOMAIN c.entries = 1 .. n /\ \A i \in 1 .. n : c.entries[i].label = i

(* A bundle is a copy of itself. *)
LEMMA SelfCopy == ASSUME NEW b PROVE CopyOf(b, b)
BY DEF CopyOf, SameEntry

(* What a copy of a bundle keeps of it. *)
LEMMA CopyFacts ==
    ASSUME NEW b, NEW p, NEW st, NEW d, NEW I, NEW U, PackedIn(b, p, st, d, I, U),
           NEW c, CopyOf(c, b)
    PROVE  /\ Current(c, st)
           /\ Len(p.entries) \in Nat /\ Numbered(c, Len(p.entries)) /\ b.entries = p.entries
           /\ \A i \in 1 .. Len(p.entries) : EntryFacts(b.entries[i], d, st.active)
<1> DEFINE g == st.active
<1> DEFINE s == p.entries
<1> DEFINE T == Entries(Resolved(d, g))
<1>1. b.entries = s
  <2> DEFINE state == BundleState(p, d)
  <2> HIDE DEF state
  <2>1. b = [error |-> "none", kind |-> b.kind, generation |-> b.generation, index |-> b.index,
             mode |-> b.mode, budget |-> b.budget, units |-> b.units,
             entries |-> s, contexts |-> p.contexts,
             dispositions |-> p.dispositions, state |-> state]
    BY DEF PackedIn, state
  <2> QED
    BY <2>1
<1>2. s \in Seq(T) /\ Labelled(p)
  BY DEF PackedIn, PackedOK, Packings
<1>3. \A i \in 1 .. Len(s) : s[i].label = i
  BY <1>2 DEF Labelled
<1>4. DOMAIN s = 1 .. Len(s) /\ Len(s) \in Nat /\ \A i \in 1 .. Len(s) : s[i] \in T
  <2> HIDE DEF T, s
  <2> QED
    BY <1>2
<1>5. \A i \in 1 .. Len(s) : EntryFacts(s[i], d, g)
  BY <1>4, EntryIs
<1> HIDE DEF s
<1>6. DOMAIN c.entries = 1 .. Len(s) /\ \A i \in 1 .. Len(s) : SameEntry(c.entries[i], s[i])
  BY <1>1, <1>4 DEF CopyOf
<1>7. Numbered(c, Len(s))
  BY <1>3, <1>6 DEF Numbered, SameEntry
<1>8. \A i \in DOMAIN c.entries : c.entries[i].chunk[1] = g
  BY <1>5, <1>6 DEF SameEntry, EntryFacts
<1>9. Current(c, st)
  BY <1>8 DEF Current, CopyOf, PackedIn
<1> QED
  BY <1>1, <1>4, <1>5, <1>7, <1>9 DEF s

(* A label is that of one entry exactly when it is its number.             *)
EntryFor(c, label) == CHOOSE e \in ToSet(c.entries) : e.label = label

(* The labels of a copy number its entries. *)
LEMMA CitedIs ==
    ASSUME NEW c, NEW n \in Nat, Numbered(c, n), NEW label
    PROVE  /\ IsEntryLabel(c, label) <=> label \in 1 .. n
           /\ label \in 1 .. n => EntryFor(c, label) = c.entries[label]
<1> DEFINE D == {i \in DOMAIN c.entries : c.entries[i].label = label}
<1>1. DOMAIN c.entries = 1 .. n /\ \A i \in 1 .. n : c.entries[i].label = i
  BY DEF Numbered
<1>2. D = {i \in 1 .. n : i = label}
  BY <1>1
<1>3. IsEntryLabel(c, label) <=> Cardinality(D) = 1
  BY DEF IsEntryLabel
<1> HIDE DEF D
<1>4. CASE label \in 1 .. n
  <2>1. D = {label}
    BY <1>2, <1>4
  <2>2. Cardinality(D) = 1
    BY <2>1, FS_Singleton
  <2> DEFINE E == ToSet(c.entries)
  <2>3. E = {c.entries[i] : i \in 1 .. n}
    BY <1>1 DEF ToSet
  <2> HIDE DEF E
  <2>4. c.entries[label] \in E /\ c.entries[label].label = label
    BY <1>1, <1>4, <2>3
  <2>5. \A e \in E : e.label = label => e = c.entries[label]
    BY <1>1, <2>3
  <2>6. (CHOOSE e \in E : e.label = label) = c.entries[label]
    BY <2>4, <2>5
  <2> QED
    BY <1>3, <1>4, <2>2, <2>6 DEF EntryFor, E
<1>5. CASE label \notin 1 .. n
  <2>1. D = {}
    BY <1>2, <1>5
  <2> QED
    BY <1>3, <1>5, <2>1, FS_EmptySet
<1> QED
  BY <1>4, <1>5

(* What a verified answer says of binding, authority and support.          *)
LEMMA VerifyIs ==
    ASSUME NEW st, NEW d, NEW c, NEW asked, Verify(st, d, c, asked) = "verified"
    PROVE  /\ \A n \in DOMAIN asked.units : BindError(c, asked.units, n) = "none"
           /\ AuthorityError(st, d, c, asked.units) = "none"
           /\ DirectSupport(c, asked) = "verified"
<1> DEFINE unbound == {n \in DOMAIN asked.units : BindError(c, asked.units, n) # "none"}
<1> DEFINE authority == AuthorityError(st, d, c, asked.units)
<1>1. Verify(st, d, c, asked) =
        IF unbound # {} THEN BindError(c, asked.units, Min(unbound))
        ELSE IF authority # "none" THEN authority
        ELSE DirectSupport(c, asked)
  BY DEF Verify
<1>2. \A n : BindError(c, asked.units, n) # "verified"
  BY DEF BindError
<1>3. authority # "verified"
  <2>1. \A code : MapAuthorityError(code) # "verified"
    BY DEF MapAuthorityError
  <2>2. CitedEntriesError(st, d, c, asked.units) # "verified"
    BY <2>1 DEF CitedEntriesError
  <2> QED
    BY <2>1, <2>2 DEF AuthorityError
<1>4. unbound = {} => \A n \in DOMAIN asked.units : BindError(c, asked.units, n) = "none"
  OBVIOUS
<1> HIDE DEF unbound, authority
<1> QED
  BY <1>1, <1>2, <1>3, <1>4 DEF authority

(* A unit that binds cites labels of entries. *)
LEMMA BoundIs ==
    ASSUME NEW c, NEW units, NEW n, BindError(c, units, n) = "none"
    PROVE  /\ \A label \in ToSet(units[n].labels) : IsEntryLabel(c, label)
           /\ c.kind # "bundle" => units[n] \in c.units
<1> DEFINE known == \A label \in ToSet(units[n].labels) : IsEntryLabel(c, label)
<1> DEFINE grouped == \E u \in c.units : u = units[n]
<1>1. known /\ (c.kind # "bundle" => grouped)
  <2> HIDE DEF known, grouped
  <2> QED
    BY DEF BindError, known, grouped
<1> QED
  BY <1>1

(* What no resolution error means for the request. *)
LEMMA ResolutionIs ==
    ASSUME NEW st, NEW d, NEW r, ResolutionError(st, d, r) = "none"
    PROVE  /\ r.generation = st.active
           /\ r.mode # "lexical" => IndexCurrent(st, r.index)
           /\ \A i \in DOMAIN r.candidates : r.candidates[i].chunk[1] = st.active
<1> DEFINE refs == r.candidates
<1> DEFINE wrong == {i \in DOMAIN refs : CandidateError(d, refs[i]) # "none"}
<1>1. ResolutionError(st, d, r) =
        IF r.generation # st.active THEN "GENERATION_NOT_CURRENT"
        ELSE IF r.mode # "lexical" /\ ~IndexCurrent(st, r.index) THEN "VECTOR_NOT_CURRENT"
        ELSE IF \E i \in DOMAIN refs : refs[i].chunk[1] # r.generation THEN "SOURCE_SCOPE_MISMATCH"
        ELSE IF wrong # {} THEN CandidateError(d, refs[Min(wrong)])
        ELSE "none"
  BY DEF ResolutionError
<1> HIDE DEF wrong
<1> QED
  BY <1>1

(* The resolved ranges of a group carry the text of the paper. *)
LEMMA RangesText ==
    ASSUME NEW d, NEW ref, NEW i
    PROVE  \A k \in 1 .. Len(ResolveGroup(d, ref, i).ranges) :
             /\ ResolveGroup(d, ref, i).ranges[k].chunk = ref.chunk
             /\ ResolveGroup(d, ref, i).ranges[k].text
                  = TextIn(d, ref.chunk, ResolveGroup(d, ref, i).ranges[k].range)
<1> DEFINE e == EvidenceRange(d, ref.chunk, ref.lexical, <<0>>)
<1> DEFINE f == EvidenceRange(d, ref.chunk, ref.semantic, <<ref.span>>)
<1> DEFINE T == {x \in {e, f} : x.chunk = ref.chunk /\ x.text = TextIn(d, ref.chunk, x.range)}
<1> DEFINE s == IF ref.lexical = <<>> THEN <<>> ELSE <<e>>
<1> DEFINE t == IF ref.semantic = <<>> THEN <<>> ELSE <<f>>
<1>1. ResolveGroup(d, ref, i).ranges = s \o t
  BY DEF ResolveGroup
<1>2. e \in T /\ f \in T
  BY DEF EvidenceRange
<1>3. \A x \in T : x.chunk = ref.chunk /\ x.text = TextIn(d, ref.chunk, x.range)
  OBVIOUS
<1> HIDE DEF e, f, T
<1>4. s \in Seq(T) /\ t \in Seq(T)
  BY <1>2
<1> HIDE DEF s, t
<1>5. s \o t \in Seq(T)
  BY <1>4
<1> DEFINE u == s \o t
<1>6. u \in Seq(T) /\ ResolveGroup(d, ref, i).ranges = u
  BY <1>1, <1>5
<1> HIDE DEF u
<1>7. \A k \in 1 .. Len(u) : u[k] \in T
  BY <1>6
<1> QED
  BY <1>3, <1>6, <1>7

(* The text of the project now: what verification must ensure.             *)
Says(c, label, st, d, value) ==
  /\ c.entries[label].chunk[1] = st.active
  /\ c.mode # "lexical" => IndexCurrent(st, c.index)
  /\ c.entries[label].text = TextIn(d, c.entries[label].chunk, c.entries[label].range)
  /\ c.entries[label].text = value

CitedValues(c, units, value) ==
  \A n \in DOMAIN units : \A label \in ToSet(units[n].labels) : EntryFor(c, label).text = value

(* A verified proposal has no group and the text of every cited entry. *)
LEMMA SupportIs ==
    ASSUME NEW c, NEW asked, DirectSupport(c, asked) = "verified"
    PROVE  /\ \A n \in DOMAIN asked.units : asked.units[n].kind # "group"
           /\ CitedValues(c, asked.units, asked.value)
<1> DEFINE units == ToSet(asked.units)
<1> DEFINE cited == UNION {ToSet(EntriesFor(c, u.labels)) : u \in units}
<1>1. DirectSupport(c, asked) =
        IF \E u \in units : u.kind = "group" THEN "abstained"
        ELSE IF \E e \in cited : e.text # asked.value THEN "abstained"
        ELSE "verified"
  BY DEF DirectSupport
<1>2. \A n \in DOMAIN asked.units : asked.units[n] \in units
  BY DEF ToSet
<1> HIDE DEF units
<1>3. /\ \A u \in units : u.kind # "group"
      /\ \A e \in cited : e.text = asked.value
  <2> HIDE DEF cited
  <2> QED
    BY <1>1
<1>4. ASSUME NEW n \in DOMAIN asked.units, NEW label \in ToSet(asked.units[n].labels)
      PROVE  EntryFor(c, label).text = asked.value
  <2> DEFINE labels == asked.units[n].labels
  <2> DEFINE es == EntriesFor(c, labels)
  <2>1. PICK i \in DOMAIN labels : label = labels[i]
    BY DEF ToSet
  <2>2. DOMAIN es = DOMAIN labels /\ es[i] = EntryFor(c, label)
    BY <2>1 DEF EntriesFor, EntryFor
  <2> HIDE DEF es
  <2>3. es[i] \in ToSet(es)
    BY <2>2 DEF ToSet
  <2>4. es[i] \in cited
    <3>1. ToSet(es) \in {ToSet(EntriesFor(c, u.labels)) : u \in units}
      BY <1>2 DEF es
    <3> QED
      BY <2>3, <3>1
  <2> QED
    BY <1>3, <2>2, <2>4
<1> QED
  BY <1>2, <1>3, <1>4 DEF CitedValues

(* A bundle is verified as a whole: built again, it is the same.           *)
LEMMA VerifiedBundle ==
    ASSUME NEW d, DocOK(d), NEW st, st.active \in Nat, NEW old, old.active \in Nat,
           NEW b, Held(b, old, d), b.kind = "bundle", NEW c, CopyOf(c, b), NEW units,
           AuthorityError(st, d, c, units) = "none"
    PROVE  /\ \A i \in DOMAIN c.entries : EntryFacts(c.entries[i], d, st.active)
           /\ c.mode # "lexical" => IndexCurrent(st, c.index)
<1>1. \E r, n, p : MadeBundle(b, old, d, r, n) /\ BundleMade(b, p, old, d, r, n)
  BY HeldBundle
<1>2. PICK r, n, p : MadeBundle(b, old, d, r, n) /\ BundleMade(b, p, old, d, r, n)
  BY <1>1
<1> DEFINE e == c.dispositions
<1> DEFINE q == [generation |-> c.generation, index |-> c.index, mode |-> c.mode,
                 candidates |-> [i \in DOMAIN e |-> e[i].unit], budget |-> c.budget]
<1> DEFINE again == BuildBundle(st, d, q)
<1>3. Rebuilt(st, d, c) = again
  BY DEF Rebuilt
<1>4. c.kind # "groups"
  BY DEF CopyOf
<1>5. again.error = "none" /\ again = c
  <2> HIDE DEF again
  <2>1. \A code : MapAuthorityError(code) # "none"
    BY DEF MapAuthorityError
  <2> QED
    BY <1>3, <1>4, <2>1 DEF AuthorityError
<1>6. /\ n \in Nat /\ RefList(d, r.candidates, n) /\ r.budget \in [entries : Nat, bytes : Nat]
  BY <1>2 DEF MadeBundle
<1>7. /\ b.dispositions = p.dispositions /\ b.budget = r.budget
  <2> DEFINE state == BundleState(p, d)
  <2> HIDE DEF state
  <2>1. b = [error |-> "none", kind |-> "bundle", generation |-> r.generation, index |-> r.index,
             mode |-> r.mode, budget |-> r.budget, units |-> <<>>,
             entries |-> p.entries, contexts |-> p.contexts,
             dispositions |-> p.dispositions, state |-> state]
    BY <1>2 DEF BundleMade, Seals, state
  <2> QED
    BY <2>1
<1>8. Len(p.dispositions) = n /\ \A i \in 1 .. n : p.dispositions[i].unit = r.candidates[i]
  BY <1>2 DEF BundleMade
<1>9. DOMAIN p.dispositions = 1 .. n
  <2> DEFINE I == UnitsOf(p)
  <2>1. p.dispositions \in Seq(Dispositions(I))
    BY <1>2 DEF BundleMade, PackedOK, Packings
  <2> HIDE DEF I
  <2> QED
    BY <1>8, <2>1
<1>10. e = p.dispositions /\ c.budget = r.budget
  BY <1>7 DEF CopyOf
<1>11. q.candidates = r.candidates
  <2>1. q.candidates = [i \in 1 .. n |-> r.candidates[i]]
    BY <1>8, <1>9, <1>10
  <2>2. r.candidates = [i \in 1 .. n |-> r.candidates[i]]
    BY <1>6 DEF RefList
  <2> QED
    BY <2>1, <2>2
<1>12. q.budget = r.budget
  BY <1>10
<1> HIDE DEF q
<1>13. c = BuildBundle(st, d, q) /\ c.error = "none"
  BY <1>5
<1> HIDE DEF again
<1>14. MadeBundle(c, st, d, q, n)
  BY <1>6, <1>11, <1>12, <1>13 DEF MadeBundle
<1>15. Held(c, st, d)
  BY <1>14 DEF Held
<1>16. \E o, I, U : PackedIn(c, o, st, d, I, U)
  BY <1>15, HeldIs
<1>17. PICK o, I, U : PackedIn(c, o, st, d, I, U)
  BY <1>16
<1>18. CopyOf(c, c)
  BY SelfCopy
<1>19. /\ Current(c, st)
       /\ Len(o.entries) \in Nat /\ Numbered(c, Len(o.entries)) /\ c.entries = o.entries
       /\ \A i \in 1 .. Len(o.entries) : EntryFacts(c.entries[i], d, st.active)
  BY <1>17, <1>18, CopyFacts
<1> QED
  BY <1>19 DEF Current, Numbered

(* Of a bundle of groups each cited entry is resolved again.               *)
LEMMA HeldGroups ==
    ASSUME NEW d, DocOK(d), NEW st, st.active \in Nat, NEW b, Held(b, st, d), b.kind = "groups"
    PROVE  \E r, n, m, p : MadeGroups(b, st, d, r, n, m) /\ GroupsMade(b, p, st, d, r, n, m)
<1>1. ASSUME NEW r, NEW n, MadeBundle(b, st, d, r, n) PROVE FALSE
  <2>2. /\ n \in Nat /\ RefList(d, r.candidates, n) /\ r.budget \in [entries : Nat, bytes : Nat]
        /\ b = BuildBundle(st, d, r) /\ b.error = "none"
    BY <1>1 DEF MadeBundle
  <2>3. \E p : BundleMade(b, p, st, d, r, n)
    BY <2>2, BuildBundleIs
  <2>4. PICK p : BundleMade(b, p, st, d, r, n)
    BY <2>3
  <2>5. b.kind = "bundle"
    BY <2>4 DEF BundleMade, Seals
  <2> QED
    BY <2>5
<1>2. PICK r, n, m : MadeGroups(b, st, d, r, n, m)
  BY <1>1 DEF Held
<1>3. /\ n \in Nat /\ RefList(d, r.candidates, n) /\ r.budget \in [entries : Nat, bytes : Nat]
      /\ m \in Nat /\ AskedList(r.units, m, n)
      /\ b = BuildGroups(st, d, r, r.units) /\ b.error = "none"
  BY <1>2 DEF MadeGroups
<1>4. \E p : GroupsMade(b, p, st, d, r, n, m)
  BY <1>3, BuildGroupsIs
<1> QED
  BY <1>2, <1>4

(* A held bundle is of one of the two kinds. *)
LEMMA HeldKind ==
    ASSUME NEW d, DocOK(d), NEW st, st.active \in Nat, NEW b, Held(b, st, d)
    PROVE  b.kind \in {"bundle", "groups"}
<1>1. ASSUME NEW r, NEW n, MadeBundle(b, st, d, r, n) PROVE b.kind = "bundle"
  <2>2. /\ n \in Nat /\ RefList(d, r.candidates, n) /\ r.budget \in [entries : Nat, bytes : Nat]
        /\ b = BuildBundle(st, d, r) /\ b.error = "none"
    BY <1>1 DEF MadeBundle
  <2>3. \E p : BundleMade(b, p, st, d, r, n)
    BY <2>2, BuildBundleIs
  <2> QED
    BY <2>3 DEF BundleMade, Seals
<1>2. ASSUME NEW r, NEW n, NEW m, MadeGroups(b, st, d, r, n, m) PROVE b.kind = "groups"
  <2>2. /\ n \in Nat /\ RefList(d, r.candidates, n) /\ r.budget \in [entries : Nat, bytes : Nat]
        /\ m \in Nat /\ AskedList(r.units, m, n)
        /\ b = BuildGroups(st, d, r, r.units) /\ b.error = "none"
    BY <1>2 DEF MadeGroups
  <2>3. \E p : GroupsMade(b, p, st, d, r, n, m)
    BY <2>2, BuildGroupsIs
  <2> QED
    BY <2>3 DEF GroupsMade, Seals
<1> QED
  BY <1>1, <1>2 DEF Held

(* A unit of a bundle of groups.                                           *)
RecordOf(v, p, r, m, i) == i \in Packable(p, m) /\ v = Record(p, r.units, i)

(* The units a bundle of groups records have labels of their entries. *)
LEMMA RecordIs ==
    ASSUME NEW b, NEW p, NEW st, NEW d, NEW r, NEW n, NEW m, MadeGroups(b, st, d, r, n, m),
           GroupsMade(b, p, st, d, r, n, m), NEW v, v \in b.units
    PROVE  /\ v.kind \in {"standalone", "group"} /\ v.labels \in Seq(Nat)
           /\ \E i : RecordOf(v, p, r, m, i)
<1>1. b.units = Records(p, r.units, m)
  <2> DEFINE state == BundleState(p, d)
  <2> DEFINE units == Records(p, r.units, m)
  <2> HIDE DEF state, units
  <2>1. b = [error |-> "none", kind |-> "groups", generation |-> r.generation, index |-> r.index,
             mode |-> r.mode, budget |-> r.budget, units |-> units,
             entries |-> p.entries, contexts |-> p.contexts,
             dispositions |-> p.dispositions, state |-> state]
    BY DEF GroupsMade, Seals, state, units
  <2>2. b.units = units
    BY <2>1
  <2> QED
    BY <2>2 DEF units
<1>2. PICK i \in Packable(p, m) : v = Record(p, r.units, i)
  BY <1>1 DEF Records
<1>3. RecordOf(v, p, r, m, i)
  BY <1>2 DEF RecordOf
<1>4. i \in 1 .. m /\ Len(p.dispositions) = m
  BY DEF Packable, GroupsMade
<1>5. r.units[i].kind \in {"standalone", "group"}
  BY <1>4 DEF MadeGroups, AskedList, AskedOK
<1>6. PICK I, U : PackedOK(p, Resolved(d, st.active), I, U, r.budget)
  BY DEF GroupsMade
<1> DEFINE x == p.dispositions[i]
<1>7. x \in Dispositions(I)
  <2> DEFINE s == p.dispositions
  <2> DEFINE T == Dispositions(I)
  <2>1. s \in Seq(T) /\ i \in 1 .. Len(s)
    BY <1>4, <1>6 DEF PackedOK, Packings
  <2> HIDE DEF s, T
  <2>2. s[i] \in T
    BY <2>1
  <2> QED
    BY <2>2 DEF s, T
<1>8. x.labels \in Seq(Nat)
  BY <1>7 DEF Dispositions
<1>9. v.kind = r.units[i].kind /\ v.labels = x.labels
  BY <1>2 DEF Record
<1> QED
  BY <1>3, <1>5, <1>8, <1>9

AloneUnit(u) == u.kind = "standalone" /\ u.labels \in Seq(Nat)

CitesOnly(units, N, K) ==
  /\ DOMAIN units = 1 .. N
  /\ \A n \in 1 .. N : AloneUnit(units[n]) /\ \A label \in ToSet(units[n].labels) : label \in 1 .. K

CitedNow(c, units, N, st, d) ==
  /\ c.mode # "lexical" => IndexCurrent(st, c.index)
  /\ \A n \in 1 .. N : \A label \in ToSet(units[n].labels) :
       /\ c.entries[label].chunk[1] = st.active
       /\ c.entries[label].text = TextIn(d, c.entries[label].chunk, c.entries[label].range)

(* Entries that passed revalidation are current and say what the paper says. *)
LEMMA VerifiedEntries ==
    ASSUME NEW d, NEW st, NEW c, NEW K \in Nat, Numbered(c, K), NEW N \in Nat,
           NEW units, CitesOnly(units, N, K), CitedEntriesError(st, d, c, units) = "none"
    PROVE  CitedNow(c, units, N, st, d)
<1>0. /\ DOMAIN units = 1 .. N /\ \A n \in 1 .. N : AloneUnit(units[n])
      /\ \A n \in 1 .. N : \A label \in ToSet(units[n].labels) : label \in 1 .. K
  BY DEF CitesOnly
<1> DEFINE es(n) == EntriesFor(c, units[n].labels)
<1> DEFINE parts(unit) == LET entries == EntriesFor(c, unit.labels)
                          IN IF unit.kind = "standalone" THEN <<entries>>
                             ELSE [k \in DOMAIN entries |-> <<entries[k]>>]
<1> DEFINE seqs == [n \in DOMAIN units |-> parts(units[n])]
<1> DEFINE cited == FlattenSeq(seqs)
<1> DEFINE candidate(i) == CandidateForEntries(cited[i], i)
<1> DEFINE again == [generation |-> c.generation, index |-> c.index, mode |-> c.mode,
                       budget |-> c.budget, candidates |-> [i \in DOMAIN cited |-> candidate(i)]]
<1> DEFINE failure == ResolutionError(st, d, again)
<1> DEFINE groups == ResolvedGroups(d, again)
<1> DEFINE same(i) == /\ Len(groups[i].ranges) = Len(cited[i])
                      /\ \A k \in DOMAIN cited[i] : RangeEqualsEntry(groups[i].ranges[k], cited[i][k])
<1> DEFINE allsame == \A i \in DOMAIN cited : same(i)
<1>1. failure = "none" /\ allsame
  <2>1. \A code : MapAuthorityError(code) # "none"
    BY DEF MapAuthorityError
  <2> DEFINE canonical(unit) ==
        unit.kind = "group" =>
          LET entries == EntriesFor(c, unit.labels)
          IN unit.group = <<Child(entries[1]), Child(entries[2])>>
             /\ CanonicalPair(d, unit.group[1], unit.group[2]) = unit.group
  <2> DEFINE allcanonical == \A n \in DOMAIN units : canonical(units[n])
  <2>2. CitedEntriesError(st, d, c, units) =
          IF failure # "none" THEN MapAuthorityError(failure)
          ELSE IF allsame /\ allcanonical THEN "none"
          ELSE "AUTHORITATIVE_EVIDENCE_INVALID"
    BY DEF CitedEntriesError
  <2> HIDE DEF failure, allsame, allcanonical
  <2> QED
    BY <2>1, <2>2
<1>2. seqs = [n \in 1 .. N |-> <<es(n)>>]
  BY <1>0 DEF AloneUnit
<1> DEFINE T == {es(n) : n \in 1 .. N}
<1>3. cited \in Seq(T) /\ HasAllOf(cited, seqs, N)
  <2> HIDE DEF es
  <2>1. \A n \in 1 .. N : es(n) \in T
    OBVIOUS
  <2> HIDE DEF T, seqs
  <2>2. \A n \in 1 .. N : <<es(n)>> \in Seq(T)
    BY <2>1
  <2>3. IsList(seqs, N, Seq(T))
    BY <1>2, <2>2 DEF IsList
  <2> QED
    BY <2>3, FlattenHas
<1> HIDE DEF parts, seqs, cited, candidate
<1>4. DOMAIN cited = 1 .. Len(cited)
  <2> HIDE DEF T
  <2> QED
    BY <1>3
<1>5. /\ again.generation = c.generation /\ again.index = c.index /\ again.mode = c.mode
      /\ again.candidates = [i \in DOMAIN cited |-> candidate(i)]
  OBVIOUS
<1> HIDE DEF again
<1>6. /\ again.generation = st.active
      /\ again.mode # "lexical" => IndexCurrent(st, again.index)
      /\ \A i \in DOMAIN again.candidates : again.candidates[i].chunk[1] = st.active
  BY <1>1, ResolutionIs DEF failure
<1>7. ASSUME NEW n \in 1 .. N
      PROVE  \E j \in DOMAIN cited : cited[j] = es(n)
  <2>1. seqs[n] = <<es(n)>>
    BY <1>2
  <2> HIDE DEF es
  <2>2. 1 \in 1 .. Len(seqs[n]) /\ seqs[n][1] = es(n)
    BY <2>1
  <2>3. \A k \in 1 .. N : \A i \in 1 .. Len(seqs[k]) : \E j \in 1 .. Len(cited) : cited[j] = seqs[k][i]
    <3> HIDE DEF T
    <3> QED
      BY <1>3 DEF HasAllOf
  <2>4. \E j \in 1 .. Len(cited) : cited[j] = seqs[n][1]
    BY <2>2, <2>3
  <2> QED
    BY <1>4, <2>2, <2>4
<1>8. ASSUME NEW n \in 1 .. N, NEW label \in ToSet(units[n].labels)
      PROVE  /\ c.entries[label].chunk[1] = st.active
             /\ c.entries[label].text = TextIn(d, c.entries[label].chunk, c.entries[label].range)
  <2> DEFINE labels == units[n].labels
  <2>1. labels \in Seq(Nat)
    BY <1>0 DEF AloneUnit
  <2>2. PICK k \in DOMAIN labels : label = labels[k]
    BY DEF ToSet
  <2>3. PICK j \in DOMAIN cited : cited[j] = es(n)
    BY <1>7
  <2> DEFINE e == cited[j]
  <2> DEFINE x == c.entries[label]
  <2>4. DOMAIN e = DOMAIN labels /\ e[k] = EntryFor(c, label)
    BY <2>2, <2>3 DEF EntriesFor, EntryFor
  <2>5. label \in 1 .. K
    BY <1>0
  <2>6. EntryFor(c, label) = x
    BY <2>5, CitedIs
  <2> DEFINE ref == again.candidates[j]
  <2> DEFINE rs == groups[j].ranges
  <2>7. groups[j] = ResolveGroup(d, ref, j) /\ ref.chunk[1] = st.active
    BY <1>5, <1>6 DEF ResolvedGroups
  <2>8. same(j)
    BY <1>1
  <2>9. Len(rs) = Len(e) /\ RangeEqualsEntry(rs[k], e[k])
    BY <2>2, <2>4, <2>8
  <2> HIDE DEF groups, es, ref
  <2>10. k \in 1 .. Len(rs)
    <3>1. DOMAIN labels = 1 .. Len(labels) /\ Len(labels) \in Nat
      BY <2>1
    <3>2. Len(e) = Len(labels)
      BY <2>4, <3>1
    <3> QED
      BY <2>2, <2>9, <3>1, <3>2
  <2>11. rs[k].chunk = ref.chunk /\ rs[k].text = TextIn(d, ref.chunk, rs[k].range)
    BY <2>7, <2>10, RangesText
  <2> HIDE DEF rs, e
  <2>12. rs[k].chunk = e[k].chunk /\ rs[k].range = e[k].range /\ rs[k].text = e[k].text
    BY <2>9 DEF RangeEqualsEntry
  <2> HIDE DEF x
  <2>13. x.chunk[1] = st.active /\ x.text = TextIn(d, x.chunk, x.range)
    BY <2>4, <2>6, <2>7, <2>11, <2>12
  <2> QED
    BY <2>13 DEF x
<1> QED
  BY <1>5, <1>6, <1>8 DEF CitedNow

-----------------------------------------------------------------------------
(* Proposals.                                                              *)

UnitList(units, N) ==
  N \in Nat /\ DOMAIN units = 1 .. N /\ \A i, j \in 1 .. N : units[i] = units[j] => i = j

(* The image of 1 .. n is finite. *)
LEMMA ImagesFinite ==
    ASSUME NEW n \in Nat, NEW f
    PROVE  IsFiniteSet({f[i] : i \in 1 .. n})
<1>1. IsFiniteSet(1 .. n)
  BY FS_Interval, 1 \in Int, n \in Int
<1> QED
  BY <1>1, ImageFinite

(* A bundle has finitely many packed units. *)
LEMMA PackedUnitsFinite ==
    ASSUME DocOK(doc), built.active \in Nat, Held(bundle, built, doc)
    PROVE  IsFiniteSet(PackedUnits)
<1>1. CASE bundle.kind = "groups"
  <2>1. \E r, n, m, p : MadeGroups(bundle, built, doc, r, n, m) /\ GroupsMade(bundle, p, built, doc, r, n, m)
    BY <1>1, HeldGroups
  <2>2. PICK r, n, m, p : MadeGroups(bundle, built, doc, r, n, m) /\ GroupsMade(bundle, p, built, doc, r, n, m)
    BY <2>1
  <2> DEFINE f == [i \in 1 .. m |-> Record(p, r.units, i)]
  <2> DEFINE T == {f[i] : i \in 1 .. m}
  <2>3. m \in Nat
    BY <2>2 DEF MadeGroups
  <2>4. IsFiniteSet(T)
    <3>1. DOMAIN f = 1 .. m
      OBVIOUS
    <3> HIDE DEF f
    <3> QED
      BY <2>3, <3>1, ImagesFinite
  <2>5. bundle.units \in SUBSET T
    <3> SUFFICES ASSUME NEW v \in bundle.units PROVE v \in T
      OBVIOUS
    <3>1. \E i : RecordOf(v, p, r, m, i)
      BY <2>2, RecordIs
    <3>2. PICK i : RecordOf(v, p, r, m, i)
      BY <3>1
    <3>3. i \in 1 .. m /\ v = f[i]
      BY <3>2 DEF RecordOf, Packable
    <3> HIDE DEF f
    <3> QED
      BY <3>3
  <2> HIDE DEF T
  <2>6. IsFiniteSet(bundle.units)
    BY <2>4, <2>5, FS_Subset
  <2> QED
    BY <1>1, <2>6 DEF PackedUnits
<1>2. CASE bundle.kind # "groups"
  <2>1. \E p, I, U : PackedIn(bundle, p, built, doc, I, U)
    BY HeldIs
  <2>2. PICK p, I, U : PackedIn(bundle, p, built, doc, I, U)
    BY <2>1
  <2> DEFINE s == p.dispositions
  <2> DEFINE unit(x) == [kind |-> "standalone", labels |-> x.labels, group |-> <<>>]
  <2>3. bundle.dispositions = s
    <3> DEFINE state == BundleState(p, doc)
    <3> HIDE DEF state
    <3>1. bundle = [error |-> "none", kind |-> bundle.kind, generation |-> bundle.generation,
                    index |-> bundle.index, mode |-> bundle.mode, budget |-> bundle.budget,
                    units |-> bundle.units, entries |-> p.entries, contexts |-> p.contexts,
                    dispositions |-> s, state |-> state]
      BY <2>2 DEF PackedIn, state
    <3> QED
      BY <3>1
  <2>4. Len(s) \in Nat /\ DOMAIN s = 1 .. Len(s)
    <3> DEFINE T == Dispositions(I)
    <3>1. s \in Seq(T)
      BY <2>2 DEF PackedIn, PackedOK, Packings
    <3> HIDE DEF s, T
    <3> QED
      BY <3>1
  <2> DEFINE n == Len(s)
  <2> DEFINE f == [i \in 1 .. n |-> unit(s[i])]
  <2> DEFINE T == {f[i] : i \in 1 .. n}
  <2>5. IsFiniteSet(T)
    <3>1. DOMAIN f = 1 .. n /\ n \in Nat
      BY <2>4
    <3> HIDE DEF f, n
    <3> QED
      BY <3>1, ImagesFinite
  <2>6. PackedUnits = {unit(x) : x \in {y \in ToSet(s) : y.omission = "none"}}
    BY <1>2, <2>3 DEF PackedUnits
  <2>7. ToSet(s) = {s[i] : i \in 1 .. n}
    BY <2>4 DEF ToSet
  <2> HIDE DEF s, n
  <2>8. PackedUnits \in SUBSET T
    <3> SUFFICES ASSUME NEW v \in PackedUnits PROVE v \in T
      OBVIOUS
    <3>1. PICK x \in ToSet(s) : v = unit(x)
      BY <2>6
    <3>2. PICK i \in 1 .. n : x = s[i]
      BY <2>7
    <3>3. f[i] = v
      BY <3>1, <3>2
    <3> HIDE DEF f
    <3> QED
      BY <3>3
  <2> HIDE DEF T
  <2> QED
    BY <2>5, <2>8, FS_Subset
<1> QED
  BY <1>1, <1>2

(* The units of a proposal form a list of well-formed units. *)
LEMMA ProposalUnits ==
    ASSUME DocOK(doc), built.active \in Nat, Held(bundle, built, doc),
           NEW copy, NEW asked, asked \in Proposals(copy)
    PROVE  /\ \E N : UnitList(asked.units, N)
           /\ \E e \in ToSet(copy.entries) : asked.value = e.text
<1> DEFINE S == PackedUnits
<1>1. IsFiniteSet(S)
  BY PackedUnitsFinite
<1>2. PICK e \in ToSet(copy.entries),
           units \in {SetToSeq(S)} \cup {<<u>> : u \in S \cup MiscitedUnits} :
        asked = [value |-> e.text, units |-> units]
  BY DEF Proposals
<1> HIDE DEF S
<1>3. \E N : UnitList(units, N)
  <2>1. CASE units = SetToSeq(S)
    <3>1. /\ Cardinality(S) \in Nat
          /\ SetToSeq(S) \in [1 .. Cardinality(S) -> S]
          /\ \A p, q \in 1 .. Cardinality(S) : SetToSeq(S)[p] = SetToSeq(S)[q] => p = q
          /\ \A x \in S : \E p \in 1 .. Cardinality(S) : SetToSeq(S)[p] = x
      BY <1>1, SetToSeqIs
    <3>2. UnitList(units, Cardinality(S))
      BY <2>1, <3>1 DEF UnitList
    <3> QED
      BY <3>2
  <2>2. ASSUME NEW u, units = <<u>> PROVE \E N : UnitList(units, N)
    <3>1. UnitList(units, 1)
      BY <2>2 DEF UnitList
    <3> QED
      BY <3>1
  <2> QED
    BY <1>2, <2>1, <2>2
<1>4. asked.units = units /\ asked.value = e.text
  BY <1>2
<1> QED
  BY <1>3, <1>4

(* What is cited by a verified proposal is what the project says now.      *)
LEMMA VerifiedSays ==
    ASSUME DocOK(doc), store.active \in Nat, built.active \in Nat, Held(bundle, built, doc),
           NEW copy, CopyOf(copy, bundle), NEW asked, asked \in Proposals(copy),
           Verify(store, doc, copy, asked) = "verified"
    PROVE  \A u \in ToSet(asked.units) : \A label \in ToSet(u.labels) :
             Says(copy, label, store, doc, asked.value)
<1> DEFINE units == asked.units
<1> DEFINE SaysAt(n) == \A label \in ToSet(units[n].labels) : Says(copy, label, store, doc, asked.value)
<1>1. /\ \A n \in DOMAIN units : BindError(copy, units, n) = "none"
      /\ AuthorityError(store, doc, copy, units) = "none"
      /\ DirectSupport(copy, asked) = "verified"
  BY VerifyIs
<1>2. /\ \A n \in DOMAIN units : units[n].kind # "group"
      /\ CitedValues(copy, units, asked.value)
  BY <1>1, SupportIs
<1>3. \E p, I, U : PackedIn(bundle, p, built, doc, I, U)
  BY HeldIs
<1>4. PICK p, I, U : PackedIn(bundle, p, built, doc, I, U)
  BY <1>3
<1> DEFINE K == Len(p.entries)
<1>5. /\ Current(copy, built)
      /\ Len(p.entries) \in Nat /\ Numbered(copy, Len(p.entries)) /\ bundle.entries = p.entries
      /\ \A i \in 1 .. Len(p.entries) : EntryFacts(bundle.entries[i], doc, built.active)
  BY <1>4, CopyFacts
<1>6. K \in Nat /\ Numbered(copy, K)
  BY <1>5
<1> HIDE DEF K
<1>7. \A n \in DOMAIN units : \A label \in ToSet(units[n].labels) : label \in 1 .. K
  <2> SUFFICES ASSUME NEW n \in DOMAIN units, NEW label \in ToSet(units[n].labels) PROVE label \in 1 .. K
    OBVIOUS
  <2>1. BindError(copy, units, n) = "none"
    BY <1>1
  <2> HIDE DEF units
  <2>2. IsEntryLabel(copy, label)
    BY <2>1, BoundIs
  <2>3. IsEntryLabel(copy, label) <=> label \in 1 .. K
    BY <1>6, CitedIs
  <2> QED
    BY <2>2, <2>3
<1>8. \A n \in DOMAIN units : \A label \in ToSet(units[n].labels) :
        copy.entries[label].text = asked.value
  <2> SUFFICES ASSUME NEW n \in DOMAIN units, NEW label \in ToSet(units[n].labels)
               PROVE  copy.entries[label].text = asked.value
    OBVIOUS
  <2>1. label \in 1 .. K
    BY <1>7
  <2>2. EntryFor(copy, label).text = asked.value
    BY <1>2 DEF CitedValues
  <2>3. EntryFor(copy, label) = copy.entries[label]
    BY <1>6, <2>1, CitedIs
  <2> QED
    BY <2>2, <2>3
<1>9. copy.kind = bundle.kind /\ bundle.kind \in {"bundle", "groups"}
  BY HeldKind DEF CopyOf
<1> DEFINE Fresh(label) == /\ copy.entries[label].chunk[1] = store.active
                           /\ copy.entries[label].text = TextIn(doc, copy.entries[label].chunk,
                                                                copy.entries[label].range)
<1>10. /\ copy.mode # "lexical" => IndexCurrent(store, copy.index)
       /\ \A n \in DOMAIN units : \A label \in ToSet(units[n].labels) : Fresh(label)
  <2>1. CASE bundle.kind = "bundle"
    <3> HIDE DEF units
    <3>1. /\ \A i \in DOMAIN copy.entries : EntryFacts(copy.entries[i], doc, store.active)
          /\ copy.mode # "lexical" => IndexCurrent(store, copy.index)
      BY <1>1, <2>1, VerifiedBundle
    <3>2. DOMAIN copy.entries = 1 .. K
      BY <1>6 DEF Numbered
    <3>3. \A n \in DOMAIN units : \A label \in ToSet(units[n].labels) :
            EntryFacts(copy.entries[label], doc, store.active)
      BY <1>7, <3>1, <3>2
    <3> QED
      BY <3>1, <3>3 DEF EntryFacts
  <2>2. CASE bundle.kind = "groups"
    <3>1. /\ \E N : UnitList(asked.units, N)
          /\ \E e \in ToSet(copy.entries) : asked.value = e.text
      BY ProposalUnits
    <3>2. PICK N : UnitList(units, N)
      BY <3>1
    <3>3. N \in Nat /\ DOMAIN units = 1 .. N
      BY <3>2 DEF UnitList
    <3>4. \E r, n, m, q : MadeGroups(bundle, built, doc, r, n, m) /\ GroupsMade(bundle, q, built, doc, r, n, m)
      BY <2>2, HeldGroups
    <3>5. PICK r, n, m, q : MadeGroups(bundle, built, doc, r, n, m) /\ GroupsMade(bundle, q, built, doc, r, n, m)
      BY <3>4
    <3>6. ASSUME NEW k \in 1 .. N PROVE AloneUnit(units[k])
      <4> DEFINE v == units[k]
      <4>1. BindError(copy, units, k) = "none"
        BY <1>1, <3>3
      <4>2. v \in copy.units /\ v.kind # "group"
        <5>1. copy.kind # "bundle" => units[k] \in copy.units
          <6> HIDE DEF units
          <6> QED
            BY <4>1, BoundIs
        <5> QED
          BY <1>2, <1>9, <2>2, <3>3, <5>1
      <4>3. v \in bundle.units
        BY <4>2 DEF CopyOf
      <4> HIDE DEF v, units
      <4>4. v.kind \in {"standalone", "group"} /\ v.labels \in Seq(Nat)
        <5>1. /\ v.kind \in {"standalone", "group"} /\ v.labels \in Seq(Nat)
              /\ \E i : RecordOf(v, q, r, m, i)
          BY <3>5, <4>3, RecordIs
        <5> QED
          BY <5>1
      <4> QED
        BY <4>2, <4>4 DEF AloneUnit, v
    <3>7. CitedEntriesError(store, doc, copy, units) = "none"
      BY <1>1, <1>9, <2>2 DEF AuthorityError
    <3>8. \A k \in 1 .. N : \A label \in ToSet(units[k].labels) : label \in 1 .. K
      BY <1>7, <3>3
    <3>10. CitesOnly(units, N, K)
      BY <3>3, <3>6, <3>8 DEF CitesOnly
    <3> HIDE DEF units
    <3>9. CitedNow(copy, units, N, store, doc)
      BY <1>6, <3>3, <3>7, <3>10, VerifiedEntries
    <3> QED
      BY <3>3, <3>9 DEF CitedNow
  <2> QED
    BY <1>9, <2>1, <2>2
<1>11. \A n \in DOMAIN units : SaysAt(n)
  <2> HIDE DEF units
  <2> QED
    BY <1>8, <1>10 DEF Says
<1> QED
  BY <1>11 DEF ToSet

-----------------------------------------------------------------------------
(* Every error has a name of its own.                                      *)
LEMMA ErrorsAre ==
    ASSUME NEW st, NEW d, NEW r, NEW units
    PROVE  /\ BuildBundle(st, d, r).error # "verified"
           /\ BuildGroups(st, d, r, units).error # "verified"
<1>1. \A code : Failed(code).error = code
  BY DEF Failed
<1>2. \A kind, q, us, p, e : Sealed(kind, q, us, p, e).error = "none"
  BY DEF Sealed
<1>3. \A ref : CandidateError(d, ref) # "verified"
  BY DEF CandidateError
<1>4. ResolutionError(st, d, r) # "verified"
  <2> DEFINE refs == r.candidates
  <2> DEFINE wrong == {i \in DOMAIN refs : CandidateError(d, refs[i]) # "none"}
  <2>1. ResolutionError(st, d, r) =
          IF r.generation # st.active THEN "GENERATION_NOT_CURRENT"
          ELSE IF r.mode # "lexical" /\ ~IndexCurrent(st, r.index) THEN "VECTOR_NOT_CURRENT"
          ELSE IF \E i \in DOMAIN refs : refs[i].chunk[1] # r.generation THEN "SOURCE_SCOPE_MISMATCH"
          ELSE IF wrong # {} THEN CandidateError(d, refs[Min(wrong)])
          ELSE "none"
    BY DEF ResolutionError
  <2> HIDE DEF wrong
  <2> QED
    BY <1>3, <2>1
<1>5. \A groups : NormalizationError(groups) # "verified"
  BY DEF NormalizationError
<1>6. \A groups, n : UnitError(d, groups, units, n) # "verified"
  BY DEF UnitError
<1>7. BuildBundle(st, d, r).error # "verified"
  <2> DEFINE groups == ResolvedGroups(d, r)
  <2> DEFINE wrong == NormalizationError(groups)
  <2> DEFINE failure == ResolutionError(st, d, r)
  <2> DEFINE unit(i) == LET ranges == Coalesced(groups[i].ranges)
                        IN [id |-> groups[i].reference, duplicate |-> IsDuplicate(groups, i),
                            ranges |-> ranges, contexts |-> StandaloneContext(groups[i], ranges)]
  <2> DEFINE s == Sealed("bundle", r, <<>>, PackUnits([i \in DOMAIN groups |-> unit(i)], r.budget), d)
  <2>1. BuildBundle(st, d, r) = IF failure # "none" THEN Failed(failure)
                                ELSE IF wrong # "none" THEN Failed(wrong) ELSE s
    BY DEF BuildBundle
  <2>2. failure # "verified" /\ wrong # "verified" /\ s.error = "none"
    BY <1>2, <1>4, <1>5
  <2> HIDE DEF failure, wrong, s
  <2> QED
    BY <1>1, <2>1, <2>2
<1>8. BuildGroups(st, d, r, units).error # "verified"
  <2> DEFINE groups == ResolvedGroups(d, r)
  <2> DEFINE failure == ResolutionError(st, d, r)
  <2> DEFINE wrong == {n \in DOMAIN units : UnitError(d, groups, units, n) # "none"}
  <2> DEFINE first == UnitError(d, groups, units, Min(wrong))
  <2> DEFINE p == PackUnits([n \in DOMAIN units |-> LogicalUnit(d, groups, units[n])], r.budget)
  <2> DEFINE logical(n) == [kind |-> units[n].kind, labels |-> p.dispositions[n].labels,
                            group |-> IF units[n].kind = "group" THEN p.dispositions[n].unit ELSE <<>>]
  <2> DEFINE kept == {n \in DOMAIN units : p.dispositions[n].omission = "none"}
  <2> DEFINE s == Sealed("groups", r, {logical(n) : n \in kept}, p, d)
  <2>1. BuildGroups(st, d, r, units) =
          IF failure # "none" THEN Failed("GROUP_MEMBER_RESOLUTION_FAILED")
          ELSE IF wrong # {} THEN Failed(first) ELSE s
    BY DEF BuildGroups
  <2>2. first # "verified" /\ s.error = "none"
    BY <1>2, <1>6
  <2> HIDE DEF failure, wrong, s, first
  <2> QED
    BY <1>1, <2>1, <2>2
<1> QED
  BY <1>7, <1>8

(***************************************************************************)
(* The invariant of the evidence: a request names what the paper has; a    *)
(* bundle was built for such a request from the project as it was then;    *)
(* and what a verified proposal cites is what the project says.            *)
(***************************************************************************)
Verified ==
  \A u \in ToSet(proposal.units) : \A label \in ToSet(u.labels) :
    Says(bundle, label, store, doc, proposal.value)

EvidenceInv ==
  /\ RetrievalInv
  /\ stage = "build" => RequestOK(doc, request)
  /\ stage = "verify" => Held(bundle, built, doc) /\ built \in Stores
  /\ stage \notin {"verify", "over"} => bundle = None
  /\ stage # "over" => proposal = None /\ result = "none"
  /\ bundle # None => Current(bundle, built)
  /\ result = "verified" => Verified

(* Initially the evidence invariant holds. *)
LEMMA EvidenceInvInit == Init => EvidenceInv
BY RetrievalInvInit DEF Init, EvidenceInv

(* A step outside building and verifying keeps the evidence invariant. *)
LEMMA Quiet ==
    ASSUME EvidenceInv, RetrievalInv', UNCHANGED evidence, stage \notin {"verify", "over"},
           stage' \notin {"verify", "build"}, result' # "verified",
           stage' # "over" => result' = "none"
    PROVE  EvidenceInv'
BY DEF EvidenceInv, evidence

(* Building a bundle keeps the evidence invariant. *)
LEMMA BuildKeeps ==
    ASSUME EvidenceInv, RetrievalInv', Build
    PROVE  EvidenceInv'
<1> DEFINE made == IF request.kind = "bundle" THEN BuildBundle(store, doc, request)
                   ELSE BuildGroups(store, doc, request, request.units)
<1>1. stage = "build" /\ RequestOK(doc, request) /\ bundle = None /\ result = "none" /\ proposal = None
  BY DEF Build, EvidenceInv
<1>2. DocOK(doc) /\ store \in Stores
  BY DEF EvidenceInv, RetrievalInv, ScanInv, Extraction
<1>3. IF made.error # "none" THEN Stop(made.error)
      ELSE /\ bundle' = made /\ built' = store /\ stage' = "verify"
           /\ request' = None
           /\ UNCHANGED <<paper, store, retrieval, proposal, result>>
  BY DEF Build
<1>4. made.error # "verified"
  BY ErrorsAre
<1> HIDE DEF made
<1>5. CASE made.error # "none"
  <2>1. stage' = "over" /\ result' = made.error /\ UNCHANGED evidence
    BY <1>3, <1>5 DEF Stop
  <2> QED
    BY <1>1, <1>4, <2>1, Quiet
<1>6. CASE made.error = "none"
  <2>1. /\ bundle' = made /\ built' = store /\ stage' = "verify"
        /\ doc' = doc /\ store' = store /\ proposal' = None /\ result' = "none"
    BY <1>1, <1>3, <1>6 DEF paper
  <2>2. PICK n \in Nat : /\ RefList(doc, request.candidates, n)
                         /\ request.kind = "groups" => \E m \in Nat : AskedList(request.units, m, n)
    BY <1>1 DEF RequestOK
  <2>3. request.kind \in {"bundle", "groups"} /\ request.budget \in [entries : Nat, bytes : Nat]
    BY <1>1 DEF RequestOK
  <2>4. Held(made, store, doc)
    <3>1. CASE request.kind = "bundle"
      <4>1. made = BuildBundle(store, doc, request)
        BY <3>1 DEF made
      <4>2. MadeBundle(made, store, doc, request, n)
        BY <1>6, <2>2, <2>3, <4>1 DEF MadeBundle
      <4> QED
        BY <4>2 DEF Held
    <3>2. CASE request.kind = "groups"
      <4>1. made = BuildGroups(store, doc, request, request.units)
        BY <3>2 DEF made
      <4>2. PICK m \in Nat : AskedList(request.units, m, n)
        BY <2>2, <3>2
      <4>3. MadeGroups(made, store, doc, request, n, m)
        BY <1>6, <2>2, <2>3, <4>1, <4>2 DEF MadeGroups
      <4> QED
        BY <4>3 DEF Held
    <3> QED
      BY <2>3, <3>1, <3>2
  <2>5. store.active \in Nat
    BY <1>2 DEF Stores
  <2>6. \E p, I, U : PackedIn(made, p, store, doc, I, U)
    BY <1>2, <2>4, <2>5, HeldIs
  <2>7. PICK p, I, U : PackedIn(made, p, store, doc, I, U)
    BY <2>6
  <2>8. CopyOf(made, made)
    BY SelfCopy
  <2>9. /\ Current(made, store)
        /\ Len(p.entries) \in Nat /\ Numbered(made, Len(p.entries)) /\ made.entries = p.entries
        /\ \A i \in 1 .. Len(p.entries) : EntryFacts(made.entries[i], doc, store.active)
    BY <2>7, <2>8, CopyFacts
  <2>10. Held(bundle', built', doc') /\ built' \in Stores
    BY <1>2, <2>1, <2>4
  <2>11. Current(bundle', built')
    BY <2>1, <2>9
  <2> QED
    BY <2>1, <2>10, <2>11 DEF EvidenceInv
<1> QED
  BY <1>5, <1>6

(* The caller hands in the bundle or a copy of it, and nothing else.       *)
LEMMA CopiesAre ==
    ASSUME DocOK(doc), built.active \in Nat, Held(bundle, built, doc), bundle.entries # <<>>,
           NEW copy \in Copies
    PROVE  CopyOf(copy, bundle) /\ Current(copy, built)
<1>1. \E p, I, U : PackedIn(bundle, p, built, doc, I, U)
  BY HeldIs
<1>2. PICK p, I, U : PackedIn(bundle, p, built, doc, I, U)
  BY <1>1
<1>3. CopyOf(copy, bundle)
  <2>1. CASE copy = bundle
    BY <2>1, SelfCopy
  <2>2. CASE copy # bundle
    <3> DEFINE x == Append(bundle.entries[1].text, 0)
    <3>1. copy = [bundle EXCEPT !.entries[1].text = x]
      BY <2>2 DEF Copies
    <3> HIDE DEF x
    <3>2. /\ CopyOf([bundle EXCEPT !.entries[1].text = x], bundle)
          /\ [bundle EXCEPT !.entries[1].text = x].entries[1].text = x
      BY <1>2, CopyIsLike
    <3> QED
      BY <3>1, <3>2
  <2> QED
    BY <2>1, <2>2
<1>4. /\ Current(copy, built)
      /\ Len(p.entries) \in Nat /\ Numbered(copy, Len(p.entries)) /\ bundle.entries = p.entries
      /\ \A i \in 1 .. Len(p.entries) : EntryFacts(bundle.entries[i], doc, built.active)
  BY <1>2, <1>3, CopyFacts
<1> QED
  BY <1>3, <1>4

(* Verifying a proposal keeps the evidence invariant. *)
LEMMA VerifyKeeps ==
    ASSUME EvidenceInv, RetrievalInv', VerifyProposal
    PROVE  EvidenceInv'
<1>1. stage = "verify" /\ Held(bundle, built, doc) /\ built \in Stores /\ bundle.entries # <<>>
  BY DEF VerifyProposal, EvidenceInv
<1>2. DocOK(doc) /\ store \in Stores
  BY DEF EvidenceInv, RetrievalInv, ScanInv, Extraction
<1>3. built.active \in Nat /\ store.active \in Nat
  BY <1>1, <1>2 DEF Stores
<1>4. PICK copy \in Copies : \E asked \in Proposals(copy) :
        proposal' = asked /\ bundle' = copy /\ result' = Verify(store, doc, copy, asked)
  BY DEF VerifyProposal
<1>5. PICK asked \in Proposals(copy) :
        proposal' = asked /\ bundle' = copy /\ result' = Verify(store, doc, copy, asked)
  BY <1>4
<1>6. CopyOf(copy, bundle) /\ Current(copy, built)
  BY <1>1, <1>2, <1>3, CopiesAre
<1>7. stage' = "over" /\ doc' = doc /\ store' = store /\ built' = built
  BY DEF VerifyProposal, paper
<1>8. result' = "verified" =>
        \A u \in ToSet(asked.units) : \A label \in ToSet(u.labels) :
          Says(copy, label, store, doc, asked.value)
  <2> SUFFICES ASSUME result' = "verified"
               PROVE  \A u \in ToSet(asked.units) : \A label \in ToSet(u.labels) :
                        Says(copy, label, store, doc, asked.value)
    OBVIOUS
  <2>1. Verify(store, doc, copy, asked) = "verified"
    BY <1>5
  <2> QED
    BY <1>1, <1>2, <1>3, <1>6, <2>1, VerifiedSays
<1>9. result' = "verified" => Verified'
  BY <1>5, <1>7, <1>8 DEF Verified
<1>10. Current(bundle', built')
  BY <1>5, <1>6, <1>7
<1> QED
  BY <1>7, <1>9, <1>10 DEF EvidenceInv

(* Every step keeps the evidence invariant. *)
LEMMA EvidenceInvStep ==
    ASSUME EvidenceInv, [Next]_vars
    PROVE  EvidenceInv'
<1>0. RetrievalInv'
  BY RetrievalInvStep DEF EvidenceInv
<1>1. stage \notin {"verify", "over"} => result = "none"
  BY DEF EvidenceInv
<1>2. CASE ReadPage \/ CutChunk \/ CutSpan
  <2>1. stage = "extract" /\ stage' = stage /\ UNCHANGED evidence /\ result' = result
    BY <1>2 DEF ReadPage, CutChunk, CutSpan
  <2> QED
    BY <1>0, <1>1, <2>1, Quiet
<1>3. CASE Ask
  <2>1. /\ stage = "extract" /\ stage' \in {"lexical", "semantic"}
        /\ UNCHANGED evidence /\ result' = result
    BY <1>3 DEF Ask
  <2> QED
    BY <1>0, <1>1, <2>1, Quiet
<1>4. CASE SearchLexical
  <2>1. /\ stage = "lexical" /\ stage' \in {"lexical", "semantic", "order"}
        /\ UNCHANGED evidence /\ result' = result
    BY <1>4 DEF SearchLexical
  <2> QED
    BY <1>0, <1>1, <2>1, Quiet
<1>5. CASE StartScan
  <2>1. /\ stage = "semantic" /\ stage' \in {"scan", "over"} /\ UNCHANGED evidence
        /\ \/ stage' = "over" /\ result' = "INDEX_STALE"
           \/ result' = result
    BY <1>5 DEF StartScan, Stop
  <2> QED
    BY <1>0, <1>1, <2>1, Quiet, SMT
<1>6. CASE ScanNextBlock
  <2>1. stage = "scan" /\ stage' = stage /\ UNCHANGED evidence /\ result' = result
    BY <1>6 DEF ScanNextBlock
  <2> QED
    BY <1>0, <1>1, <2>1, Quiet
<1>7. CASE EndScan
  <2>1. /\ stage = "scan" /\ stage' \in {"lexical", "order", "over"} /\ UNCHANGED evidence
        /\ \/ stage' = "over" /\ result' = "ACQUISITION_INVALID"
           \/ result' = result
    BY <1>7 DEF EndScan, Stop
  <2> QED
    BY <1>0, <1>1, <2>1, Quiet
<1>8. CASE Order
  <2>1. /\ stage = "order" /\ stage' \in {"resolve", "request", "over"} /\ UNCHANGED evidence
        /\ \/ stage' = "over" /\ result' = "selected"
           \/ result' = result
    BY <1>8 DEF Order
  <2> QED
    BY <1>0, <1>1, <2>1, Quiet
<1>9. CASE ResolveParent
  <2>1. /\ stage = "resolve" /\ stage' \in {"resolve", "request", "over"} /\ UNCHANGED evidence
        /\ \/ stage' = "over" /\ result' = "SOURCE_CHANGED"
           \/ result' = result
    BY <1>9 DEF ResolveParent, Stop
  <2> QED
    BY <1>0, <1>1, <2>1, Quiet
<1>10. CASE RequestEvidence
  <2>1. /\ stage = "request" /\ stage' = "build" /\ UNCHANGED evidence /\ result' = result
        /\ doc' = doc
    BY <1>10 DEF RequestEvidence, paper
  <2>2. RequestOK(doc', request')
    BY <1>10, <2>1, RequestIs DEF EvidenceInv
  <2> QED
    BY <1>0, <1>1, <2>1, <2>2 DEF EvidenceInv, evidence
<1>11. CASE Build
  BY <1>0, <1>11, BuildKeeps
<1>12. CASE VerifyProposal
  BY <1>0, <1>12, VerifyKeeps
<1>13. ASSUME UNCHANGED <<stage, doc, request, evidence, result>>,
              stage \in Reads \/ store' = store
       PROVE  EvidenceInv'
  <2>1. result = "verified" => stage = "over"
    BY DEF EvidenceInv
  <2>2. result' = "verified" => Verified'
    BY <1>13, <2>1 DEF EvidenceInv, Verified, Reads, evidence
  <2> QED
    BY <1>0, <1>13, <2>2 DEF EvidenceInv, evidence
<1>14. CASE PublishDocument \/ PublishOther \/ PublishIndex
  <2>1. UNCHANGED <<stage, doc, request, evidence, result>> /\ stage \in Reads
    BY <1>14 DEF PublishDocument, PublishOther, PublishIndex, Publish, paper
  <2> QED
    BY <1>13, <2>1
<1>15. CASE UNCHANGED vars
  <2>1. UNCHANGED <<stage, doc, request, evidence, result>> /\ store' = store
    BY <1>15 DEF vars, paper
  <2> QED
    BY <1>13, <2>1
<1> QED
  BY <1>2, <1>3, <1>4, <1>5, <1>6, <1>7, <1>8, <1>9, <1>10, <1>11, <1>12, <1>14, <1>15 DEF Next

(* The inductive invariant of the whole pipeline.                          *)
THEOREM EvidenceInvariant == Spec => []EvidenceInv
BY EvidenceInvInit, EvidenceInvStep, PTL DEF Spec

(***************************************************************************)
(* A bundle is of one generation and its index, however many searches and  *)
(* publications came before it, and a verified proposal is what the paper  *)
(* says when it is verified (resolver.py, verifier.py).                    *)
(***************************************************************************)
THEOREM VerifiedIsTheProjectsText == Spec => []VerifiedIsAuthentic
<1>1. EvidenceInv => VerifiedIsAuthentic
  <2> SUFFICES ASSUME EvidenceInv PROVE VerifiedIsAuthentic
    OBVIOUS
  <2>1. bundle # None => Current(bundle, built)
    BY DEF EvidenceInv
  <2>2. result = "verified" => Verified
    BY DEF EvidenceInv
  <2> QED
    BY <2>1, <2>2 DEF VerifiedIsAuthentic, Verified, Says, Current
<1> QED
  BY <1>1, EvidenceInvariant, PTL

-----------------------------------------------------------------------------
(* The budget.                                                             *)

(* The parts of a bundle are those of its packing.                         *)
LEMMA BundleParts ==
    ASSUME NEW b, NEW p, NEW st, NEW d, NEW I, NEW U, PackedIn(b, p, st, d, I, U)
    PROVE  /\ b.entries = p.entries /\ b.contexts = p.contexts /\ b.dispositions = p.dispositions
           /\ b.state = BundleState(p, d)
<1> DEFINE state == BundleState(p, d)
<1> HIDE DEF state
<1>1. b = [error |-> "none", kind |-> b.kind, generation |-> b.generation, index |-> b.index,
           mode |-> b.mode, budget |-> b.budget, units |-> b.units,
           entries |-> p.entries, contexts |-> p.contexts,
           dispositions |-> p.dispositions, state |-> state]
  BY DEF PackedIn, state
<1>2. b.entries = p.entries /\ b.contexts = p.contexts /\ b.dispositions = p.dispositions /\ b.state = state
  BY <1>1
<1> QED
  BY <1>2 DEF state

(* A size depends on the entries and the contexts alone.                   *)
LEMMA SameSize ==
    ASSUME NEW a, NEW b, a.entries = b.entries, a.contexts = b.contexts, NEW B
    PROVE  Exceeds(a, B) = Exceeds(b, B)
BY DEF Exceeds, PreviewBytes

(* A bundle with one unit more is of the size of its packing with it.      *)
LEMMA SealedSize ==
    ASSUME NEW b, NEW p, NEW st, NEW d, NEW I, NEW U, PackedIn(b, p, st, d, I, U), NEW u, NEW B
    PROVE  Exceeds(Proposed(b, u), B) = Exceeds(Proposed(p, u), B)
<1> DEFINE R == Resolved(d, st.active)
<1>1. p \in Packings(R, I)
  BY DEF PackedIn, PackedOK
<1> HIDE DEF R
<1>2. /\ Proposed(p, u).entries = p.entries \o NewEntries(p, u)
      /\ Proposed(p, u).contexts = p.contexts \o NewContexts(p, u)
  BY <1>1, ProposedParts
<1>3. b.entries = p.entries /\ b.contexts = p.contexts /\ b.dispositions = p.dispositions
  BY BundleParts
<1> DEFINE e == b.entries \o NewEntries(b, u)
<1> DEFINE c == b.contexts \o NewContexts(b, u)
<1> DEFINE x == Append(b.dispositions, [unit |-> u.id, omission |-> "none", labels |-> NewLabels(b, u)])
<1>4. Proposed(b, u) = [b EXCEPT !.entries = e, !.contexts = c, !.dispositions = x]
  BY DEF Proposed, NewEntries, NewContexts, NewLabels, EntryOf
<1>5. e = p.entries \o NewEntries(p, u) /\ c = p.contexts \o NewContexts(p, u)
  BY <1>3 DEF NewEntries, NewContexts
<1> HIDE DEF e, c, x
<1>6. Proposed(b, u).entries = e /\ Proposed(b, u).contexts = c
  <2> DEFINE state == BundleState(p, d)
  <2> HIDE DEF state
  <2>1. b = [error |-> "none", kind |-> b.kind, generation |-> b.generation, index |-> b.index,
             mode |-> b.mode, budget |-> b.budget, units |-> b.units,
             entries |-> p.entries, contexts |-> p.contexts,
             dispositions |-> p.dispositions, state |-> state]
    BY DEF PackedIn, state
  <2>2. /\ [b EXCEPT !.entries = e, !.contexts = c, !.dispositions = x].entries = e
        /\ [b EXCEPT !.entries = e, !.contexts = c, !.dispositions = x].contexts = c
    BY <2>1
  <2> QED
    BY <1>4, <2>2
<1>7. Proposed(b, u).entries = Proposed(p, u).entries /\ Proposed(b, u).contexts = Proposed(p, u).contexts
  BY <1>2, <1>5, <1>6
<1> DEFINE q == Proposed(b, u)
<1> DEFINE r == Proposed(p, u)
<1> HIDE DEF q, r
<1>8. q.entries = r.entries /\ q.contexts = r.contexts
  BY <1>7 DEF q, r
<1>9. Exceeds(q, B) = Exceeds(r, B)
  BY <1>8, SameSize
<1> QED
  BY <1>9 DEF q, r

(* What is left out for its size.                                          *)
LEMMA OmittedIs ==
    ASSUME NEW b, NEW p, NEW st, NEW d, NEW I, NEW U, PackedIn(b, p, st, d, I, U),
           NEW x \in ToSet(b.dispositions), x.omission \notin {"none", "DUPLICATE_CANDIDATE"}
    PROVE  \E i \in 1 .. Len(p.dispositions) : x = p.dispositions[i] /\ x.omission \in SizeReasons
<1>1. b.dispositions = p.dispositions
  BY BundleParts
<1>2. p.dispositions \in Seq(Dispositions(I))
  BY DEF PackedIn, PackedOK, Packings
<1>3. PICK i \in DOMAIN p.dispositions : x = p.dispositions[i]
  BY <1>1 DEF ToSet
<1>4. i \in 1 .. Len(p.dispositions) /\ p.dispositions[i] \in Dispositions(I)
  <2> DEFINE T == Dispositions(I)
  <2> DEFINE s == p.dispositions
  <2>1. s \in Seq(T) /\ i \in DOMAIN s
    BY <1>2, <1>3
  <2> HIDE DEF T, s
  <2>2. i \in 1 .. Len(s) /\ s[i] \in T
    BY <2>1
  <2> QED
    BY <2>2 DEF T, s
<1>5. x.omission \in SizeReasons
  <2>1. x \in Dispositions(I)
    BY <1>3, <1>4
  <2>2. x.omission \in Omissions
    BY <2>1 DEF Dispositions
  <2> QED
    BY <2>2 DEF Omissions, SizeReasons
<1> QED
  BY <1>3, <1>4, <1>5

(***************************************************************************)
(* Packing (packing.py, group_packing.py): a bundle is within its budget,  *)
(* no candidate it leaves out for the budget would fit, its labels number  *)
(* its entries, and it is ready only when nothing was left out.            *)
(***************************************************************************)
LEMMA EvidenceFills == EvidenceInv => BundleFillsBudget
<1> SUFFICES ASSUME EvidenceInv, stage = "verify" PROVE BundleFillsBudget
  BY DEF BundleFillsBudget
<1> DEFINE labels == FlattenSeq([i \in DOMAIN bundle.dispositions |-> bundle.dispositions[i].labels])
<1> DEFINE omitted == {x \in ToSet(bundle.dispositions) :
                         x.omission \notin {"none", "DUPLICATE_CANDIDATE"}}
<1>1. Held(bundle, built, doc) /\ DocOK(doc) /\ built.active \in Nat
  BY DEF EvidenceInv, RetrievalInv, ScanInv, Extraction, Stores
<1>2. \E p, I, U : PackedIn(bundle, p, built, doc, I, U)
  BY <1>1, HeldIs
<1>3. PICK p, I, U : PackedIn(bundle, p, built, doc, I, U)
  BY <1>2
<1>4. /\ bundle.entries = p.entries /\ bundle.contexts = p.contexts
      /\ bundle.dispositions = p.dispositions /\ bundle.state = BundleState(p, doc)
  BY <1>3, BundleParts
<1>5. Labelled(p) /\ Within(p, bundle.budget)
  BY <1>3 DEF PackedIn, PackedOK
<1>6. ~ Exceeds(bundle, bundle.budget)
  <2> DEFINE B == bundle.budget
  <2> HIDE DEF B
  <2>1. Exceeds(bundle, B) = Exceeds(p, B)
    BY <1>4, SameSize
  <2> QED
    BY <1>5, <2>1 DEF Within, B
<1>7. labels = [i \in DOMAIN bundle.entries |-> i]
  <2>1. DOMAIN p.entries = 1 .. Len(p.entries)
    <3>1. p.entries \in Seq(Entries(Resolved(doc, built.active)))
      BY <1>3 DEF PackedIn, PackedOK, Packings
    <3> QED
      BY <3>1
  <2> QED
    BY <1>4, <1>5, <2>1 DEF Labelled, LabelsOf, Numbers
<1>8. \A x \in omitted : \E i \in 1 .. Len(p.dispositions) :
        x = p.dispositions[i] /\ x.omission \in SizeReasons
  BY <1>3, OmittedIs
<1>9. bundle.state = "PREVIEW_READY" => omitted = {}
  <2> SUFFICES ASSUME bundle.state = "PREVIEW_READY", NEW x \in omitted PROVE FALSE
    OBVIOUS
  <2>1. PICK i \in DOMAIN p.dispositions : x = p.dispositions[i]
    BY <1>4 DEF ToSet
  <2>2. ~ \E k \in DOMAIN p.dispositions :
            p.dispositions[k].omission \notin {"none", "DUPLICATE_CANDIDATE"}
    BY <1>4 DEF BundleState
  <2> QED
    BY <2>1, <2>2
<1>10. ASSUME bundle.kind = "bundle", NEW x \in omitted
       PROVE  Exceeds(Proposed(bundle, Added(doc, x.unit, FALSE)), bundle.budget)
  <2>1. \E r, n, q : MadeBundle(bundle, built, doc, r, n) /\ BundleMade(bundle, q, built, doc, r, n)
    BY <1>1, <1>10, HeldBundle
  <2>2. PICK r, n, q : MadeBundle(bundle, built, doc, r, n) /\ BundleMade(bundle, q, built, doc, r, n)
    BY <2>1
  <2> DEFINE J == UnitsOf(q)
  <2> DEFINE V == AddedUnits(doc, J)
  <2>3. /\ ResolvedOK(built, doc, r, n) /\ Seals(bundle, "bundle", r, <<>>, q, doc)
        /\ PackedOK(q, Resolved(doc, built.active), J, V, r.budget)
    BY <2>2 DEF BundleMade
  <2> HIDE DEF J, V
  <2>4. PackedIn(bundle, q, built, doc, J, V)
    BY <2>3, SealedIs
  <2>5. x \in ToSet(bundle.dispositions) /\ x.omission \notin {"none", "DUPLICATE_CANDIDATE"}
    OBVIOUS
  <2>6. \E i \in 1 .. Len(q.dispositions) : x = q.dispositions[i] /\ x.omission \in SizeReasons
    BY <2>4, <2>5, OmittedIs
  <2>7. TooLarge(q, V, bundle.budget)
    BY <2>4 DEF PackedIn, PackedOK
  <2>8. PICK u \in V : u.id = x.unit /\ ~ u.duplicate /\ Exceeds(Proposed(q, u), bundle.budget)
    BY <2>6, <2>7 DEF TooLarge
  <2>9. PICK ref \in J, duplicate \in BOOLEAN : u = Added(doc, ref, duplicate)
    BY DEF V, AddedUnits
  <2>10. u.id = ref /\ u.duplicate = duplicate
    BY <2>9 DEF Added
  <2>11. u = Added(doc, x.unit, FALSE)
    BY <2>8, <2>9, <2>10
  <2> DEFINE B == bundle.budget
  <2> HIDE DEF B
  <2>12. Exceeds(Proposed(bundle, u), B) = Exceeds(Proposed(q, u), B)
    BY <2>4, SealedSize
  <2> QED
    BY <2>8, <2>11, <2>12 DEF B
<1>11. bundle.kind = "bundle" =>
         \A x \in omitted : Exceeds(Proposed(bundle, Added(doc, x.unit, FALSE)), bundle.budget)
  BY <1>10
<1> HIDE DEF labels, omitted
<1> QED
  BY <1>6, <1>7, <1>9, <1>11 DEF BundleFillsBudget, Added, labels, omitted

(* For every paper, query and budget, a bundle is within its budget and leaves *)
(* out for it only what does not fit; its labels number its entries, and it is *)
(* ready only when nothing is left out (packing.py, group_packing.py).         *)
THEOREM BundlesFillTheirBudget == Spec => []BundleFillsBudget
BY EvidenceFills, EvidenceInvariant, PTL

-----------------------------------------------------------------------------
(* Cutting a sequence of rows into pieces.                                 *)

(* Two positions, each a row and an index in it.                           *)
After(p, l, a, b) == a > p \/ (a = p /\ b > l)

(* Before on pairs is the lexicographic order. *)
LEMMA BeforeOfPairs ==
    ASSUME NEW a \in Int, NEW b \in Int, NEW c \in Int, NEW e \in Int
    PROVE  Before(<<a, b>>, <<c, e>>) <=> After(a, b, c, e)
<1> DEFINE k == <<a, b>>
<1> DEFINE l == <<c, e>>
<1>1. DOMAIN k = {1, 2} /\ k[1] = a /\ k[2] = b /\ l[1] = c /\ l[2] = e
  OBVIOUS
<1>2. 1 .. (1 - 1) = {} /\ 1 .. (2 - 1) = {1}
  OBVIOUS
<1> HIDE DEF k, l
<1>3. Before(k, l) <=> k[1] < l[1] \/ (k[2] < l[2] /\ k[1] = l[1])
  BY <1>1, <1>2 DEF Before
<1> QED
  BY <1>1, <1>3 DEF After, k, l

(* The beginning of a row, and a piece of it.                              *)
Beginning(s, l) == [k \in 1 .. l |-> s[k]]
Piece(s, a, b) == [k \in 1 .. (b - a + 1) |-> s[a + k - 1]]

(* The first l elements of a sequence are a sequence of length l. *)
LEMMA FrontIs ==
    ASSUME NEW T, NEW s \in Seq(T), NEW l \in 0 .. Len(s)
    PROVE  Beginning(s, l) \in Seq(T) /\ Len(Beginning(s, l)) = l
<1>1. Beginning(s, l) \in [1 .. l -> T]
  BY DEF Beginning
<1>2. l \in Nat
  OBVIOUS
<1> HIDE DEF Beginning
<1> QED
  BY <1>1, <1>2

(* The whole of a sequence is its first Len elements, nothing its first 0. *)
LEMMA FrontEnds ==
    ASSUME NEW T, NEW s \in Seq(T)
    PROVE  Beginning(s, Len(s)) = s /\ Beginning(s, 0) = <<>>
BY DEF Beginning

(* A piece continues the beginning.                                        *)
LEMMA FrontPiece ==
    ASSUME NEW T, NEW s \in Seq(T), NEW a \in 1 .. Len(s), NEW b \in a .. Len(s)
    PROVE  /\ Piece(s, a, b) \in Seq(T)
           /\ Beginning(s, a - 1) \o Piece(s, a, b) = Beginning(s, b)
<1> DEFINE n == Len(s)
<1> DEFINE m == b - a + 1
<1> DEFINE f == Beginning(s, a - 1)
<1> DEFINE q == Piece(s, a, b)
<1> DEFINE h == Beginning(s, b)
<1>1. n \in Nat /\ a \in Nat /\ b \in Nat /\ m \in Nat /\ \A k \in 1 .. n : s[k] \in T
  OBVIOUS
<1>2. f \in Seq(T) /\ Len(f) = a - 1
  BY FrontIs
<1>3. h \in Seq(T) /\ Len(h) = b
  BY FrontIs
<1>4. q \in [1 .. m -> T]
  <2>1. \A k \in 1 .. m : a + k - 1 \in 1 .. n
    OBVIOUS
  <2> QED
    BY <1>1, <2>1 DEF Piece
<1>5. \A k \in 1 .. (a - 1) : f[k] = s[k]
  BY DEF Beginning
<1>6. \A k \in 1 .. m : q[k] = s[a + k - 1]
  BY DEF Piece
<1>7. \A k \in 1 .. b : h[k] = s[k]
  BY DEF Beginning
<1> HIDE DEF f, q, h
<1>8. q \in Seq(T) /\ Len(q) = m
  <2>1. m \in Nat /\ q \in [1 .. m -> T]
    BY <1>1, <1>4
  <2> HIDE DEF m
  <2> QED
    BY <2>1
<1> DEFINE j == f \o q
<1>9. j \in Seq(T) /\ Len(j) = b
  BY SMTT(30), <1>2, <1>8
<1>10. ASSUME NEW k \in 1 .. b PROVE j[k] = h[k]
  <2>1. CASE k <= a - 1
    <3>1. j[k] = f[k]
      BY <1>2, <1>8, <2>1
    <3> QED
      BY <1>5, <1>7, <2>1, <3>1
  <2>2. CASE k > a - 1
    <3>1. j[k] = q[k - (a - 1)]
      BY <1>2, <1>8, <2>2
    <3>2. k - (a - 1) \in 1 .. m /\ a + (k - (a - 1)) - 1 = k
      BY <2>2
    <3> QED
      BY <1>6, <1>7, <3>1, <3>2
  <2>3. k <= a - 1 \/ k > a - 1
    BY <1>1
  <2> QED
    BY <2>1, <2>2, <2>3
<1>11. j = h
  <2> HIDE DEF j
  <2>1. DOMAIN j = 1 .. b /\ DOMAIN h = 1 .. b /\ j = [k \in 1 .. b |-> j[k]] /\ h = [k \in 1 .. b |-> h[k]]
    BY <1>3, <1>9
  <2> QED
    BY <1>10, <2>1
<1> QED
  BY <1>8, <1>11 DEF f, q, h, j

(* Rows without elements add nothing.                                      *)
NoneIn(W, a, b) == \A p \in (a + 1) .. b : Len(W[p]) = 0

(* Empty rows between two places add nothing to the concatenation. *)
LEMMA EmptyRows ==
    ASSUME NEW T, NEW n \in Nat, NEW W, IsList(W, n, Seq(T)), NEW g, Joins(g, n, T, W),
           NEW a \in 0 .. n, NEW b \in a .. n, NoneIn(W, a, b)
    PROVE  g[b] = g[a]
<1> DEFINE m == b - a
<1> DEFINE M == {k \in 0 .. m : g[a + k] = g[a]}
<1>1. m \in Nat
  OBVIOUS
<1>2. 0 \in M
  OBVIOUS
<1>3. \A k \in 0 .. (m - 1) : k \in M => k + 1 \in M
  <2> SUFFICES ASSUME NEW k \in 0 .. (m - 1), g[a + k] = g[a] PROVE g[a + (k + 1)] = g[a]
    OBVIOUS
  <2> DEFINE j == a + (k + 1)
  <2>1. j \in 1 .. n /\ j \in (a + 1) .. b /\ j - 1 = a + k /\ a + k \in 0 .. n
    OBVIOUS
  <2> HIDE DEF j
  <2>2. g[j] = g[j - 1] \o W[j] /\ g[j - 1] \in Seq(T)
    BY <2>1 DEF Joins
  <2>3. W[j] = <<>>
    <3>1. W[j] \in Seq(T) /\ Len(W[j]) = 0
      BY <2>1 DEF IsList, NoneIn
    <3> QED
      BY <3>1
  <2>4. g[j - 1] \o <<>> = g[j - 1]
    BY <2>2
  <2> QED
    BY <2>1, <2>2, <2>3, <2>4 DEF j
<1> HIDE DEF M
<1>4. \A k \in 0 .. m : k \in M
  BY <1>1, <1>2, <1>3, UpTo
<1>5. m \in M
  BY <1>1, <1>4
<1>6. a + m = b
  OBVIOUS
<1> QED
  BY <1>5, <1>6 DEF M

(* What is before the element behind index l of row p.                     *)
Upto(g, W, p, l) == g[p - 1] \o Beginning(W[p], l)

(* The concatenation up to the end of a row is the concatenation of the rows. *)
LEMMA UptoEnd ==
    ASSUME NEW T, NEW n \in Nat, NEW W, IsList(W, n, Seq(T)), NEW g, Joins(g, n, T, W), NEW p \in 1 .. n
    PROVE  Upto(g, W, p, Len(W[p])) = g[p] /\ Upto(g, W, p, 0) = g[p - 1]
<1>1. W[p] \in Seq(T)
  BY DEF IsList
<1>2. Beginning(W[p], Len(W[p])) = W[p] /\ Beginning(W[p], 0) = <<>>
  BY <1>1, FrontEnds
<1>3. g[p] = g[p - 1] \o W[p] /\ g[p - 1] \in Seq(T)
  <2>1. p - 1 \in 0 .. n
    OBVIOUS
  <2>2. g[p - 1] \in Seq(T)
    BY <2>1 DEF Joins
  <2>3. g[p] = g[p - 1] \o W[p]
    BY DEF Joins
  <2> QED
    BY <2>2, <2>3
<1>4. g[p - 1] \o <<>> = g[p - 1]
  BY <1>3
<1> QED
  BY <1>2, <1>3, <1>4 DEF Upto

(* Between an element and the next one there is nothing.                   *)
NextTo(W, n, p, l, a, b) ==
  /\ After(p, l, a, b)
  /\ \A c \in 1 .. n : \A e \in 1 .. Len(W[c]) :
       After(p, l, c, e) => (c = a /\ e = b) \/ After(a, b, c, e)
LastOf(W, n, p, l) == \A c \in 1 .. n : \A e \in 1 .. Len(W[c]) : ~ After(p, l, c, e)

(* Up to a place and up to the one before the next are the same. *)
LEMMA UptoNext ==
    ASSUME NEW T, NEW n \in Nat, NEW W, IsList(W, n, Seq(T)), NEW g, Joins(g, n, T, W),
           NEW p \in 1 .. n, NEW l \in 0 .. Len(W[p]),
           NEW a \in 1 .. n, NEW b \in 1 .. Len(W[a]),
           NextTo(W, n, p, l, a, b)
    PROVE  Upto(g, W, p, l) = Upto(g, W, a, b - 1)
<1> DEFINE L == [c \in 1 .. n |-> Len(W[c])]
<1>1. \A c \in 1 .. n : L[c] = Len(W[c]) /\ L[c] \in Nat
  <2>1. \A c \in 1 .. n : W[c] \in Seq(T)
    BY DEF IsList
  <2> QED
    BY <2>1
<1> HIDE DEF L
<1>2. /\ After(p, l, a, b)
      /\ \A c \in 1 .. n : \A e \in 1 .. L[c] :
           After(p, l, c, e) => (c = a /\ e = b) \/ After(a, b, c, e)
  BY <1>1 DEF NextTo
<1>3. l \in 0 .. L[p] /\ b \in 1 .. L[a]
  BY <1>1
<1>4. CASE a = p
  <2>1. l + 1 \in 1 .. L[p] /\ After(p, l, p, l + 1)
    BY <1>1, <1>2, <1>3, <1>4 DEF After
  <2>2. b = l + 1
    BY <1>1, <1>2, <1>3, <1>4, <2>1 DEF After
  <2> QED
    BY <1>1, <1>3, <1>4, <2>2
<1>5. CASE a # p
  <2>1. a > p
    BY <1>2, <1>5 DEF After
  <2>2. l = L[p]
    <3>1. l # L[p] => l + 1 \in 1 .. L[p] /\ After(p, l, p, l + 1)
      BY <1>1, <1>3 DEF After
    <3>2. l # L[p] => ~ After(a, b, p, l + 1)
      BY <2>1, <1>3 DEF After
    <3> QED
      BY <1>2, <1>5, <3>1, <3>2
  <2>3. b = 1
    <3>1. b # 1 => 1 \in 1 .. L[a] /\ After(p, l, a, 1) /\ ~ After(a, b, a, 1)
      BY <1>1, <1>3, <2>1 DEF After
    <3> QED
      BY <1>2, <3>1
  <2>4. ASSUME NEW c \in (p + 1) .. (a - 1) PROVE L[c] = 0
    <3>1. c \in 1 .. n /\ c # a /\ c > p /\ a > c
      OBVIOUS
    <3>2. L[c] # 0 => 1 \in 1 .. L[c] /\ After(p, l, c, 1) /\ ~ After(a, b, c, 1)
      BY <1>1, <3>1 DEF After
    <3> QED
      BY <1>2, <3>1, <3>2
  <2>5. \A c \in (p + 1) .. (a - 1) : Len(W[c]) = 0
    BY <1>1, <2>4
  <2>6. p \in 0 .. n /\ a - 1 \in p .. n
    BY <2>1
  <2>7. g[a - 1] = g[p]
    <3> DEFINE x == a - 1
    <3>1. x \in p .. n /\ NoneIn(W, p, x)
      BY <2>5, <2>6 DEF NoneIn
    <3> HIDE DEF x
    <3>2. g[x] = g[p]
      BY <2>6, <3>1, EmptyRows
    <3> QED
      BY <3>2 DEF x
  <2>8. Upto(g, W, p, Len(W[p])) = g[p] /\ Upto(g, W, a, 0) = g[a - 1]
    BY UptoEnd
  <2> QED
    BY <1>1, <2>2, <2>3, <2>7, <2>8
<1> QED
  BY <1>4, <1>5

(* Nothing is behind the last element.                                     *)
LEMMA UptoLast ==
    ASSUME NEW T, NEW n \in Nat, NEW W, IsList(W, n, Seq(T)), NEW g, Joins(g, n, T, W),
           NEW p \in 1 .. n, NEW l \in 0 .. Len(W[p]),
           LastOf(W, n, p, l)
    PROVE  Upto(g, W, p, l) = g[n]
<1>1. \A c \in 1 .. n : Len(W[c]) \in Nat
  <2>1. \A c \in 1 .. n : W[c] \in Seq(T)
    BY DEF IsList
  <2> QED
    BY <2>1
<1>2. l = Len(W[p])
  <2>1. l # Len(W[p]) => l + 1 \in 1 .. Len(W[p]) /\ After(p, l, p, l + 1)
    BY <1>1 DEF After
  <2> QED
    BY <2>1 DEF LastOf
<1>3. \A c \in (p + 1) .. n : Len(W[c]) = 0
  <2> SUFFICES ASSUME NEW c \in (p + 1) .. n PROVE Len(W[c]) = 0
    OBVIOUS
  <2>1. c \in 1 .. n
    OBVIOUS
  <2>2. Len(W[c]) # 0 => 1 \in 1 .. Len(W[c]) /\ After(p, l, c, 1)
    BY <1>1, <2>1 DEF After
  <2> QED
    BY <2>1, <2>2 DEF LastOf
<1>4. p \in 0 .. n /\ n \in p .. n
  OBVIOUS
<1>7. NoneIn(W, p, n)
  BY <1>3 DEF NoneIn
<1>5. g[n] = g[p]
  BY <1>4, <1>7, EmptyRows
<1>6. Upto(g, W, p, Len(W[p])) = g[p]
  BY UptoEnd
<1> QED
  BY <1>2, <1>5, <1>6

(* J is what is before the element behind index l of row p.                *)
Placed(W, n, T, J, p, l) ==
  /\ p \in 1 .. n /\ l \in 0 .. Len(W[p])
  /\ \E g : Joins(g, n, T, W) /\ J = Upto(g, W, p, l)

(* Concatenation is associative. *)
LEMMA Associates ==
    ASSUME NEW T, NEW x \in Seq(T), NEW y \in Seq(T), NEW z \in Seq(T)
    PROVE  (x \o y) \o z = x \o (y \o z)
BY ConcatAssociative

(* A piece that begins at the next element and ends in its row.            *)
LEMMA PlacedNext ==
    ASSUME NEW T, NEW n \in Nat, NEW W, IsList(W, n, Seq(T)), NEW J, NEW p, NEW l,
           Placed(W, n, T, J, p, l), NEW a \in 1 .. n, NEW b \in 1 .. Len(W[a]),
           NextTo(W, n, p, l, a, b), NEW e \in b .. Len(W[a])
    PROVE  Placed(W, n, T, J \o Piece(W[a], b, e), a, e) /\ Piece(W[a], b, e) \in Seq(T)
<1>1. p \in 1 .. n /\ l \in 0 .. Len(W[p])
  BY DEF Placed
<1>2. PICK g : Joins(g, n, T, W) /\ J = Upto(g, W, p, l)
  BY DEF Placed
<1>3. Upto(g, W, p, l) = Upto(g, W, a, b - 1)
  BY <1>1, <1>2, UptoNext
<1> DEFINE s == W[a]
<1>4. s \in Seq(T) /\ Len(s) \in Nat
  <2>1. s \in Seq(T)
    BY DEF IsList
  <2> HIDE DEF s
  <2> QED
    BY <2>1
<1>5. g[a - 1] \in Seq(T)
  <2>1. a - 1 \in 0 .. n
    OBVIOUS
  <2> QED
    BY <1>2, <2>1 DEF Joins
<1>6. b \in 1 .. Len(s) /\ e \in b .. Len(s)
  OBVIOUS
<1> DEFINE f == Beginning(s, b - 1)
<1> DEFINE q == Piece(s, b, e)
<1> DEFINE x == g[a - 1]
<1>7. Upto(g, W, a, b - 1) = x \o f /\ Upto(g, W, a, e) = x \o Beginning(s, e)
  BY DEF Upto
<1> HIDE DEF s
<1>8. q \in Seq(T) /\ f \o q = Beginning(s, e)
  BY <1>4, <1>6, FrontPiece
<1>9. f \in Seq(T)
  <2>1. b - 1 \in 0 .. Len(s)
    BY <1>4, <1>6
  <2> DEFINE k == b - 1
  <2> HIDE DEF k
  <2>2. k \in 0 .. Len(s)
    BY <2>1 DEF k
  <2>3. Beginning(s, k) \in Seq(T)
    BY <1>4, <2>2, FrontIs
  <2> QED
    BY <2>3 DEF k
<1> HIDE DEF f, q, x
<1>10. (x \o f) \o q = x \o (f \o q)
  <2>1. x \in Seq(T)
    BY <1>5 DEF x
  <2>2. q \in Seq(T)
    BY <1>8
  <2> QED
    BY <1>9, <2>1, <2>2, Associates
<1>11. J \o q = Upto(g, W, a, e)
  BY <1>2, <1>3, <1>7, <1>8, <1>10
<1>12. e \in 0 .. Len(s)
  BY <1>4, <1>6
<1>13. Placed(W, n, T, J \o q, a, e)
  BY <1>2, <1>11, <1>12 DEF Placed, s
<1> QED
  BY <1>8, <1>13 DEF q, s

(* Flattening is the last of the partial concatenations, whatever witnesses it. *)
LEMMA FlattenOf ==
    ASSUME NEW T, NEW n \in Nat, NEW W, IsList(W, n, Seq(T)), NEW g, Joins(g, n, T, W)
    PROVE  FlattenSeq(W) = g[n]
<1>1. W \in [1 .. n -> Seq(T)]
  BY DEF IsList
<1>2. PICK h : Joins(h, n, T, W) /\ FlattenSeq(W) = h[n]
  BY <1>1, FlattenIs
<1>3. Agree(W, W, n) /\ n <= n
  BY DEF Agree
<1>4. \A k \in 0 .. n : g[k] = h[k]
  BY <1>2, <1>3, JoinsAgree
<1> QED
  BY <1>2, <1>4

(* When nothing is left, the pieces are the rows.                          *)
LEMMA PlacedLast ==
    ASSUME NEW T, NEW n \in Nat, NEW W, IsList(W, n, Seq(T)), NEW J, NEW p, NEW l,
           Placed(W, n, T, J, p, l), LastOf(W, n, p, l)
    PROVE  J = FlattenSeq(W)
<1>1. p \in 1 .. n /\ l \in 0 .. Len(W[p])
  BY DEF Placed
<1>2. PICK g : Joins(g, n, T, W) /\ J = Upto(g, W, p, l)
  BY DEF Placed
<1>3. Upto(g, W, p, l) = g[n]
  BY <1>1, <1>2, UptoLast
<1>4. FlattenSeq(W) = g[n]
  BY <1>2, FlattenOf
<1> QED
  BY <1>2, <1>3, <1>4

(* Before the first piece.                                                 *)
LEMMA PlacedFirst ==
    ASSUME NEW T, NEW n \in Nat, n # 0, NEW W, IsList(W, n, Seq(T))
    PROVE  Placed(W, n, T, FlattenSeq(<<>>), 1, 0)
<1>1. W \in [1 .. n -> Seq(T)] /\ 1 \in 1 .. n
  BY DEF IsList
<1>2. PICK g : Joins(g, n, T, W)
  BY <1>1, JoinsExist
<1>3. Upto(g, W, 1, 0) = g[1 - 1]
  BY <1>1, <1>2, UptoEnd
<1>4. g[0] = <<>> /\ 1 - 1 = 0
  BY <1>2 DEF Joins
<1>5. Len(W[1]) \in Nat
  <2> DEFINE s == W[1]
  <2>1. s \in Seq(T)
    BY <1>1
  <2> HIDE DEF s
  <2> QED
    BY <2>1 DEF s
<1>6. FlattenSeq(<<>>) = Upto(g, W, 1, 0)
  BY <1>3, <1>4, FlattenEmpty
<1> QED
  BY <1>1, <1>2, <1>5, <1>6 DEF Placed

-----------------------------------------------------------------------------
(* The words of a paper, in the rows of its pages, chunks and spans.       *)

Places == Nat \X Nat

PageRows(d) == [p \in DOMAIN d.pages |-> [w \in DOMAIN d.pages[p] |-> <<p, w>>]]
ChunkRow(c) == [k \in 1 .. (c.last - c.first + 1) |-> <<c.page, c.first + k - 1>>]
ChunkRows(d) == [i \in DOMAIN d.chunks |-> ChunkRow(d.chunks[i])]
SpanRow(d, s) == [k \in 1 .. (s.last - s.first + 1) |-> <<d.chunks[s.chunk].page, s.first + k - 1>>]
SpanRows(d) == [i \in DOMAIN d.spans |-> SpanRow(d, d.spans[i])]

(* The rows of pages list the places of every page. *)
LEMMA PageRowsAre ==
    ASSUME NEW d, DocOK(d)
    PROVE  /\ IsList(PageRows(d), Len(d.pages), Seq(Places)) /\ Len(d.pages) \in Nat
           /\ \A p \in 1 .. Len(d.pages) :
                /\ Len(PageRows(d)[p]) = Len(d.pages[p]) /\ Len(d.pages[p]) \in Nat
                /\ \A w \in 1 .. Len(d.pages[p]) : PageRows(d)[p][w] = <<p, w>>
<1> DEFINE n == Len(d.pages)
<1>1. n \in Nat /\ DOMAIN d.pages = 1 .. n
  BY DocTypes
<1>2. \A p \in 1 .. n : Len(d.pages[p]) \in Nat /\ DOMAIN d.pages[p] = 1 .. Len(d.pages[p])
  BY PageTypes DEF DocOK
<1> DEFINE row(p) == [w \in 1 .. Len(d.pages[p]) |-> <<p, w>>]
<1>3. ASSUME NEW p \in 1 .. n PROVE row(p) \in Seq(Places) /\ Len(row(p)) = Len(d.pages[p])
  <2> DEFINE m == Len(d.pages[p])
  <2> DEFINE r == row(p)
  <2>1. m \in Nat /\ r \in [1 .. m -> Places]
    BY <1>1, <1>2 DEF Places
  <2> HIDE DEF m, r
  <2>2. r \in Seq(Places) /\ Len(r) = m
    BY <2>1
  <2> QED
    BY <2>2 DEF m, r
<1>4. PageRows(d) = [p \in 1 .. n |-> row(p)]
  BY <1>1, <1>2 DEF PageRows
<1>5. \A p \in 1 .. n : \A w \in 1 .. Len(d.pages[p]) : row(p)[w] = <<p, w>>
  OBVIOUS
<1> HIDE DEF n, row
<1>6. IsList(PageRows(d), n, Seq(Places))
  BY <1>3, <1>4 DEF IsList
<1>7. \A p \in 1 .. n : PageRows(d)[p] = row(p)
  BY <1>4
<1> QED
  BY <1>1, <1>2, <1>3, <1>5, <1>6, <1>7 DEF n

(* The row of a chunk lists the places of its words. *)
LEMMA ChunkRowIs ==
    ASSUME NEW d, DocOK(d), NEW c, ChunkOK(d, c), c.last \in Nat
    PROVE  /\ ChunkRow(c) \in Seq(Places) /\ Len(ChunkRow(c)) = c.last - c.first + 1
           /\ ChunkRow(c) = Piece(PageRows(d)[c.page], c.first, c.last)
<1> DEFINE m == c.last - c.first + 1
<1> DEFINE r == ChunkRow(c)
<1>1. c.page \in 1 .. Len(d.pages) /\ c.first \in Nat \ {0} /\ c.first <= c.last
      /\ c.last <= Len(d.pages[c.page])
  BY DEF ChunkOK
<1>2. m \in Nat /\ Len(d.pages) \in Nat
  BY <1>1, DocTypes
<1>3. r \in [1 .. m -> Places]
  BY <1>1, <1>2 DEF ChunkRow, Places
<1>4. /\ Len(d.pages[c.page]) \in Nat
      /\ \A w \in 1 .. Len(d.pages[c.page]) : PageRows(d)[c.page][w] = <<c.page, w>>
  BY <1>1, PageRowsAre
<1>5. r = Piece(PageRows(d)[c.page], c.first, c.last)
  <2>1. \A k \in 1 .. m : c.first + k - 1 \in 1 .. Len(d.pages[c.page])
    BY <1>1, <1>4
  <2> DEFINE R == PageRows(d)[c.page]
  <2>2. \A k \in 1 .. m : R[c.first + k - 1] = <<c.page, c.first + k - 1>>
    BY <1>4, <2>1
  <2> HIDE DEF R
  <2>3. r = Piece(R, c.first, c.last)
    BY <2>2 DEF ChunkRow, Piece
  <2> QED
    BY <2>3 DEF R
<1> HIDE DEF r, m
<1>6. r \in Seq(Places) /\ Len(r) = m
  BY <1>2, <1>3
<1> QED
  BY <1>5, <1>6 DEF r, m

(* The rows of chunks are lists of places. *)
LEMMA ChunkRowsAre ==
    ASSUME NEW d, DocOK(d)
    PROVE  /\ IsList(ChunkRows(d), Len(d.chunks), Seq(Places)) /\ Len(d.chunks) \in Nat
           /\ \A i \in 1 .. Len(d.chunks) :
                /\ ChunkRows(d)[i] = ChunkRow(d.chunks[i])
                /\ Len(ChunkRows(d)[i]) = d.chunks[i].last - d.chunks[i].first + 1
<1> DEFINE n == Len(d.chunks)
<1>1. n \in Nat /\ DOMAIN d.chunks = 1 .. n
  BY DocTypes
<1>2. ASSUME NEW i \in 1 .. n
      PROVE  /\ ChunkRow(d.chunks[i]) \in Seq(Places)
             /\ Len(ChunkRow(d.chunks[i])) = d.chunks[i].last - d.chunks[i].first + 1
  <2>1. ChunkOK(d, d.chunks[i]) /\ d.chunks[i].last \in Nat
    BY DocParts
  <2> DEFINE c == d.chunks[i]
  <2> HIDE DEF c
  <2>2. ChunkOK(d, c) /\ c.last \in Nat
    BY <2>1 DEF c
  <2>3. /\ ChunkRow(c) \in Seq(Places) /\ Len(ChunkRow(c)) = c.last - c.first + 1
        /\ ChunkRow(c) = Piece(PageRows(d)[c.page], c.first, c.last)
    BY <2>2, ChunkRowIs
  <2> QED
    BY <2>3 DEF c
<1>3. ChunkRows(d) = [i \in 1 .. n |-> ChunkRow(d.chunks[i])]
  BY <1>1 DEF ChunkRows
<1> HIDE DEF n
<1>4. \A i \in 1 .. n : ChunkRows(d)[i] = ChunkRow(d.chunks[i])
  BY <1>3
<1>5. IsList(ChunkRows(d), n, Seq(Places))
  BY <1>2, <1>3 DEF IsList
<1> QED
  BY <1>1, <1>2, <1>4, <1>5 DEF n

(* The row of a span is a part of the row of its chunk. *)
LEMMA SpanRowIs ==
    ASSUME NEW d, DocOK(d), NEW s, SpanOK(d, s), s.first \in Nat, s.last \in Nat
    PROVE  LET first == d.chunks[s.chunk].first
           IN SpanRow(d, s) = Piece(ChunkRows(d)[s.chunk], s.first - first + 1, s.last - first + 1)
<1> DEFINE c == d.chunks[s.chunk]
<1> DEFINE a == s.first - c.first + 1
<1> DEFINE b == s.last - c.first + 1
<1>1. s.chunk \in 1 .. Len(d.chunks) /\ c.first <= s.first /\ s.first <= s.last /\ s.last <= c.last
  BY DEF SpanOK
<1>2. c.first \in Nat /\ c.last \in Nat
  BY <1>1, DocParts DEF ChunkOK
<1>3. ChunkRows(d)[s.chunk] = ChunkRow(c)
  BY <1>1, ChunkRowsAre
<1> HIDE DEF c
<1>4. ASSUME NEW k \in 1 .. (s.last - s.first + 1)
      PROVE  ChunkRow(c)[a + k - 1] = <<c.page, s.first + k - 1>>
  <2>1. a + k - 1 \in 1 .. (c.last - c.first + 1)
    <3> DEFINE v == c.first
    <3> DEFINE w == c.last
    <3> DEFINE y == s.first
    <3> DEFINE z == s.last
    <3>1. v \in Nat /\ w \in Nat /\ y \in Nat /\ z \in Nat /\ v <= y /\ y <= z /\ z <= w
          /\ k \in 1 .. (z - y + 1) /\ a = y - v + 1
      BY <1>1, <1>2
    <3> HIDE DEF v, w, y, z, a
    <3>2. a + k - 1 \in 1 .. (w - v + 1)
      BY <3>1
    <3> QED
      BY <3>2 DEF w, v
  <2>2. c.first + (a + k - 1) - 1 = s.first + k - 1
    BY <1>1, <1>2
  <2> QED
    BY <2>1, <2>2 DEF ChunkRow
<1>5. b - a + 1 = s.last - s.first + 1
  BY <1>1, <1>2
<1>6. SpanRow(d, s) = [k \in 1 .. (s.last - s.first + 1) |-> <<c.page, s.first + k - 1>>]
  BY DEF SpanRow, c
<1>7. SpanRow(d, s) = Piece(ChunkRow(c), a, b)
  <2> DEFINE R == ChunkRow(c)
  <2> HIDE DEF R
  <2>1. \A k \in 1 .. (s.last - s.first + 1) : R[a + k - 1] = <<c.page, s.first + k - 1>>
    BY <1>4 DEF R
  <2> HIDE DEF a, b
  <2>2. SpanRow(d, s) = Piece(R, a, b)
    BY <1>5, <1>6, <2>1 DEF Piece
  <2> QED
    BY <2>2 DEF R
<1> QED
  BY <1>3, <1>7 DEF a, b, c

-----------------------------------------------------------------------------
(* The words that are cut.                                                 *)

(* The last word of a chunk, and that of a span, as a place in the rows.   *)
LastCut ==
  IF doc.chunks = <<>> THEN <<1, 0>>
  ELSE <<doc.chunks[Len(doc.chunks)].page, doc.chunks[Len(doc.chunks)].last>>
LastCovered ==
  IF doc.spans = <<>> THEN <<1, 0>>
  ELSE <<doc.spans[Len(doc.spans)].chunk,
         doc.spans[Len(doc.spans)].last - doc.chunks[doc.spans[Len(doc.spans)].chunk].first + 1>>

(* A sequence that is not empty has a last element. *)
LEMMA LastElement ==
    ASSUME NEW T, NEW s \in Seq(T), s # <<>>
    PROVE  Len(s) \in 1 .. Len(s)
OBVIOUS

(* Uncut holds the words after the last cut one. *)
LEMMA UncutHas ==
    ASSUME DocOK(doc)
    PROVE  \A c \in 1 .. Len(doc.pages) : \A w \in 1 .. Len(doc.pages[c]) :
             <<c, w>> \in Uncut <=> After(LastCut[1], LastCut[2], c, w)
<1> DEFINE n == Len(doc.pages)
<1>1. n \in Nat /\ DOMAIN doc.pages = 1 .. n
  BY DocTypes
<1>2. \A p \in 1 .. n : Len(doc.pages[p]) \in Nat /\ DOMAIN doc.pages[p] = 1 .. Len(doc.pages[p])
  BY PageTypes DEF DocOK
<1>3. LastCut = <<LastCut[1], LastCut[2]>> /\ LastCut[1] \in Int /\ LastCut[2] \in Int
  <2>1. CASE doc.chunks = <<>>
    BY <2>1 DEF LastCut
  <2>2. CASE doc.chunks # <<>>
    <3> DEFINE m == Len(doc.chunks)
    <3>1. doc.chunks \in Seq(ChunkRecords)
      BY DocTypes
    <3>2. m \in 1 .. m
      BY <2>2, <3>1, LastElement
    <3>3. ChunkOK(doc, doc.chunks[m]) /\ doc.chunks[m].last \in Nat
      BY <3>2, DocParts
    <3>4. doc.chunks[m].page \in Int
      BY <1>1, <3>3 DEF ChunkOK
    <3> QED
      BY <2>2, <3>3, <3>4 DEF LastCut
  <2> QED
    BY <2>1, <2>2
<1>4. Uncut = {w \in UNION {{p} \X DOMAIN doc.pages[p] : p \in DOMAIN doc.pages} : Before(LastCut, w)}
  BY DEF Uncut, LastCut
<1> SUFFICES ASSUME NEW c \in 1 .. n, NEW w \in 1 .. Len(doc.pages[c])
             PROVE  <<c, w>> \in Uncut <=> After(LastCut[1], LastCut[2], c, w)
  OBVIOUS
<1>5. <<c, w>> \in UNION {{p} \X DOMAIN doc.pages[p] : p \in DOMAIN doc.pages}
  BY <1>1, <1>2
<1>6. Before(<<LastCut[1], LastCut[2]>>, <<c, w>>) <=> After(LastCut[1], LastCut[2], c, w)
  <2> DEFINE a == LastCut[1]
  <2> DEFINE b == LastCut[2]
  <2>1. a \in Int /\ b \in Int /\ c \in Int /\ w \in Int
    BY <1>3
  <2> HIDE DEF a, b
  <2>2. Before(<<a, b>>, <<c, w>>) <=> After(a, b, c, w)
    BY <2>1, BeforeOfPairs
  <2> QED
    BY <2>2 DEF a, b
<1> QED
  BY <1>3, <1>4, <1>5, <1>6

(* Uncovered holds the words of chunks after the last covered one. *)
LEMMA UncoveredHas ==
    ASSUME DocOK(doc)
    PROVE  \A c \in 1 .. Len(doc.chunks) : \A w \in doc.chunks[c].first .. doc.chunks[c].last :
             <<c, w>> \in Uncovered <=>
               After(LastCovered[1], LastCovered[2], c, w - doc.chunks[c].first + 1)
<1> DEFINE n == Len(doc.chunks)
<1>1. n \in Nat /\ DOMAIN doc.chunks = 1 .. n
  BY DocTypes
<1>2. \A c \in 1 .. n : doc.chunks[c].first \in Nat \ {0} /\ doc.chunks[c].last \in Nat
  BY DocParts DEF ChunkOK
<1> SUFFICES ASSUME NEW c \in 1 .. n, NEW w \in doc.chunks[c].first .. doc.chunks[c].last
             PROVE  <<c, w>> \in Uncovered <=>
                      After(LastCovered[1], LastCovered[2], c, w - doc.chunks[c].first + 1)
  OBVIOUS
<1> DEFINE last == IF doc.spans = <<>> THEN <<1, 0>>
                   ELSE <<doc.spans[Len(doc.spans)].chunk, doc.spans[Len(doc.spans)].last>>
<1>3. Uncovered = {x \in UNION {{q} \X (doc.chunks[q].first .. doc.chunks[q].last) : q \in DOMAIN doc.chunks} :
                     Before(last, x)}
  BY DEF Uncovered
<1>4. <<c, w>> \in UNION {{q} \X (doc.chunks[q].first .. doc.chunks[q].last) : q \in DOMAIN doc.chunks}
  BY <1>1
<1>5. <<c, w>> \in Uncovered <=> Before(last, <<c, w>>)
  <2> HIDE DEF last
  <2> QED
    BY <1>3, <1>4
<1> DEFINE f == doc.chunks[c].first
<1>6. f \in Nat \ {0} /\ w \in Int /\ w >= f /\ c \in Int
  BY <1>2
<1>7. CASE doc.spans = <<>>
  <2>1. last = <<1, 0>> /\ LastCovered[1] = 1 /\ LastCovered[2] = 0
    BY <1>7 DEF LastCovered
  <2> HIDE DEF last, f
  <2>2. Before(<<1, 0>>, <<c, w>>) <=> After(1, 0, c, w)
    BY <1>6, BeforeOfPairs, 0 \in Int, 1 \in Int
  <2>3. After(1, 0, c, w) <=> After(1, 0, c, w - f + 1)
    BY <1>6 DEF After
  <2> QED
    BY <1>5, <2>1, <2>2, <2>3 DEF f
<1>8. CASE doc.spans # <<>>
  <2> DEFINE m == Len(doc.spans)
  <2> DEFINE a == doc.spans[m].chunk
  <2> DEFINE b == doc.spans[m].last
  <2>1. doc.spans \in Seq(SpanRecords)
    BY DocTypes
  <2>2. m \in 1 .. m
    BY <1>8, <2>1, LastElement
  <2>3. SpanOK(doc, doc.spans[m]) /\ b \in Nat
    BY <2>2, DocParts
  <2>4. a \in 1 .. n
    BY <2>3 DEF SpanOK
  <2>5. last = <<a, b>> /\ LastCovered[1] = a /\ LastCovered[2] = b - doc.chunks[a].first + 1
    BY <1>8 DEF LastCovered
  <2>6. doc.chunks[a].first \in Nat /\ a \in Int /\ b \in Int
    BY <1>1, <1>2, <2>3, <2>4
  <2> HIDE DEF last, f, a, b
  <2>7. Before(<<a, b>>, <<c, w>>) <=> After(a, b, c, w)
    BY <1>6, <2>6, BeforeOfPairs
  <2>8. After(a, b, c, w) <=> After(a, b - doc.chunks[a].first + 1, c, w - f + 1)
    <3>1. a = c => f = doc.chunks[a].first
      BY DEF f
    <3> QED
      BY <1>6, <2>6, <3>1 DEF After
  <2> QED
    BY <1>5, <2>5, <2>7, <2>8 DEF f
<1> QED
  BY <1>7, <1>8

(* The chunks are the words up to the last one cut, the spans those of the *)
(* chunks up to the last one covered.                                      *)
ChunksPlaced ==
  Placed(PageRows(doc), Len(doc.pages), Places, FlattenSeq(ChunkRows(doc)), LastCut[1], LastCut[2])
SpansPlaced ==
  Placed(ChunkRows(doc), Len(doc.chunks), Places, FlattenSeq(SpanRows(doc)),
         LastCovered[1], LastCovered[2])

TilingInv ==
  /\ ScanInv
  /\ doc.chunks # <<>> => unread = <<>> /\ ChunksPlaced
  /\ doc.spans # <<>> => Uncut = {} /\ SpansPlaced
  /\ \A s \in 1 .. Len(doc.spans) : SpanFits(doc, doc.spans[s])

(* No rows concatenate to nothing. *)
LEMMA NoRows ==
    /\ doc.chunks = <<>> => ChunkRows(doc) = <<>> /\ LastCut[1] = 1 /\ LastCut[2] = 0
    /\ doc.spans = <<>> => SpanRows(doc) = <<>> /\ LastCovered[1] = 1 /\ LastCovered[2] = 0
BY DEF ChunkRows, SpanRows, LastCut, LastCovered

(* A sequence is empty exactly when its length is 0. *)
LEMMA EmptyIs ==
    ASSUME NEW T, NEW s \in Seq(T)
    PROVE  (s = <<>>) <=> (Len(s) = 0)
OBVIOUS

(* Also before the first one is cut.                                       *)
LEMMA PlacedAlways ==
    ASSUME TilingInv
    PROVE  /\ doc.pages # <<>> => ChunksPlaced
           /\ doc.chunks # <<>> => SpansPlaced
<1>1. DocOK(doc)
  BY DEF TilingInv, ScanInv, Extraction
<1>2. /\ IsList(PageRows(doc), Len(doc.pages), Seq(Places)) /\ Len(doc.pages) \in Nat
      /\ IsList(ChunkRows(doc), Len(doc.chunks), Seq(Places)) /\ Len(doc.chunks) \in Nat
  BY <1>1, PageRowsAre, ChunkRowsAre
<1>3. (doc.pages = <<>> <=> Len(doc.pages) = 0) /\ (doc.chunks = <<>> <=> Len(doc.chunks) = 0)
  <2>1. doc.pages \in Seq(Seq(Words)) /\ doc.chunks \in Seq(ChunkRecords)
    BY <1>1, DocTypes
  <2> QED
    BY <2>1, EmptyIs
<1>4. ASSUME doc.pages # <<>>, doc.chunks = <<>> PROVE ChunksPlaced
  <2>1. Placed(PageRows(doc), Len(doc.pages), Places, FlattenSeq(<<>>), 1, 0)
    BY <1>2, <1>3, <1>4, PlacedFirst
  <2> QED
    BY <1>4, <2>1, NoRows DEF ChunksPlaced
<1>5. ASSUME doc.chunks # <<>>, doc.spans = <<>> PROVE SpansPlaced
  <2>1. Placed(ChunkRows(doc), Len(doc.chunks), Places, FlattenSeq(<<>>), 1, 0)
    BY <1>2, <1>3, <1>5, PlacedFirst
  <2> QED
    BY <1>5, <2>1, NoRows DEF SpansPlaced
<1> QED
  BY <1>4, <1>5 DEF TilingInv

(* The next word is the one behind the last.                               *)
LEMMA NextUncut ==
    ASSUME DocOK(doc), NEW c, ChunkCut(c)
    PROVE  NextTo(PageRows(doc), Len(doc.pages), LastCut[1], LastCut[2], c.page, c.first)
<1> DEFINE n == Len(doc.pages)
<1> DEFINE W == PageRows(doc)
<1>1. /\ n \in Nat
      /\ \A p \in 1 .. n : Len(W[p]) = Len(doc.pages[p]) /\ Len(doc.pages[p]) \in Nat
  BY PageRowsAre
<1>2. /\ c.page \in 1 .. n /\ c.first \in Nat \ {0}
      /\ c.first <= c.last /\ c.last <= Len(doc.pages[c.page]) /\ c.last \in Nat
  BY DEF ChunkCut, ChunkOK, ChunkRecords
<1>3. /\ <<c.page, c.first>> \in Uncut
      /\ \A y \in Uncut : y = <<c.page, c.first>> \/ Before(<<c.page, c.first>>, y)
  BY DEF ChunkCut
<1>4. \A p \in 1 .. n : \A w \in 1 .. Len(doc.pages[p]) :
        <<p, w>> \in Uncut <=> After(LastCut[1], LastCut[2], p, w)
  BY UncutHas
<1> DEFINE a == c.page
<1> DEFINE b == c.first
<1>5. a \in 1 .. n /\ b \in 1 .. Len(doc.pages[a])
  BY <1>1, <1>2
<1>6. After(LastCut[1], LastCut[2], a, b)
  BY <1>3, <1>4, <1>5
<1> HIDE DEF a, b, W, n
<1>7. \A p \in 1 .. n : \A w \in 1 .. Len(doc.pages[p]) :
        After(LastCut[1], LastCut[2], p, w) => (p = a /\ w = b) \/ After(a, b, p, w)
  <2> SUFFICES ASSUME NEW p \in 1 .. n, NEW w \in 1 .. Len(doc.pages[p]),
                      After(LastCut[1], LastCut[2], p, w)
               PROVE  (p = a /\ w = b) \/ After(a, b, p, w)
    OBVIOUS
  <2>1. <<p, w>> \in Uncut
    BY <1>4 DEF n
  <2>2. <<p, w>> = <<a, b>> \/ Before(<<a, b>>, <<p, w>>)
    BY <1>3, <2>1 DEF a, b
  <2>3. Before(<<a, b>>, <<p, w>>) <=> After(a, b, p, w)
    <3>1. a \in Int /\ b \in Int /\ p \in Int /\ w \in Int
      BY <1>1, <1>5
    <3> QED
      BY <3>1, BeforeOfPairs
  <2> QED
    BY <2>2, <2>3
<1> QED
  BY <1>1, <1>6, <1>7 DEF NextTo, a, b, W, n

(* The first uncovered word comes next after the last covered one. *)
LEMMA NextUncovered ==
    ASSUME DocOK(doc), NEW s, SpanCut(s), NEW f, f = doc.chunks[s.chunk].first
    PROVE  NextTo(ChunkRows(doc), Len(doc.chunks), LastCovered[1], LastCovered[2],
                  s.chunk, s.first - f + 1)
<1> DEFINE n == Len(doc.chunks)
<1> DEFINE W == ChunkRows(doc)
<1> DEFINE lo(i) == doc.chunks[i].first
<1> DEFINE hi(i) == doc.chunks[i].last
<1>1. /\ n \in Nat
      /\ \A i \in 1 .. n : Len(W[i]) = hi(i) - lo(i) + 1
  BY ChunkRowsAre
<1>2. \A i \in 1 .. n : lo(i) \in Nat /\ hi(i) \in Nat
  BY DocParts DEF ChunkOK
<1>3. /\ <<s.chunk, s.first>> \in Uncovered
      /\ \A y \in Uncovered : y = <<s.chunk, s.first>> \/ Before(<<s.chunk, s.first>>, y)
  BY DEF SpanCut
<1>4. \A i \in 1 .. n : \A w \in lo(i) .. hi(i) :
        <<i, w>> \in Uncovered <=> After(LastCovered[1], LastCovered[2], i, w - lo(i) + 1)
  BY UncoveredHas
<1> DEFINE a == s.chunk
<1> DEFINE b == s.first
<1>5. a \in 1 .. n /\ b \in lo(a) .. hi(a) /\ f = lo(a)
  <2>1. s.chunk \in 1 .. Len(doc.chunks) /\ s.first \in Nat
    BY DEF SpanCut, SpanOK, SpanRecords
  <2>2. lo(a) <= b /\ b <= s.last /\ s.last <= hi(a) /\ s.last \in Nat
    BY DEF SpanCut, SpanOK, SpanRecords
  <2> QED
    BY <1>2, <2>1, <2>2
<1>6. After(LastCovered[1], LastCovered[2], a, b - f + 1)
  BY <1>3, <1>4, <1>5
<1> HIDE DEF a, b, W, n, lo, hi
<1>7. \A i \in 1 .. n : \A e \in 1 .. hi(i) - lo(i) + 1 :
        After(LastCovered[1], LastCovered[2], i, e) =>
          (i = a /\ e = b - f + 1) \/ After(a, b - f + 1, i, e)
  <2> SUFFICES ASSUME NEW i \in 1 .. n, NEW e \in 1 .. hi(i) - lo(i) + 1,
                      After(LastCovered[1], LastCovered[2], i, e)
               PROVE  (i = a /\ e = b - f + 1) \/ After(a, b - f + 1, i, e)
    OBVIOUS
  <2> DEFINE w == e + lo(i) - 1
  <2>1. w \in lo(i) .. hi(i) /\ w - lo(i) + 1 = e /\ w \in Int
    BY <1>2
  <2> HIDE DEF w
  <2>2. <<i, w>> \in Uncovered
    BY <1>4, <2>1
  <2>3. <<i, w>> = <<a, b>> \/ Before(<<a, b>>, <<i, w>>)
    BY <1>3, <2>2 DEF a, b
  <2>4. Before(<<a, b>>, <<i, w>>) <=> After(a, b, i, w)
    <3>1. a \in Int /\ b \in Int /\ i \in Int
      BY <1>2, <1>5
    <3> QED
      BY <2>1, <3>1, BeforeOfPairs
  <2>5. (i = a /\ w = b) \/ After(a, b, i, w)
    BY <2>3, <2>4
  <2> QED
    BY <1>2, <1>5, <2>1, <2>5 DEF After
<1> QED
  BY <1>1, <1>6, <1>7 DEF NextTo, a, b, W, n

(* A list is a sequence. *)
LEMMA ListIsSeq ==
    ASSUME NEW T, NEW n \in Nat, NEW s, IsList(s, n, T)
    PROVE  s \in Seq(T) /\ Len(s) = n /\ s = [i \in 1 .. n |-> s[i]]
<1>1. s \in [1 .. n -> T]
  BY DEF IsList
<1> QED
  BY <1>1

(* One more row.                                                           *)
LEMMA ListAppends ==
    ASSUME NEW T, NEW n \in Nat, NEW W, IsList(W, n, T), NEW x \in T,
           NEW V, V = [i \in 1 .. n + 1 |-> IF i = n + 1 THEN x ELSE W[i]]
    PROVE  V = Append(W, x)
<1>1. W \in Seq(T) /\ Len(W) = n
  BY ListIsSeq
<1>2. Append(W, x) \in Seq(T) /\ Len(Append(W, x)) = n + 1
  BY <1>1, AppendProperties
<1> DEFINE U == Append(W, x)
<1>3. /\ \A i \in 1 .. n : U[i] = W[i]
      /\ U[n + 1] = x
  BY <1>1
<1> HIDE DEF U
<1>4. U \in Seq(T) /\ Len(U) = n + 1 /\ U = [i \in 1 .. n + 1 |-> U[i]]
  <2>1. U \in Seq(T) /\ Len(U) = n + 1
    BY <1>2 DEF U
  <2> QED
    BY <2>1
<1>5. \A i \in 1 .. n + 1 : U[i] = IF i = n + 1 THEN x ELSE W[i]
  BY <1>3
<1> QED
  BY <1>4, <1>5 DEF U

(* A paper with one chunk, or one span, more.                              *)
MoreChunk(d, c, e) == e = [d EXCEPT !.chunks = Append(@, c)]
MoreSpan(d, s, e) == e = [d EXCEPT !.spans = Append(@, s)]

(* A chunk that is cut adds its row.                                       *)
LEMMA ChunkRowsGrow ==
    ASSUME NEW d, DocOK(d), NEW c \in ChunkRecords, ChunkOK(d, c), NEW e, MoreChunk(d, c, e)
    PROVE  /\ e.pages = d.pages /\ e.spans = d.spans /\ PageRows(e) = PageRows(d)
           /\ e.chunks # <<>> /\ e.chunks[Len(e.chunks)] = c
           /\ FlattenSeq(ChunkRows(e)) = FlattenSeq(ChunkRows(d)) \o ChunkRow(c)
<1> DEFINE n == Len(d.chunks)
<1> DEFINE chunks == Append(d.chunks, c)
<1>1. d.chunks \in Seq(ChunkRecords) /\ n \in Nat /\ d \in Docs
  BY DocTypes DEF DocOK
<1>2. e.pages = d.pages /\ e.spans = d.spans /\ e.chunks = chunks
  <2> HIDE DEF chunks
  <2>1. e = [d EXCEPT !.chunks = chunks]
    BY DEF chunks, MoreChunk
  <2> QED
    BY <1>1, <2>1 DEF Docs
<1>3. PageRows(e) = PageRows(d)
  BY <1>2 DEF PageRows
<1> HIDE DEF ChunkRecords
<1>4. /\ Len(chunks) = n + 1
      /\ \A i \in 1 .. n : chunks[i] = d.chunks[i]
      /\ chunks[n + 1] = c /\ chunks # <<>>
      /\ DOMAIN chunks = 1 .. n + 1
  <2>1. chunks \in Seq(ChunkRecords) /\ Len(chunks) = n + 1
        /\ (\A i \in 1 .. n : chunks[i] = d.chunks[i]) /\ chunks[n + 1] = c
    BY <1>1, AppendIs
  <2> HIDE DEF chunks, n
  <2> QED
    BY <1>1, <2>1
<1> HIDE DEF chunks
<1>5. ChunkRows(e) = [i \in 1 .. n + 1 |-> ChunkRow(chunks[i])]
  BY <1>2, <1>4 DEF ChunkRows
<1>6. /\ IsList(ChunkRows(d), n, Seq(Places))
      /\ \A i \in 1 .. n : ChunkRows(d)[i] = ChunkRow(d.chunks[i])
  BY ChunkRowsAre
<1>7. ChunkRow(c) \in Seq(Places)
  <2>1. c.last \in Nat
    BY DEF ChunkRecords
  <2>2. /\ ChunkRow(c) \in Seq(Places) /\ Len(ChunkRow(c)) = c.last - c.first + 1
        /\ ChunkRow(c) = Piece(PageRows(d)[c.page], c.first, c.last)
    BY <2>1, ChunkRowIs
  <2> QED
    BY <2>2
<1> DEFINE V == ChunkRows(e)
<1> DEFINE W == ChunkRows(d)
<1> DEFINE r == ChunkRow(c)
<1>8. V = [i \in 1 .. n + 1 |-> IF i = n + 1 THEN r ELSE W[i]]
  <2>1. \A i \in 1 .. n + 1 : ChunkRow(chunks[i]) = IF i = n + 1 THEN r ELSE W[i]
    <3> SUFFICES ASSUME NEW i \in 1 .. n + 1 PROVE ChunkRow(chunks[i]) = IF i = n + 1 THEN r ELSE W[i]
      OBVIOUS
    <3>1. CASE i = n + 1
      BY <1>4, <3>1
    <3>2. CASE i # n + 1
      <4>1. i \in 1 .. n
        BY <1>1, <3>2
      <4> QED
        BY <1>4, <1>6, <3>2, <4>1
    <3> QED
      BY <3>1, <3>2
  <2> HIDE DEF r, W
  <2> QED
    BY <1>5, <2>1
<1> HIDE DEF V, W, r
<1> DEFINE S == Seq(Places)
<1>9. V = Append(W, r)
  <2>1. IsList(W, n, S) /\ r \in S /\ n \in Nat
    BY <1>1, <1>6, <1>7 DEF W, r
  <2> HIDE DEF S, n
  <2> QED
    BY <1>8, <2>1, ListAppends
<1>10. FlattenSeq(Append(W, r)) = FlattenSeq(W) \o r
  <2>1. IsList(W, n, S) /\ r \in Seq(Places) /\ n \in Nat
    BY <1>1, <1>6, <1>7 DEF W, r
  <2>2. W \in Seq(S)
    <3> HIDE DEF S, n
    <3> QED
      BY <2>1, ListIsSeq
  <2>3. W \in Seq(Seq(Places))
    BY <2>2
  <2> QED
    BY <2>1, <2>3, FlattenAppend
<1> QED
  BY <1>2, <1>3, <1>4, <1>9, <1>10 DEF V, W, r

(* A span that is cut adds its row.                                        *)
SpanAdded(d, s, e) ==
  /\ e.pages = d.pages /\ e.chunks = d.chunks
  /\ PageRows(e) = PageRows(d) /\ ChunkRows(e) = ChunkRows(d)
  /\ e.spans # <<>> /\ e.spans[Len(e.spans)] = s
  /\ Len(e.spans) = Len(d.spans) + 1
  /\ \A i \in 1 .. Len(d.spans) : e.spans[i] = d.spans[i]
  /\ SpanRow(d, s) \in Seq(Places)
  /\ FlattenSeq(SpanRows(e)) = FlattenSeq(SpanRows(d)) \o SpanRow(d, s)

(* One more span appends its row. *)
LEMMA SpanRowsGrow ==
    ASSUME NEW d, DocOK(d), NEW s \in SpanRecords, SpanOK(d, s), NEW e, MoreSpan(d, s, e)
    PROVE  SpanAdded(d, s, e)
<1> DEFINE n == Len(d.spans)
<1> DEFINE spans == Append(d.spans, s)
<1>1. d.spans \in Seq(SpanRecords) /\ n \in Nat /\ d \in Docs /\ DOMAIN d.spans = 1 .. n
  BY DocTypes DEF DocOK
<1>2. e.pages = d.pages /\ e.chunks = d.chunks /\ e.spans = spans
  <2> HIDE DEF spans
  <2>1. e = [d EXCEPT !.spans = spans]
    BY DEF spans, MoreSpan
  <2> QED
    BY <1>1, <2>1 DEF Docs
<1>3. PageRows(e) = PageRows(d) /\ ChunkRows(e) = ChunkRows(d)
  BY <1>2 DEF PageRows, ChunkRows
<1> HIDE DEF SpanRecords
<1>4. /\ Len(spans) = n + 1
      /\ \A i \in 1 .. n : spans[i] = d.spans[i]
      /\ spans[n + 1] = s /\ spans # <<>>
      /\ DOMAIN spans = 1 .. n + 1
  <2>1. spans \in Seq(SpanRecords) /\ Len(spans) = n + 1
        /\ (\A i \in 1 .. n : spans[i] = d.spans[i]) /\ spans[n + 1] = s
    BY <1>1, AppendIs
  <2> HIDE DEF spans, n
  <2> QED
    BY <1>1, <2>1
<1> HIDE DEF spans
<1> DEFINE row(x) == SpanRow(d, x)
<1>5. SpanRows(e) = [i \in 1 .. n + 1 |-> row(spans[i])] /\ SpanRows(d) = [i \in 1 .. n |-> row(d.spans[i])]
  BY <1>1, <1>2, <1>4 DEF SpanRows, SpanRow
<1>6. ASSUME NEW x, SpanOK(d, x), x.first \in Nat, x.last \in Nat PROVE row(x) \in Seq(Places)
  <2> DEFINE page == d.chunks[x.chunk].page
  <2> DEFINE a == x.first
  <2> DEFINE b == x.last
  <2> DEFINE m == b - a + 1
  <2> DEFINE r == [k \in 1 .. m |-> <<page, a + k - 1>>]
  <2>1. row(x) = r
    BY DEF SpanRow
  <2>2. x.chunk \in 1 .. Len(d.chunks) /\ a <= b
    BY <1>6 DEF SpanOK
  <2>3. ChunkOK(d, d.chunks[x.chunk]) /\ Len(d.pages) \in Nat
    BY <2>2, DocParts, DocTypes
  <2>4. page \in Nat /\ a \in Nat /\ b \in Nat /\ m \in Nat
    <3>1. page \in Nat
      BY <2>3 DEF ChunkOK
    <3>2. a \in Nat /\ b \in Nat
      BY <1>6
    <3> HIDE DEF page, a, b
    <3> QED
      BY <2>2, <3>1, <3>2
  <2> HIDE DEF page, a, b
  <2>5. r \in [1 .. m -> Places]
    BY <2>4 DEF Places
  <2> HIDE DEF r, m
  <2>6. r \in Seq(Places)
    BY <2>4, <2>5
  <2> QED
    BY <2>1, <2>6
<1>7. row(s) \in Seq(Places) /\ IsList(SpanRows(d), n, Seq(Places))
  <2>1. s.first \in Nat /\ s.last \in Nat
    BY DEF SpanRecords
  <2>2. \A i \in 1 .. n : SpanOK(d, d.spans[i]) /\ d.spans[i].last \in Nat /\ d.spans[i].first \in Nat
    BY DocParts
  <2>3. row(s) \in Seq(Places)
    BY <1>6, <2>1
  <2>4. \A i \in 1 .. n : row(d.spans[i]) \in Seq(Places)
    BY <1>6, <2>2
  <2> HIDE DEF row, n
  <2> QED
    BY <1>5, <2>3, <2>4 DEF IsList
<1> DEFINE V == SpanRows(e)
<1> DEFINE W == SpanRows(d)
<1> DEFINE r == row(s)
<1>8. V = [i \in 1 .. n + 1 |-> IF i = n + 1 THEN r ELSE W[i]]
  <2> HIDE DEF row
  <2>1. \A i \in 1 .. n + 1 : row(spans[i]) = IF i = n + 1 THEN r ELSE W[i]
    <3> SUFFICES ASSUME NEW i \in 1 .. n + 1 PROVE row(spans[i]) = IF i = n + 1 THEN r ELSE W[i]
      OBVIOUS
    <3>1. CASE i = n + 1
      BY <1>4, <3>1
    <3>2. CASE i # n + 1
      <4>1. i \in 1 .. n
        BY <1>1, <3>2
      <4> QED
        BY <1>4, <1>5, <3>2, <4>1
    <3> QED
      BY <3>1, <3>2
  <2> HIDE DEF r, W
  <2> QED
    BY <1>5, <2>1
<1> HIDE DEF V, W, r, row
<1> DEFINE S == Seq(Places)
<1>9. V = Append(W, r)
  <2>1. IsList(W, n, S) /\ r \in S /\ n \in Nat
    BY <1>1, <1>7 DEF W, r
  <2> HIDE DEF S, n
  <2> QED
    BY <1>8, <2>1, ListAppends
<1>10. FlattenSeq(Append(W, r)) = FlattenSeq(W) \o r
  <2>1. IsList(W, n, S) /\ r \in Seq(Places) /\ n \in Nat
    BY <1>1, <1>7 DEF W, r
  <2>2. W \in Seq(S)
    <3> HIDE DEF S, n
    <3> QED
      BY <2>1, ListIsSeq
  <2>3. W \in Seq(Seq(Places))
    BY <2>2
  <2> QED
    BY <2>1, <2>3, FlattenAppend
<1> QED
  BY <1>2, <1>3, <1>4, <1>7, <1>9, <1>10 DEF SpanAdded, V, W, r, row

(* A chunk is cut where the last one ended.                                *)
LEMMA CutChunkTiles ==
    ASSUME TilingInv, CutChunk
    PROVE  TilingInv'
<1>1. ScanInv' /\ ScanInv /\ Extraction /\ DocOK(doc)
  <2>1. ScanInv /\ [Next]_vars
    BY DEF TilingInv, Next
  <2>2. ScanInv'
    BY <2>1, ScanInvStep
  <2> QED
    BY <2>1, <2>2 DEF ScanInv, Extraction
<1>2. unread = <<>> /\ Uncut # {} /\ doc.spans = <<>>
  BY DEF CutChunk, TilingInv
<1>3. PICK c : ChunkCut(c)
  BY <1>1, CutChunkIs
<1>4. /\ c \in ChunkRecords /\ ChunkOK(doc, c) /\ unread' = unread
      /\ doc' = [doc EXCEPT !.chunks = Append(@, c)]
  BY <1>3 DEF ChunkCut
<1>5. /\ doc'.pages = doc.pages /\ doc'.spans = doc.spans /\ PageRows(doc') = PageRows(doc)
      /\ doc'.chunks # <<>> /\ doc'.chunks[Len(doc'.chunks)] = c
      /\ FlattenSeq(ChunkRows(doc')) = FlattenSeq(ChunkRows(doc)) \o ChunkRow(c)
  <2> DEFINE x == doc'
  <2>1. DocOK(doc) /\ c \in ChunkRecords /\ ChunkOK(doc, c) /\ MoreChunk(doc, c, x)
    BY <1>1, <1>4 DEF MoreChunk
  <2> HIDE DEF x
  <2>2. /\ x.pages = doc.pages /\ x.spans = doc.spans /\ PageRows(x) = PageRows(doc)
        /\ x.chunks # <<>> /\ x.chunks[Len(x.chunks)] = c
        /\ FlattenSeq(ChunkRows(x)) = FlattenSeq(ChunkRows(doc)) \o ChunkRow(c)
    BY <2>1, ChunkRowsGrow
  <2> QED
    BY <2>2 DEF x
<1> DEFINE W == PageRows(doc)
<1> DEFINE n == Len(doc.pages)
<1> DEFINE J == FlattenSeq(ChunkRows(doc))
<1> DEFINE p == LastCut[1]
<1> DEFINE l == LastCut[2]
<1> DEFINE a == c.page
<1> DEFINE b == c.first
<1> DEFINE e == c.last
<1>6. /\ a \in 1 .. n /\ b \in Nat \ {0} /\ b <= e /\ e <= Len(doc.pages[a]) /\ e \in Nat
  BY <1>4 DEF ChunkOK, ChunkRecords
<1>7. /\ IsList(W, n, Seq(Places)) /\ n \in Nat
      /\ Len(W[a]) = Len(doc.pages[a]) /\ Len(doc.pages[a]) \in Nat
  BY <1>1, <1>6, PageRowsAre
<1>8. doc.pages # <<>>
  <2>1. doc.pages = <<>> => Len(doc.pages) = 0
    OBVIOUS
  <2> QED
    BY <1>6, <2>1
<1>9. Placed(W, n, Places, J, p, l)
  BY <1>8, PlacedAlways DEF ChunksPlaced
<1>10. NextTo(W, n, p, l, a, b)
  BY <1>1, <1>3, NextUncut
<1>11. ChunkRow(c) = Piece(W[a], b, e)
  <2>1. c.last \in Nat
    BY <1>6
  <2>2. /\ ChunkRow(c) \in Seq(Places) /\ Len(ChunkRow(c)) = c.last - c.first + 1
        /\ ChunkRow(c) = Piece(PageRows(doc)[c.page], c.first, c.last)
    BY <1>1, <1>4, <2>1, ChunkRowIs
  <2> QED
    BY <2>2
<1>12. LastCut' = <<a, e>>
  BY <1>5 DEF LastCut
<1> HIDE DEF W, n, J, p, l, a, b, e
<1>13. a \in 1 .. n /\ b \in 1 .. Len(W[a]) /\ e \in b .. Len(W[a])
  <2> DEFINE m == Len(W[a])
  <2>1. m \in Nat /\ e <= m
    BY <1>6, <1>7
  <2> HIDE DEF m
  <2>2. b \in 1 .. m /\ e \in b .. m
    BY <1>6, <2>1
  <2> QED
    BY <1>6, <2>2 DEF m
<1>14. /\ Placed(W, n, Places, J \o Piece(W[a], b, e), a, e)
       /\ Piece(W[a], b, e) \in Seq(Places)
  BY <1>7, <1>9, <1>10, <1>13, PlacedNext
<1>15. ChunksPlaced'
  <2>1. LastCut'[1] = a /\ LastCut'[2] = e
    BY <1>12
  <2>2. FlattenSeq(ChunkRows(doc')) = J \o Piece(W[a], b, e)
    BY <1>5, <1>11 DEF J
  <2>3. PageRows(doc') = W /\ Len(doc'.pages) = n
    BY <1>5 DEF W, n
  <2>4. Placed(PageRows(doc'), Len(doc'.pages), Places, FlattenSeq(ChunkRows(doc')), LastCut'[1], LastCut'[2])
    BY <1>14, <2>1, <2>2, <2>3
  <2> QED
    BY <2>4 DEF ChunksPlaced
<1>16. doc'.spans = <<>> /\ Len(doc'.spans) = 0
  BY <1>2, <1>5
<1> QED
  BY <1>1, <1>2, <1>4, <1>15, <1>16 DEF TilingInv

(* And a span where the last one ended.                                    *)
LEMMA CutSpanTiles ==
    ASSUME TilingInv, CutSpan
    PROVE  TilingInv'
<1>1. ScanInv' /\ ScanInv /\ Extraction /\ DocOK(doc)
  <2>1. ScanInv /\ [Next]_vars
    BY DEF TilingInv, Next
  <2>2. ScanInv'
    BY <2>1, ScanInvStep
  <2> QED
    BY <2>1, <2>2 DEF ScanInv, Extraction
<1>2. unread = <<>> /\ Uncut = {}
  BY DEF CutSpan
<1>3. PICK s : SpanCut(s)
  BY <1>1, CutSpanIs
<1>4. /\ s \in SpanRecords /\ SpanOK(doc, s) /\ SpanFits(doc, s) /\ unread' = unread
      /\ doc' = [doc EXCEPT !.spans = Append(@, s)]
  BY <1>3 DEF SpanCut
<1>5. /\ doc'.pages = doc.pages /\ doc'.chunks = doc.chunks
      /\ PageRows(doc') = PageRows(doc) /\ ChunkRows(doc') = ChunkRows(doc)
      /\ doc'.spans # <<>> /\ doc'.spans[Len(doc'.spans)] = s
      /\ Len(doc'.spans) = Len(doc.spans) + 1
      /\ \A i \in 1 .. Len(doc.spans) : doc'.spans[i] = doc.spans[i]
      /\ SpanRow(doc, s) \in Seq(Places)
      /\ FlattenSeq(SpanRows(doc')) = FlattenSeq(SpanRows(doc)) \o SpanRow(doc, s)
  <2> DEFINE x == doc'
  <2>1. DocOK(doc) /\ s \in SpanRecords /\ SpanOK(doc, s) /\ MoreSpan(doc, s, x)
    BY <1>1, <1>4 DEF MoreSpan
  <2> HIDE DEF x
  <2>2. SpanAdded(doc, s, x)
    BY <2>1, SpanRowsGrow
  <2> QED
    BY <2>2 DEF x, SpanAdded
<1> DEFINE W == ChunkRows(doc)
<1> DEFINE n == Len(doc.chunks)
<1> DEFINE J == FlattenSeq(SpanRows(doc))
<1> DEFINE p == LastCovered[1]
<1> DEFINE l == LastCovered[2]
<1> DEFINE f == doc.chunks[s.chunk].first
<1> DEFINE a == s.chunk
<1> DEFINE b == s.first - f + 1
<1> DEFINE e == s.last - f + 1
<1>6. /\ a \in 1 .. n /\ f <= s.first /\ s.first <= s.last /\ s.last <= doc.chunks[a].last
      /\ s.first \in Nat /\ s.last \in Nat
  BY <1>4 DEF SpanOK, SpanRecords
<1>7. f \in Nat /\ doc.chunks[a].last \in Nat
  <2>1. ChunkOK(doc, doc.chunks[a]) /\ doc.chunks[a].last \in Nat
    BY <1>1, <1>6, DocParts
  <2> QED
    BY <2>1 DEF ChunkOK
<1>8. /\ IsList(W, n, Seq(Places)) /\ n \in Nat
      /\ Len(W[a]) = doc.chunks[a].last - f + 1
  BY <1>1, <1>6, ChunkRowsAre
<1>9. doc.chunks # <<>>
  <2>1. doc.chunks = <<>> => Len(doc.chunks) = 0
    OBVIOUS
  <2> QED
    BY <1>6, <2>1
<1>10. Placed(W, n, Places, J, p, l)
  BY <1>9, PlacedAlways DEF SpansPlaced
<1>11. NextTo(W, n, p, l, a, b)
  <2> DEFINE g == f
  <2>1. g = doc.chunks[s.chunk].first
    OBVIOUS
  <2> HIDE DEF g
  <2>2. NextTo(ChunkRows(doc), Len(doc.chunks), LastCovered[1], LastCovered[2],
               s.chunk, s.first - g + 1)
    BY <1>1, <1>3, <2>1, NextUncovered
  <2> QED
    BY <2>2 DEF g
<1>12. SpanRow(doc, s) = Piece(W[a], b, e)
  BY <1>1, <1>4, <1>6, SpanRowIs
<1>13. LastCovered' = <<a, e>>
  BY <1>5 DEF LastCovered
<1>14. a \in 1 .. n /\ b \in 1 .. Len(W[a]) /\ e \in b .. Len(W[a])
  <2> DEFINE k == doc.chunks[a].last
  <2> DEFINE x == s.first
  <2> DEFINE y == s.last
  <2>1. /\ f \in Nat /\ k \in Nat /\ x \in Nat /\ y \in Nat /\ f <= x /\ x <= y /\ y <= k
        /\ Len(W[a]) = k - f + 1 /\ b = x - f + 1 /\ e = y - f + 1
    BY <1>6, <1>7, <1>8
  <2> HIDE DEF k, x, y, f, W, b, e
  <2>2. b \in 1 .. k - f + 1 /\ e \in b .. k - f + 1
    BY <2>1
  <2> QED
    BY <1>6, <2>1, <2>2
<1> HIDE DEF W, n, J, p, l, a, b, e, f
<1>15. /\ Placed(W, n, Places, J \o Piece(W[a], b, e), a, e)
       /\ Piece(W[a], b, e) \in Seq(Places)
  BY <1>8, <1>10, <1>11, <1>14, PlacedNext
<1>16. SpansPlaced'
  <2>1. LastCovered'[1] = a /\ LastCovered'[2] = e
    BY <1>13
  <2>2. FlattenSeq(SpanRows(doc')) = J \o Piece(W[a], b, e)
    BY <1>5, <1>12 DEF J
  <2>3. ChunkRows(doc') = W /\ Len(doc'.chunks) = n
    BY <1>5 DEF W, n
  <2>4. Placed(ChunkRows(doc'), Len(doc'.chunks), Places, FlattenSeq(SpanRows(doc')),
               LastCovered'[1], LastCovered'[2])
    BY <1>15, <2>1, <2>2, <2>3
  <2> QED
    BY <2>4 DEF SpansPlaced
<1>17. Uncut' = Uncut /\ LastCut' = LastCut
  BY <1>5 DEF Uncut, LastCut
<1>18. doc'.chunks # <<>> => unread' = <<>> /\ ChunksPlaced'
  <2>1. ChunksPlaced
    BY <1>9 DEF TilingInv
  <2>2. ChunksPlaced'
    BY <1>5, <1>17, <2>1 DEF ChunksPlaced
  <2> QED
    BY <1>2, <1>4, <2>2
<1>19. \A i \in 1 .. Len(doc'.spans) : SpanFits(doc', doc'.spans[i])
  <2>1. \A x : SpanFits(doc', x) <=> SpanFits(doc, x)
    BY <1>5 DEF SpanFits
  <2>2. \A i \in 1 .. Len(doc.spans) : SpanFits(doc, doc.spans[i])
    BY DEF TilingInv
  <2>3. Len(doc.spans) \in Nat
    BY <1>1, DocTypes
  <2>4. ASSUME NEW i \in 1 .. Len(doc'.spans) PROVE SpanFits(doc, doc'.spans[i])
    <3>1. i = Len(doc'.spans) \/ i \in 1 .. Len(doc.spans)
      BY <1>5, <2>3
    <3> QED
      BY <1>4, <1>5, <2>2, <3>1
  <2> QED
    BY <2>1, <2>4
<1> QED
  BY <1>1, <1>2, <1>16, <1>17, <1>18, <1>19 DEF TilingInv

(* Reading a page keeps the tiling: nothing is cut yet. *)
LEMMA ReadPageTiles ==
    ASSUME TilingInv, ReadPage
    PROVE  TilingInv'
<1>1. ScanInv /\ ScanInv' /\ DocOK(doc)
  <2>1. ScanInv /\ [Next]_vars
    BY DEF TilingInv, Next
  <2>2. ScanInv'
    BY <2>1, ScanInvStep
  <2> QED
    BY <2>1, <2>2 DEF ScanInv, Extraction
<1>2. doc.chunks = <<>>
  BY DEF ReadPage, TilingInv
<1>3. doc.spans = <<>>
  <2>1. doc.spans # <<>> => Len(doc.spans) \in 1 .. Len(doc.spans)
    <3>1. doc.spans \in Seq(SpanRecords)
      BY <1>1, DocTypes
    <3> QED
      BY <3>1, LastElement
  <2>2. \A i \in 1 .. Len(doc.spans) : SpanOK(doc, doc.spans[i])
    BY <1>1 DEF DocOK
  <2>3. Len(doc.chunks) = 0
    BY <1>2
  <2>4. \A x : ~ SpanOK(doc, x)
    BY <2>3 DEF SpanOK
  <2> QED
    BY <2>1, <2>2, <2>4
<1>4. doc'.chunks = doc.chunks /\ doc'.spans = doc.spans
  <2> DEFINE pages == Append(doc.pages, CanonicalWords(Head(unread)))
  <2>1. doc' = [doc EXCEPT !.pages = pages] /\ doc \in Docs
    BY <1>1 DEF ReadPage, DocOK
  <2> HIDE DEF pages
  <2> QED
    BY <2>1 DEF Docs
<1>5. Len(doc'.spans) = 0
  BY <1>3, <1>4
<1> QED
  BY <1>1, <1>2, <1>3, <1>4, <1>5 DEF TilingInv

(* Initially the tiling invariant holds. *)
LEMMA TilingInvInit == Init => TilingInv
<1> SUFFICES ASSUME Init PROVE TilingInv
  OBVIOUS
<1>1. ScanInv
  BY ScanInvInit
<1>2. doc.chunks = <<>> /\ doc.spans = <<>>
  BY DEF Init
<1>3. Len(doc.spans) = 0
  BY <1>2
<1> QED
  BY <1>1, <1>2, <1>3 DEF TilingInv

(* Every step keeps the tiling invariant. *)
LEMMA TilingInvStep ==
    ASSUME TilingInv, [Next]_vars
    PROVE  TilingInv'
<1>1. ScanInv'
  BY ScanInvStep DEF TilingInv
<1>2. ASSUME doc' = doc, unread' = unread PROVE TilingInv'
  BY <1>1, <1>2 DEF TilingInv, ChunksPlaced, SpansPlaced, Uncut, LastCut, LastCovered
<1>3. CASE ReadPage
  BY <1>3, ReadPageTiles
<1>4. CASE CutChunk
  BY <1>4, CutChunkTiles
<1>5. CASE CutSpan
  BY <1>5, CutSpanTiles
<1>6. CASE Ask
  BY <1>2, <1>6 DEF Ask, paper
<1>7. CASE SearchLexical
  BY <1>2, <1>7 DEF SearchLexical, paper
<1>8. CASE StartScan
  BY <1>2, <1>8 DEF StartScan, Stop, paper
<1>9. CASE ScanNextBlock
  BY <1>2, <1>9 DEF ScanNextBlock, paper
<1>10. CASE EndScan
  BY <1>2, <1>10 DEF EndScan, Stop, paper
<1>11. CASE Order
  BY <1>2, <1>11 DEF Order, paper
<1>12. CASE ResolveParent
  BY <1>2, <1>12 DEF ResolveParent, Stop, paper
<1>13. CASE RequestEvidence
  <2>1. UNCHANGED paper
    BY <1>13 DEF RequestEvidence
  <2> QED
    BY <1>2, <2>1 DEF paper
<1>14. CASE Build
  <2>1. UNCHANGED paper
    BY <1>14 DEF Build, Stop
  <2> QED
    BY <1>2, <2>1 DEF paper
<1>15. CASE VerifyProposal
  <2>1. UNCHANGED paper
    BY <1>15 DEF VerifyProposal
  <2> QED
    BY <1>2, <2>1 DEF paper
<1>16. CASE PublishDocument \/ PublishOther \/ PublishIndex
  BY <1>2, <1>16 DEF PublishDocument, PublishOther, PublishIndex, Publish, paper
<1>17. CASE UNCHANGED vars
  BY <1>2, <1>17 DEF vars, paper
<1> QED
  BY <1>3, <1>4, <1>5, <1>6, <1>7, <1>8, <1>9, <1>10, <1>11, <1>12, <1>13, <1>14, <1>15, <1>16,
     <1>17 DEF Next

(* While a paper is cut, its chunks are its words up to some word and its  *)
(* spans the words of its chunks up to some word, whatever the order in    *)
(* which sentence ends and token counts cut them.                          *)
THEOREM TilingInvariant == Spec => []TilingInv
BY TilingInvInit, TilingInvStep, PTL DEF Spec

(* When nothing is left to cut, the chunks are all the words.              *)
LEMMA ChunksAreThePages ==
    ASSUME TilingInv, Uncut = {}, unread = <<>>
    PROVE  FlattenSeq(ChunkRows(doc)) = FlattenSeq(PageRows(doc))
<1> DEFINE W == PageRows(doc)
<1> DEFINE n == Len(doc.pages)
<1> DEFINE J == FlattenSeq(ChunkRows(doc))
<1> DEFINE p == LastCut[1]
<1> DEFINE l == LastCut[2]
<1>1. DocOK(doc)
  BY DEF TilingInv, ScanInv, Extraction
<1>2. /\ IsList(W, n, Seq(Places)) /\ n \in Nat
      /\ \A c \in 1 .. n : Len(W[c]) = Len(doc.pages[c])
  BY <1>1, PageRowsAre
<1>3. doc.pages \in Seq(Seq(Words)) /\ doc.chunks \in Seq(ChunkRecords)
  BY <1>1, DocTypes
<1>4. CASE doc.pages = <<>>
  <2>1. \A x : ~ ChunkOK(doc, x)
    BY <1>4 DEF ChunkOK
  <2>2. doc.chunks = <<>>
    <3>1. doc.chunks # <<>> => Len(doc.chunks) \in 1 .. Len(doc.chunks)
      BY <1>3, LastElement
    <3> QED
      BY <1>1, <2>1, <3>1 DEF DocOK
  <2> QED
    BY <1>4, <2>2 DEF PageRows, ChunkRows
<1>5. CASE doc.pages # <<>>
  <2>1. Placed(W, n, Places, J, p, l)
    BY <1>5, PlacedAlways DEF ChunksPlaced
  <2>2. LastOf(W, n, p, l)
    <3>1. \A c \in 1 .. n : \A w \in 1 .. Len(doc.pages[c]) :
            <<c, w>> \in Uncut <=> After(p, l, c, w)
      BY <1>1, UncutHas
    <3> HIDE DEF p, l, W, n
    <3> QED
      BY <1>2, <3>1 DEF LastOf
  <2> HIDE DEF W, n, J, p, l
  <2>3. J = FlattenSeq(W)
    BY <1>2, <2>1, <2>2, PlacedLast
  <2> QED
    BY <2>3 DEF J, W
<1> QED
  BY <1>4, <1>5

(* When no word of them is left to cover, the spans are all of them too.   *)
LEMMA SpansAreTheChunks ==
    ASSUME TilingInv, Uncovered = {}
    PROVE  FlattenSeq(SpanRows(doc)) = FlattenSeq(ChunkRows(doc))
<1> DEFINE W == ChunkRows(doc)
<1> DEFINE n == Len(doc.chunks)
<1> DEFINE J == FlattenSeq(SpanRows(doc))
<1> DEFINE p == LastCovered[1]
<1> DEFINE l == LastCovered[2]
<1>1. DocOK(doc)
  BY DEF TilingInv, ScanInv, Extraction
<1>2. /\ IsList(W, n, Seq(Places)) /\ n \in Nat
      /\ \A c \in 1 .. n : Len(W[c]) = doc.chunks[c].last - doc.chunks[c].first + 1
  BY <1>1, ChunkRowsAre
<1>3. doc.chunks \in Seq(ChunkRecords) /\ doc.spans \in Seq(SpanRecords)
  BY <1>1, DocTypes
<1>4. CASE doc.chunks = <<>>
  <2>1. \A x : ~ SpanOK(doc, x)
    BY <1>4 DEF SpanOK
  <2>2. doc.spans = <<>>
    <3>1. doc.spans # <<>> => Len(doc.spans) \in 1 .. Len(doc.spans)
      BY <1>3, LastElement
    <3> QED
      BY <1>1, <2>1, <3>1 DEF DocOK
  <2> QED
    BY <1>4, <2>2 DEF SpanRows, ChunkRows
<1>5. CASE doc.chunks # <<>>
  <2>1. Placed(W, n, Places, J, p, l)
    BY <1>5, PlacedAlways DEF SpansPlaced
  <2>2. LastOf(W, n, p, l)
    <3> DEFINE lo(c) == doc.chunks[c].first
    <3> DEFINE hi(c) == doc.chunks[c].last
    <3>1. \A c \in 1 .. n : \A w \in lo(c) .. hi(c) :
            <<c, w>> \in Uncovered <=> After(p, l, c, w - lo(c) + 1)
      BY <1>1, UncoveredHas
    <3>2. \A c \in 1 .. n : lo(c) \in Nat /\ hi(c) \in Nat
      BY <1>1, DocParts DEF ChunkOK
    <3> HIDE DEF p, l, n, lo, hi
    <3>3. \A c \in 1 .. n : \A e \in 1 .. hi(c) - lo(c) + 1 : ~ After(p, l, c, e)
      <4> SUFFICES ASSUME NEW c \in 1 .. n, NEW e \in 1 .. hi(c) - lo(c) + 1
                   PROVE  ~ After(p, l, c, e)
        OBVIOUS
      <4>1. e + lo(c) - 1 \in lo(c) .. hi(c) /\ (e + lo(c) - 1) - lo(c) + 1 = e
        BY <3>2
      <4>2. ~ After(p, l, c, (e + lo(c) - 1) - lo(c) + 1)
        BY <3>1, <4>1
      <4> QED
        BY <4>1, <4>2
    <3> HIDE DEF W
    <3> QED
      BY <1>2, <3>3 DEF LastOf, lo, hi
  <2> HIDE DEF W, n, J, p, l
  <2>3. J = FlattenSeq(W)
    BY <1>2, <2>1, <2>2, PlacedLast
  <2> QED
    BY <2>3 DEF J, W
<1> QED
  BY <1>4, <1>5

(* When nothing is left to cut, the invariant is the tiling of every page. *)
LEMMA TilingTiles == TilingInv => PageIsTiled
<1> SUFFICES ASSUME TilingInv, Extracted PROVE PageIsTiled
  BY DEF PageIsTiled
<1>1. Uncut = {} /\ Uncovered = {} /\ unread = <<>> /\ DocOK(doc)
  BY DEF Extracted, TilingInv, ScanInv, Extraction
<1> DEFINE words(c) == [k \in 1..(c.last - c.first + 1) |-> <<c.page, c.first + k - 1>>]
<1> DEFINE spanned(s) == LET page == doc.chunks[s.chunk].page
                         IN [k \in 1..(s.last - s.first + 1) |-> <<page, s.first + k - 1>>]
<1> DEFINE all == FlattenSeq([p \in DOMAIN doc.pages |-> [w \in DOMAIN doc.pages[p] |-> <<p, w>>]])
<1>2. FlattenSeq(PageRows(doc)) = all
  BY DEF PageRows
<1>3. FlattenSeq([i \in DOMAIN doc.chunks |-> words(doc.chunks[i])]) = all
  <2>1. ChunkRows(doc) = [i \in DOMAIN doc.chunks |-> words(doc.chunks[i])]
    BY DEF ChunkRows, ChunkRow
  <2> QED
    BY <1>1, <1>2, <2>1, ChunksAreThePages
<1>4. FlattenSeq([i \in DOMAIN doc.spans |-> spanned(doc.spans[i])]) = all
  <2>1. SpanRows(doc) = [i \in DOMAIN doc.spans |-> spanned(doc.spans[i])]
    BY DEF SpanRows, SpanRow
  <2> QED
    BY <1>1, <1>2, <2>1, ChunksAreThePages, SpansAreTheChunks
<1>5. \A s \in ToSet(doc.spans) :
        LET chunk == doc.chunks[s.chunk]
            page == doc.pages[chunk.page]
        IN /\ ~s.embeddable => s.first = s.last
           /\ s.embeddable => Fits(page, s.first, s.last)
           /\ s.embeddable /\ s.last < chunk.last => ~Fits(page, s.first, s.last + 1)
  <2>1. \A i \in 1 .. Len(doc.spans) : SpanFits(doc, doc.spans[i])
    BY DEF TilingInv
  <2>2. DOMAIN doc.spans = 1 .. Len(doc.spans)
    BY <1>1, DocTypes
  <2>3. \A s \in ToSet(doc.spans) : SpanFits(doc, s)
    BY <2>1, <2>2 DEF ToSet
  <2> QED
    BY <2>3 DEF SpanFits
<1> HIDE DEF words, spanned, all
<1> QED
  BY <1>3, <1>4, <1>5 DEF PageIsTiled, words, spanned, all

(* Every word of a paper, of any number of pages, is in exactly one chunk  *)
(* and one span, in reading order; what is embedded fits the tokenizer and *)
(* could not have taken the next word (documents/chunking.py,              *)
(* embeddings/spans.py).                                                   *)
THEOREM PagesAreTiled == Spec => []PageIsTiled
BY TilingTiles, TilingInvariant, PTL

-----------------------------------------------------------------------------
(* What retrieval returns respects dominance.                              *)

(* Hits are ranked by their places.                                        *)
ByPlace(hits, n) == \A r \in 1 .. n : hits[r].rank = r

(* Semantic hits are ranked by their place. *)
LEMMA SemanticHitsRanked ==
    ASSUME DocOK(doc), ScanOK(scan)
    PROVE  \E n \in Nat : /\ IsList(SemanticHits, n, SemanticHitsOf(ChunkIds, SpanIds))
                          /\ ByPlace(SemanticHits, n) /\ RankedIn(SemanticHits, n)
<1>1. PICK n \in Nat : IsList(SemanticHits, n, SemanticHitsOf(ChunkIds, SpanIds))
  BY SemanticHitsAre
<1>2. DOMAIN SemanticHits = 1 .. n
  BY <1>1 DEF IsList
<1>3. Top(scan.best, SeenRows(scan), scan.score, ScanLimit)
  BY DEF ScanOK
<1>4. scan.best \in Seq(Hits) /\ Len(scan.best) = Least(ScanLimit, Cardinality(SeenRows(scan)))
  BY <1>3 DEF Top
<1> DEFINE b == Len(scan.best)
<1>5. b \in Nat /\ DOMAIN scan.best = 1 .. b
  BY <1>4
<1>6. DOMAIN SemanticHits = DOMAIN scan.best
  BY DEF SemanticHits
<1>7. ByPlace(SemanticHits, n)
  BY <1>2, <1>6 DEF SemanticHits, ByPlace
<1>8. ScanLimit \in Nat /\ ScanLimit <= RankDepth /\ RankDepth \in Nat
  BY PipelineAssumption, RankingAssumption DEF ScanLimit
<1>9. b <= ScanLimit
  <2> DEFINE c == Cardinality(SeenRows(scan))
  <2>1. b = IF ScanLimit < c THEN ScanLimit ELSE c
    BY <1>4 DEF Least
  <2>2. IsFiniteSet(SeenRows(scan))
    <3>1. scan.matrix \in Seq(0 .. Len(doc.spans))
      BY DEF ScanOK
    <3>2. IsFiniteSet(Eligible(scan))
      BY <3>1, EligibleIs
    <3> QED
      BY <3>2, FS_Subset DEF SeenRows
  <2>3. c \in Nat
    BY <2>2, FS_CardinalityType
  <2> HIDE DEF c, b
  <2> QED
    BY <1>8, <2>1, <2>3
<1> HIDE DEF b
<1>10. 1 .. n = 1 .. b
  BY <1>2, <1>5, <1>6
<1>11. n <= b
  BY <1>5, <1>10
<1>12. \A r \in 1 .. n : r \in 1 .. RankDepth
  BY <1>5, <1>8, <1>9, <1>11
<1>13. RankedIn(SemanticHits, n)
  BY <1>7, <1>12 DEF ByPlace, RankedIn
<1> QED
  BY <1>1, <1>7, <1>13

(* Lexical hits are ranked by their place. *)
LEMMA LexicalHitsRanked ==
    ASSUME DocOK(doc), branches \in Seq(Seq(ChunkIds)), Len(branches) > 0,
           Len(branches[1]) <= Depth
    PROVE  \E n \in Nat : /\ IsList(LexicalHits, n, LexicalHitsOf(ChunkIds))
                          /\ ByPlace(LexicalHits, n) /\ RankedIn(LexicalHits, n)
<1>1. PICK n \in Nat : IsList(LexicalHits, n, LexicalHitsOf(ChunkIds))
  BY LexicalHitsAre
<1>2. DOMAIN LexicalHits = 1 .. n
  BY <1>1 DEF IsList
<1> DEFINE b == branches[1]
<1> DEFINE T == Seq(ChunkIds)
<1>3. b \in T
  <2>1. branches \in Seq(T)
    OBVIOUS
  <2> HIDE DEF T
  <2> QED
    BY <2>1
<1>4. Len(b) \in Nat /\ DOMAIN b = 1 .. Len(b)
  BY <1>3
<1>5. LexicalHits = [r \in DOMAIN b |-> [chunk |-> b[r], rank |-> r]]
  BY DEF LexicalHits
<1>6. Len(b) <= Depth
  OBVIOUS
<1> HIDE DEF b
<1>7. ByPlace(LexicalHits, n)
  BY <1>2, <1>5 DEF ByPlace
<1>8. Depth \in Nat /\ RankDepth \in Nat /\ Depth <= RankDepth
  BY PipelineAssumption, RankingAssumption
<1> DEFINE k == Len(b)
<1>9. k \in Nat /\ k <= Depth /\ 1 .. n = 1 .. k
  BY <1>2, <1>4, <1>5, <1>6
<1> HIDE DEF k
<1>10. n <= k
  BY <1>9
<1>11. \A r \in 1 .. n : r \in 1 .. RankDepth
  BY <1>8, <1>9, <1>10
<1>12. RankedIn(LexicalHits, n)
  BY <1>7, <1>11 DEF ByPlace, RankedIn
<1> QED
  BY <1>1, <1>7, <1>12

(* A lexical answer has at most Depth chunks. *)
LEMMA AnswersAreShort ==
    ASSUME DocOK(doc), store \in Stores, NEW answer \in LexicalAnswers
    PROVE  Len(answer) <= Depth
<1>1. \E k \in 0 .. Depth : \E order \in [1 .. k -> DOMAIN doc.chunks] :
        answer = [r \in DOMAIN order |-> <<store.active, order[r]>>]
  BY DEF LexicalAnswers
<1>2. PICK k \in 0 .. Depth : \E order \in [1 .. k -> DOMAIN doc.chunks] :
        answer = [r \in DOMAIN order |-> <<store.active, order[r]>>]
  BY <1>1
<1>3. PICK order \in [1 .. k -> DOMAIN doc.chunks] :
        answer = [r \in DOMAIN order |-> <<store.active, order[r]>>]
  BY <1>2
<1>4. DOMAIN answer = 1 .. k /\ k \in Nat
  BY <1>3, PipelineAssumption
<1>5. answer \in Seq(ChunkIds)
  BY AnswersAre
<1>6. Len(answer) \in Nat /\ DOMAIN answer = 1 .. Len(answer)
  BY <1>5
<1> DEFINE l == Len(answer)
<1> HIDE DEF l
<1>7. l \in Nat /\ 1 .. l = 1 .. k
  BY <1>4, <1>6 DEF l
<1>8. l <= k
  BY <1>4, <1>7
<1> QED
  BY <1>4, <1>7, <1>8, PipelineAssumption DEF l

(* Where a hit starts in the paper is a number.                            *)
LEMMA StartIsInt ==
    ASSUME DocOK(doc), NEW hit, hit.chunk \in ChunkIds, hit.span \in SpanIds
    PROVE  AbsoluteStart(hit) \in Int
<1> DEFINE c == hit.chunk[2]
<1> DEFINE page == PageOf(doc, hit.chunk)
<1> DEFINE lengths == [p \in 1 .. (page - 1) |-> TextLength(doc.pages[p]) + 1]
<1>1. Len(doc.pages) \in Nat /\ Len(doc.chunks) \in Nat
  BY DocTypes
<1>2. c \in 1 .. Len(doc.chunks)
  BY DEF ChunkIds
<1>3. page = doc.chunks[c].page
  BY DEF PageOf
<1> HIDE DEF c
<1>4. page \in 1 .. Len(doc.pages)
  BY <1>2, <1>3, DocParts DEF ChunkOK
<1> HIDE DEF page
<1>5. ASSUME NEW p \in 1 .. Len(doc.pages) PROVE TextLength(doc.pages[p]) \in Nat
  <2> DEFINE words == doc.pages[p]
  <2>1. PageOK(words)
    BY <1>5 DEF DocOK
  <2> HIDE DEF words
  <2>2. Len(words) \in Nat /\ \A i \in 1 .. Len(words) : words[i].end \in Nat
    BY <2>1, PageTypes
  <2>3. words \in Seq(Words)
    BY <2>1 DEF PageOK
  <2>4. CASE words = <<>>
    BY <2>4 DEF TextLength, words
  <2>5. CASE words # <<>>
    <3>1. Len(words) \in 1 .. Len(words)
      BY <2>3, <2>5
    <3> QED
      BY <2>2, <2>5, <3>1 DEF TextLength, words
  <2> QED
    BY <2>4, <2>5
<1> DEFINE n == page - 1
<1>6. n \in Nat /\ \A p \in 1 .. n : p \in 1 .. Len(doc.pages)
  BY <1>1, <1>4
<1> HIDE DEF n
<1> DEFINE lens == [p \in 1 .. n |-> TextLength(doc.pages[p]) + 1]
<1>7. lens \in [1 .. n -> Nat]
  BY <1>5, <1>6
<1>8. Total(lens) \in Nat
  <2> HIDE DEF lens
  <2> QED
    BY <1>6, <1>7, TotalNat
<1>9. SpanRange(doc, hit.span) \in Ranges
  BY RangesOfDoc DEF SpanIds
<1>10. SpanRange(doc, hit.span)[1] \in Int
  BY <1>9 DEF Ranges
<1>11. AbsoluteStart(hit) = Total(lens) + SpanRange(doc, hit.span)[1]
  BY DEF AbsoluteStart, n, page
<1> HIDE DEF lens
<1> QED
  BY <1>8, <1>10, <1>11

(* Which steps a mode goes through, and how many answers it has by then.   *)
FlowInv ==
  /\ stage # "over" => result = "none"
  /\ mode = "ranked" => stage \notin {"resolve", "request", "build", "verify"}
  /\ stage \in {"semantic", "scan"} => mode # "lexical"
  /\ stage = "resolve" => mode = "hybrid"
  /\ \A b \in DOMAIN branches : Len(branches[b]) <= Depth
  /\ mode = "lexical" /\ stage = "lexical" => Len(branches) < 2
  /\ mode = "lexical" /\ stage = "order" => Len(branches) = 2
  /\ mode = "ranked" /\ stage = "order" => Len(branches) > 0

(* Initially the flow invariant holds. *)
LEMMA FlowInvInit == Init => FlowInv
BY DEF Init, FlowInv

(* A lexical search keeps the flow invariant. *)
LEMMA SearchLexicalFlows ==
    ASSUME RetrievalInv, FlowInv, SearchLexical
    PROVE  FlowInv'
<1>1. DocOK(doc) /\ store \in Stores /\ branches \in Seq(Seq(ChunkIds))
  BY DEF RetrievalInv, ScanInv, Extraction
<1>2. PICK answer \in LexicalAnswers : branches' = Append(branches, answer)
  BY DEF SearchLexical
<1>3. Len(answer) <= Depth
  BY <1>1, AnswersAreShort
<1> DEFINE T == Seq(ChunkIds)
<1> DEFINE n == Len(branches)
<1>4. answer \in T /\ branches \in Seq(T)
  BY <1>1, AnswersAre
<1> HIDE DEF T
<1>5. /\ n \in Nat /\ DOMAIN branches = 1 .. n /\ Len(branches') = n + 1
      /\ DOMAIN branches' = 1 .. (n + 1)
      /\ \A b \in 1 .. n : branches'[b] = branches[b]
      /\ branches'[n + 1] = answer
  BY <1>2, <1>4
<1> HIDE DEF n
<1>6. \A b \in DOMAIN branches' : Len(branches'[b]) <= Depth
  <2> SUFFICES ASSUME NEW b \in 1 .. (n + 1) PROVE Len(branches'[b]) <= Depth
    BY <1>5
  <2>1. CASE b \in 1 .. n
    BY <1>5, <2>1 DEF FlowInv
  <2>2. CASE b = n + 1
    BY <1>3, <1>5, <2>2
  <2> QED
    BY <1>5, <2>1, <2>2
<1>7. /\ stage = "lexical" /\ mode' = mode /\ result' = result
      /\ stage' = IF n + 1 < BranchesOf(mode) THEN "lexical"
                  ELSE IF mode = "hybrid" THEN "semantic" ELSE "order"
  BY <1>5 DEF SearchLexical
<1>8. /\ mode = "lexical" => BranchesOf(mode) = 2
      /\ mode # "lexical" => BranchesOf(mode) = 1
  BY DEF BranchesOf
<1>9. mode = "lexical" => n < 2
  BY <1>7 DEF FlowInv, n
<1>10. /\ mode = "lexical" /\ stage' = "lexical" => n + 1 < 2
       /\ mode = "lexical" /\ stage' = "order" => n + 1 = 2
       /\ mode = "ranked" /\ stage' = "order" => n + 1 > 0
       /\ stage' \in {"lexical", "semantic", "order"}
       /\ stage' = "semantic" => mode = "hybrid"
  BY <1>5, <1>7, <1>8, <1>9
<1>11. result' = "none"
  BY <1>7 DEF FlowInv
<1> QED
  BY <1>5, <1>6, <1>7, <1>10, <1>11 DEF FlowInv

(* Every step keeps the flow invariant. *)
LEMMA FlowInvStep ==
    ASSUME RetrievalInv, FlowInv, [Next]_vars
    PROVE  FlowInv'
<1> USE DEF FlowInv
<1>1. CASE ReadPage \/ CutChunk \/ CutSpan
  BY <1>1 DEF ReadPage, CutChunk, CutSpan, retrieval
<1>2. CASE Ask
  <2>1. /\ stage = "extract" /\ mode' \in Modes /\ branches' = branches /\ result' = result
        /\ stage' = IF mode' \in {"hybrid", "lexical"} THEN "lexical" ELSE "semantic"
    BY <1>2 DEF Ask
  <2>2. branches = <<>>
    BY <2>1 DEF RetrievalInv
  <2> QED
    BY <2>1, <2>2
<1>3. CASE SearchLexical
  BY <1>3, SearchLexicalFlows
<1>4. CASE StartScan
  BY <1>4 DEF StartScan, Stop, retrieval
<1>5. CASE ScanNextBlock
  BY <1>5 DEF ScanNextBlock
<1>6. CASE EndScan
  <2>1. /\ stage = "scan" /\ mode' = mode /\ branches' = branches
        /\ \/ stage' = "over"
           \/ stage' = (IF mode = "ranked" THEN "lexical" ELSE "order") /\ result' = result
    BY <1>6 DEF EndScan, Stop, retrieval
  <2>2. mode # "lexical"
    BY <2>1
  <2> QED
    BY <2>1, <2>2
<1>7. CASE Order
  <2>1. /\ stage = "order" /\ mode' = mode /\ branches' = branches
        /\ stage' = CASE mode = "hybrid" -> "resolve" [] mode = "ranked" -> "over"
                      [] OTHER -> "request"
        /\ result' = IF mode = "ranked" THEN "selected" ELSE result
    BY <1>7 DEF Order
  <2> QED
    BY <2>1
<1>8. CASE ResolveParent
  BY <1>8 DEF ResolveParent, Stop, retrieval
<1>9. CASE RequestEvidence
  <2>1. /\ stage = "request" /\ stage' = "build" /\ mode' = mode /\ branches' = <<>>
        /\ result' = result
    BY <1>9 DEF RequestEvidence
  <2> QED
    BY <2>1
<1>10. CASE Build
  <2>1. /\ stage = "build" /\ mode' = mode /\ branches' = branches
        /\ \/ stage' = "over"
           \/ stage' = "verify" /\ result' = result
    BY <1>10 DEF Build, Stop, retrieval
  <2> QED
    BY <2>1
<1>11. CASE VerifyProposal
  <2>1. /\ stage = "verify" /\ stage' = "over" /\ mode' = mode /\ branches' = branches
    BY <1>11 DEF VerifyProposal, retrieval
  <2> QED
    BY <2>1
<1>12. CASE PublishDocument \/ PublishOther \/ PublishIndex
  <2>1. UNCHANGED <<stage, mode, branches, result>>
    BY <1>12 DEF PublishDocument, PublishOther, PublishIndex, Publish, retrieval
  <2> QED
    BY <2>1
<1>13. CASE UNCHANGED vars
  <2>1. UNCHANGED <<stage, mode, branches, result>>
    BY <1>13 DEF vars, retrieval
  <2> QED
    BY <2>1
<1> QED
  BY <1>1, <1>2, <1>3, <1>4, <1>5, <1>6, <1>7, <1>8, <1>9, <1>10, <1>11, <1>12, <1>13 DEF Next

(* What the fusion returns has before it what both channels rank better.   *)
FusedInOrder(F, lexical, semantic) ==
  \A i \in DOMAIN F : \A c \in ChunksOf(lexical) \cup ChunksOf(semantic) :
    LET d == CandidateFor(c, lexical, semantic)
    IN Worse(F[i].lexical, F[i].semantic, d.lexical, d.semantic) =>
         \E j \in 1 .. (i - 1) : F[j] = d

(* In mode hybrid, ordering finds the fusion of the hits in its order. *)
LEMMA FusionIsInOrder ==
    ASSUME RetrievalInv, FlowInv, Order, mode = "hybrid"
    PROVE  FusedInOrder(found', LexicalHits, SemanticHits)
<1>1. /\ DocOK(doc) /\ branches \in Seq(Seq(ChunkIds)) /\ ScanOK(scan) /\ Len(branches) > 0
  BY DEF RetrievalInv, ScanInv, Extraction, Scanning, Order
<1>2. Len(branches[1]) <= Depth
  <2>1. 1 \in DOMAIN branches
    <3> DEFINE T == Seq(ChunkIds)
    <3>1. branches \in Seq(T)
      BY <1>1
    <3> HIDE DEF T
    <3> QED
      BY <1>1, <3>1
  <2> QED
    BY <2>1 DEF FlowInv
<1>3. PICK n \in Nat : /\ IsList(LexicalHits, n, LexicalHitsOf(ChunkIds))
                       /\ RankedIn(LexicalHits, n)
  BY <1>1, <1>2, LexicalHitsRanked
<1>4. PICK m \in Nat : /\ IsList(SemanticHits, m, SemanticHitsOf(ChunkIds, SpanIds))
                       /\ RankedIn(SemanticHits, m)
  BY <1>1, SemanticHitsRanked
<1>5. ChunkIds \in SUBSET Tuples(2) /\ SpanIds \in SUBSET Int
  BY <1>1, ChunkIdsAre
<1> DEFINE F == found'
<1>6. F = FuseCandidates(LexicalHits, SemanticHits, Limit)
  BY DEF Order
<1>7. Fuses(F, LexicalHits, SemanticHits, Limit) /\ Limit \in Nat
  BY <1>6, PipelineAssumption DEF Fuses
<1> DEFINE L == LexicalHits
<1> DEFINE S == SemanticHits
<1> HIDE DEF F, L, S
<1> SUFFICES FusedInOrder(F, L, S)
  BY DEF F, L, S
<1> SUFFICES ASSUME NEW i \in DOMAIN F, NEW c \in ChunksOf(L) \cup ChunksOf(S), NEW d,
                    d = CandidateFor(c, L, S),
                    Worse(F[i].lexical, F[i].semantic, d.lexical, d.semantic)
             PROVE  \E j \in 1 .. (i - 1) : F[j] = d
  BY DEF FusedInOrder
<1>8. IsList(L, n, LexicalHitsOf(ChunkIds)) /\ RankedIn(L, n)
  BY <1>3 DEF L
<1>9. IsList(S, m, SemanticHitsOf(ChunkIds, SpanIds)) /\ RankedIn(S, m)
  BY <1>4 DEF S
<1>10. Fuses(F, L, S, Limit)
  BY <1>7 DEF L, S
<1> QED
  BY <1>5, <1>7, <1>8, <1>9, <1>10, FusionKeepsDominance, 2 \in Nat

(* What the merge returns has before it what both branches rank better.    *)
MergedInOrder(F, answers) ==
  \A i \in DOMAIN F : \A d :
    FromBranches(answers, d) /\ WorseIn(answers, F[i].chunk, d) =>
      \E j \in 1 .. (i - 1) : F[j].chunk = d

(* In mode lexical, ordering finds the merge of the branches in its order. *)
LEMMA MergeIsInOrder ==
    ASSUME RetrievalInv, FlowInv, Order, mode = "lexical"
    PROVE  MergedInOrder(found', branches) /\ DOMAIN branches = 1 .. 2
<1>1. DocOK(doc) /\ branches \in Seq(Seq(ChunkIds)) /\ Len(branches) = 2
  BY DEF RetrievalInv, ScanInv, Extraction, Order, FlowInv
<1> DEFINE B == branches
<1> DEFINE F == found'
<1> DEFINE T == Seq(ChunkIds)
<1>2. ChunkIds \in SUBSET Tuples(2)
  BY <1>1, ChunkIdsAre
<1>3. F = MergeBranches(B, Limit) /\ Limit \in Nat
  BY PipelineAssumption DEF Order
<1>4. B \in Seq(T) /\ Len(B) = 2
  BY <1>1
<1>5. \A b \in DOMAIN B : Len(B[b]) <= Depth
  BY DEF FlowInv
<1> HIDE DEF B, F, T
<1>6. DOMAIN B = 1 .. 2 /\ B \in [1 .. 2 -> T]
  <2>1. \A s \in Seq(T) : DOMAIN s = 1 .. Len(s) /\ s \in [1 .. Len(s) -> T]
    OBVIOUS
  <2>2. DOMAIN B = 1 .. Len(B) /\ B \in [1 .. Len(B) -> T]
    BY <1>4, <2>1
  <2> QED
    BY <1>4, <2>2
<1>7. ShortBranches(B, 2)
  <2> SUFFICES ASSUME NEW b \in 1 .. 2 PROVE Len(B[b]) <= RankDepth
    BY DEF ShortBranches
  <2> DEFINE s == B[b]
  <2>1. s \in T
    BY <1>6
  <2>2. Len(s) \in Nat
    BY <2>1 DEF T
  <2>3. Len(s) <= Depth
    BY <1>5, <1>6
  <2> HIDE DEF s
  <2>4. Depth \in Nat /\ RankDepth \in Nat /\ Depth <= RankDepth
    BY PipelineAssumption, RankingAssumption
  <2> DEFINE l == Len(s)
  <2>5. l \in Nat /\ l <= Depth
    BY <2>2, <2>3
  <2> HIDE DEF l
  <2>6. l <= RankDepth
    BY <2>4, <2>5
  <2> QED
    BY <2>6 DEF l, s
<1>8. IsList(B, 2, Seq(ChunkIds))
  BY <1>6 DEF IsList, T
<1>9. Merges(F, B, Limit)
  BY <1>3 DEF Merges
<1>10. MergedInOrder(F, B)
  <2>1. ASSUME NEW i \in DOMAIN F, NEW d, FromBranches(B, d), WorseIn(B, F[i].chunk, d)
        PROVE  \E j \in 1 .. (i - 1) : F[j].chunk = d
    BY <1>2, <1>3, <1>7, <1>8, <1>9, <2>1, MergeKeepsDominance, 2 \in Nat
  <2> QED
    BY <2>1 DEF MergedInOrder
<1> QED
  BY <1>6, <1>10 DEF B, F

(* The lexical ranks the rerank reads, and what it shows of the baseline.  *)
BaselineRanks == [chunk \in ChunksOf(Baseline) |-> LexicalRank(chunk)]
Shown == Keep(found, ToSet(Baseline))

(* The first hits are semantic hits, with their ranks. *)
LEMMA FirstHits ==
    ASSUME NEW n \in Nat, NEW T, NEW m \in Nat, IsList(SemanticHits, n, T)
    PROVE  /\ IsList(First(m, SemanticHits), Least(m, n), T)
           /\ Least(m, n) \in Nat /\ Least(m, n) <= n /\ Least(m, n) <= m
           /\ \A i \in 1 .. Least(m, n) : First(m, SemanticHits)[i] = SemanticHits[i]
BY FirstOfList

(* The first hits in their order, each with a lexical rank.                *)
LEMMA BaselineIs ==
    ASSUME branches \in Seq(Seq(ChunkIds)), Len(branches) > 0,
           NEW n \in Nat, NEW T, IsList(SemanticHits, n, T), ByPlace(SemanticHits, n)
    PROVE  /\ IsList(Baseline, Least(Limit, n), T)
           /\ Least(Limit, n) \in Nat /\ Least(Limit, n) <= n /\ Least(Limit, n) <= Limit
           /\ \A i \in 1 .. Least(Limit, n) : Baseline[i] = SemanticHits[i] /\ Baseline[i].rank = i
           /\ RanksOf(Baseline, Least(Limit, n), BaselineRanks)
<1> DEFINE l == Least(Limit, n)
<1>1. Limit \in Nat
  BY PipelineAssumption
<1>2. /\ IsList(First(Limit, SemanticHits), l, T) /\ l \in Nat /\ l <= n /\ l <= Limit
      /\ \A i \in 1 .. l : First(Limit, SemanticHits)[i] = SemanticHits[i]
  BY <1>1, FirstHits
<1>3. /\ IsList(Baseline, l, T) /\ l \in Nat /\ l <= n /\ l <= Limit
      /\ \A i \in 1 .. l : Baseline[i] = SemanticHits[i]
  BY <1>2 DEF Baseline
<1> HIDE DEF l
<1>4. \A i \in 1 .. l : Baseline[i].rank = i
  BY <1>3 DEF ByPlace
<1>5. DOMAIN Baseline = 1 .. l
  BY <1>3 DEF IsList
<1> DEFINE b == branches[1]
<1> DEFINE S == Seq(ChunkIds)
<1>6. b \in S
  <2>1. branches \in Seq(S)
    OBVIOUS
  <2> HIDE DEF S
  <2> QED
    BY <2>1
<1>7. Len(b) \in Nat /\ DOMAIN b = 1 .. Len(b)
  BY <1>6
<1>8. LexicalHits = [r \in DOMAIN b |-> [chunk |-> b[r], rank |-> r]]
  BY DEF LexicalHits
<1>9. ASSUME NEW c PROVE LexicalRank(c) \in Int
  <2>1. CASE c \in ChunksOf(LexicalHits)
    <3>1. \E r \in DOMAIN b : b[r] = c
      BY <1>8, <2>1 DEF ChunksOf
    <3>2. RankIn(b, c) \in DOMAIN b
      BY <3>1 DEF RankIn
    <3>3. RankIn(b, c) \in Int
      BY <1>7, <3>2
    <3> QED
      BY <2>1, <3>3 DEF LexicalRank
  <2>2. CASE c \notin ChunksOf(LexicalHits)
    BY <2>2 DEF LexicalRank, Missing
  <2> QED
    BY <2>1, <2>2
<1> HIDE DEF b
<1>10. \A i \in 1 .. l : Baseline[i].chunk \in ChunksOf(Baseline)
  BY <1>5 DEF ChunksOf
<1>11. \A i \in 1 .. l : BaselineRanks[Baseline[i].chunk] \in Int
  BY <1>9, <1>10 DEF BaselineRanks
<1>12. \A i \in 1 .. l : Baseline[i].rank \in Int
  BY <1>3, <1>4
<1>13. RanksOf(Baseline, l, BaselineRanks)
  BY <1>5, <1>11, <1>12 DEF RanksOf
<1> QED
  BY <1>3, <1>4, <1>13 DEF l

(* The positional lane holds hits that are behind the baseline.            *)
StartsOfHits == [hit \in ToSet(SemanticHits) |-> AbsoluteStart(hit)]
Behind(n) == {SemanticHits[p] : p \in {q \in 1 .. n : q > Limit}}

(* The positional lane holds hits outside the baseline. *)
LEMMA LaneIs ==
    ASSUME DocOK(doc), NEW n \in Nat, ByPlace(SemanticHits, n),
           IsList(SemanticHits, n, SemanticHitsOf(ChunkIds, SpanIds)), NEW start, start = StartsOfHits
    PROVE  \E m \in Nat :
             /\ IsList(PositionalLane(SemanticHits, Limit, start, DocumentLength), m, Behind(n))
             /\ LaneOK(PositionalLane(SemanticHits, Limit, start, DocumentLength), m, start)
<1> DEFINE H == SemanticHits
<1> DEFINE tail == SubSeq(H, Limit + 1, n)
<1> DEFINE T == Behind(n)
<1> DEFINE early == {h \in ToSet(H) : 4 * start[h] < DocumentLength}
<1> DEFINE kept == Keep(tail, early)
<1> DEFINE lane == PositionalLane(SemanticHits, Limit, start, DocumentLength)
<1>1. H \in [1 .. n -> SemanticHitsOf(ChunkIds, SpanIds)]
  BY DEF IsList
<1>2. Len(H) = n
  BY <1>1
<1>3. lane = First(MaxAuxiliary, kept)
  BY <1>2 DEF PositionalLane
<1>4. T = {H[p] : p \in {q \in 1 .. n : q > Limit}}
  BY DEF Behind
<1>5. \A h \in T : h.rank \in Int /\ h.span \in Int /\ start[h] \in Int
  <2> SUFFICES ASSUME NEW p \in 1 .. n, p > Limit
               PROVE  H[p].rank \in Int /\ H[p].span \in Int /\ start[H[p]] \in Int
    BY <1>4
  <2> DEFINE h == H[p]
  <2>1. h \in SemanticHitsOf(ChunkIds, SpanIds)
    BY <1>1
  <2>2. h \in ToSet(H)
    BY <1>1 DEF ToSet
  <2>3. start[h] = AbsoluteStart(h)
    BY <2>2 DEF StartsOfHits
  <2> HIDE DEF h
  <2>4. h.rank \in Int /\ h.chunk \in ChunkIds /\ h.span \in SpanIds
    BY <2>1 DEF SemanticHitsOf
  <2>5. AbsoluteStart(h) \in Int
    BY <2>4, StartIsInt
  <2>6. h.span \in Int
    BY <2>4, ChunkIdsAre
  <2> QED
    BY <2>3, <2>4, <2>5, <2>6 DEF h
<1>6. \A h, g \in T : h.rank = g.rank => h = g
  BY <1>4 DEF ByPlace
<1>7. Limit \in Nat /\ MaxAuxiliary \in Nat
  BY PipelineAssumption, RankingAssumption
<1> DEFINE k == Len(tail)
<1>8. tail \in Seq(T)
  <2> HIDE DEF H, T
  <2>1. \A j \in (Limit + 1) .. n : H[j] \in T
    BY <1>4, <1>7
  <2>2. tail = [j \in 1 .. (n - Limit) |-> H[Limit + j]]
    BY <1>7
  <2> DEFINE e == IF n < Limit THEN 0 ELSE n - Limit
  <2>3. e \in Nat /\ 1 .. e = 1 .. (n - Limit)
    BY <1>7
  <2>4. \A j \in 1 .. (n - Limit) : Limit + j \in (Limit + 1) .. n
    BY <1>7
  <2>5. tail \in [1 .. (n - Limit) -> T]
    BY <2>1, <2>2, <2>4
  <2> HIDE DEF e, tail
  <2>6. tail \in [1 .. e -> T]
    BY <2>3, <2>5
  <2> QED
    BY <2>3, <2>6
<1> HIDE DEF T, tail, early
<1>9. k \in Nat /\ IsList(tail, k, T)
  BY <1>8 DEF IsList
<1> HIDE DEF k
<1>10. Keep(tail, early) \in Seq(T)
  BY <1>9, KeepOf
<1> HIDE DEF kept
<1> DEFINE a == Len(kept)
<1>11. kept \in Seq(T)
  BY <1>10 DEF kept
<1>12. a \in Nat /\ IsList(kept, a, T)
  BY <1>11 DEF IsList
<1> HIDE DEF a
<1> DEFINE m == Least(MaxAuxiliary, a)
<1>13. /\ IsList(First(MaxAuxiliary, kept), Least(MaxAuxiliary, a), T)
       /\ Least(MaxAuxiliary, a) \in Nat /\ Least(MaxAuxiliary, a) <= a
       /\ Least(MaxAuxiliary, a) <= MaxAuxiliary
       /\ \A i \in 1 .. Least(MaxAuxiliary, a) : First(MaxAuxiliary, kept)[i] = kept[i]
  BY SMTT(30), <1>7, <1>12, FirstOfList
<1> HIDE DEF lane
<1>14. IsList(lane, m, T) /\ m \in Nat
  BY <1>3, <1>13
<1> HIDE DEF m
<1>15. DOMAIN lane = 1 .. m /\ \A i \in 1 .. m : lane[i] \in T
  BY <1>14 DEF IsList
<1>16. LaneOK(lane, m, start)
  BY <1>5, <1>6, <1>15 DEF LaneOK
<1> QED
  BY <1>14, <1>16 DEF lane, T

(* What is selected shows the baseline in an order that respects dominance. *)
LEMMA SelectionIsInOrder ==
    ASSUME DocOK(doc), branches \in Seq(Seq(ChunkIds)), Len(branches) > 0,
           NEW n \in Nat, ByPlace(SemanticHits, n),
           IsList(SemanticHits, n, SemanticHitsOf(ChunkIds, SpanIds))
    PROVE  ShownInOrder(Keep(RankedSelection, ToSet(Baseline)), Baseline, BaselineRanks)
<1> DEFINE T == SemanticHitsOf(ChunkIds, SpanIds)
<1> DEFINE l == Least(Limit, n)
<1> DEFINE base == Baseline
<1> DEFINE ranks == BaselineRanks
<1> DEFINE start == StartsOfHits
<1> DEFINE lane == PositionalLane(SemanticHits, Limit, start, DocumentLength)
<1> DEFINE out == GuardedSelection(First(MaxSelected, ParetoRerank(base, ranks)), lane, start)
<1>1. RankedSelection = out
  BY DEF RankedSelection, BaselineRanks, StartsOfHits
<1>2. /\ IsList(base, l, T) /\ l \in Nat /\ l <= n /\ l <= Limit
      /\ \A i \in 1 .. l : base[i].rank = i
      /\ RanksOf(base, l, ranks)
  <2>1. IsList(SemanticHits, n, T) /\ ByPlace(SemanticHits, n)
    OBVIOUS
  <2> HIDE DEF T
  <2>2. /\ IsList(Baseline, Least(Limit, n), T)
        /\ Least(Limit, n) \in Nat /\ Least(Limit, n) <= n /\ Least(Limit, n) <= Limit
        /\ \A i \in 1 .. Least(Limit, n) : Baseline[i] = SemanticHits[i] /\ Baseline[i].rank = i
        /\ RanksOf(Baseline, Least(Limit, n), BaselineRanks)
    BY <2>1, BaselineIs
  <2> QED
    BY <2>2
<1>3. PICK m \in Nat : IsList(lane, m, Behind(n)) /\ LaneOK(lane, m, start)
  <2>1. start = StartsOfHits
    OBVIOUS
  <2> HIDE DEF start
  <2> QED
    BY <2>1, LaneIs
<1> HIDE DEF T, l, base, ranks, start, lane
<1>4. SelectsFrom(out, base, ranks, lane, start)
  BY DEF SelectsFrom
<1>5. Outside(lane, m, base)
  <2> DEFINE pool == ToSet(base)
  <2>1. pool = {base[p] : p \in 1 .. l}
    BY <1>2 DEF ToSet, IsList
  <2> HIDE DEF pool
  <2>3. ASSUME NEW i \in 1 .. m PROVE lane[i] \notin pool
    <3>1. lane[i] \in Behind(n)
      BY <1>3 DEF IsList
    <3>2. PICK p \in 1 .. n : p > Limit /\ lane[i] = SemanticHits[p]
      BY <3>1 DEF Behind
    <3>3. lane[i].rank = p
      BY <3>2 DEF ByPlace
    <3>4. \A q \in 1 .. l : base[q].rank <= Limit
      BY <1>2, PipelineAssumption
    <3>5. Limit \in Int /\ p \in Int
      BY PipelineAssumption
    <3>6. \A x \in pool : x.rank <= Limit
      BY <2>1, <3>4
    <3>7. ~ (lane[i].rank <= Limit)
      BY <3>2, <3>3, <3>5
    <3> QED
      BY <3>6, <3>7
  <2> QED
    BY <2>3 DEF Outside, pool
<1> HIDE DEF out
<1>6. ShownInOrder(Keep(out, ToSet(base)), base, ranks)
  <2>1. IsList(base, l, T) /\ l \in Nat /\ RanksOf(base, l, ranks)
    BY <1>2
  <2>2. LaneOK(lane, m, start)
    BY <1>3
  <2> QED
    BY <1>4, <1>5, <2>1, <2>2, SelectionKeepsDominance
<1> QED
  BY <1>1, <1>6 DEF base, ranks

(* What is in order when it was returned, until it is used.                *)
DominanceInv ==
  /\ RetrievalInv /\ FlowInv
  /\ mode = "hybrid" /\ stage = "resolve" => FusedInOrder(found, LexicalHits, SemanticHits)
  /\ mode = "lexical" /\ stage = "request" =>
       MergedInOrder(found, branches) /\ DOMAIN branches = 1 .. 2
  /\ mode = "ranked" /\ result = "selected" => ShownInOrder(Shown, Baseline, BaselineRanks)

(* Initially the dominance invariant holds. *)
LEMMA DominanceInvInit == Init => DominanceInv
BY RetrievalInvInit, FlowInvInit DEF Init, DominanceInv

(* A step that leaves scan and branches alone leaves the hits alone. *)
LEMMA HitsStay ==
    ASSUME doc' = doc, scan' = scan, branches' = branches
    PROVE  /\ LexicalHits' = LexicalHits /\ SemanticHits' = SemanticHits
           /\ Baseline' = Baseline /\ BaselineRanks' = BaselineRanks
<1>1. LexicalHits' = LexicalHits
  BY DEF LexicalHits
<1>2. SemanticHits' = SemanticHits
  BY DEF SemanticHits
<1>3. Baseline' = Baseline
  BY <1>2 DEF Baseline
<1>4. BaselineRanks' = BaselineRanks
  BY <1>1, <1>3 DEF BaselineRanks, LexicalRank
<1> QED
  BY <1>1, <1>2, <1>3, <1>4

(* In mode ranked, ordering shows the baseline in order. *)
LEMMA RankedIsInOrder ==
    ASSUME RetrievalInv, FlowInv, Order, mode = "ranked"
    PROVE  ShownInOrder(Shown, Baseline, BaselineRanks)'
<1>1. /\ DocOK(doc) /\ branches \in Seq(Seq(ChunkIds)) /\ ScanOK(scan) /\ Len(branches) > 0
  BY DEF RetrievalInv, ScanInv, Extraction, Scanning, Order, FlowInv
<1>2. PICK n \in Nat : /\ IsList(SemanticHits, n, SemanticHitsOf(ChunkIds, SpanIds))
                       /\ ByPlace(SemanticHits, n)
  BY <1>1, SemanticHitsRanked
<1>3. ShownInOrder(Keep(RankedSelection, ToSet(Baseline)), Baseline, BaselineRanks)
  BY <1>1, <1>2, SelectionIsInOrder
<1>4. found' = RankedSelection /\ doc' = doc /\ scan' = scan /\ branches' = branches
  BY DEF Order, paper
<1>5. Baseline' = Baseline /\ BaselineRanks' = BaselineRanks
  BY <1>4, HitsStay
<1>6. Shown' = Keep(RankedSelection, ToSet(Baseline))
  BY <1>4, <1>5 DEF Shown
<1>7. ShownInOrder(Shown', Baseline', BaselineRanks')
  BY <1>3, <1>5, <1>6
<1> QED
  BY <1>7 DEF ShownInOrder

(* Every step keeps the dominance invariant. *)
LEMMA DominanceInvStep ==
    ASSUME DominanceInv, [Next]_vars
    PROVE  DominanceInv'
<1>1. RetrievalInv /\ FlowInv
  BY DEF DominanceInv
<1>2. RetrievalInv' /\ FlowInv'
  BY <1>1, RetrievalInvStep, FlowInvStep
<1>3. CASE Order
  <2>1. /\ stage = "order" /\ mode' = mode /\ doc' = doc /\ scan' = scan /\ branches' = branches
        /\ stage' = CASE mode = "hybrid" -> "resolve" [] mode = "ranked" -> "over"
                      [] OTHER -> "request"
    BY <1>3 DEF Order, paper
  <2>2. LexicalHits' = LexicalHits /\ SemanticHits' = SemanticHits
    BY <2>1, HitsStay
  <2>3. ASSUME mode = "hybrid"
        PROVE  FusedInOrder(found, LexicalHits, SemanticHits)'
    <3>1. FusedInOrder(found', LexicalHits, SemanticHits)
      BY <1>1, <1>3, <2>3, FusionIsInOrder
    <3>2. FusedInOrder(found', LexicalHits', SemanticHits')
      BY <2>2, <3>1
    <3> QED
      BY <3>2 DEF FusedInOrder
  <2>4. ASSUME mode = "lexical"
        PROVE  (MergedInOrder(found, branches) /\ DOMAIN branches = 1 .. 2)'
    <3>1. MergedInOrder(found', branches) /\ DOMAIN branches = 1 .. 2
      BY <1>1, <1>3, <2>4, MergeIsInOrder
    <3>2. MergedInOrder(found', branches') /\ DOMAIN branches' = 1 .. 2
      BY <2>1, <3>1
    <3> QED
      BY <3>2 DEF MergedInOrder
  <2>5. ASSUME mode = "ranked"
        PROVE  ShownInOrder(Shown, Baseline, BaselineRanks)'
    BY <1>1, <1>3, <2>5, RankedIsInOrder
  <2> QED
    BY <1>2, <2>1, <2>3, <2>4, <2>5 DEF DominanceInv
<1>4. ASSUME UNCHANGED <<stage, doc, mode, scan, branches, found, result>> PROVE DominanceInv'
  <2>1. /\ LexicalHits' = LexicalHits /\ SemanticHits' = SemanticHits
        /\ Baseline' = Baseline /\ BaselineRanks' = BaselineRanks
    BY <1>4, HitsStay
  <2>2. Shown' = Shown
    BY <1>4, <2>1 DEF Shown
  <2>3. ASSUME mode = "hybrid", stage = "resolve"
        PROVE  FusedInOrder(found, LexicalHits, SemanticHits)'
    <3>1. FusedInOrder(found', LexicalHits', SemanticHits')
      BY <1>4, <2>1, <2>3 DEF DominanceInv
    <3> QED
      BY <3>1 DEF FusedInOrder
  <2>4. ASSUME mode = "lexical", stage = "request"
        PROVE  (MergedInOrder(found, branches) /\ DOMAIN branches = 1 .. 2)'
    <3>1. MergedInOrder(found', branches') /\ DOMAIN branches' = 1 .. 2
      BY <1>4, <2>4 DEF DominanceInv
    <3> QED
      BY <3>1 DEF MergedInOrder
  <2>5. ASSUME mode = "ranked", result = "selected"
        PROVE  ShownInOrder(Shown, Baseline, BaselineRanks)'
    <3>1. ShownInOrder(Shown', Baseline', BaselineRanks')
      BY <2>1, <2>2, <2>5 DEF DominanceInv
    <3> QED
      BY <3>1 DEF ShownInOrder
  <2> QED
    BY <1>2, <1>4, <2>3, <2>4, <2>5 DEF DominanceInv
<1>5. ASSUME stage' \notin {"resolve", "request", "over"} \/ (stage' = "over" /\ result' # "selected")
      PROVE  DominanceInv'
  BY <1>2, <1>5 DEF DominanceInv, FlowInv
<1>6. ASSUME stage' = "over", mode' # "ranked" PROVE DominanceInv'
  BY <1>2, <1>6 DEF DominanceInv
<1>7. CASE ReadPage \/ CutChunk \/ CutSpan
  <2>1. stage' = "extract"
    BY <1>7 DEF ReadPage, CutChunk, CutSpan
  <2> QED
    BY <1>5, <2>1
<1>8. CASE Ask
  <2>1. stage' \in {"lexical", "semantic"}
    BY <1>8 DEF Ask
  <2> QED
    BY <1>5, <2>1
<1>9. CASE SearchLexical
  <2>1. stage' \in {"lexical", "semantic", "order"}
    BY <1>1, <1>9, SearchLexicalKeeps
  <2> QED
    BY <1>5, <2>1
<1>10. CASE StartScan
  <2>1. stage' = "scan" \/ (stage' = "over" /\ result' = "INDEX_STALE")
    BY <1>10 DEF StartScan, Stop
  <2> QED
    BY <1>5, <2>1
<1>11. CASE ScanNextBlock
  <2>1. stage' = "scan"
    BY <1>11 DEF ScanNextBlock
  <2> QED
    BY <1>5, <2>1
<1>12. CASE EndScan
  <2>1. stage' \in {"lexical", "order"} \/ (stage' = "over" /\ result' = "ACQUISITION_INVALID")
    BY <1>12 DEF EndScan, Stop
  <2> QED
    BY <1>5, <2>1
<1>13. CASE ResolveParent
  <2>1. /\ stage = "resolve" /\ UNCHANGED <<doc, mode, scan, branches, found>>
        /\ \/ stage' = "request" /\ result' = result
           \/ stage' = "over"
           \/ stage' = stage /\ result' = result
    BY <1>13 DEF ResolveParent, Stop, paper, retrieval
  <2>2. mode = "hybrid"
    BY <1>1, <2>1 DEF FlowInv
  <2>3. CASE stage' = "request"
    BY <1>2, <2>1, <2>2, <2>3 DEF DominanceInv
  <2> QED
    BY <1>4, <1>6, <2>1, <2>2, <2>3
<1>14. CASE RequestEvidence
  <2>1. stage' = "build"
    BY <1>14 DEF RequestEvidence
  <2> QED
    BY <1>5, <2>1
<1>15. CASE Build
  <2>1. stage = "build" /\ mode' = mode /\ stage' \in {"over", "verify"}
    BY <1>15 DEF Build, Stop, retrieval
  <2>2. mode # "ranked"
    BY <1>1, <2>1 DEF FlowInv
  <2> QED
    BY <1>5, <1>6, <2>1, <2>2
<1>16. CASE VerifyProposal
  <2>1. stage = "verify" /\ mode' = mode /\ stage' = "over"
    BY <1>16 DEF VerifyProposal, retrieval
  <2>2. mode # "ranked"
    BY <1>1, <2>1 DEF FlowInv
  <2> QED
    BY <1>6, <2>1, <2>2
<1>17. CASE PublishDocument \/ PublishOther \/ PublishIndex
  <2>1. UNCHANGED <<stage, doc, mode, scan, branches, found, result>>
    BY <1>17 DEF PublishDocument, PublishOther, PublishIndex, Publish, paper, retrieval
  <2> QED
    BY <1>4, <2>1
<1>18. CASE UNCHANGED vars
  <2>1. UNCHANGED <<stage, doc, mode, scan, branches, found, result>>
    BY <1>18 DEF vars, paper, retrieval
  <2> QED
    BY <1>4, <2>1
<1> QED
  BY <1>3, <1>7, <1>8, <1>9, <1>10, <1>11, <1>12, <1>13, <1>14, <1>15, <1>16, <1>17, <1>18 DEF Next

(* What retrieval returns is in order when it is returned, and until it is *)
(* used: the fusion, the merge of branches and the selection each have     *)
(* before a result what every channel ranks better (hybrid_fusion.py,      *)
(* multi_query.py, rank_only_rerank.py).                                   *)
THEOREM DominanceInvariant == Spec => []DominanceInv
BY DominanceInvInit, DominanceInvStep, PTL DEF Spec

(* What the invariant says of the fusion is the property in mode hybrid. *)
LEMMA FusionRespects ==
    ASSUME DominanceInv, mode = "hybrid"
    PROVE  RankingRespectsDominance
<1>1. CASE stage # "resolve"
  BY <1>1 DEF RankingRespectsDominance
<1>2. CASE stage = "resolve"
  <2> DEFINE L == LexicalHits
  <2> DEFINE S == SemanticHits
  <2> DEFINE pool == {CandidateFor(c, L, S) : c \in ChunksOf(L) \cup ChunksOf(S)}
  <2>1. FusedInOrder(found, L, S)
    BY <1>2 DEF DominanceInv
  <2> HIDE DEF L, S
  <2>2. ASSUME NEW i \in DOMAIN found, NEW other \in pool,
               <<found[i].lexical, found[i].semantic>> # <<other.lexical, other.semantic>>,
               \A k \in DOMAIN <<found[i].lexical, found[i].semantic>> :
                 <<other.lexical, other.semantic>>[k] <= <<found[i].lexical, found[i].semantic>>[k]
        PROVE  \E j \in 1 .. (i - 1) :
                 /\ found[j].chunk = other.chunk
                 /\ <<found[j].lexical, found[j].semantic>> = <<other.lexical, other.semantic>>
    <3>1. PICK c \in ChunksOf(L) \cup ChunksOf(S) : other = CandidateFor(c, L, S)
      OBVIOUS
    <3>2. Worse(found[i].lexical, found[i].semantic, other.lexical, other.semantic)
      <4> DEFINE r == <<found[i].lexical, found[i].semantic>>
      <4> DEFINE s == <<other.lexical, other.semantic>>
      <4>1. r # s /\ \A k \in DOMAIN r : s[k] <= r[k]
        BY <2>2
      <4>2. DOMAIN r = 1 .. 2 /\ r[1] = found[i].lexical /\ r[2] = found[i].semantic
        OBVIOUS
      <4>3. s[1] = other.lexical /\ s[2] = other.semantic
        OBVIOUS
      <4> QED
        BY <4>1, <4>2, <4>3 DEF Worse
    <3>3. \E j \in 1 .. (i - 1) : found[j] = other
      BY <2>1, <3>1, <3>2 DEF FusedInOrder
    <3> QED
      BY <3>3
  <2> QED
    BY <1>2, <2>2 DEF RankingRespectsDominance, L, S
<1> QED
  BY <1>1, <1>2

(* What the invariant says of the merge is the property in mode lexical. *)
LEMMA MergeRespects ==
    ASSUME DominanceInv, mode = "lexical"
    PROVE  RankingRespectsDominance
<1>1. CASE stage # "request"
  BY <1>1 DEF RankingRespectsDominance
<1>2. CASE stage = "request"
  <2> DEFINE B == branches
  <2> DEFINE pool == {[chunk |-> c] : c \in UNION {ToSet(B[b]) : b \in DOMAIN B}}
  <2> DEFINE in(b, chunk) == IF Contains(B[b], chunk) THEN RankIn(B[b], chunk) ELSE Missing
  <2>1. MergedInOrder(found, B) /\ DOMAIN B = 1 .. 2 /\ B \in Seq(Seq(ChunkIds))
    BY <1>2 DEF DominanceInv, RetrievalInv
  <2>2. ASSUME NEW i \in DOMAIN found, NEW other \in pool,
               <<in(1, found[i].chunk), in(2, found[i].chunk)>> # <<in(1, other.chunk), in(2, other.chunk)>>,
               \A k \in DOMAIN <<in(1, found[i].chunk), in(2, found[i].chunk)>> :
                 <<in(1, other.chunk), in(2, other.chunk)>>[k]
                   <= <<in(1, found[i].chunk), in(2, found[i].chunk)>>[k]
        PROVE  \E j \in 1 .. (i - 1) :
                 /\ found[j].chunk = other.chunk
                 /\ <<in(1, found[j].chunk), in(2, found[j].chunk)>> = <<in(1, other.chunk), in(2, other.chunk)>>
    <3> DEFINE d == other.chunk
    <3> DEFINE e == found[i].chunk
    <3>1. PICK c \in UNION {ToSet(B[b]) : b \in DOMAIN B} : other = [chunk |-> c]
      OBVIOUS
    <3>2. d = c
      BY <3>1
    <3>3. PICK b \in 1 .. 2 : c \in ToSet(B[b])
      BY <2>1
    <3>4. B[b] \in Seq(ChunkIds)
      <4> DEFINE T == Seq(ChunkIds)
      <4>1. B \in Seq(T)
        BY <2>1
      <4>2. b \in DOMAIN B
        BY <2>1, <3>3
      <4> HIDE DEF T, B
      <4>3. B[b] \in T
        BY <4>1, <4>2
      <4> QED
        BY <4>3 DEF T
    <3>5. FromBranches(B, c)
      <4>1. DOMAIN B[b] = 1 .. Len(B[b])
        BY <3>4
      <4>2. \E r \in DOMAIN B[b] : B[b][r] = c
        BY <3>3 DEF ToSet
      <4> QED
        BY <4>1, <4>2 DEF FromBranches
    <3> DEFINE e1 == in(1, e)
    <3> DEFINE e2 == in(2, e)
    <3> DEFINE d1 == in(1, d)
    <3> DEFINE d2 == in(2, d)
    <3>6. <<e1, e2>> # <<d1, d2>> /\ \A k \in DOMAIN <<e1, e2>> : <<d1, d2>>[k] <= <<e1, e2>>[k]
      BY <2>2
    <3>7. /\ InBranch(B, 1, e) = e1 /\ InBranch(B, 2, e) = e2
          /\ InBranch(B, 1, d) = d1 /\ InBranch(B, 2, d) = d2
      BY DEF InBranch
    <3> HIDE DEF e1, e2, d1, d2
    <3>8. Worse(e1, e2, d1, d2)
      <4> DEFINE r == <<e1, e2>>
      <4> DEFINE s == <<d1, d2>>
      <4>1. r # s /\ \A k \in DOMAIN r : s[k] <= r[k]
        BY <3>6
      <4>2. DOMAIN r = 1 .. 2 /\ r[1] = e1 /\ r[2] = e2 /\ s[1] = d1 /\ s[2] = d2
        OBVIOUS
      <4> QED
        BY <4>1, <4>2 DEF Worse
    <3>9. WorseIn(B, e, c)
      BY <3>2, <3>7, <3>8 DEF WorseIn
    <3>10. \E j \in 1 .. (i - 1) : found[j].chunk = c
      BY <2>1, <3>5, <3>9 DEF MergedInOrder
    <3> QED
      BY <3>2, <3>10
  <2> QED
    BY <1>2, <2>2 DEF RankingRespectsDominance, B
<1> QED
  BY <1>1, <1>2

(* What the invariant says of the selection is the property in mode ranked. *)
LEMMA SelectionRespects ==
    ASSUME DominanceInv, mode = "ranked"
    PROVE  RankingRespectsDominance
<1>1. CASE result # "selected"
  BY <1>1 DEF RankingRespectsDominance
<1>2. CASE result = "selected"
  <2> DEFINE base == Baseline
  <2> DEFINE shown == Keep(found, ToSet(base))
  <2> DEFINE ranks == BaselineRanks
  <2> DEFINE pool == ToSet(base)
  <2>1. ShownInOrder(shown, base, ranks)
    BY <1>2 DEF DominanceInv, Shown
  <2>2. \A p \in DOMAIN base : ranks[base[p].chunk] = LexicalRank(base[p].chunk)
    BY DEF BaselineRanks, ChunksOf
  <2>3. pool = {base[p] : p \in DOMAIN base}
    BY DEF ToSet
  <2> HIDE DEF shown, ranks, base
  <2>4. ASSUME NEW i \in DOMAIN shown, NEW other \in pool,
               <<LexicalRank(shown[i].chunk), shown[i].rank>> # <<LexicalRank(other.chunk), other.rank>>,
               \A k \in DOMAIN <<LexicalRank(shown[i].chunk), shown[i].rank>> :
                 <<LexicalRank(other.chunk), other.rank>>[k]
                   <= <<LexicalRank(shown[i].chunk), shown[i].rank>>[k]
        PROVE  \E j \in 1 .. (i - 1) :
                 /\ shown[j].chunk = other.chunk
                 /\ <<LexicalRank(shown[j].chunk), shown[j].rank>> = <<LexicalRank(other.chunk), other.rank>>
    <3>1. PICK q \in DOMAIN base : other = base[q]
      BY <2>3
    <3>2. PICK p \in DOMAIN base : shown[i] = base[p]
      BY <2>1 DEF ShownInOrder
    <3> DEFINE a == LexicalRank(shown[i].chunk)
    <3> DEFINE b == shown[i].rank
    <3> DEFINE c == LexicalRank(other.chunk)
    <3> DEFINE d == other.rank
    <3>3. <<a, b>> # <<c, d>> /\ \A k \in DOMAIN <<a, b>> : <<c, d>>[k] <= <<a, b>>[k]
      BY <2>4
    <3>4. /\ a = ranks[shown[i].chunk] /\ b = shown[i].rank
          /\ c = ranks[base[q].chunk] /\ d = base[q].rank
      BY <2>2, <3>1, <3>2
    <3> HIDE DEF a, b, c, d
    <3>5. Worse(a, b, c, d)
      <4> DEFINE r == <<a, b>>
      <4> DEFINE s == <<c, d>>
      <4>1. r # s /\ \A k \in DOMAIN r : s[k] <= r[k]
        BY <3>3
      <4>2. DOMAIN r = 1 .. 2 /\ r[1] = a /\ r[2] = b /\ s[1] = c /\ s[2] = d
        OBVIOUS
      <4> QED
        BY <4>1, <4>2 DEF Worse
    <3>6. \E j \in 1 .. (i - 1) : shown[j] = base[q]
      BY <2>1, <3>4, <3>5 DEF ShownInOrder
    <3> QED
      BY <3>1, <3>6
  <2> QED
    BY <1>2, <2>4 DEF RankingRespectsDominance, shown, base
<1> QED
  BY <1>1, <1>2

(* The dominance invariant implies the property. *)
LEMMA DominanceRespects == DominanceInv => RankingRespectsDominance
<1> SUFFICES ASSUME DominanceInv PROVE RankingRespectsDominance
  OBVIOUS
<1>1. CASE mode \notin {"hybrid", "lexical", "ranked"}
  BY <1>1 DEF RankingRespectsDominance
<1> QED
  BY <1>1, FusionRespects, MergeRespects, SelectionRespects

(* Nothing a query returns is placed behind, or kept in place of, what     *)
(* every channel ranks worse, for any paper, scores, answers and limits    *)
(* (hybrid_fusion.py, multi_query.py, rank_only_rerank.py, selection.py).  *)
THEOREM RankingIsRespected == Spec => []RankingRespectsDominance
BY DominanceInvariant, DominanceRespects, PTL

-----------------------------------------------------------------------------
(***************************************************************************)
(* A proposal about an unchanged bundle.                                   *)
(***************************************************************************)

(* What a copy says of the text of its first entry.                        *)
LEMMA TextIsSeq ==
    ASSUME NEW d, DocOK(d), NEW g, NEW x \in Resolved(d, g)
    PROVE  \E T : x.text \in Seq(T)
<1>1. PICK c \in {g} \X (1 .. Len(d.chunks)), w \in Ranges, q \in Seq(Nat) :
        x = EvidenceRange(d, c, w, q)
  BY DEF Resolved
<1>2. x.text = TextIn(d, c, w)
  BY <1>1 DEF EvidenceRange
<1> DEFINE words == d.pages[PageOf(d, c)]
<1> DEFINE S == {v \in ToSet(words) : v.start >= w[1] /\ v.end <= w[2]}
<1> DEFINE inside == Keep(words, S)
<1>3. x.text = [i \in DOMAIN inside |-> inside[i].text]
  BY <1>2 DEF TextIn
<1>4. words \in Seq(Words)
  <2> DEFINE k == c[2]
  <2>1. k \in 1 .. Len(d.chunks)
    OBVIOUS
  <2> HIDE DEF k
  <2>2. ChunkOK(d, d.chunks[k])
    BY <2>1, DocParts
  <2>3. d.chunks[k].page \in 1 .. Len(d.pages)
    BY <2>2 DEF ChunkOK
  <2>4. PageOK(d.pages[d.chunks[k].page])
    BY <2>3 DEF DocOK
  <2> QED
    BY <2>4 DEF PageOf, PageOK, k
<1> HIDE DEF words, S
<1>5. inside \in Seq(Words)
  <2> DEFINE n == Len(words)
  <2>1. n \in Nat /\ IsList(words, n, Words)
    BY <1>4 DEF IsList
  <2> HIDE DEF n
  <2>2. Keep(words, S) \in Seq(Words)
    BY <2>1, KeepOf
  <2> QED
    BY <2>2
<1> HIDE DEF inside
<1> DEFINE T == {inside[i].text : i \in 1 .. Len(inside)}
<1>6. DOMAIN inside = 1 .. Len(inside) /\ Len(inside) \in Nat
  BY <1>5
<1>7. [i \in DOMAIN inside |-> inside[i].text] \in [1 .. Len(inside) -> T]
  BY <1>6
<1>8. x.text \in Seq(T)
  <2> HIDE DEF T
  <2> QED
    BY <1>3, <1>6, <1>7
<1> QED
  BY <1>8

(* One sequence starts with the other.                                     *)
Prefix(s, t) == Len(s) <= Len(t) /\ \A i \in 1 .. Len(s) : t[i] = s[i]

(* A prefix is one of every longer sequence. *)
LEMMA PrefixOfMore ==
    ASSUME NEW T, NEW a \in Seq(T), NEW b \in Seq(T), NEW c \in Seq(T), NEW e, e = b \o c,
           Prefix(a, b)
    PROVE  Prefix(a, e)
<1>1. Len(a) \in Nat /\ Len(b) \in Nat /\ Len(c) \in Nat /\ Len(e) = Len(b) + Len(c)
      /\ \A i \in 1 .. Len(b) : e[i] = b[i]
  OBVIOUS
<1>2. Len(a) <= Len(b) /\ \A i \in 1 .. Len(a) : b[i] = a[i]
  BY DEF Prefix
<1>3. \A i \in 1 .. Len(a) : i \in 1 .. Len(b)
  BY <1>1, <1>2
<1> QED
  BY <1>1, <1>2, <1>3 DEF Prefix

(* Rows that together are numbered in order: a number is in one place.     *)
LEMMA RowsNumber ==
    ASSUME NEW n \in Nat, NEW seqs, IsList(seqs, n, Seq(Nat)), NEW K \in Nat,
           FlattenSeq(seqs) = Numbers(K)
    PROVE  \A k, l \in 1 .. n : \A i \in 1 .. Len(seqs[k]), j \in 1 .. Len(seqs[l]) :
             seqs[k][i] = seqs[l][j] => k = l /\ i = j
<1>0. seqs \in [1 .. n -> Seq(Nat)]
  BY DEF IsList
<1>1. PICK g : Joins(g, n, Nat, seqs) /\ FlattenSeq(seqs) = g[n]
  BY <1>0, FlattenIs
<1>2. /\ \A k \in 0 .. n : g[k] \in Seq(Nat)
      /\ \A k \in 1 .. n : g[k] = g[k - 1] \o seqs[k]
  BY <1>1 DEF Joins
<1> USE DEF Prefix
<1>3. ASSUME NEW k \in 0 .. n PROVE \A l \in 0 .. n : k <= l => Prefix(g[k], g[l])
  <2> DEFINE M == {l \in 0 .. n : k <= l => Prefix(g[k], g[l])}
  <2>1. 0 \in M
    BY <1>2
  <2>2. \A l \in 0 .. (n - 1) : l \in M => l + 1 \in M
    <3> SUFFICES ASSUME NEW l \in 0 .. (n - 1), l \in M PROVE l + 1 \in M
      OBVIOUS
    <3>1. l + 1 \in 1 .. n /\ (l + 1) - 1 = l /\ l + 1 \in 0 .. n /\ l \in 0 .. n
      OBVIOUS
    <3>2. g[l + 1] = g[l] \o seqs[l + 1] /\ g[l] \in Seq(Nat) /\ seqs[l + 1] \in Seq(Nat)
      BY <1>0, <1>2, <3>1
    <3>3. g[k] \in Seq(Nat)
      BY <1>2
    <3>4. k <= l + 1 => k = l + 1 \/ (k <= l /\ Prefix(g[k], g[l]))
      OBVIOUS
    <3> DEFINE a == g[k]
    <3> DEFINE b == g[l]
    <3> DEFINE c == seqs[l + 1]
    <3> DEFINE e == g[l + 1]
    <3>5. a \in Seq(Nat) /\ b \in Seq(Nat) /\ c \in Seq(Nat) /\ e = b \o c
      BY <3>2, <3>3
    <3> HIDE DEF a, b, c, e
    <3>6. Prefix(a, b) => Prefix(a, e)
      BY <3>5, PrefixOfMore
    <3>7. k = l + 1 => a = e
      BY DEF a, e
    <3>8. k <= l + 1 => Prefix(a, e)
      <4>1. k <= l + 1 => a = e \/ Prefix(a, b)
        BY <3>4, <3>7 DEF a, b
      <4>2. Prefix(e, e)
        BY <3>5
      <4> HIDE DEF Prefix
      <4> QED
        BY <3>6, <4>1, <4>2
    <3> QED
      BY <3>1, <3>8 DEF a, e
  <2> HIDE DEF M
  <2>3. \A l \in 0 .. n : l \in M
    BY <2>1, <2>2, UpTo
  <2> QED
    BY <2>3 DEF M
<1>4. ASSUME NEW k \in 1 .. n, NEW i \in 1 .. Len(seqs[k])
      PROVE  /\ seqs[k][i] = Len(g[k - 1]) + i /\ Len(g[k]) = Len(g[k - 1]) + Len(seqs[k])
             /\ Len(g[k - 1]) \in Nat /\ Len(seqs[k]) \in Nat /\ i \in Nat
  <2> DEFINE a == g[k - 1]
  <2> DEFINE b == seqs[k]
  <2> DEFINE c == g[k]
  <2>10. k - 1 \in 0 .. n /\ k \in 0 .. n /\ k <= n /\ n \in 0 .. n
    OBVIOUS
  <2>11. a \in Seq(Nat) /\ b \in Seq(Nat)
    BY <1>0, <1>2, <2>10
  <2>12. c = a \o b
    BY <1>2
  <2>1. a \in Seq(Nat) /\ b \in Seq(Nat) /\ c = a \o b /\ k \in 0 .. n /\ k <= n /\ n \in 0 .. n
    BY <2>10, <2>11, <2>12
  <2>2. Prefix(c, g[n])
    BY <1>3, <2>1
  <2> HIDE DEF a, b
  <2>3. Len(c) = Len(a) + Len(b) /\ Len(a) \in Nat /\ Len(b) \in Nat /\ i \in 1 .. Len(b)
    BY <2>1 DEF b
  <2>4. c[Len(a) + i] = b[i] /\ Len(a) + i \in 1 .. Len(c)
    <3> HIDE DEF c
    <3> QED
      BY <2>1, <2>3
  <2>5. g[n][Len(a) + i] = b[i]
    BY <2>2, <2>4
  <2>6. g[n] = Numbers(K) /\ g[n] \in Seq(Nat)
    BY <1>1, <1>2, <2>1
  <2>7. Len(a) + i \in 1 .. Len(g[n])
    <3> DEFINE x == Len(c)
    <3> DEFINE y == Len(g[n])
    <3>3. x <= y
      BY <2>2
    <3>4. y \in Nat
      BY <2>6
    <3>5. x \in Nat /\ Len(a) + i \in 1 .. x
      BY <2>3, <2>4
    <3>1. x <= y /\ y \in Nat /\ x \in Nat /\ Len(a) + i \in 1 .. x
      BY <3>3, <3>4, <3>5
    <3> HIDE DEF x, y
    <3>2. Len(a) + i \in 1 .. y
      BY <3>1
    <3> QED
      BY <3>2 DEF y
  <2>8. \A v \in 1 .. Len(g[n]) : g[n][v] = v
    <3> DEFINE s == Numbers(K)
    <3>1. s = [v \in 1 .. K |-> v]
      BY DEF Numbers
    <3>2. Len(s) = K
      BY <3>1
    <3> QED
      BY <2>6, <3>1, <3>2
  <2>9. b[i] = Len(a) + i
    BY <2>5, <2>7, <2>8
  <2> QED
    BY <2>3, <2>9 DEF a, b
<1>5. ASSUME NEW k \in 1 .. n, NEW l \in 1 .. n, k < l,
             NEW i \in 1 .. Len(seqs[k]), NEW j \in 1 .. Len(seqs[l])
      PROVE  seqs[k][i] < seqs[l][j]
  <2>1. k \in 0 .. n /\ l - 1 \in 0 .. n /\ k <= l - 1
    BY <1>5
  <2>2. Prefix(g[k], g[l - 1])
    BY <1>3, <2>1
  <2>3. Len(g[k]) <= Len(g[l - 1])
    BY <2>2
  <2>4. /\ seqs[k][i] = Len(g[k - 1]) + i /\ Len(g[k]) = Len(g[k - 1]) + Len(seqs[k])
        /\ Len(g[k - 1]) \in Nat /\ Len(seqs[k]) \in Nat /\ i \in Nat
    BY <1>4
  <2>5. /\ seqs[l][j] = Len(g[l - 1]) + j /\ Len(g[l]) = Len(g[l - 1]) + Len(seqs[l])
        /\ Len(g[l - 1]) \in Nat /\ Len(seqs[l]) \in Nat /\ j \in Nat
    BY <1>4
  <2>6. i <= Len(seqs[k]) /\ j >= 1
    BY <2>4, <2>5
  <2> DEFINE a == Len(g[k - 1])
  <2> DEFINE b == Len(seqs[k])
  <2> DEFINE e == Len(g[l - 1])
  <2> DEFINE x == seqs[k][i]
  <2> DEFINE y == seqs[l][j]
  <2>7. a + b <= e /\ x = a + i /\ y = e + j /\ a \in Nat /\ b \in Nat /\ e \in Nat
        /\ i \in Nat /\ j \in Nat /\ i <= b /\ j >= 1
    BY <2>3, <2>4, <2>5, <2>6
  <2> HIDE DEF a, b, e, x, y
  <2>8. x < y
    BY <2>7
  <2> QED
    BY <2>8 DEF x, y
<1> HIDE DEF Prefix
<1> SUFFICES ASSUME NEW k \in 1 .. n, NEW l \in 1 .. n,
                    NEW i \in 1 .. Len(seqs[k]), NEW j \in 1 .. Len(seqs[l]),
                    seqs[k][i] = seqs[l][j]
             PROVE  k = l /\ i = j
  OBVIOUS
<1>10. /\ seqs[k][i] = Len(g[k - 1]) + i /\ Len(g[k]) = Len(g[k - 1]) + Len(seqs[k])
       /\ Len(g[k - 1]) \in Nat /\ Len(seqs[k]) \in Nat /\ i \in Nat
  BY <1>4
<1>11. /\ seqs[l][j] = Len(g[l - 1]) + j /\ Len(g[l]) = Len(g[l - 1]) + Len(seqs[l])
       /\ Len(g[l - 1]) \in Nat /\ Len(seqs[l]) \in Nat /\ j \in Nat
  BY <1>4
<1>6. seqs[k][i] \in Nat /\ seqs[l][j] \in Nat
  <2> DEFINE x == seqs[k][i]
  <2> DEFINE y == seqs[l][j]
  <2> DEFINE a == Len(g[k - 1])
  <2> DEFINE b == Len(g[l - 1])
  <2>1. x = a + i /\ y = b + j /\ a \in Nat /\ b \in Nat /\ i \in Nat /\ j \in Nat
    BY <1>10, <1>11
  <2> HIDE DEF x, y, a, b
  <2>2. x \in Nat /\ y \in Nat
    BY <2>1
  <2> QED
    BY <2>2 DEF x, y
<1>7. ~ (k < l) /\ ~ (l < k)
  <2>1. k < l => seqs[k][i] < seqs[l][j]
    BY <1>5
  <2>2. l < k => seqs[l][j] < seqs[k][i]
    BY <1>5
  <2> DEFINE x == seqs[k][i]
  <2> DEFINE y == seqs[l][j]
  <2>3. /\ x \in Nat /\ y \in Nat
        /\ k < l => x < y
        /\ l < k => y < x
    BY <1>6, <2>1, <2>2
  <2>4. x = y
    OBVIOUS
  <2> HIDE DEF x, y
  <2> QED
    BY <2>3, <2>4
<1>8. k = l
  BY <1>7
<1>9. i = j
  <2> DEFINE a == Len(g[k - 1])
  <2> DEFINE x == seqs[k][i]
  <2>1. x = a + i /\ x = a + j /\ a \in Nat /\ i \in Nat /\ j \in Nat
    BY <1>8, <1>10, <1>11
  <2> HIDE DEF a, x
  <2> QED
    BY <2>1
<1> QED
  BY <1>8, <1>9

(* The labels of different units of a packing are different entries.       *)
LabelsApart(D, n, K) ==
  /\ n \in Nat /\ K \in Nat /\ DOMAIN D = 1 .. n
  /\ \A k \in 1 .. n : /\ D[k].labels \in Seq(Nat)
                       /\ \A i \in 1 .. Len(D[k].labels) : D[k].labels[i] \in 1 .. K
  /\ \A k, l \in 1 .. n : \A i \in 1 .. Len(D[k].labels), j \in 1 .. Len(D[l].labels) :
       D[k].labels[i] = D[l].labels[j] => k = l /\ i = j

(* Numbered labels keep the units of a packing apart. *)
LEMMA LabelsAreApart ==
    ASSUME NEW R, NEW I, NEW p \in Packings(R, I), Labelled(p)
    PROVE  LabelsApart(p.dispositions, Len(p.dispositions), Len(p.entries))
<1> DEFINE D == p.dispositions
<1> DEFINE T == Dispositions(I)
<1> DEFINE n == Len(D)
<1> DEFINE K == Len(p.entries)
<1> DEFINE rows == LabelsOf(D)
<1>1. D \in Seq(T) /\ p.entries \in Seq(Entries(R))
  BY DEF Packings
<1>2. \A x \in T : x.labels \in Seq(Nat)
  BY DEF Dispositions
<1>3. K \in Nat
  BY <1>1
<1>4. FlattenSeq(rows) = Numbers(K)
  BY DEF Labelled
<1> HIDE DEF T, D, K
<1>5. n \in Nat /\ DOMAIN D = 1 .. n /\ \A k \in 1 .. n : D[k] \in T
  BY <1>1
<1> HIDE DEF n
<1>6. \A k \in 1 .. n : D[k].labels \in Seq(Nat)
  BY <1>2, <1>5
<1>7. rows = [k \in 1 .. n |-> D[k].labels]
  BY <1>5 DEF LabelsOf
<1> HIDE DEF rows
<1>8. IsList(rows, n, Seq(Nat)) /\ \A k \in 1 .. n : rows[k] = D[k].labels
  BY <1>6, <1>7 DEF IsList
<1>9. \A k, l \in 1 .. n : \A i \in 1 .. Len(rows[k]), j \in 1 .. Len(rows[l]) :
        rows[k][i] = rows[l][j] => k = l /\ i = j
  BY <1>3, <1>4, <1>5, <1>8, RowsNumber
<1>10. FlattenSeq(rows) \in Seq(Nat) /\ HasAllOf(FlattenSeq(rows), rows, n)
  BY <1>5, <1>8, FlattenHas
<1>11. ASSUME NEW k \in 1 .. n, NEW i \in 1 .. Len(rows[k]) PROVE rows[k][i] \in 1 .. K
  <2> DEFINE all == FlattenSeq(rows)
  <2>1. \E j \in 1 .. Len(all) : all[j] = rows[k][i]
    BY <1>10 DEF HasAllOf
  <2>2. all = [j \in 1 .. K |-> j]
    BY <1>4 DEF Numbers
  <2> HIDE DEF all
  <2>3. Len(all) = K /\ \A j \in 1 .. K : all[j] = j
    BY <1>3, <2>2
  <2> QED
    BY <2>1, <2>3
<1>12. \A k \in 1 .. n : rows[k] = D[k].labels
  BY <1>8
<1>13. \A k \in 1 .. n : /\ D[k].labels \in Seq(Nat)
                         /\ \A i \in 1 .. Len(D[k].labels) : D[k].labels[i] \in 1 .. K
  BY <1>6, <1>11, <1>12
<1>14. \A k, l \in 1 .. n : \A i \in 1 .. Len(D[k].labels), j \in 1 .. Len(D[l].labels) :
         D[k].labels[i] = D[l].labels[j] => k = l /\ i = j
  BY <1>9, <1>12
<1>15. LabelsApart(D, n, K)
  BY <1>3, <1>5, <1>13, <1>14, Zenon DEF LabelsApart
<1> QED
  BY <1>15 DEF D, n, K

(* A sequence without repetition has as many elements as its length. *)
LEMMA CountOfDistinct ==
    ASSUME NEW T, NEW s \in Seq(T), \A i, j \in 1 .. Len(s) : s[i] = s[j] => i = j
    PROVE  Cardinality(ToSet(s)) = Len(s)
<1> DEFINE n == Len(s)
<1> DEFINE S == ToSet(s)
<1>1. n \in Nat /\ DOMAIN s = 1 .. n /\ s = [i \in 1 .. n |-> s[i]]
  OBVIOUS
<1>2. S = {s[i] : i \in 1 .. n}
  BY <1>1 DEF ToSet
<1> HIDE DEF n, S
<1>3. s \in [1 .. n -> S]
  BY <1>1, <1>2
<1>4. IsInjective(s)
  BY <1>1 DEF IsInjective, n
<1>5. s \in Bijection(1 .. n, S)
  BY <1>2, <1>3, <1>4 DEF Bijection, Injection, Surjection
<1>6. ExistsBijection(1 .. n, S)
  BY <1>5 DEF ExistsBijection
<1>7. Cardinality(S) = n
  BY <1>1, <1>6, FS_CountingElements
<1> QED
  BY <1>7 DEF n, S

(***************************************************************************)
(* Units that a bundle packed, each at one of its dispositions.            *)
(***************************************************************************)
PackedAt(D, n, f, k, v) == k \in 1 .. n /\ D[k].omission = "none" /\ v = f[k]

PackedList(D, n, f, units) ==
  /\ \A k \in 1 .. n : f[k].labels = D[k].labels
  /\ \A m \in DOMAIN units : \E k : PackedAt(D, n, f, k, units[m])

(* Different packed units share no label, and each cites entries.          *)
LEMMA NoneReused ==
    ASSUME NEW D, NEW n, NEW K, LabelsApart(D, n, K), NEW f, NEW units, NEW N, UnitList(units, N),
           PackedList(D, n, f, units), NEW m \in 1 .. N
    PROVE  /\ Cardinality(ToSet(units[m].labels)) = Len(units[m].labels)
           /\ units[m].labels \in Seq(Nat)
           /\ \A l \in 1 .. N : l # m => ToSet(units[m].labels) \cap ToSet(units[l].labels) = {}
           /\ \A label \in ToSet(units[m].labels) : label \in 1 .. K
<1>1. N \in Nat /\ DOMAIN units = 1 .. N /\ \A i, j \in 1 .. N : units[i] = units[j] => i = j
  BY DEF UnitList
<1>2. /\ \A k \in 1 .. n : f[k].labels = D[k].labels
      /\ \A l \in 1 .. N : \E k : PackedAt(D, n, f, k, units[l])
  BY <1>1 DEF PackedList
<1>3. \A k \in 1 .. n : /\ D[k].labels \in Seq(Nat)
                        /\ \A i \in 1 .. Len(D[k].labels) : D[k].labels[i] \in 1 .. K
  BY DEF LabelsApart
<1>4. \A k, l \in 1 .. n : \A i \in 1 .. Len(D[k].labels), j \in 1 .. Len(D[l].labels) :
        D[k].labels[i] = D[l].labels[j] => k = l /\ i = j
  BY DEF LabelsApart
<1>5. PICK k : PackedAt(D, n, f, k, units[m])
  BY <1>2
<1> DEFINE s == D[k].labels
<1>6. k \in 1 .. n /\ units[m] = f[k] /\ units[m].labels = s
  BY <1>2, <1>5 DEF PackedAt
<1>7. s \in Seq(Nat) /\ \A i, j \in 1 .. Len(s) : s[i] = s[j] => i = j
  BY <1>3, <1>4, <1>6
<1> HIDE DEF s
<1>8. Cardinality(ToSet(s)) = Len(s)
  BY <1>7, CountOfDistinct
<1>9. DOMAIN s = 1 .. Len(s) /\ ToSet(s) = {s[i] : i \in 1 .. Len(s)}
  BY <1>7 DEF ToSet
<1>10. \A label \in ToSet(s) : label \in 1 .. K
  BY <1>3, <1>6, <1>9 DEF s
<1>11. ASSUME NEW l \in 1 .. N, l # m, NEW x \in ToSet(s), x \in ToSet(units[l].labels) PROVE FALSE
  <2>1. PICK h : PackedAt(D, n, f, h, units[l])
    BY <1>2
  <2> DEFINE t == D[h].labels
  <2>2. h \in 1 .. n /\ units[l] = f[h] /\ units[l].labels = t
    BY <1>2, <2>1 DEF PackedAt
  <2>3. t \in Seq(Nat)
    BY <1>3, <2>2
  <2> HIDE DEF t
  <2>4. ToSet(t) = {t[j] : j \in 1 .. Len(t)}
    BY <2>3 DEF ToSet
  <2>5. PICK i \in 1 .. Len(s) : x = s[i]
    BY <1>9
  <2>6. PICK j \in 1 .. Len(t) : x = t[j]
    BY <1>11, <2>2, <2>4
  <2>7. k = h
    <3>1. \A a \in 1 .. Len(D[k].labels), c \in 1 .. Len(D[h].labels) :
            D[k].labels[a] = D[h].labels[c] => k = h /\ a = c
      BY <1>4, <1>6, <2>2
    <3>2. \A a \in 1 .. Len(s), c \in 1 .. Len(t) : s[a] = t[c] => k = h
      BY <3>1 DEF s, t
    <3>3. s[i] = t[j]
      BY <2>5, <2>6
    <3> QED
      BY <3>2, <3>3
  <2> QED
    BY <1>1, <1>6, <1>11, <2>2, <2>7
<1> QED
  BY <1>6, <1>7, <1>8, <1>10, <1>11

(* A packed unit binds. *)
LEMMA PackedBinds ==
    ASSUME NEW c, NEW n, NEW K, LabelsApart(c.dispositions, n, K), Numbered(c, K),
           NEW f, NEW units, NEW N, UnitList(units, N), PackedList(c.dispositions, n, f, units),
           NEW m \in 1 .. N,
           c.kind = "bundle" => units[m].kind = "standalone",
           c.kind # "bundle" => units[m] \in c.units
    PROVE  BindError(c, units, m) = "none"
<1> DEFINE D == c.dispositions
<1> DEFINE unit == units[m]
<1> DEFINE cited == ToSet(unit.labels)
<1> DEFINE reused == \/ Cardinality(cited) < Len(unit.labels)
                     \/ \E l \in 1 .. (m - 1) : cited \cap ToSet(units[l].labels) # {}
<1> DEFINE known == \A label \in cited : IsEntryLabel(c, label)
<1> DEFINE packed == \E i \in DOMAIN c.dispositions :
                       /\ c.dispositions[i].omission = "none"
                       /\ c.dispositions[i].labels = unit.labels
<1> DEFINE grouped == \E u \in c.units : u = unit
<1>1. BindError(c, units, m) =
        IF reused THEN "EVIDENCE_REFERENCE_INVALID"
        ELSE IF c.kind = "bundle"
          THEN IF known /\ unit.kind = "standalone" /\ packed
               THEN "none" ELSE "EVIDENCE_REFERENCE_INVALID"
        ELSE IF known /\ grouped THEN "none"
        ELSE IF unit.kind = "group" THEN "EVIDENCE_GROUP_INCOMPLETE"
        ELSE IF known /\ cited \cap GroupLabels(c) # {} THEN "EVIDENCE_GROUP_INCOMPLETE"
        ELSE "EVIDENCE_REFERENCE_INVALID"
  BY DEF BindError
<1>2. LabelsApart(D, n, K) /\ PackedList(D, n, f, units)
  OBVIOUS
<1>3. D = c.dispositions
  OBVIOUS
<1> HIDE DEF D
<1>4. /\ Cardinality(ToSet(units[m].labels)) = Len(units[m].labels)
      /\ units[m].labels \in Seq(Nat)
      /\ \A l \in 1 .. N : l # m => ToSet(units[m].labels) \cap ToSet(units[l].labels) = {}
      /\ \A label \in ToSet(units[m].labels) : label \in 1 .. K
  BY <1>2, NoneReused
<1>5. N \in Nat /\ DOMAIN units = 1 .. N
  BY DEF UnitList
<1>6. ~ reused
  <2>1. \A l \in 1 .. (m - 1) : l \in 1 .. N /\ l # m
    BY <1>5
  <2>2. Len(unit.labels) \in Nat
    BY <1>4
  <2> QED
    BY <1>4, <2>1, <2>2
<1>7. known
  <2> SUFFICES ASSUME NEW label \in cited PROVE IsEntryLabel(c, label)
    OBVIOUS
  <2>1. label \in 1 .. K /\ K \in Nat
    BY <1>2, <1>4 DEF LabelsApart
  <2>2. /\ IsEntryLabel(c, label) <=> label \in 1 .. K
        /\ label \in 1 .. K => EntryFor(c, label) = c.entries[label]
    BY <2>1, CitedIs
  <2> QED
    BY <2>1, <2>2
<1>8. packed
  <2>1. PICK k : PackedAt(D, n, f, k, unit)
    BY <1>2, <1>5 DEF PackedList
  <2>2. k \in DOMAIN D /\ D[k].omission = "none" /\ D[k].labels = unit.labels
    BY <1>2, <2>1 DEF PackedAt, LabelsApart, PackedList
  <2> QED
    BY <1>3, <2>2
<1>9. c.kind = "bundle" => unit.kind = "standalone"
  OBVIOUS
<1>10. c.kind # "bundle" => grouped
  OBVIOUS
<1> HIDE DEF reused, known, packed, grouped, unit
<1> QED
  BY <1>1, <1>6, <1>7, <1>8, <1>9, <1>10

(* What is built depends on the five parts of a request. *)
LEMMA SameRequest ==
    ASSUME NEW st, NEW d, NEW q, NEW r, q.generation = r.generation, q.index = r.index,
           q.mode = r.mode, q.candidates = r.candidates, q.budget = r.budget
    PROVE  BuildBundle(st, d, q) = BuildBundle(st, d, r)
<1>1. ResolutionError(st, d, q) = ResolutionError(st, d, r)
  BY DEF ResolutionError
<1>2. ResolvedGroups(d, q) = ResolvedGroups(d, r)
  BY DEF ResolvedGroups
<1>3. \A p : Sealed("bundle", q, <<>>, p, d) = Sealed("bundle", r, <<>>, p, d)
  BY DEF Sealed
<1> QED
  BY <1>1, <1>2, <1>3 DEF BuildBundle

(* A bundle that is built again from the project it was built from is the same. *)
LEMMA BundleIsRebuilt ==
    ASSUME NEW d, DocOK(d), NEW st, st.active \in Nat, NEW b, Held(b, st, d), b.kind = "bundle",
           NEW units
    PROVE  AuthorityError(st, d, b, units) = "none"
<1>1. \E r, n, p : MadeBundle(b, st, d, r, n) /\ BundleMade(b, p, st, d, r, n)
  BY HeldBundle
<1>2. PICK r, n, p : MadeBundle(b, st, d, r, n) /\ BundleMade(b, p, st, d, r, n)
  BY <1>1
<1> DEFINE D == b.dispositions
<1> DEFINE q == [generation |-> b.generation, index |-> b.index, mode |-> b.mode,
                 candidates |-> [i \in DOMAIN D |-> D[i].unit], budget |-> b.budget]
<1>3. Rebuilt(st, d, b) = BuildBundle(st, d, q)
  BY DEF Rebuilt
<1>4. /\ n \in Nat /\ RefList(d, r.candidates, n)
      /\ b = BuildBundle(st, d, r) /\ b.error = "none"
  BY <1>2 DEF MadeBundle
<1>5. /\ b.dispositions = p.dispositions /\ b.budget = r.budget /\ b.generation = r.generation
      /\ b.index = r.index /\ b.mode = r.mode
  <2> DEFINE state == BundleState(p, d)
  <2> HIDE DEF state
  <2>1. b = [error |-> "none", kind |-> "bundle", generation |-> r.generation, index |-> r.index,
             mode |-> r.mode, budget |-> r.budget, units |-> <<>>,
             entries |-> p.entries, contexts |-> p.contexts,
             dispositions |-> p.dispositions, state |-> state]
    BY <1>2 DEF BundleMade, Seals, state
  <2> QED
    BY <2>1
<1>6. Len(p.dispositions) = n /\ \A i \in 1 .. n : p.dispositions[i].unit = r.candidates[i]
  BY <1>2 DEF BundleMade
<1>7. DOMAIN p.dispositions = 1 .. n
  <2> DEFINE I == UnitsOf(p)
  <2>1. p.dispositions \in Seq(Dispositions(I))
    BY <1>2 DEF BundleMade, PackedOK, Packings
  <2> HIDE DEF I
  <2> QED
    BY <1>6, <2>1
<1>8. [i \in DOMAIN D |-> D[i].unit] = r.candidates
  <2>1. [i \in DOMAIN D |-> D[i].unit] = [i \in 1 .. n |-> r.candidates[i]]
    BY <1>5, <1>6, <1>7
  <2>2. r.candidates = [i \in 1 .. n |-> r.candidates[i]]
    BY <1>4 DEF RefList
  <2> QED
    BY <2>1, <2>2
<1>9. /\ q.generation = r.generation /\ q.index = r.index
      /\ q.mode = r.mode /\ q.candidates = r.candidates /\ q.budget = r.budget
  BY <1>5, <1>8
<1> HIDE DEF q
<1>10. BuildBundle(st, d, q) = BuildBundle(st, d, r)
  BY <1>9, SameRequest
<1> QED
  BY <1>3, <1>4, <1>10 DEF AuthorityError

(***************************************************************************)
(* Cited entries of groups, resolved again.                                *)
(***************************************************************************)

(* Entries made of resolved ranges.                                        *)
EntriesLike(es, s) ==
  DOMAIN es = 1 .. Len(s) /\ \A i \in 1 .. Len(s) : es[i] = EntryOf(es[i].label, s[i])

(* Entries that the resolver makes again of what they say of themselves.   *)
Revalidates(es, d, g) ==
  \A i : LET ref == CandidateForEntries(es, i)
             s == ResolveGroup(d, ref, i).ranges
         IN /\ ref.chunk[1] = g /\ CandidateError(d, ref) = "none"
            /\ Len(s) = Len(es) /\ \A k \in DOMAIN es : RangeEqualsEntry(s[k], es[k])

(* A reference that asserts the same.                                      *)
AssertsSame(x, ref) ==
  /\ x.chunk = ref.chunk /\ x.lexical = ref.lexical /\ x.semantic = ref.semantic
  /\ ref.semantic # <<>> => x.span = ref.span

(* It resolves to the same ranges. *)
LEMMA SameResolution ==
    ASSUME NEW d, NEW x, NEW ref, AssertsSame(x, ref), NEW i
    PROVE  /\ CandidateError(d, x) = CandidateError(d, ref)
           /\ ResolveGroup(d, x, i).ranges = ResolveGroup(d, ref, 1).ranges
<1>1. CandidateError(d, x) = CandidateError(d, ref)
  BY DEF AssertsSame, CandidateError
<1> DEFINE e == EvidenceRange(d, ref.chunk, ref.lexical, <<0>>)
<1> DEFINE f == EvidenceRange(d, ref.chunk, ref.semantic, <<ref.span>>)
<1> DEFINE s == (IF ref.lexical = <<>> THEN <<>> ELSE <<e>>) \o (IF ref.semantic = <<>> THEN <<>> ELSE <<f>>)
<1>2. ResolveGroup(d, ref, 1).ranges = s
  BY DEF ResolveGroup
<1> DEFINE y == EvidenceRange(d, x.chunk, x.lexical, <<0>>)
<1> DEFINE z == EvidenceRange(d, x.chunk, x.semantic, <<x.span>>)
<1>3. ResolveGroup(d, x, i).ranges =
        (IF x.lexical = <<>> THEN <<>> ELSE <<y>>) \o (IF x.semantic = <<>> THEN <<>> ELSE <<z>>)
  BY DEF ResolveGroup
<1>4. y = e /\ (ref.semantic # <<>> => z = f)
  BY DEF AssertsSame
<1> HIDE DEF e, f, y, z
<1>5. (IF x.lexical = <<>> THEN <<>> ELSE <<y>>) \o (IF x.semantic = <<>> THEN <<>> ELSE <<z>>) = s
  BY <1>4 DEF AssertsSame
<1> QED
  BY <1>1, <1>2, <1>3, <1>5

(* The ranges of a reference, by the channels that assert them. *)
LEMMA RangesByChannel ==
    ASSUME NEW d, NEW ref, NEW s, s = ResolveGroup(d, ref, 1).ranges,
           NEW e, e = EvidenceRange(d, ref.chunk, ref.lexical, << 0 >>),
           NEW f, f = EvidenceRange(d, ref.chunk, ref.semantic, <<ref.span>>)
    PROVE  /\ ref.lexical # <<>> /\ ref.semantic # <<>> => Len(s) = 2 /\ s[1] = e /\ s[2] = f
           /\ ref.lexical # <<>> /\ ref.semantic = <<>> => Len(s) = 1 /\ s[1] = e
           /\ ref.lexical = <<>> /\ ref.semantic # <<>> => Len(s) = 1 /\ s[1] = f
<1>1. s = (IF ref.lexical = <<>> THEN <<>> ELSE <<e>>) \o (IF ref.semantic = <<>> THEN <<>> ELSE <<f>>)
  BY DEF ResolveGroup
<1>2. CASE ref.lexical # <<>> /\ ref.semantic # <<>>
  <2>1. s = <<e>> \o <<f>>
    BY <1>1, <1>2
  <2> QED
    BY <1>2, <2>1
<1>3. CASE ref.lexical # <<>> /\ ref.semantic = <<>>
  <2>1. s = <<e>> \o <<>>
    BY <1>1, <1>3
  <2> QED
    BY <1>3, <2>1
<1>4. CASE ref.lexical = <<>>
  BY <1>1, <1>4
<1> QED
  BY <1>2, <1>3, <1>4

(* The bounds of one number are that number. *)
LEMMA BoundsOfOne ==
    ASSUME NEW x \in Int
    PROVE  Min({x}) = x /\ Max({x}) = x
<1> DEFINE S == {x}
<1>1. S \in SUBSET (x .. x) /\ S # {}
  OBVIOUS
<1>2. \A y \in S : y = x
  OBVIOUS
<1> HIDE DEF S
<1>3. Max(S) \in S /\ Min(S) \in S
  BY <1>1, MaxMinIn
<1> QED
  BY <1>2, <1>3 DEF S

(* What one or two entries say of the channels that found them.            *)
Says0(es) == {i \in DOMAIN es : \E origin \in ToSet(es[i].provenance) : origin = 0}
SaysSpan(es) == {i \in DOMAIN es : \E origin \in ToSet(es[i].provenance) : origin # 0}
SpansOf(es) == (UNION {ToSet(es[i].provenance) : i \in DOMAIN es}) \ {0}

(* What an entry takes over from its range. *)
LEMMA EntryParts ==
    ASSUME NEW s, NEW n \in Nat, NEW es, Len(s) = n, EntriesLike(es, s)
    PROVE  /\ DOMAIN es = 1 .. n
           /\ \A k \in 1 .. n : /\ es[k].chunk = s[k].chunk /\ es[k].range = s[k].range
                                /\ es[k].text = s[k].text /\ es[k].provenance = s[k].provenance
<1>1. DOMAIN es = 1 .. n
  BY DEF EntriesLike
<1> SUFFICES ASSUME NEW k \in 1 .. n
             PROVE  /\ es[k].chunk = s[k].chunk /\ es[k].range = s[k].range
                    /\ es[k].text = s[k].text /\ es[k].provenance = s[k].provenance
  BY <1>1
<1> DEFINE l == es[k].label
<1> DEFINE r == s[k]
<1> DEFINE e == es[k]
<1>2. e = EntryOf(l, r)
  BY DEF EntriesLike
<1> HIDE DEF l, r, e
<1>3. e.chunk = r.chunk /\ e.range = r.range /\ e.text = r.text /\ e.provenance = r.provenance
  BY <1>2 DEF EntryOf
<1> QED
  BY <1>3 DEF r, e

(* The candidate of entries, by the channels they name. *)
LEMMA CandidateParts ==
    ASSUME NEW es, NEW i
    PROVE  LET x == CandidateForEntries(es, i)
           IN /\ x.chunk = es[1].chunk
              /\ x.lexical = IF Says0(es) = {} THEN <<>> ELSE es[Min(Says0(es))].range
              /\ x.semantic = IF SaysSpan(es) = {} THEN <<>> ELSE es[Min(SaysSpan(es))].range
              /\ x.span = IF SpansOf(es) = {} THEN 0 ELSE Max(SpansOf(es))
<1> DEFINE says(channel) == {k \in DOMAIN es : \E origin \in ToSet(es[k].provenance) :
                                                 (origin = 0) = (channel = "lexical")}
<1> DEFINE range(channel) == IF says(channel) = {} THEN <<>> ELSE es[Min(says(channel))].range
<1>1. CandidateForEntries(es, i) =
        [chunk |-> es[1].chunk, rank |-> i, lexical |-> range("lexical"),
         semantic |-> range("semantic"), span |-> IF SpansOf(es) = {} THEN 0 ELSE Max(SpansOf(es))]
  BY DEF CandidateForEntries, SpansOf
<1>2. says("lexical") = Says0(es)
  BY DEF Says0
<1>3. says("semantic") = SaysSpan(es)
  BY DEF SaysSpan
<1> HIDE DEF says
<1> QED
  BY <1>1, <1>2, <1>3

(* The candidate of the entries of a reference asserts the same. *)
LEMMA CandidateIsSame ==
    ASSUME NEW d, DocOK(d), NEW ref, RefOK(d, ref), NEW es,
           EntriesLike(es, ResolveGroup(d, ref, 1).ranges), NEW i
    PROVE  AssertsSame(CandidateForEntries(es, i), ref)
<1> DEFINE s == ResolveGroup(d, ref, 1).ranges
<1> DEFINE e == EvidenceRange(d, ref.chunk, ref.lexical, <<0>>)
<1> DEFINE f == EvidenceRange(d, ref.chunk, ref.semantic, <<ref.span>>)
<1> DEFINE x == CandidateForEntries(es, i)
<1>0. EntriesLike(es, s)
  OBVIOUS
<1>1. e.chunk = ref.chunk /\ e.range = ref.lexical /\ e.provenance = <<0>>
  BY DEF EvidenceRange
<1>2. f.chunk = ref.chunk /\ f.range = ref.semantic /\ f.provenance = <<ref.span>>
  BY DEF EvidenceRange
<1>3. /\ ref.lexical # <<>> /\ ref.semantic # <<>> => Len(s) = 2 /\ s[1] = e /\ s[2] = f
      /\ ref.lexical # <<>> /\ ref.semantic = <<>> => Len(s) = 1 /\ s[1] = e
      /\ ref.lexical = <<>> /\ ref.semantic # <<>> => Len(s) = 1 /\ s[1] = f
  BY RangesByChannel
<1>4. /\ x.chunk = es[1].chunk
      /\ x.lexical = IF Says0(es) = {} THEN <<>> ELSE es[Min(Says0(es))].range
      /\ x.semantic = IF SaysSpan(es) = {} THEN <<>> ELSE es[Min(SaysSpan(es))].range
      /\ x.span = IF SpansOf(es) = {} THEN 0 ELSE Max(SpansOf(es))
  BY CandidateParts
<1>14. Len(s) \in Nat
  BY <1>3, RefOK(d, ref) DEF RefOK
<1> DEFINE n == Len(s)
<1>5. /\ DOMAIN es = 1 .. n
      /\ \A k \in 1 .. n : /\ es[k].chunk = s[k].chunk /\ es[k].range = s[k].range
                           /\ es[k].text = s[k].text /\ es[k].provenance = s[k].provenance
  <2> HIDE DEF s
  <2> QED
    BY <1>0, <1>14, EntryParts
<1>6. ref.semantic # <<>> => ref.span \in Int /\ ref.span # 0
  <2>1. Len(d.spans) \in Nat
    BY DocTypes
  <2> QED
    BY <2>1 DEF RefOK
<1>7. \A y : ToSet(<<y>>) = {y}
  <2> TAKE y
  <2>1. DOMAIN <<y>> = {1} /\ <<y>>[1] = y
    OBVIOUS
  <2> QED
    BY <2>1 DEF ToSet
<1>8. Min({1}) = 1 /\ Min({2}) = 2
  BY BoundsOfOne, 1 \in Int, 2 \in Int
<1>9. ref.semantic # <<>> => Max({ref.span}) = ref.span
  BY <1>6, BoundsOfOne
<1> HIDE DEF s, e, f, x
<1>10. CASE ref.lexical # <<>> /\ ref.semantic # <<>>
  <2>1. /\ DOMAIN es = {1, 2} /\ es[1].chunk = ref.chunk
        /\ es[1].range = ref.lexical /\ es[2].range = ref.semantic
        /\ es[1].provenance = <<0>> /\ es[2].provenance = <<ref.span>>
    BY <1>1, <1>2, <1>3, <1>5, <1>10
  <2>2. ToSet(es[1].provenance) = {0} /\ ToSet(es[2].provenance) = {ref.span}
    BY <1>7, <2>1
  <2>3. Says0(es) = {1} /\ SaysSpan(es) = {2}
    BY <1>6, <1>10, <2>1, <2>2 DEF Says0, SaysSpan
  <2>4. SpansOf(es) = {ref.span}
    <3>1. UNION {ToSet(es[k].provenance) : k \in DOMAIN es} = {0, ref.span}
      BY <2>1, <2>2
    <3> QED
      BY <1>6, <1>10, <3>1 DEF SpansOf
  <2>5. x.chunk = ref.chunk /\ x.lexical = ref.lexical
    BY <1>4, <1>8, <2>1, <2>3
  <2>6. x.semantic = ref.semantic
    BY <1>4, <1>8, <2>1, <2>3
  <2>7. x.span = ref.span
    BY <1>4, <1>9, <1>10, <2>4
  <2> QED
    BY <2>5, <2>6, <2>7 DEF AssertsSame, x
<1>11. CASE ref.lexical # <<>> /\ ref.semantic = <<>>
  <2>1. /\ DOMAIN es = {1} /\ es[1].chunk = ref.chunk
        /\ es[1].range = ref.lexical /\ es[1].provenance = <<0>>
    BY <1>1, <1>3, <1>5, <1>11
  <2>2. ToSet(es[1].provenance) = {0}
    BY <1>7, <2>1
  <2>3. Says0(es) = {1} /\ SaysSpan(es) = {}
    BY <2>1, <2>2 DEF Says0, SaysSpan
  <2>4. x.chunk = ref.chunk /\ x.lexical = ref.lexical
    BY <1>4, <1>8, <2>1, <2>3
  <2>5. x.semantic = ref.semantic
    BY <1>4, <1>11, <2>3
  <2> QED
    BY <1>11, <2>4, <2>5 DEF AssertsSame, x
<1>12. CASE ref.lexical = <<>> /\ ref.semantic # <<>>
  <2>1. /\ DOMAIN es = {1} /\ es[1].chunk = ref.chunk
        /\ es[1].range = ref.semantic /\ es[1].provenance = <<ref.span>>
    BY <1>2, <1>3, <1>5, <1>12
  <2>2. ToSet(es[1].provenance) = {ref.span}
    BY <1>7, <2>1
  <2>3. Says0(es) = {} /\ SaysSpan(es) = {1}
    BY <1>6, <1>12, <2>1, <2>2 DEF Says0, SaysSpan
  <2>4. SpansOf(es) = {ref.span}
    <3>1. UNION {ToSet(es[k].provenance) : k \in DOMAIN es} = {ref.span}
      BY <2>1, <2>2
    <3> QED
      BY <1>6, <1>12, <3>1 DEF SpansOf
  <2>5. x.chunk = ref.chunk /\ x.lexical = ref.lexical
    BY <1>4, <1>12, <2>1, <2>3
  <2>6. x.semantic = ref.semantic
    BY <1>4, <1>8, <2>1, <2>3
  <2>7. x.span = ref.span
    BY <1>4, <1>9, <1>12, <2>4
  <2> QED
    BY <2>5, <2>6, <2>7 DEF AssertsSame, x
<1>15. ref.lexical # <<>> \/ ref.semantic # <<>>
  BY DEF RefOK
<1> QED
  BY <1>10, <1>11, <1>12, <1>15

(* The entries of a valid reference are resolved to what they say. *)
LEMMA WholeRevalidates ==
    ASSUME NEW d, DocOK(d), NEW g, NEW ref, ValidRef(d, g, ref), NEW es,
           EntriesLike(es, ResolveGroup(d, ref, 1).ranges)
    PROVE  Revalidates(es, d, g)
<1> DEFINE s == ResolveGroup(d, ref, 1).ranges
<1>1. RefOK(d, ref) /\ ref.chunk[1] = g /\ CandidateError(d, ref) = "none"
  BY DEF ValidRef
<1>2. Len(s) \in Nat
  <2>1. GroupOK(ResolveGroup(d, ref, 1), d, g)
    BY <1>1, GroupIs
  <2>2. Len(s) \in {0, 1, 2}
    BY <2>1 DEF GroupOK
  <2> QED
    BY <2>2
<1>3. EntriesLike(es, s)
  OBVIOUS
<1> SUFFICES ASSUME NEW i
             PROVE  LET x == CandidateForEntries(es, i)
                        t == ResolveGroup(d, x, i).ranges
                    IN /\ x.chunk[1] = g /\ CandidateError(d, x) = "none"
                       /\ Len(t) = Len(es) /\ \A k \in DOMAIN es : RangeEqualsEntry(t[k], es[k])
  BY DEF Revalidates
<1> DEFINE x == CandidateForEntries(es, i)
<1> DEFINE t == ResolveGroup(d, x, i).ranges
<1>4. AssertsSame(x, ref)
  BY <1>1, CandidateIsSame
<1> HIDE DEF x
<1>5. CandidateError(d, x) = CandidateError(d, ref) /\ t = s
  BY <1>4, SameResolution
<1>6. x.chunk = ref.chunk
  BY <1>4 DEF AssertsSame
<1> HIDE DEF s, t
<1> DEFINE n == Len(s)
<1>7. /\ DOMAIN es = 1 .. n
      /\ \A k \in 1 .. n : /\ es[k].chunk = s[k].chunk /\ es[k].range = s[k].range
                           /\ es[k].text = s[k].text /\ es[k].provenance = s[k].provenance
  BY <1>2, <1>3, EntryParts
<1>8. Len(es) = Len(s)
  BY <1>2, <1>7
<1>9. \A k \in 1 .. Len(s) : RangeEqualsEntry(s[k], es[k])
  BY <1>7 DEF RangeEqualsEntry
<1>10. /\ x.chunk[1] = g /\ CandidateError(d, x) = "none"
       /\ Len(t) = Len(es) /\ \A k \in DOMAIN es : RangeEqualsEntry(t[k], es[k])
  BY <1>1, <1>5, <1>6, <1>7, <1>8, <1>9
<1> QED
  BY <1>10 DEF x, t

(***************************************************************************)
(* A reference may be asserted by one of its channels alone.               *)
(***************************************************************************)
OneChannel(ref, l, q) ==
  [chunk |-> ref.chunk, rank |-> ref.rank, lexical |-> l, semantic |-> q, span |-> ref.span]

(* It stays valid. *)
LEMMA OneIsValid ==
    ASSUME NEW d, NEW g, NEW ref, ValidRef(d, g, ref), NEW l, l = ref.lexical \/ l = <<>>,
           NEW q, q = ref.semantic \/ q = <<>>, l # <<>> \/ q # <<>>
    PROVE  ValidRef(d, g, OneChannel(ref, l, q))
<1> DEFINE y == OneChannel(ref, l, q)
<1>1. /\ y = [chunk |-> y.chunk, rank |-> y.rank, lexical |-> y.lexical, semantic |-> y.semantic,
              span |-> y.span]
      /\ y.chunk = ref.chunk /\ y.lexical = l /\ y.semantic = q /\ y.span = ref.span
  BY DEF OneChannel
<1> HIDE DEF y
<1>2. RefOK(d, ref) /\ ref.chunk[1] = g /\ CandidateError(d, ref) = "none"
  BY DEF ValidRef
<1>3. RefOK(d, y)
  BY <1>1, <1>2 DEF RefOK
<1>4. /\ ~ (ref.lexical # <<>> /\ ref.lexical # ChunkRange(d, ref.chunk[2]))
      /\ ref.semantic # <<>> => /\ d.spans[ref.span].chunk = ref.chunk[2]
                                /\ ref.semantic = SpanRange(d, ref.span)
                                /\ d.spans[ref.span].embeddable
  BY <1>2 DEF CandidateError
<1>5. /\ ~ (y.lexical # <<>> /\ y.lexical # ChunkRange(d, y.chunk[2]))
      /\ y.semantic # <<>> => /\ d.spans[y.span].chunk = y.chunk[2]
                              /\ y.semantic = SpanRange(d, y.span)
                              /\ d.spans[y.span].embeddable
  BY <1>1, <1>4
<1>6. CandidateError(d, y) = "none"
  BY <1>5 DEF CandidateError
<1>7. ValidRef(d, g, y)
  BY <1>1, <1>2, <1>3, <1>6 DEF ValidRef
<1> QED
  BY <1>7 DEF y

(* An entry of one range of a reference is resolved to what it says. *)
LEMMA OneRevalidates ==
    ASSUME NEW d, DocOK(d), NEW g, NEW x, RangeOfRef(d, g, x), NEW es, EntriesLike(es, <<x>>)
    PROVE  Revalidates(es, d, g)
<1>1. PICK ref : /\ ValidRef(d, g, ref)
                 /\ \E i \in DOMAIN ResolveGroup(d, ref, 1).ranges : x = ResolveGroup(d, ref, 1).ranges[i]
  BY DEF RangeOfRef
<1> DEFINE s == ResolveGroup(d, ref, 1).ranges
<1> DEFINE e == EvidenceRange(d, ref.chunk, ref.lexical, <<0>>)
<1> DEFINE f == EvidenceRange(d, ref.chunk, ref.semantic, <<ref.span>>)
<1>2. PICK i \in DOMAIN s : x = s[i]
  BY <1>1
<1>3. ref.lexical # <<>> \/ ref.semantic # <<>>
  BY <1>1 DEF ValidRef, RefOK
<1>4. /\ ref.lexical # <<>> /\ ref.semantic # <<>> => Len(s) = 2 /\ s[1] = e /\ s[2] = f
      /\ ref.lexical # <<>> /\ ref.semantic = <<>> => Len(s) = 1 /\ s[1] = e
      /\ ref.lexical = <<>> /\ ref.semantic # <<>> => Len(s) = 1 /\ s[1] = f
  BY RangesByChannel
<1>5. DOMAIN s = 1 .. Len(s)
  <2> DEFINE T == Resolved(d, g)
  <2>1. s \in Seq(T)
    BY <1>1, GroupIs DEF ValidRef, GroupOK
  <2> HIDE DEF s, T
  <2> QED
    BY <2>1
<1>6. (ref.lexical # <<>> /\ x = e) \/ (ref.semantic # <<>> /\ x = f)
  <2> HIDE DEF s, e, f
  <2>1. i \in 1 .. Len(s)
    BY <1>2, <1>5
  <2>2. CASE ref.lexical # <<>> /\ ref.semantic # <<>>
    <3>1. i = 1 \/ i = 2
      BY <1>4, <2>1, <2>2
    <3> QED
      BY <1>2, <1>4, <2>2, <3>1
  <2>3. CASE ~ (ref.lexical # <<>> /\ ref.semantic # <<>>)
    <3>1. i = 1
      BY <1>3, <1>4, <2>1, <2>3
    <3> QED
      BY <1>2, <1>3, <1>4, <2>3, <3>1
  <2> QED
    BY <2>2, <2>3
<1>7. ASSUME NEW y, ValidRef(d, g, y), NEW t, t = ResolveGroup(d, y, 1).ranges, Len(t) = 1, t[1] = x
      PROVE  Revalidates(es, d, g)
  <2>1. DOMAIN es = 1 .. 1 /\ es[1] = EntryOf(es[1].label, x)
    BY DEF EntriesLike
  <2>2. EntriesLike(es, t)
    BY <1>7, <2>1 DEF EntriesLike
  <2>3. EntriesLike(es, ResolveGroup(d, y, 1).ranges)
    BY <1>7, <2>2
  <2> QED
    BY <1>7, <2>3, WholeRevalidates
<1>8. CASE ref.lexical # <<>> /\ x = e
  <2> DEFINE y == OneChannel(ref, ref.lexical, <<>>)
  <2> DEFINE t == ResolveGroup(d, y, 1).ranges
  <2>1. ValidRef(d, g, y)
    BY <1>1, <1>8, OneIsValid
  <2>2. y.chunk = ref.chunk /\ y.lexical = ref.lexical /\ y.semantic = <<>>
    BY DEF OneChannel
  <2>3. EvidenceRange(d, y.chunk, y.lexical, <<0>>) = e
    BY <2>2
  <2> DEFINE z == EvidenceRange(d, y.chunk, y.semantic, <<y.span>>)
  <2> HIDE DEF y, e
  <2>5. /\ y.lexical # <<>> /\ y.semantic # <<>> => Len(t) = 2 /\ t[1] = e /\ t[2] = z
        /\ y.lexical # <<>> /\ y.semantic = <<>> => Len(t) = 1 /\ t[1] = e
        /\ y.lexical = <<>> /\ y.semantic # <<>> => Len(t) = 1 /\ t[1] = z
    BY <2>3, RangesByChannel
  <2>4. Len(t) = 1 /\ t[1] = e
    BY <1>8, <2>2, <2>5
  <2> QED
    BY <1>7, <1>8, <2>1, <2>4
<1>9. CASE ref.semantic # <<>> /\ x = f
  <2> DEFINE y == OneChannel(ref, <<>>, ref.semantic)
  <2> DEFINE t == ResolveGroup(d, y, 1).ranges
  <2>1. ValidRef(d, g, y)
    BY <1>1, <1>9, OneIsValid
  <2>2. y.chunk = ref.chunk /\ y.lexical = <<>> /\ y.semantic = ref.semantic /\ y.span = ref.span
    BY DEF OneChannel
  <2>3. EvidenceRange(d, y.chunk, y.semantic, <<y.span>>) = f
    BY <2>2
  <2> DEFINE z == EvidenceRange(d, y.chunk, y.lexical, <<0>>)
  <2> HIDE DEF y, f
  <2>5. /\ y.lexical # <<>> /\ y.semantic # <<>> => Len(t) = 2 /\ t[1] = z /\ t[2] = f
        /\ y.lexical # <<>> /\ y.semantic = <<>> => Len(t) = 1 /\ t[1] = z
        /\ y.lexical = <<>> /\ y.semantic # <<>> => Len(t) = 1 /\ t[1] = f
    BY <2>3, RangesByChannel
  <2>4. Len(t) = 1 /\ t[1] = f
    BY <1>9, <2>2, <2>5
  <2> QED
    BY <1>7, <1>9, <2>1, <2>4
<1> QED
  BY <1>6, <1>8, <1>9

(***************************************************************************)
(* The cited entries of packed units pass revalidation.                    *)
(***************************************************************************)
IsCanonical(es, unit, d) ==
  /\ unit.group = <<Child(es[1]), Child(es[2])>>
  /\ CanonicalPair(d, unit.group[1], unit.group[2]) = unit.group

UnitRevalidates(c, unit, d, g) ==
  LET es == EntriesFor(c, unit.labels)
  IN \/ unit.kind = "standalone" /\ Revalidates(es, d, g)
     \/ /\ unit.kind = "group" /\ DOMAIN es = 1 .. 2
        /\ \A k \in 1 .. 2 : Revalidates(<<es[k]>>, d, g)
        /\ IsCanonical(es, unit, d)

(* What a unit contributes to revalidation.                                *)
Parts(c, unit) ==
  LET es == EntriesFor(c, unit.labels)
  IN IF unit.kind = "standalone" THEN <<es>> ELSE [k \in DOMAIN es |-> <<es[k]>>]

(* The parts of a unit that revalidates revalidate. *)
LEMMA PartsRevalidate ==
    ASSUME NEW c, NEW d, NEW g, NEW unit, UnitRevalidates(c, unit, d, g)
    PROVE  Parts(c, unit) \in Seq({x \in {EntriesFor(c, unit.labels)} \cup
                                         {<<EntriesFor(c, unit.labels)[k]>> : k \in 1 .. 2} :
                                    Revalidates(x, d, g)})
<1> DEFINE es == EntriesFor(c, unit.labels)
<1> DEFINE T == {x \in {es} \cup {<<es[k]>> : k \in 1 .. 2} : Revalidates(x, d, g)}
<1>1. CASE unit.kind = "standalone" /\ Revalidates(es, d, g)
  <2>1. es \in T
    BY <1>1
  <2>2. Parts(c, unit) = <<es>>
    BY <1>1 DEF Parts
  <2> HIDE DEF es, T
  <2>3. <<es>> \in Seq(T)
    BY <2>1
  <2>4. Parts(c, unit) \in Seq(T)
    BY <2>2, <2>3
  <2> QED
    BY <2>4 DEF T, es
<1>2. CASE /\ unit.kind = "group" /\ DOMAIN es = 1 .. 2
           /\ \A k \in 1 .. 2 : Revalidates(<<es[k]>>, d, g)
  <2>1. <<es[1]>> \in T /\ <<es[2]>> \in T
    BY <1>2
  <2>2. Parts(c, unit) = [k \in DOMAIN es |-> <<es[k]>>]
    BY <1>2 DEF Parts
  <2> DEFINE x == <<es[1]>>
  <2> DEFINE y == <<es[2]>>
  <2>3. [k \in 1 .. 2 |-> <<es[k]>>] = <<x, y>>
    <3> HIDE DEF es
    <3>1. \A k \in 1 .. 2 : <<es[k]>> = <<x, y>>[k]
      <4> SUFFICES ASSUME NEW k \in 1 .. 2 PROVE <<es[k]>> = <<x, y>>[k]
        OBVIOUS
      <4>1. k = 1 \/ k = 2
        OBVIOUS
      <4> QED
        BY <4>1
    <3> HIDE DEF x, y
    <3> QED
      BY <3>1
  <2>4. Parts(c, unit) = <<x, y>>
    BY <1>2, <2>2, <2>3
  <2> HIDE DEF es, T, x, y
  <2>5. x \in T /\ y \in T
    BY <2>1 DEF x, y
  <2>6. <<x, y>> \in Seq(T)
    BY <2>5
  <2>7. Parts(c, unit) \in Seq(T)
    BY <2>4, <2>6
  <2> QED
    BY <2>7 DEF T, es
<1> QED
  BY <1>1, <1>2 DEF UnitRevalidates

(* Units that revalidate have no authority error. *)
LEMMA EntriesAuthority ==
    ASSUME NEW st, NEW d, NEW c, c.generation = st.active,
           c.mode # "lexical" => IndexCurrent(st, c.index),
           NEW N \in Nat, NEW units, DOMAIN units = 1 .. N,
           \A n \in 1 .. N : UnitRevalidates(c, units[n], d, st.active)
    PROVE  CitedEntriesError(st, d, c, units) = "none"
<1> DEFINE g == st.active
<1> DEFINE parts(unit) == LET entries == EntriesFor(c, unit.labels)
                          IN IF unit.kind = "standalone" THEN <<entries>>
                             ELSE [k \in DOMAIN entries |-> <<entries[k]>>]
<1> DEFINE seqs == [n \in DOMAIN units |-> parts(units[n])]
<1> DEFINE cited == FlattenSeq(seqs)
<1> DEFINE candidate(i) == CandidateForEntries(cited[i], i)
<1> DEFINE again == [generation |-> c.generation, index |-> c.index, mode |-> c.mode,
                       budget |-> c.budget, candidates |-> [i \in DOMAIN cited |-> candidate(i)]]
<1> DEFINE failure == ResolutionError(st, d, again)
<1> DEFINE groups == ResolvedGroups(d, again)
<1> DEFINE same(i) == /\ Len(groups[i].ranges) = Len(cited[i])
                      /\ \A k \in DOMAIN cited[i] : RangeEqualsEntry(groups[i].ranges[k], cited[i][k])
<1> DEFINE allsame == \A i \in DOMAIN cited : same(i)
<1> DEFINE canonical(unit) ==
      unit.kind = "group" =>
        LET entries == EntriesFor(c, unit.labels)
        IN unit.group = <<Child(entries[1]), Child(entries[2])>>
           /\ CanonicalPair(d, unit.group[1], unit.group[2]) = unit.group
<1> DEFINE allcanonical == \A n \in DOMAIN units : canonical(units[n])
<1>1. CitedEntriesError(st, d, c, units) =
        IF failure # "none" THEN MapAuthorityError(failure)
        ELSE IF allsame /\ allcanonical THEN "none"
        ELSE "AUTHORITATIVE_EVIDENCE_INVALID"
  BY DEF CitedEntriesError
<1>2. allcanonical
  BY DEF UnitRevalidates, IsCanonical
<1>3. seqs = [n \in 1 .. N |-> Parts(c, units[n])]
  BY DEF Parts
<1> DEFINE T == {x \in UNION {{EntriesFor(c, units[n].labels)} \cup
                              {<<EntriesFor(c, units[n].labels)[k]>> : k \in 1 .. 2} : n \in 1 .. N} :
                  Revalidates(x, d, g)}
<1>4. cited \in Seq(T)
  <2>1. ASSUME NEW n \in 1 .. N PROVE Parts(c, units[n]) \in Seq(T)
    <3> DEFINE S == {x \in {EntriesFor(c, units[n].labels)} \cup
                           {<<EntriesFor(c, units[n].labels)[k]>> : k \in 1 .. 2} :
                      Revalidates(x, d, g)}
    <3>1. Parts(c, units[n]) \in Seq(S)
      BY PartsRevalidate
    <3>2. S \in SUBSET T
      OBVIOUS
    <3> HIDE DEF S, T
    <3> QED
      BY <3>1, <3>2
  <2> HIDE DEF seqs, T
  <2>2. IsList(seqs, N, Seq(T))
    BY <1>3, <2>1 DEF IsList
  <2> QED
    BY <2>2, FlattenHas
<1>5. \A x \in T : Revalidates(x, d, g)
  OBVIOUS
<1> HIDE DEF parts, seqs, cited, T
<1>6. DOMAIN cited = 1 .. Len(cited) /\ \A i \in DOMAIN cited : Revalidates(cited[i], d, g)
  BY <1>4, <1>5
<1>7. /\ again.generation = c.generation /\ again.index = c.index /\ again.mode = c.mode
      /\ again.candidates = [i \in DOMAIN cited |-> candidate(i)]
  OBVIOUS
<1>8. ASSUME NEW i \in DOMAIN cited
      PROVE  /\ candidate(i).chunk[1] = g /\ CandidateError(d, candidate(i)) = "none"
             /\ Len(ResolveGroup(d, candidate(i), i).ranges) = Len(cited[i])
             /\ \A k \in DOMAIN cited[i] :
                  RangeEqualsEntry(ResolveGroup(d, candidate(i), i).ranges[k], cited[i][k])
  <2>1. Revalidates(cited[i], d, g)
    BY <1>6
  <2> QED
    BY <2>1 DEF Revalidates
<1> HIDE DEF candidate, again
<1>9. DOMAIN again.candidates = DOMAIN cited /\ \A i \in DOMAIN cited : again.candidates[i] = candidate(i)
  BY <1>7
<1>10. failure = "none"
  <2>1. {i \in DOMAIN again.candidates : CandidateError(d, again.candidates[i]) # "none"} = {}
    BY <1>8, <1>9
  <2>2. ~ \E i \in DOMAIN again.candidates : again.candidates[i].chunk[1] # again.generation
    BY <1>7, <1>8, <1>9
  <2> QED
    BY <1>7, <2>1, <2>2 DEF ResolutionError
<1>11. allsame
  <2> SUFFICES ASSUME NEW i \in DOMAIN cited PROVE same(i)
    OBVIOUS
  <2>1. groups[i] = ResolveGroup(d, candidate(i), i)
    BY <1>9 DEF ResolvedGroups
  <2> HIDE DEF groups
  <2> QED
    BY <1>8, <2>1
<1> HIDE DEF failure, allsame, allcanonical
<1> QED
  BY <1>1, <1>2, <1>10, <1>11

(* A bundle and the packing it was sealed from.                            *)
PackingOf(b, p, st, d) == \E I, U : PackedIn(b, p, st, d, I, U)

(* A bundle of groups is sealed from the packing of its units. *)
LEMMA GroupsPacking ==
    ASSUME NEW d, NEW st, NEW b, NEW p, NEW r, NEW n, NEW m, GroupsMade(b, p, st, d, r, n, m)
    PROVE  PackingOf(b, p, st, d)
<1>1. PICK I, U : PackedOK(p, Resolved(d, st.active), I, U, r.budget)
  BY DEF GroupsMade
<1> DEFINE units == Records(p, r.units, m)
<1>2. ResolvedOK(st, d, r, n) /\ Seals(b, "groups", r, units, p, d)
  BY DEF GroupsMade
<1> HIDE DEF units
<1>3. PackedIn(b, p, st, d, I, U)
  BY <1>1, <1>2, SealedIs
<1> QED
  BY <1>3 DEF PackingOf

(* What a bundle shows of its packing. *)
LEMMA PackingShows ==
    ASSUME NEW d, NEW st, NEW b, NEW p, PackingOf(b, p, st, d)
    PROVE  /\ b.dispositions = p.dispositions /\ b.entries = p.entries
           /\ b.generation = st.active
           /\ b.mode # "lexical" => IndexCurrent(st, b.index)
           /\ LabelsApart(b.dispositions, Len(p.dispositions), Len(p.entries))
           /\ Len(p.entries) \in Nat /\ Numbered(b, Len(p.entries))
<1>1. PICK I, U : PackedIn(b, p, st, d, I, U)
  BY DEF PackingOf
<1> DEFINE state == BundleState(p, d)
<1>2. b.dispositions = p.dispositions /\ b.entries = p.entries
  <2> HIDE DEF state
  <2>1. b = [error |-> "none", kind |-> b.kind, generation |-> b.generation, index |-> b.index,
             mode |-> b.mode, budget |-> b.budget, units |-> b.units,
             entries |-> p.entries, contexts |-> p.contexts,
             dispositions |-> p.dispositions, state |-> state]
    BY <1>1 DEF PackedIn, state
  <2> QED
    BY <2>1
<1>3. b.generation = st.active /\ (b.mode # "lexical" => IndexCurrent(st, b.index))
  BY <1>1 DEF PackedIn
<1>4. LabelsApart(p.dispositions, Len(p.dispositions), Len(p.entries))
  <2> DEFINE R == Resolved(d, st.active)
  <2>1. p \in Packings(R, I) /\ Labelled(p)
    BY <1>1 DEF PackedIn, PackedOK
  <2> HIDE DEF R
  <2> QED
    BY <2>1, LabelsAreApart
<1>5. CopyOf(b, b)
  BY SelfCopy
<1>6. Len(p.entries) \in Nat /\ Numbered(b, Len(p.entries))
  BY <1>1, <1>5, CopyFacts
<1> QED
  BY <1>2, <1>3, <1>4, <1>6

(* The entries that a unit's labels name are made of its ranges. *)
LEMMA CitedEntriesLike ==
    ASSUME NEW b, NEW K \in Nat, Numbered(b, K), NEW p, b.entries = p.entries, Len(p.entries) = K,
           NEW labels, NEW u, CitesUnit(p, labels, u)
    PROVE  EntriesLike(EntriesFor(b, labels), u.ranges)
<1> DEFINE s == u.ranges
<1> DEFINE es == EntriesFor(b, labels)
<1>1. /\ DOMAIN labels = 1 .. Len(s)
      /\ \A k \in 1 .. Len(s) : /\ labels[k] \in 1 .. K
                                /\ b.entries[labels[k]] = EntryOf(labels[k], s[k])
  BY DEF CitesUnit
<1> HIDE DEF s
<1>2. DOMAIN es = 1 .. Len(s) /\ \A k \in 1 .. Len(s) : es[k] = EntryFor(b, labels[k])
  BY <1>1 DEF EntriesFor, EntryFor
<1> HIDE DEF es
<1>3. ASSUME NEW k \in 1 .. Len(s) PROVE es[k] = EntryOf(es[k].label, s[k])
  <2> DEFINE l == labels[k]
  <2>1. l \in 1 .. K /\ b.entries[l] = EntryOf(l, s[k]) /\ es[k] = EntryFor(b, l)
    BY <1>1, <1>2
  <2> HIDE DEF l
  <2>2. l \in 1 .. K => EntryFor(b, l) = b.entries[l]
    BY CitedIs
  <2>3. b.entries[l].label = l
    BY <2>1 DEF Numbered
  <2> QED
    BY <2>1, <2>2, <2>3
<1>4. EntriesLike(es, s)
  BY <1>2, <1>3 DEF EntriesLike
<1> QED
  BY <1>4 DEF es, s

(* Every unit a bundle of groups records revalidates. *)
LEMMA RecordRevalidates ==
    ASSUME NEW d, DocOK(d), NEW st, NEW b, NEW p, NEW r, NEW n, NEW m,
           MadeGroups(b, st, d, r, n, m), GroupsMade(b, p, st, d, r, n, m), NEW v, v \in b.units
    PROVE  UnitRevalidates(b, v, d, st.active)
<1> DEFINE g == st.active
<1> DEFINE K == Len(p.entries)
<1>1. PackingOf(b, p, st, d)
  BY GroupsPacking
<1>2. b.entries = p.entries /\ K \in Nat /\ Numbered(b, K)
  BY <1>1, PackingShows
<1>3. \E i : RecordOf(v, p, r, m, i)
  BY RecordIs
<1>4. PICK i : RecordOf(v, p, r, m, i)
  BY <1>3
<1>5. /\ i \in 1 .. m /\ p.dispositions[i].omission = "none"
      /\ v.kind = r.units[i].kind /\ v.labels = p.dispositions[i].labels
      /\ v.kind = "group" => v.group = p.dispositions[i].unit
  BY <1>4 DEF RecordOf, Packable, Record
<1>6. PICK u : UnitAt(p, d, g, r.units, i, u)
  BY <1>5 DEF GroupsMade
<1>7. p.dispositions[i].unit = u.id /\ CitesUnit(p, v.labels, u) /\ LogicalOK(d, g, r.units[i], u)
  BY <1>5, <1>6 DEF UnitAt, DisposedAt
<1> DEFINE es == EntriesFor(b, v.labels)
<1> DEFINE s == u.ranges
<1>8. EntriesLike(es, s)
  <2> DEFINE labels == v.labels
  <2> HIDE DEF K, labels
  <2>1. CitesUnit(p, labels, u) /\ Len(p.entries) = K
    BY <1>7 DEF labels, K
  <2>2. EntriesLike(EntriesFor(b, labels), u.ranges)
    BY <1>2, <2>1, CitedEntriesLike
  <2> QED
    BY <2>2 DEF labels
<1> HIDE DEF es
<1>9. CASE v.kind = "standalone" /\ SingleUnit(d, g, u)
  <2>1. PICK ref : ValidRef(d, g, ref) /\ u.ranges = ResolveGroup(d, ref, 1).ranges
    BY <1>9 DEF SingleUnit
  <2>2. EntriesLike(es, ResolveGroup(d, ref, 1).ranges)
    BY <1>8, <2>1
  <2>3. Revalidates(es, d, g)
    BY <2>1, <2>2, WholeRevalidates
  <2> QED
    BY <1>9, <2>3 DEF UnitRevalidates, es
<1>10. CASE v.kind = "group" /\ PairUnit(d, g, u)
  <2>1. PICK x, y : IsPair(d, g, u, x, y)
    BY <1>10 DEF PairUnit
  <2>2. /\ RangeOfRef(d, g, x) /\ RangeOfRef(d, g, y)
        /\ s = <<x, y>> /\ u.id = <<Child(x), Child(y)>>
        /\ CanonicalPair(d, Child(x), Child(y)) = <<Child(x), Child(y)>>
    BY <2>1 DEF IsPair
  <2> HIDE DEF s
  <2>3. Len(s) = 2 /\ s[1] = x /\ s[2] = y
    BY <2>2
  <2>4. /\ DOMAIN es = 1 .. 2
        /\ \A k \in 1 .. 2 : /\ es[k].chunk = s[k].chunk /\ es[k].range = s[k].range
                             /\ es[k].text = s[k].text /\ es[k].provenance = s[k].provenance
    <3> DEFINE N == Len(s)
    <3>1. N \in Nat /\ Len(s) = N
      BY <2>3
    <3> HIDE DEF N
    <3>2. /\ DOMAIN es = 1 .. N
          /\ \A k \in 1 .. N : /\ es[k].chunk = s[k].chunk /\ es[k].range = s[k].range
                               /\ es[k].text = s[k].text /\ es[k].provenance = s[k].provenance
      BY <1>8, <3>1, EntryParts
    <3> QED
      BY <2>3, <3>1, <3>2
  <2>5. es[1] = EntryOf(es[1].label, x) /\ es[2] = EntryOf(es[2].label, y)
    BY <1>8, <2>3 DEF EntriesLike
  <2>6. Child(es[1]) = Child(x) /\ Child(es[2]) = Child(y)
    BY <2>3, <2>4 DEF Child
  <2>7. \A e, z : e = EntryOf(e.label, z) => EntriesLike(<<e>>, <<z>>)
    BY DEF EntriesLike
  <2> DEFINE e1 == es[1]
  <2> DEFINE e2 == es[2]
  <2> HIDE DEF e1, e2
  <2>8. EntriesLike(<<e1>>, <<x>>) /\ EntriesLike(<<e2>>, <<y>>)
    BY <2>5, <2>7 DEF e1, e2
  <2>9. Revalidates(<<e1>>, d, g)
    BY <2>2, <2>8, OneRevalidates
  <2>10. Revalidates(<<e2>>, d, g)
    BY <2>2, <2>8, OneRevalidates
  <2>11. \A k \in 1 .. 2 : Revalidates(<<es[k]>>, d, g)
    BY <2>9, <2>10 DEF e1, e2
  <2>12. v.group = <<Child(x), Child(y)>>
    BY <1>5, <1>7, <1>10, <2>2
  <2>13. IsCanonical(es, v, d)
    BY <2>2, <2>6, <2>12 DEF IsCanonical
  <2> QED
    BY <1>10, <2>4, <2>11, <2>13 DEF UnitRevalidates, es
<1> QED
  BY <1>5, <1>7, <1>9, <1>10 DEF LogicalOK

(* What verification checks before it compares the value.                  *)
Passes(st, d, c, units) ==
  /\ \A m \in DOMAIN units : BindError(c, units, m) = "none"
  /\ AuthorityError(st, d, c, units) = "none"

(* Packed units of a bundle pass. *)
LEMMA BundlePasses ==
    ASSUME DocOK(doc), built.active \in Nat, Held(bundle, built, doc), bundle.kind = "bundle",
           NEW units, NEW N, UnitList(units, N), ToSet(units) \subseteq PackedUnits
    PROVE  Passes(built, doc, bundle, units)
<1>1. \E p, I, U : PackedIn(bundle, p, built, doc, I, U)
  BY HeldIs
<1>2. PICK p : PackingOf(bundle, p, built, doc)
  BY <1>1 DEF PackingOf
<1> DEFINE D == bundle.dispositions
<1> DEFINE n == Len(p.dispositions)
<1> DEFINE K == Len(p.entries)
<1>3. LabelsApart(D, n, K) /\ Numbered(bundle, K)
  BY <1>2, PackingShows
<1>4. DOMAIN D = 1 .. n
  BY <1>3 DEF LabelsApart
<1> HIDE DEF D, n, K
<1> DEFINE unit(x) == [kind |-> "standalone", labels |-> x.labels, group |-> <<>>]
<1> DEFINE f == [k \in 1 .. n |-> unit(D[k])]
<1>5. \A k \in 1 .. n : f[k] = unit(D[k]) /\ f[k].labels = D[k].labels
  OBVIOUS
<1>6. PackedUnits = {unit(x) : x \in {y \in ToSet(D) : y.omission = "none"}}
  BY DEF PackedUnits, D
<1> HIDE DEF f
<1>7. ASSUME NEW m \in DOMAIN units
      PROVE  units[m].kind = "standalone" /\ \E k : PackedAt(D, n, f, k, units[m])
  <2>1. units[m] \in PackedUnits
    BY DEF ToSet
  <2>2. PICK x \in ToSet(D) : x.omission = "none" /\ units[m] = unit(x)
    BY <1>6, <2>1
  <2>3. PICK k \in 1 .. n : x = D[k]
    BY <1>4 DEF ToSet
  <2>4. PackedAt(D, n, f, k, units[m])
    BY <1>5, <2>2, <2>3 DEF PackedAt
  <2> QED
    BY <2>2, <2>4
<1>8. PackedList(D, n, f, units)
  BY <1>5, <1>7 DEF PackedList
<1>9. \A m \in DOMAIN units : m \in 1 .. N
  BY DEF UnitList
<1>10. ASSUME NEW m \in DOMAIN units PROVE BindError(bundle, units, m) = "none"
  <2>1. units[m].kind = "standalone" /\ m \in 1 .. N
    BY <1>7, <1>9
  <2>2. LabelsApart(bundle.dispositions, n, K) /\ PackedList(bundle.dispositions, n, f, units)
    BY <1>3, <1>8 DEF D
  <2> QED
    BY <1>3, <2>1, <2>2, PackedBinds
<1>11. AuthorityError(built, doc, bundle, units) = "none"
  BY BundleIsRebuilt
<1> QED
  BY <1>10, <1>11 DEF Passes

(* Packed units of a bundle of groups pass. *)
LEMMA GroupsPass ==
    ASSUME DocOK(doc), built.active \in Nat, Held(bundle, built, doc), bundle.kind = "groups",
           NEW units, NEW N, UnitList(units, N), ToSet(units) \subseteq PackedUnits
    PROVE  Passes(built, doc, bundle, units)
<1>1. \E r, l, n, p : MadeGroups(bundle, built, doc, r, l, n) /\ GroupsMade(bundle, p, built, doc, r, l, n)
  BY HeldGroups
<1>2. PICK r, l, n, p : MadeGroups(bundle, built, doc, r, l, n) /\ GroupsMade(bundle, p, built, doc, r, l, n)
  BY <1>1
<1>3. PackingOf(bundle, p, built, doc)
  BY <1>2, GroupsPacking
<1> DEFINE D == bundle.dispositions
<1> DEFINE K == Len(p.entries)
<1>14. /\ bundle.dispositions = p.dispositions /\ bundle.entries = p.entries
       /\ bundle.generation = built.active
       /\ bundle.mode # "lexical" => IndexCurrent(built, bundle.index)
       /\ LabelsApart(bundle.dispositions, Len(p.dispositions), Len(p.entries))
       /\ Len(p.entries) \in Nat /\ Numbered(bundle, Len(p.entries))
  BY <1>3, PackingShows
<1>4. /\ LabelsApart(D, Len(p.dispositions), K) /\ Numbered(bundle, K) /\ D = p.dispositions
      /\ bundle.generation = built.active
      /\ bundle.mode # "lexical" => IndexCurrent(built, bundle.index)
  BY <1>14
<1>5. Len(p.dispositions) = n
  BY <1>2 DEF GroupsMade
<1> HIDE DEF D, K
<1> DEFINE f == [k \in 1 .. n |-> Record(p, r.units, k)]
<1>6. \A k \in 1 .. n : f[k] = Record(p, r.units, k) /\ f[k].labels = D[k].labels
  BY <1>4 DEF Record
<1> HIDE DEF f
<1>7. ASSUME NEW m \in DOMAIN units
      PROVE  /\ units[m] \in bundle.units /\ \E k : PackedAt(D, n, f, k, units[m])
             /\ UnitRevalidates(bundle, units[m], doc, built.active)
  <2> DEFINE v == units[m]
  <2>1. v \in bundle.units
    BY DEF ToSet, PackedUnits
  <2> HIDE DEF v
  <2>2. \E i : RecordOf(v, p, r, n, i)
    BY <1>2, <2>1, RecordIs
  <2>3. PICK k : RecordOf(v, p, r, n, k)
    BY <2>2
  <2>4. PackedAt(D, n, f, k, v)
    BY <1>4, <1>6, <2>3 DEF PackedAt, RecordOf, Packable
  <2>5. UnitRevalidates(bundle, v, doc, built.active)
    BY <1>2, <2>1, RecordRevalidates
  <2> QED
    BY <2>1, <2>4, <2>5 DEF v
<1>8. PackedList(D, n, f, units)
  BY <1>6, <1>7 DEF PackedList
<1>9. N \in Nat /\ DOMAIN units = 1 .. N
  BY DEF UnitList
<1>10. ASSUME NEW m \in DOMAIN units PROVE BindError(bundle, units, m) = "none"
  <2>1. units[m] \in bundle.units /\ m \in 1 .. N
    BY <1>7, <1>9
  <2>2. LabelsApart(bundle.dispositions, n, K) /\ PackedList(bundle.dispositions, n, f, units)
    BY <1>4, <1>5, <1>8 DEF D
  <2> QED
    BY <1>4, <2>1, <2>2, PackedBinds
<1>11. \A m \in 1 .. N : UnitRevalidates(bundle, units[m], doc, built.active)
  BY <1>7, <1>9
<1>12. CitedEntriesError(built, doc, bundle, units) = "none"
  BY <1>4, <1>9, <1>11, EntriesAuthority
<1>13. AuthorityError(built, doc, bundle, units) = "none"
  BY <1>12 DEF AuthorityError
<1> QED
  BY <1>10, <1>13 DEF Passes

(* A proposal that passes is verified or abstained from. *)
LEMMA PassedIs ==
    ASSUME NEW st, NEW d, NEW c, NEW asked, Passes(st, d, c, asked.units)
    PROVE  Verify(st, d, c, asked) \in {"verified", "abstained"}
<1>1. {n \in DOMAIN asked.units : BindError(c, asked.units, n) # "none"} = {}
  BY DEF Passes
<1>2. AuthorityError(st, d, c, asked.units) = "none"
  BY DEF Passes
<1>3. Verify(st, d, c, asked) = DirectSupport(c, asked)
  BY <1>1, <1>2 DEF Verify
<1>4. DirectSupport(c, asked) \in {"verified", "abstained"}
  BY DEF DirectSupport
<1> QED
  BY <1>3, <1>4

(* A proposal of packed units is accepted by the project it was built from. *)
LEMMA PackedIsAccepted ==
    ASSUME DocOK(doc), built.active \in Nat, Held(bundle, built, doc),
           NEW asked, asked \in Proposals(bundle), ToSet(asked.units) \subseteq PackedUnits
    PROVE  Verify(built, doc, bundle, asked) \in {"verified", "abstained"}
<1> DEFINE units == asked.units
<1>1. /\ \E N : UnitList(asked.units, N)
      /\ \E e \in ToSet(bundle.entries) : asked.value = e.text
  BY ProposalUnits
<1>2. PICK N : UnitList(units, N)
  BY <1>1
<1>3. bundle.kind \in {"bundle", "groups"}
  BY HeldKind
<1>4. Passes(built, doc, bundle, units)
  <2>0. ToSet(units) \subseteq PackedUnits
    OBVIOUS
  <2> HIDE DEF units
  <2>1. CASE bundle.kind = "bundle"
    BY <1>2, <2>0, <2>1, BundlePasses
  <2>2. CASE bundle.kind = "groups"
    BY <1>2, <2>0, <2>2, GroupsPass
  <2> QED
    BY <1>3, <2>1, <2>2
<1> QED
  BY <1>4, PassedIs

(* A copy that is not the bundle shows it in its first entry. *)
LEMMA AlteredShows ==
    ASSUME DocOK(doc), built.active \in Nat, Held(bundle, built, doc), bundle.entries # <<>>,
           NEW copy, copy \in Copies, copy # bundle
    PROVE  Contains(copy.entries[1].text, 0)
<1>1. \E p, I, U : PackedIn(bundle, p, built, doc, I, U)
  BY HeldIs
<1>2. PICK p, I, U : PackedIn(bundle, p, built, doc, I, U)
  BY <1>1
<1> DEFINE t == bundle.entries[1].text
<1>3. copy = [bundle EXCEPT !.entries[1].text = Append(t, 0)]
  BY DEF Copies
<1>4. PICK T : t \in Seq(T)
  <2> DEFINE R == Resolved(doc, built.active)
  <2> DEFINE s == p.entries
  <2>1. s \in Seq(Entries(R)) /\ \A x \in R : \E S : x.text \in Seq(S)
    <3>1. s \in Seq(Entries(R))
      BY <1>2 DEF PackedIn, PackedOK, Packings
    <3>2. \A x \in R : \E S : x.text \in Seq(S)
      BY TextIsSeq
    <3> QED
      BY <3>1, <3>2
  <2>2. bundle.entries = s
    <3> DEFINE state == BundleState(p, doc)
    <3> HIDE DEF state, s
    <3>1. bundle = [error |-> "none", kind |-> bundle.kind, generation |-> bundle.generation,
                    index |-> bundle.index, mode |-> bundle.mode, budget |-> bundle.budget,
                    units |-> bundle.units, entries |-> s, contexts |-> p.contexts,
                    dispositions |-> p.dispositions, state |-> state]
      BY <1>2 DEF PackedIn, state, s
    <3> QED
      BY <3>1
  <2> HIDE DEF R, s
  <2>3. s[1] \in Entries(R)
    BY <2>1, <2>2
  <2>4. PICK l \in Nat, x \in R : s[1] = EntryOf(l, x)
    BY <2>3 DEF Entries
  <2>5. s[1].text = x.text
    BY <2>4 DEF EntryOf
  <2> QED
    BY <2>1, <2>2, <2>5
<1> DEFINE v == Append(t, 0)
<1>5. Contains(v, 0)
  <2> HIDE DEF t
  <2>1. Len(t) \in Nat /\ DOMAIN v = 1 .. (Len(t) + 1) /\ v[Len(t) + 1] = 0
    BY <1>4
  <2> HIDE DEF v
  <2>2. Len(t) + 1 \in DOMAIN v
    BY <2>1
  <2> QED
    BY <2>1, <2>2 DEF Contains
<1> HIDE DEF v
<1>6. copy.entries[1].text = v
  <2>1. copy = [bundle EXCEPT !.entries[1].text = v]
    BY <1>3 DEF v
  <2>2. /\ CopyOf([bundle EXCEPT !.entries[1].text = v], bundle)
        /\ [bundle EXCEPT !.entries[1].text = v].entries[1].text = v
    BY <1>2, CopyIsLike
  <2> QED
    BY <2>1, <2>2
<1> QED
  BY <1>5, <1>6

(* Verification answers an unchanged bundle. *)
LEMMA VerifyAccepts ==
    ASSUME EvidenceInv, VerifyProposal
    PROVE  UnchangedIsAccepted'
<1>1. stage = "verify" /\ Held(bundle, built, doc) /\ built \in Stores /\ bundle.entries # <<>>
  BY DEF VerifyProposal, EvidenceInv
<1>2. DocOK(doc) /\ built.active \in Nat
  BY <1>1 DEF EvidenceInv, RetrievalInv, ScanInv, Extraction, Stores
<1>3. PICK copy \in Copies : \E asked \in Proposals(copy) :
        proposal' = asked /\ bundle' = copy /\ result' = Verify(store, doc, copy, asked)
  BY DEF VerifyProposal
<1>4. PICK asked \in Proposals(copy) :
        proposal' = asked /\ bundle' = copy /\ result' = Verify(store, doc, copy, asked)
  BY <1>3
<1>5. store' = store /\ built' = built
  BY DEF VerifyProposal
<1>6. CASE copy # bundle
  <2>1. Contains(copy.entries[1].text, 0)
    BY <1>1, <1>2, <1>6, AlteredShows
  <2>2. Altered'
    BY <1>4, <2>1 DEF Altered
  <2> QED
    BY <2>2 DEF UnchangedIsAccepted
<1>7. CASE copy = bundle
  <2>1. bundle' = bundle /\ proposal' = asked
    BY <1>4, <1>7
  <2>2. PackedUnits' = PackedUnits
    BY <2>1 DEF PackedUnits
  <2> SUFFICES ASSUME ToSet(proposal'.units) \subseteq PackedUnits', store' = built'
               PROVE  result' \in {"verified", "abstained"}
    BY DEF UnchangedIsAccepted
  <2>3. asked \in Proposals(bundle) /\ ToSet(asked.units) \subseteq PackedUnits /\ store = built
    BY <1>4, <1>5, <1>7, <2>1, <2>2
  <2>4. Verify(built, doc, bundle, asked) \in {"verified", "abstained"}
    BY <1>1, <1>2, <2>3, PackedIsAccepted
  <2> QED
    BY <1>4, <1>7, <2>3, <2>4
<1> QED
  BY <1>6, <1>7

(* Every step keeps an unchanged bundle accepted. *)
LEMMA AcceptedStep ==
    ASSUME EvidenceInv, UnchangedIsAccepted, [Next]_vars
    PROVE  UnchangedIsAccepted'
<1>1. CASE VerifyProposal
  BY <1>1, VerifyAccepts
<1>2. ASSUME stage # "over", proposal' = proposal PROVE UnchangedIsAccepted'
  BY <1>2 DEF EvidenceInv, UnchangedIsAccepted
<1>3. CASE ReadPage \/ CutChunk \/ CutSpan \/ Ask
  BY <1>2, <1>3 DEF ReadPage, CutChunk, CutSpan, Ask, evidence
<1>4. CASE SearchLexical \/ StartScan \/ ScanNextBlock \/ EndScan
  BY <1>2, <1>4 DEF SearchLexical, StartScan, ScanNextBlock, EndScan, Stop, evidence
<1>5. CASE Order \/ ResolveParent \/ RequestEvidence \/ Build
  BY <1>2, <1>5 DEF Order, ResolveParent, RequestEvidence, Build, Stop, evidence
<1>6. CASE PublishDocument \/ PublishOther \/ PublishIndex
  <2>1. stage # "over" /\ proposal' = proposal
    BY <1>6 DEF PublishDocument, PublishOther, PublishIndex, Publish, Reads, evidence
  <2> QED
    BY <1>2, <2>1
<1>7. CASE UNCHANGED vars
  <2>1. /\ bundle' = bundle /\ proposal' = proposal /\ store' = store /\ built' = built
        /\ result' = result
    BY <1>7 DEF vars, evidence
  <2> QED
    BY <2>1 DEF UnchangedIsAccepted, Altered, PackedUnits
<1> QED
  BY <1>1, <1>3, <1>4, <1>5, <1>6, <1>7 DEF Next

(* A bundle nobody changed is never refused while the project stays as it  *)
(* was: every proposal of its packed units is verified or abstained from,  *)
(* with duplicates, omissions, coalesced ranges or groups, for any paper,  *)
(* search results, answers and budgets (verifier.py).                      *)
THEOREM UnchangedIsNeverRefused == Spec => []UnchangedIsAccepted
<1>1. Init => UnchangedIsAccepted
  BY DEF Init, UnchangedIsAccepted
<1>2. EvidenceInv /\ UnchangedIsAccepted /\ [Next]_vars => UnchangedIsAccepted'
  BY AcceptedStep
<1> QED
  BY <1>1, <1>2, EvidenceInvariant, PTL DEF Spec

=============================================================================
