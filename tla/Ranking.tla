------------------------------- MODULE Ranking -------------------------------
(***************************************************************************)
(* How retrieval orders its results.  Every order of the code is a sort by *)
(* a tuple of integers that ends in an identity; equal tuples keep the     *)
(* order of the input, as Python's stable sort does.                       *)
(*                                                                         *)
(*   scan     exact search over blocks of matrix rows (exact_memmap.py)    *)
(*   merge    branches of one lexical query (multi_query.py)               *)
(*   fuse     lexical and semantic candidates of a chunk (hybrid_fusion.py)*)
(*   acquire  semantic hits plus an early-position lane                    *)
(*            (semantic_position.py), reordered by Pareto layers           *)
(*            (rank_only_rerank.py) and cut (selection.py)                 *)
(*                                                                         *)
(* A lexical hit is [chunk, rank], a semantic hit [chunk, span, rank]; a   *)
(* chunk is a tuple of integers, its identity.                             *)
(***************************************************************************)
EXTENDS Integers, Sequences, FiniteSets, SequencesExt

CONSTANTS
  RankDepth,    \* bound: the largest rank of a result list
  MaxSelected,  \* MAX_SELECTED_CANDIDATES
  MaxAuxiliary  \* MAX_POSITIONAL_AUXILIARY_HITS

Missing == 2147483647

ASSUME RankingAssumption ==
  /\ RankDepth \in Nat \ {0} /\ RankDepth < Missing
  /\ MaxSelected \in Nat \ {0} /\ MaxAuxiliary \in Nat

Least(a, b) == IF a < b THEN a ELSE b
First(n, s) == SubSeq(s, 1, Least(n, Len(s)))

Before(k, l) ==
  \E i \in DOMAIN k : k[i] < l[i] /\ \A j \in 1..(i - 1) : k[j] = l[j]

(* The permutation that sorts keys, equal keys in their order.              *)
SortingOf(keys) ==
  LET place(i) == Cardinality({j \in DOMAIN keys :
                     Before(keys[j], keys[i]) \/ (j <= i /\ keys[j] = keys[i])})
  IN [p \in DOMAIN keys |-> CHOOSE i \in DOMAIN keys : place(i) = p]

(* s sorted by Key, equal keys in the order of s.                          *)
Sorted(s, Key(_)) ==
  LET order == SortingOf([i \in DOMAIN s |-> Key(s[i])])
  IN [p \in DOMAIN s |-> s[order[p]]]

(* A set of numbers from the least to the greatest.                        *)
Ascending(S) == Sorted(SetToSeq(S), LAMBDA x : <<x>>)

(* The elements of s that are in S, in the order of s.                     *)
Keep(s, S) ==
  FoldLeft(LAMBDA kept, x : IF x \in S THEN Append(kept, x) ELSE kept, <<>>, s)

Distinct(s) ==
  FoldLeft(LAMBDA kept, x : IF Contains(kept, x) THEN kept ELSE Append(kept, x), <<>>, s)

SmallestBy(S, Key(_)) == CHOOSE x \in S : \A y \in S \ {x} : Before(Key(x), Key(y))

(***************************************************************************)
(* Exact fractions 1 / (k + rank) over the common denominator of all the   *)
(* ranks up to RankDepth, so that sums compare as integers.                *)
(***************************************************************************)
Share(k, rank) ==
  LET others == (1..RankDepth) \ {rank}
  IN FoldSet(LAMBDA r, product : product * (k + r), 1, others)

Total(shares) == FoldLeft(LAMBDA sum, share : sum + share, 0, shares)

(***************************************************************************)
(* Scan: the rows of one block join the best rows so far, are sorted by    *)
(* score, then row, and cut to the limit.                                  *)
(***************************************************************************)
ScanKey(hit) == <<-hit.score, hit.row>>

BlockRows(start, blockRows, rowCount) == start..(Least(start + blockRows, rowCount + 1) - 1)

(* Mutant: a block's rows are sorted and put behind what was found before. *)
ScanBlockAppends(best, block, eligible, score, limit) ==
  LET rows == Ascending(block \cap eligible)
      hits == [i \in DOMAIN rows |-> [row |-> rows[i], score |-> score[rows[i]]]]
  IN First(limit, best \o Sorted(hits, ScanKey))

ScanBlock(best, block, eligible, score, limit) ==
  LET rows == Ascending(block \cap eligible)
      hits == [i \in DOMAIN rows |-> [row |-> rows[i], score |-> score[rows[i]]]]
  IN IF rows = <<>> THEN best ELSE First(limit, Sorted(best \o hits, ScanKey))

(***************************************************************************)
(* Merge of lexical branches, each a sequence of distinct chunks: sum of   *)
(* 1 / (60 + rank) over the branches that returned the chunk, then the     *)
(* best rank, the number of branches, the first branch of that best rank.  *)
(***************************************************************************)
MergeK == 60

RankIn(branch, chunk) == CHOOSE r \in DOMAIN branch : branch[r] = chunk

MergeKey(branches, chunk) ==
  LET found == Ascending({b \in DOMAIN branches : Contains(branches[b], chunk)})
      ranks == [i \in DOMAIN found |-> RankIn(branches[found[i]], chunk)]
      best == Min(ToSet(ranks))
  IN <<-Total([i \in DOMAIN ranks |-> Share(MergeK, ranks[i])]), best, -Len(found),
       Min({found[i] : i \in {j \in DOMAIN ranks : ranks[j] = best}})>> \o chunk

MergeBranches(branches, limit) ==
  LET chunks == Distinct(FlattenSeq(branches))
      merged == First(limit, Sorted(chunks, LAMBDA c : MergeKey(branches, c)))
  IN [r \in DOMAIN merged |-> [chunk |-> merged[r], rank |-> r]]

(***************************************************************************)
(* Fusion: one candidate for each chunk of either channel, represented by  *)
(* its best hit; sum of 1 / (40 + rank), then the better rank, the number  *)
(* of channels, the lexical rank, the semantic rank, the identity.         *)
(***************************************************************************)
FusionK == 40

HitsOf(hits, chunk) == {h \in ToSet(hits) : h.chunk = chunk}

LexicalRepresentative(hits, chunk) ==
  SmallestBy(HitsOf(hits, chunk), LAMBDA h : <<h.rank>>)

SemanticRepresentative(hits, chunk) ==
  SmallestBy(HitsOf(hits, chunk), LAMBDA h : <<h.rank, h.span>>)

ChunksOf(hits) == {hits[i].chunk : i \in DOMAIN hits}

CandidateFor(chunk, lexical, semantic) ==
  LET inLexical == chunk \in ChunksOf(lexical)
      inSemantic == chunk \in ChunksOf(semantic)
      best == SemanticRepresentative(semantic, chunk)
  IN [chunk |-> chunk,
      lexical |-> IF inLexical THEN LexicalRepresentative(lexical, chunk).rank ELSE Missing,
      semantic |-> IF inSemantic THEN best.rank ELSE Missing,
      span |-> IF inSemantic THEN best.span ELSE 0]

Shares(candidate) ==
  LET share(rank) == IF rank = Missing THEN 0 ELSE Share(FusionK, rank)
  IN share(candidate.lexical) + share(candidate.semantic)

Channels(candidate) ==
  Cardinality({f \in {"lexical", "semantic"} : candidate[f] # Missing})

FinalOrderKey(candidate) ==
  <<-Shares(candidate), Least(candidate.lexical, candidate.semantic),
    -Channels(candidate), candidate.lexical, candidate.semantic>> \o candidate.chunk

FuseCandidates(lexical, semantic, limit) ==
  LET collapsed(set) == Sorted(SetToSeq(set), LAMBDA chunk : chunk)
      chunks == collapsed(ChunksOf(lexical))
                  \o collapsed(ChunksOf(semantic) \ ChunksOf(lexical))
      pending == [i \in DOMAIN chunks |-> CandidateFor(chunks[i], lexical, semantic)]
  IN First(limit, Sorted(pending, FinalOrderKey))

(***************************************************************************)
(* Acquisition: the requested semantic hits, then those of the rest that   *)
(* start in the first quarter of their document.  start[hit] is the offset *)
(* in the document whose pages are joined by one character.                *)
(***************************************************************************)
PositionalLane(examined, requested, start, documentLength) ==
  First(MaxAuxiliary,
        Keep(SubSeq(examined, requested + 1, Len(examined)),
             {h \in ToSet(examined) : 4 * start[h] < documentLength}))

(***************************************************************************)
(* Rerank: a hit dominates another when no channel ranks it worse and one  *)
(* ranks it better.  Layer n holds what only layers before it dominate.    *)
(***************************************************************************)
Dominates(a, b) ==
  /\ a.semantic <= b.semantic
  /\ a.lexical <= b.lexical
  /\ a.semantic < b.semantic \/ a.lexical < b.lexical

(* Mutant: the hits that dominate none, instead of those none dominates.   *)
FrontierSwapped(S) == {c \in S : \A d \in S : ~Dominates(c, d)}

Frontier(S) == {c \in S : \A d \in S : ~Dominates(d, c)}

FrontierDepth(S, c) ==
  LET left[n \in 0..Cardinality(S)] == IF n = 0 THEN S ELSE left[n - 1] \ Frontier(left[n - 1])
  IN CHOOSE n \in 1..Cardinality(S) : c \in Frontier(left[n - 1])

(* The baseline reordered; lexicalRank[chunk] is its rank or Missing.      *)
ParetoRerank(baseline, lexicalRank) ==
  LET annotated == [i \in DOMAIN baseline |->
                      [hit |-> baseline[i], semantic |-> baseline[i].rank,
                       lexical |-> lexicalRank[baseline[i].chunk]]]
      layers == ToSet(annotated)
      ordered == Sorted(annotated, LAMBDA c : <<FrontierDepth(layers, c)>>)
  IN [i \in DOMAIN ordered |-> ordered[i].hit]

(* The best reranked hits; the earliest hit of the positional lane joins   *)
(* them, in the place of the last one when they are MaxSelected.           *)
GuardedSelection(current, positional, start) ==
  LET eligible == {h \in ToSet(positional) : ~Contains(current, h)}
      auxiliary == SmallestBy(eligible, LAMBDA h : <<start[h], h.rank, h.span>>)
  IN IF eligible = {} THEN current
     ELSE Append(First(MaxSelected - 1, current), auxiliary)
==============================================================================
