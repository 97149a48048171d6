--------------------------- MODULE EvidencePipeline ---------------------------
(***************************************************************************)
(* One paper from its pages to a verified statement: its words are cut     *)
(* into chunks and spans, a query finds some of them, the caller asks for  *)
(* a bundle of what was found and has a proposal verified against it.      *)
(*                                                                         *)
(* Every step that reads the project does it in a transaction of its own,  *)
(* and other processes may publish a new generation of this paper, of      *)
(* another paper or of the vector index before any of them.  A publication *)
(* before a step that does not read commutes with it and is not repeated.  *)
(*                                                                         *)
(*   mode       what the caller runs                                       *)
(*   hybrid     HybridRetrievalService: lexical, semantic, fusion, then    *)
(*              each parent chunk is resolved                              *)
(*   semantic   the exact scan alone                                       *)
(*   lexical    two lexical branches, merged                               *)
(*   ranked     positional acquisition, Pareto rerank, guarded selection   *)
(***************************************************************************)
EXTENDS CitationVerifier

CONSTANTS
  Layouts,     \* bound: the papers, sequences of pages of word boxes
  Modes,       \* bound: the ways to retrieve
  Scores,      \* bound: similarities a row may have
  BlockLength, \* block_rows of the scan
  Depth,       \* candidates a channel returns (candidate_limit)
  Limit,       \* limit of the query
  Budgets,     \* bound: preview budgets a caller may ask for
  MaxGenerations \* bound: generations of a paper

ASSUME PipelineAssumption ==
  /\ BlockLength \in Nat \ {0} /\ Depth \in Nat \ {0} /\ Limit \in 1..Depth
  /\ Depth <= RankDepth /\ MaxGenerations \in Nat \ {0}
  /\ Modes \subseteq {"hybrid", "semantic", "lexical", "ranked"}
  /\ Layouts \subseteq Seq(Seq(WordBoxes)) /\ Scores \subseteq Int
  /\ Budgets \subseteq [entries : Nat, bytes : Nat]

VARIABLES
  stage,    \* the step the paper and its query are at
  unread,   \* pages of the file not yet extracted
  doc,      \* the paper's pages, chunks and spans
  store,    \* published generations: [active, other, index]
  mode,
  scan,     \* the scan of the vector matrix
  branches, \* lexical results, one sequence of chunks per branch
  found,    \* what retrieval returned
  request,  \* the caller's request for a bundle
  bundle,   \* the bundle, as the caller holds it
  built,    \* store when the bundle was built
  proposal,
  result

paper == <<unread, doc>>
retrieval == <<mode, scan, branches, found>>
evidence == <<bundle, built, proposal>>
vars == <<stage, paper, store, retrieval, request, evidence, result>>

None == [none |-> TRUE]

Init ==
  /\ stage = "extract" /\ unread \in Layouts
  /\ doc = [pages |-> <<>>, chunks |-> <<>>, spans |-> <<>>]
  /\ store = [active |-> 1, other |-> 1, index |-> <<1, 1>>]
  /\ mode = "none" /\ scan = None /\ branches = <<>> /\ found = <<>>
  /\ request = None /\ bundle = None /\ built = None /\ proposal = None
  /\ result = "none"

(* Extraction --------------------------------------------------------------*)

Uncut ==
  LET last == IF doc.chunks = <<>> THEN <<1, 0>>
              ELSE <<doc.chunks[Len(doc.chunks)].page, doc.chunks[Len(doc.chunks)].last>>
  IN {w \in UNION {{p} \X DOMAIN doc.pages[p] : p \in DOMAIN doc.pages} : Before(last, w)}

Uncovered ==
  LET last == IF doc.spans = <<>> THEN <<1, 0>>
              ELSE <<doc.spans[Len(doc.spans)].chunk, doc.spans[Len(doc.spans)].last>>
  IN {w \in UNION {{c} \X (doc.chunks[c].first..doc.chunks[c].last) : c \in DOMAIN doc.chunks} :
        Before(last, w)}

ReadPage ==
  /\ stage = "extract" /\ unread # <<>>
  /\ unread' = Tail(unread)
  /\ doc' = [doc EXCEPT !.pages = Append(@, CanonicalWords(Head(unread)))]
  /\ UNCHANGED <<stage, store, retrieval, request, evidence, result>>

CutChunk ==
  /\ stage = "extract" /\ unread = <<>> /\ Uncut # {}
  /\ LET next == SmallestBy(Uncut, LAMBDA w : w)
         page == doc.pages[next[1]]
     IN doc' = [doc EXCEPT !.chunks =
                  Append(@, [page |-> next[1], first |-> next[2],
                             last |-> ChunkEnd(page, next[2])])]
  /\ UNCHANGED <<stage, unread, store, retrieval, request, evidence, result>>

CutSpan ==
  /\ stage = "extract" /\ unread = <<>> /\ Uncut = {} /\ Uncovered # {}
  /\ LET next == SmallestBy(Uncovered, LAMBDA w : w)
         chunk == doc.chunks[next[1]]
         words == doc.pages[chunk.page]
         last == SpanEnd(words, next[2], chunk.last)
     IN doc' = [doc EXCEPT !.spans =
                  Append(@, [chunk |-> next[1], first |-> next[2], last |-> last,
                             embeddable |-> Fits(words, next[2], last)])]
  /\ UNCHANGED <<stage, unread, store, retrieval, request, evidence, result>>

Extracted == unread = <<>> /\ Uncut = {} /\ Uncovered = {}

Ask ==
  /\ stage = "extract" /\ Extracted
  /\ mode' \in Modes
  /\ stage' = IF mode' \in {"hybrid", "lexical"} THEN "lexical" ELSE "semantic"
  /\ UNCHANGED <<paper, store, scan, branches, found, request, evidence, result>>

(* Other processes ---------------------------------------------------------*)

Reads == {"lexical", "semantic", "resolve", "build", "verify"}

Publish(next) ==
  /\ stage \in Reads /\ store' = next
  /\ UNCHANGED <<stage, paper, retrieval, request, evidence, result>>

PublishDocument ==
  store.active < MaxGenerations /\ Publish([store EXCEPT !.active = @ + 1])
PublishOther ==
  store.other < MaxGenerations /\ Publish([store EXCEPT !.other = @ + 1])
PublishIndex ==
  /\ store.index # <<store.active, store.other>>
  /\ Publish([store EXCEPT !.index = <<store.active, store.other>>])

(* Retrieval ---------------------------------------------------------------*)

Stop(code) ==
  /\ stage' = "over" /\ result' = code
  /\ UNCHANGED <<paper, store, retrieval, request, evidence>>

(* The full-text index orders the chunks of the active generation as it    *)
(* likes and returns at most Depth of them.                                *)
LexicalAnswers ==
  LET orders == UNION {[1..n -> DOMAIN doc.chunks] : n \in 0..Depth}
  IN {[r \in DOMAIN order |-> <<store.active, order[r]>>] : order \in {o \in orders : IsInjective(o)}}

BranchesOf(m) == IF m = "lexical" THEN 2 ELSE 1

SearchLexical ==
  /\ stage = "lexical"
  /\ \E answer \in LexicalAnswers : branches' = Append(branches, answer)
  /\ stage' = IF Len(branches') < BranchesOf(mode) THEN "lexical"
              ELSE IF mode = "hybrid" THEN "semantic" ELSE "order"
  /\ UNCHANGED <<paper, store, mode, scan, found, request, evidence, result>>

(* Rows of the matrix: a row of the other paper, which scoped retrieval    *)
(* does not search, then the embeddable spans in order.                    *)
Matrix ==
  LET rows == Ascending({s \in DOMAIN doc.spans : doc.spans[s].embeddable})
  IN IF mode = "ranked" THEN rows ELSE <<0>> \o rows

Eligible(s) == {row \in DOMAIN s.matrix : s.matrix[row] # 0}

ScanLimit == IF mode = "hybrid" THEN Depth ELSE IF mode = "ranked" THEN RankDepth ELSE Limit

StartScan ==
  /\ stage = "semantic"
  /\ IF ~IndexCurrent(store, store.index) THEN Stop("INDEX_STALE")
     ELSE /\ \E score \in [DOMAIN Matrix -> Scores] :
               scan' = [index |-> store.index, matrix |-> Matrix, score |-> score,
                        next |-> 1, best |-> <<>>]
          /\ stage' = "scan"
          /\ UNCHANGED <<paper, store, mode, branches, found, request, evidence, result>>

ScanNextBlock ==
  /\ stage = "scan" /\ scan.next <= Len(scan.matrix)
  /\ LET block == BlockRows(scan.next, BlockLength, Len(scan.matrix))
     IN scan' = [scan EXCEPT !.next = @ + BlockLength,
                   !.best = ScanBlock(@, block, Eligible(scan), scan.score, ScanLimit)]
  /\ UNCHANGED <<stage, paper, store, mode, branches, found, request, evidence, result>>

SemanticHits ==
  [r \in DOMAIN scan.best |->
     LET span == scan.matrix[scan.best[r].row]
     IN [chunk |-> <<scan.index[1], doc.spans[span].chunk>>, span |-> span, rank |-> r]]

LexicalHits == [r \in DOMAIN branches[1] |-> [chunk |-> branches[1][r], rank |-> r]]

(* acquire_positional refuses a document that has a page without text.     *)
AcquisitionError ==
  /\ mode = "ranked" /\ scan.best # <<>>
  /\ \E p \in DOMAIN doc.pages : TextLength(doc.pages[p]) = 0

EndScan ==
  /\ stage = "scan" /\ scan.next > Len(scan.matrix)
  /\ IF AcquisitionError THEN Stop("ACQUISITION_INVALID")
     ELSE /\ stage' = IF mode = "ranked" THEN "lexical" ELSE "order"
          /\ UNCHANGED <<paper, store, retrieval, request, evidence, result>>

DocumentLength ==
  Total([p \in DOMAIN doc.pages |-> TextLength(doc.pages[p]) + 1]) - 1

AbsoluteStart(hit) ==
  LET page == PageOf(doc, hit.chunk)
  IN Total([p \in 1..(page - 1) |-> TextLength(doc.pages[p]) + 1]) + SpanRange(doc, hit.span)[1]

Baseline == First(Limit, SemanticHits)

LexicalRank(chunk) ==
  IF chunk \in ChunksOf(LexicalHits) THEN RankIn(branches[1], chunk) ELSE Missing

RankedSelection ==
  LET lexicalRank == [chunk \in ChunksOf(Baseline) |-> LexicalRank(chunk)]
      start == [hit \in ToSet(SemanticHits) |-> AbsoluteStart(hit)]
  IN GuardedSelection(First(MaxSelected, ParetoRerank(Baseline, lexicalRank)),
                      PositionalLane(SemanticHits, Limit, start, DocumentLength), start)

Order ==
  /\ stage = "order"
  /\ found' = CASE mode = "hybrid" -> FuseCandidates(LexicalHits, SemanticHits, Limit)
                [] mode = "semantic" -> SemanticHits
                [] mode = "lexical" -> MergeBranches(branches, Limit)
                [] mode = "ranked" -> RankedSelection
  /\ stage' = CASE mode = "hybrid" -> "resolve" [] mode = "ranked" -> "over" [] OTHER -> "request"
  /\ request' = [index |-> IF scan = None THEN <<>> ELSE scan.index, resolved |-> 0]
  /\ result' = IF mode = "ranked" THEN "selected" ELSE result
  /\ UNCHANGED <<paper, store, mode, scan, branches, evidence>>

(* A fused candidate's parent chunk must be of the active generation, and  *)
(* its semantic hit of the published, current index.                       *)
ResolveParent ==
  /\ stage = "resolve"
  /\ IF request.resolved = Len(found)
     THEN /\ stage' = "request"
          /\ UNCHANGED <<paper, store, retrieval, request, evidence, result>>
     ELSE LET candidate == found[request.resolved + 1]
          IN IF \/ candidate.chunk[1] # store.active
                \/ (candidate.semantic # Missing /\ ~IndexCurrent(store, request.index))
             THEN Stop("SOURCE_CHANGED")
             ELSE /\ request' = [request EXCEPT !.resolved = @ + 1]
                  /\ UNCHANGED <<stage, paper, store, retrieval, evidence, result>>

(* Evidence ----------------------------------------------------------------*)

(* What references.py makes of a result: the asserted ranges.              *)
Reference(i) ==
  LET hit == found[i]
      lexical == [chunk |-> hit.chunk, rank |-> i, lexical |-> ChunkRange(doc, hit.chunk[2]),
                  semantic |-> <<>>, span |-> 0]
      semantic == [chunk |-> hit.chunk, rank |-> i, lexical |-> <<>>,
                   semantic |-> SpanRange(doc, hit.span), span |-> hit.span]
  IN CASE mode = "lexical" -> lexical
       [] mode = "semantic" -> semantic
       [] mode = "hybrid" ->
            IF hit.semantic = Missing THEN lexical
            ELSE IF hit.lexical = Missing THEN semantic
            ELSE [semantic EXCEPT !.lexical = lexical.lexical]

(* The candidates as they were found, or one twice, or out of order, or    *)
(* with a range that is not what was found.                                *)
AsFound == [i \in DOMAIN found |-> Reference(i)]

CandidateLists ==
  LET longer(range) == IF range = <<>> THEN <<>> ELSE <<range[1], range[2] + 1>>
      shifted == [AsFound[1] EXCEPT !.lexical = longer(@), !.semantic = longer(@)]
  IN {AsFound} \cup
     IF found = <<>> THEN {}
     ELSE {Append(AsFound, AsFound[1]), Reverse(AsFound), <<shifted>> \o Tail(AsFound)}

Generations ==
  IF found = <<>> THEN {store.active} ELSE {found[i].chunk[1] : i \in DOMAIN found}

(***************************************************************************)
(* Units of a request for groups: each position alone, two candidates as a *)
(* group, that group twice, or the two ranges of one candidate as a group. *)
(* A position is used once, so the last two list every candidate twice.    *)
(***************************************************************************)
Alone(positions) ==
  LET inOrder == Ascending(positions)
  IN [k \in DOMAIN inOrder |-> [kind |-> "standalone", position |-> inOrder[k]]]

Member(position, i, k) ==
  LET asserted == <<Reference(i).lexical, Reference(i).semantic>>
      ranges == Keep(asserted, ToSet(asserted) \ {<<>>})
  IN [position |-> position, child |-> [chunk |-> found[i].chunk, range |-> ranges[k]]]

Pair(a, b) == [kind |-> "group", members |-> <<a, b>>]

InBoth == {i \in DOMAIN found : Reference(i).lexical # <<>> /\ Reference(i).semantic # <<>>}

GroupLists ==
  LET n == Len(found)
      twice == AsFound \o AsFound
      swapped == Pair(Member(2, 2, 1), Member(1, 1, 1))
      again == Pair(Member(n + 1, 1, 1), Member(n + 2, 2, 1))
  IN (IF n = 0 THEN {} ELSE {<<AsFound, Alone(1..n)>>, <<twice, Alone(1..(n + 1))>>}) \cup
     (IF n < 2 THEN {}
      ELSE {<<AsFound, <<swapped>> \o Alone(3..n)>>, <<twice, <<swapped, again>>>>,
            <<twice, <<swapped>> \o Alone({n + 1})>>}) \cup
     {<<twice, <<Pair(Member(i, i, 1), Member(n + i, i, 2))>>>> : i \in InBoth}

RequestEvidence ==
  /\ stage = "request"
  /\ \E budget \in Budgets, generation \in Generations,
        ask \in ({"bundle"} \X CandidateLists \X {<<>>})
                  \cup {<<"groups", g[1], g[2]>> : g \in GroupLists} :
       request' = [kind |-> ask[1], generation |-> generation, index |-> request.index,
                   mode |-> mode, candidates |-> ask[2], units |-> ask[3], budget |-> budget]
  /\ stage' = "build"
  /\ scan' = None /\ branches' = <<>> /\ found' = <<>>
  /\ UNCHANGED <<paper, store, mode, evidence, result>>

Build ==
  /\ stage = "build"
  /\ LET made == IF request.kind = "bundle" THEN BuildBundle(store, doc, request)
                 ELSE BuildGroups(store, doc, request, request.units)
     IN IF made.error # "none" THEN Stop(made.error)
        ELSE /\ bundle' = made /\ built' = store /\ stage' = "verify"
             /\ request' = None
             /\ UNCHANGED <<paper, store, retrieval, proposal, result>>

(* A proposal cites packed units, all of them or one, or labels that are   *)
(* not a unit; its value is the text of some entry.                        *)
PackedUnits ==
  IF bundle.kind = "groups" THEN bundle.units
  ELSE {[kind |-> "standalone", labels |-> d.labels, group |-> <<>>] :
          d \in {x \in ToSet(bundle.dispositions) : x.omission = "none"}}

MiscitedUnits ==
  {[kind |-> "standalone", labels |-> <<1>>, group |-> <<>>],
   [kind |-> "standalone", labels |-> <<2, 1>>, group |-> <<>>],
   [kind |-> "standalone", labels |-> <<9>>, group |-> <<>>]}

Proposals(held) ==
  {[value |-> entry.text, units |-> units] :
     entry \in ToSet(held.entries),
     units \in {SetToSeq(PackedUnits)} \cup {<<u>> : u \in PackedUnits \cup MiscitedUnits}}

(* The caller hands in the bundle it got, or a copy whose entry says       *)
(* something else.                                                         *)
Copies == {bundle, [bundle EXCEPT !.entries[1].text = Append(@, 0)]}

VerifyProposal ==
  /\ stage = "verify" /\ bundle.entries # <<>>
  /\ \E copy \in Copies : \E asked \in Proposals(copy) :
       /\ proposal' = asked /\ bundle' = copy
       /\ result' = Verify(store, doc, copy, asked)
  /\ stage' = "over"
  /\ UNCHANGED <<paper, store, retrieval, request, built>>

Next ==
  \/ ReadPage \/ CutChunk \/ CutSpan \/ Ask
  \/ SearchLexical \/ StartScan \/ ScanNextBlock \/ EndScan \/ Order \/ ResolveParent
  \/ RequestEvidence \/ Build \/ VerifyProposal
  \/ PublishDocument \/ PublishOther \/ PublishIndex

Spec == Init /\ [][Next]_vars

(***************************************************************************)
(* Properties                                                              *)
(***************************************************************************)

(* Every word of the paper is in exactly one chunk and one span, in        *)
(* reading order, however sentence ends and token counts cut the pages     *)
(* (documents/chunking.py, embeddings/spans.py); what is embedded fits the *)
(* tokenizer, and no embedded span could have taken the next word.         *)
PageIsTiled ==
  Extracted =>
    LET words(c) == [k \in 1..(c.last - c.first + 1) |-> <<c.page, c.first + k - 1>>]
        spanned(s) == LET page == doc.chunks[s.chunk].page
                      IN [k \in 1..(s.last - s.first + 1) |-> <<page, s.first + k - 1>>]
        all == FlattenSeq([p \in DOMAIN doc.pages |-> [w \in DOMAIN doc.pages[p] |-> <<p, w>>]])
    IN /\ FlattenSeq([i \in DOMAIN doc.chunks |-> words(doc.chunks[i])]) = all
       /\ FlattenSeq([i \in DOMAIN doc.spans |-> spanned(doc.spans[i])]) = all
       /\ \A s \in ToSet(doc.spans) :
            LET chunk == doc.chunks[s.chunk]
                page == doc.pages[chunk.page]
            IN /\ ~s.embeddable => s.first = s.last
               /\ s.embeddable => Fits(page, s.first, s.last)
               /\ s.embeddable /\ s.last < chunk.last => ~Fits(page, s.first, s.last + 1)

(* The scan in blocks finds what one pass over the eligible rows would:    *)
(* the best rows, in order, the lower row first among equal scores, also   *)
(* when they meet at the edge of a block (exact_memmap.py).                *)
ScanIsTopK ==
  (stage = "scan" /\ scan.next > Len(scan.matrix)) =>
    LET best == scan.best
        rows == {best[r].row : r \in DOMAIN best}
        better(a, b) == \/ scan.score[a] > scan.score[b]
                        \/ scan.score[a] = scan.score[b] /\ a < b
    IN /\ rows \subseteq Eligible(scan)
       /\ Len(best) = Least(ScanLimit, Cardinality(Eligible(scan)))
       /\ \A r \in DOMAIN best : \A row \in Eligible(scan) \ {best[q].row : q \in 1..r} :
            better(best[r].row, row)

(* Nothing a query returns is placed behind, or kept in place of, what     *)
(* every channel ranks worse: neither by the fusion of two channels, nor   *)
(* by the merge of lexical branches, nor by the rerank.  The hit that the  *)
(* guarded selection adds for its position is exempt, being from outside   *)
(* the pool to which what is shown is restricted.                          *)
RankingRespectsDominance ==
  LET inBranch(b, chunk) ==
        IF Contains(branches[b], chunk) THEN RankIn(branches[b], chunk) ELSE Missing
      ranks(hit) == CASE mode = "hybrid" -> <<hit.lexical, hit.semantic>>
                      [] mode = "lexical" -> <<inBranch(1, hit.chunk), inBranch(2, hit.chunk)>>
                      [] mode = "ranked" -> <<LexicalRank(hit.chunk), hit.rank>>
      pool == CASE mode = "hybrid" ->
                     {CandidateFor(c, LexicalHits, SemanticHits) :
                        c \in ChunksOf(LexicalHits) \cup ChunksOf(SemanticHits)}
                [] mode = "lexical" ->
                     {[chunk |-> c] : c \in UNION {ToSet(branches[b]) : b \in DOMAIN branches}}
                [] mode = "ranked" -> ToSet(Baseline)
      worse(r, s) == r # s /\ \A k \in DOMAIN r : s[k] <= r[k]
      ordered == CASE mode = "hybrid" -> stage = "resolve"
                   [] mode = "lexical" -> stage = "request"
                   [] mode = "ranked" -> result = "selected"
                   [] OTHER -> FALSE
      shown == IF mode = "ranked" THEN Keep(found, pool) ELSE found
  IN ordered =>
       \A i \in DOMAIN shown : \A other \in pool :
         worse(ranks(shown[i]), ranks(other)) =>
           \E j \in 1..(i - 1) : shown[j].chunk = other.chunk /\ ranks(shown[j]) = ranks(other)

(* A bundle is within its budget, and what it leaves out for the budget    *)
(* does not fit even so (stated of a plain bundle, not of a grouped one);  *)
(* its labels number the entries, each for one unit; it is ready only when *)
(* every candidate is in it (packing.py).                                  *)
BundleFillsBudget ==
  (stage = "verify") =>
    LET labels == FlattenSeq([i \in DOMAIN bundle.dispositions |-> bundle.dispositions[i].labels])
        omitted == {d \in ToSet(bundle.dispositions) :
                      d.omission \notin {"none", "DUPLICATE_CANDIDATE"}}
        added(ref) == LET group == ResolveGroup(doc, ref, 1)
                          ranges == Coalesced(group.ranges)
                      IN [duplicate |-> FALSE, id |-> ref, ranges |-> ranges,
                          contexts |-> StandaloneContext(group, ranges)]
    IN /\ ~Exceeds(bundle, bundle.budget)
       /\ labels = [i \in DOMAIN bundle.entries |-> i]
       /\ bundle.kind = "bundle" =>
            \A d \in omitted : Exceeds(Proposed(bundle, added(d.unit)), bundle.budget)
       /\ bundle.state = "PREVIEW_READY" => omitted = {}

Altered == Contains(bundle.entries[1].text, 0)

(* What the service returned and nobody changed is never refused while the *)
(* project stays as it was: a proposal that cites its units is verified or *)
(* abstained from, for a bundle with duplicates, omissions, coalesced      *)
(* ranges or groups alike.                                                 *)
UnchangedIsAccepted ==
  (proposal # None /\ ~Altered /\ store = built /\ ToSet(proposal.units) \subseteq PackedUnits) =>
    result \in {"verified", "abstained"}

(* A bundle is made of one generation of the paper and of the index built  *)
(* from it, those current when it was built, although its candidates come  *)
(* from searches that each saw the project of their own time; and a        *)
(* verified proposal is what the project says at the moment it is verified:*)
(* each cited entry is of the current generation and index, its text is    *)
(* the text of its range in the paper, and the value is that text.         *)
VerifiedIsAuthentic ==
  /\ bundle # None =>
       /\ bundle.generation = built.active
       /\ \A i \in DOMAIN bundle.entries : bundle.entries[i].chunk[1] = built.active
       /\ bundle.mode # "lexical" => IndexCurrent(built, bundle.index)
  /\ result = "verified" =>
       \A u \in ToSet(proposal.units) : \A label \in ToSet(u.labels) :
         LET entry == bundle.entries[label]
         IN /\ entry.chunk[1] = store.active
            /\ bundle.mode # "lexical" => IndexCurrent(store, bundle.index)
            /\ entry.text = TextIn(doc, entry.chunk, entry.range)
            /\ entry.text = proposal.value

==============================================================================
