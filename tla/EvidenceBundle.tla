---------------------------- MODULE EvidenceBundle ---------------------------
(***************************************************************************)
(* Preparation of evidence: the resolver that reads what a caller asserts  *)
(* from the store (evidence/resolver.py), the packing of a bundle under a  *)
(* budget (packing.py, service.py) and of a bundle of groups               *)
(* (group_packing.py, group_service.py).                                   *)
(*                                                                         *)
(* store is [active, other, index]: the current document generation of the *)
(* paper and of another paper of the project, and the snapshot <<active,   *)
(* other>> the published vector generation was built from.  doc is the     *)
(* paper: its pages' words, chunks and spans.  A reference of a candidate  *)
(* is [chunk, rank, lexical, semantic, span]: the asserted ranges, <<>>    *)
(* where a channel does not contribute.  A digest and the anchor           *)
(* identities of a range are a function of generation and range.           *)
(***************************************************************************)
EXTENDS PageEvidence

CONSTANTS
  AdequateWords,  \* words of a page that is not flagged for its native text
  EntryBytes      \* bytes of an entry or context beside its text

ASSUME BundleAssumption == AdequateWords \in Nat \ {0} /\ EntryBytes \in Nat

(* Reading the paper -------------------------------------------------------*)

ChunkRange(doc, n) ==
  LET c == doc.chunks[n]
  IN <<doc.pages[c.page][c.first].start, doc.pages[c.page][c.last].end>>

SpanRange(doc, s) ==
  LET words == doc.pages[doc.chunks[doc.spans[s].chunk].page]
  IN <<words[doc.spans[s].first].start, words[doc.spans[s].last].end>>

PageOf(doc, chunk) == doc.chunks[chunk[2]].page

TextIn(doc, chunk, range) ==
  LET words == doc.pages[PageOf(doc, chunk)]
      inside == Keep(words, {w \in ToSet(words) : w.start >= range[1] /\ w.end <= range[2]})
  IN [i \in DOMAIN inside |-> inside[i].text]

IndexCurrent(store, index) ==
  index = store.index /\ store.index = <<store.active, store.other>>

HasNativeGaps(doc) == \E p \in DOMAIN doc.pages : Len(doc.pages[p]) < AdequateWords

(***************************************************************************)
(* Resolver: scope, vector generation, candidates' scope, then each        *)
(* candidate in order.  One read transaction: one value of store.          *)
(***************************************************************************)
Failed(code) == [error |-> code]

CandidateError(doc, ref) ==
  IF ref.lexical # <<>> /\ ref.lexical # ChunkRange(doc, ref.chunk[2]) THEN "RANGE_MISMATCH"
  ELSE IF ref.semantic = <<>> THEN "none"
  ELSE IF doc.spans[ref.span].chunk # ref.chunk[2] THEN "SOURCE_SCOPE_MISMATCH"
  ELSE IF ref.semantic # SpanRange(doc, ref.span) THEN "RANGE_MISMATCH"
  ELSE IF ~doc.spans[ref.span].embeddable THEN "STORAGE_INTEGRITY"
  ELSE "none"

EvidenceRange(doc, chunk, range, provenance) ==
  [chunk |-> chunk, range |-> range, text |-> TextIn(doc, chunk, range),
   provenance |-> provenance]

ResolveGroup(doc, ref, position) ==
  LET whole == ChunkRange(doc, ref.chunk[2])
      lexical == IF ref.lexical = <<>> THEN <<>>
                 ELSE <<EvidenceRange(doc, ref.chunk, ref.lexical, <<0>>)>>
      semantic == IF ref.semantic = <<>> THEN <<>>
                  ELSE <<EvidenceRange(doc, ref.chunk, ref.semantic, <<ref.span>>)>>
  IN [position |-> position, reference |-> ref, ranges |-> lexical \o semantic,
      context |-> IF ref.lexical = <<>> /\ ref.semantic # whole THEN whole ELSE <<>>]

ResolutionError(store, doc, request) ==
  LET refs == request.candidates
      wrong == {i \in DOMAIN refs : CandidateError(doc, refs[i]) # "none"}
  IN IF request.generation # store.active THEN "GENERATION_NOT_CURRENT"
     ELSE IF request.mode # "lexical" /\ ~IndexCurrent(store, request.index)
       THEN "VECTOR_NOT_CURRENT"
     ELSE IF \E i \in DOMAIN refs : refs[i].chunk[1] # request.generation
       THEN "SOURCE_SCOPE_MISMATCH"
     ELSE IF wrong # {} THEN CandidateError(doc, refs[Min(wrong)])
     ELSE "none"

ResolvedGroups(doc, request) ==
  [i \in DOMAIN request.candidates |-> ResolveGroup(doc, request.candidates[i], i)]

(***************************************************************************)
(* Normalization: a repeated candidate is a duplicate of the first one if  *)
(* both say the same; the rest must come in the order of their ranks.      *)
(***************************************************************************)
ReferenceKey(ref) == <<ref.chunk, ref.lexical # <<>>, IF ref.semantic = <<>> THEN 0 ELSE ref.span>>

FirstOf(groups, i) ==
  Min({j \in 1..i : ReferenceKey(groups[j].reference) = ReferenceKey(groups[i].reference)})

IsDuplicate(groups, i) == FirstOf(groups, i) # i

NormalizationError(groups) ==
  LET contradicts(i) == /\ IsDuplicate(groups, i)
                        /\ \/ groups[i].reference # groups[FirstOf(groups, i)].reference
                           \/ groups[i].ranges # groups[FirstOf(groups, i)].ranges
                           \/ groups[i].context # groups[FirstOf(groups, i)].context
      disordered(i) == /\ ~IsDuplicate(groups, i)
                       /\ \E j \in 1..(i - 1) :
                            /\ ~IsDuplicate(groups, j)
                            /\ groups[j].reference.rank >= groups[i].reference.rank
      wrong == {i \in DOMAIN groups : contradicts(i) \/ disordered(i)}
  IN IF wrong = {} THEN "none"
     ELSE IF contradicts(Min(wrong)) THEN "CONTRADICTORY_DUPLICATE" ELSE "INVALID_ORDER"

(* Both channels may assert the same range: one entry with both origins.   *)
Coalesced(ranges) ==
  IF Len(ranges) = 2 /\ ranges[1].range = ranges[2].range
  THEN <<[ranges[1] EXCEPT !.provenance = ranges[1].provenance \o ranges[2].provenance]>>
  ELSE ranges

(***************************************************************************)
(* Packing: every proposal is measured whole; one that exceeds the budget  *)
(* is left out and the next one is tried.                                  *)
(***************************************************************************)
RangeBytes(range) == EntryBytes + (range[2] - range[1])

PreviewBytes(packed) ==
  Total([i \in DOMAIN packed.entries |-> RangeBytes(packed.entries[i].range)])
    + Total([i \in DOMAIN packed.contexts |-> RangeBytes(packed.contexts[i].range)])

Exceeds(packed, budget) ==
  Len(packed.entries) > budget.entries \/ PreviewBytes(packed) > budget.bytes

(* unit is [id, ranges, contexts]: contexts pairs a range with the indices *)
(* of the unit's ranges it belongs to.                                     *)
Proposed(packed, unit) ==
  LET label(i) == Len(packed.entries) + i
  IN [packed EXCEPT
        !.entries = @ \o [i \in DOMAIN unit.ranges |->
                            [label |-> label(i), chunk |-> unit.ranges[i].chunk,
                             range |-> unit.ranges[i].range, text |-> unit.ranges[i].text,
                             provenance |-> unit.ranges[i].provenance]],
        !.contexts = @ \o [k \in DOMAIN unit.contexts |->
                             [range |-> unit.contexts[k].range,
                              labels |-> {label(i) : i \in unit.contexts[k].of}]],
        !.dispositions = Append(@, [unit |-> unit.id, omission |-> "none",
                                    labels |-> [i \in DOMAIN unit.ranges |-> label(i)]])]

Omit(packed, unit, reason) ==
  [packed EXCEPT !.dispositions =
     Append(@, [unit |-> unit.id, omission |-> reason, labels |-> <<>>])]

OmissionReason(packed, budget) ==
  IF Len(packed.entries) > budget.entries
  THEN "ENTRY_LIMIT_EXCEEDED" ELSE "PREVIEW_BYTES_EXCEEDED"

(* Mutant: packing ends at the first unit that does not fit.               *)
PackUnitStops(packed, unit, budget) ==
  LET proposed == Proposed(packed, unit)
      full == \E i \in DOMAIN packed.dispositions :
                packed.dispositions[i].omission \notin {"none", "DUPLICATE_CANDIDATE"}
  IN IF unit.duplicate THEN Omit(packed, unit, "DUPLICATE_CANDIDATE")
     ELSE IF full \/ Exceeds(proposed, budget)
       THEN Omit(packed, unit, OmissionReason(proposed, budget))
     ELSE proposed

PackUnit(packed, unit, budget) ==
  LET proposed == Proposed(packed, unit)
  IN IF unit.duplicate THEN Omit(packed, unit, "DUPLICATE_CANDIDATE")
     ELSE IF Exceeds(proposed, budget)
       THEN Omit(packed, unit, OmissionReason(proposed, budget))
     ELSE proposed

PackUnits(units, budget) ==
  FoldLeft(LAMBDA packed, unit : PackUnit(packed, unit, budget),
           [entries |-> <<>>, contexts |-> <<>>, dispositions |-> <<>>], units)

BundleState(packed, doc) ==
  IF packed.entries = <<>> THEN "INSUFFICIENT_EVIDENCE"
  ELSE IF \/ HasNativeGaps(doc)
          \/ \E i \in DOMAIN packed.dispositions :
               packed.dispositions[i].omission \notin {"none", "DUPLICATE_CANDIDATE"}
    THEN "PREVIEW_PARTIAL"
  ELSE "PREVIEW_READY"

Sealed(kind, request, units, packed, doc) ==
  [error |-> "none", kind |-> kind, generation |-> request.generation, index |-> request.index,
   mode |-> request.mode, budget |-> request.budget, units |-> units,
   entries |-> packed.entries, contexts |-> packed.contexts,
   dispositions |-> packed.dispositions, state |-> BundleState(packed, doc)]

StandaloneContext(group, ranges) ==
  IF group.context = <<>> THEN <<>>
  ELSE <<[range |-> group.context, of |-> DOMAIN ranges]>>

(* EvidenceBundleService.build                                             *)
BuildBundle(store, doc, request) ==
  LET failure == ResolutionError(store, doc, request)
      groups == ResolvedGroups(doc, request)
      unit(i) == LET ranges == Coalesced(groups[i].ranges)
                 IN [id |-> groups[i].reference, duplicate |-> IsDuplicate(groups, i),
                     ranges |-> ranges, contexts |-> StandaloneContext(groups[i], ranges)]
  IN IF failure # "none" THEN Failed(failure)
     ELSE IF NormalizationError(groups) # "none" THEN Failed(NormalizationError(groups))
     ELSE Sealed("bundle", request, <<>>,
                 PackUnits([i \in DOMAIN groups |-> unit(i)], request.budget), doc)

(***************************************************************************)
(* Groups: a logical unit is one candidate (standalone) or two ranges that *)
(* stay together.  asked is [kind |-> "standalone", position] or [kind |-> *)
(* "group", members], a member being [position, child]; a child is a range *)
(* without the channel that found it.                                      *)
(***************************************************************************)
Child(range) == [chunk |-> range.chunk, range |-> range.range]

CanonicalPair(doc, a, b) ==
  LET key(c) == <<PageOf(doc, c.chunk)>> \o c.range \o c.chunk
  IN IF Before(key(a), key(b)) THEN <<a, b>> ELSE <<b, a>>

Overlap(doc, a, b) ==
  /\ PageOf(doc, a.chunk) = PageOf(doc, b.chunk)
  /\ Max({a.range[1], b.range[1]}) < Min({a.range[2], b.range[2]})

ChildrenOf(groups, asked) ==
  IF asked.kind = "group" THEN <<asked.members[1].child, asked.members[2].child>>
  ELSE LET ranges == groups[asked.position].ranges
       IN [i \in DOMAIN ranges |-> Child(ranges[i])]

MatchesOnce(groups, member) ==
  LET ranges == groups[member.position].ranges
  IN Cardinality({i \in DOMAIN ranges : Child(ranges[i]) = member.child}) = 1

UnitError(doc, groups, units, n) ==
  LET asked == units[n]
      children == ChildrenOf(groups, asked)
      earlier == UNION {ToSet(ChildrenOf(groups, units[m])) : m \in 1..(n - 1)}
      repeated == IF asked.kind = "group" THEN FALSE
                  ELSE \E i, j \in DOMAIN children : i # j /\ children[i] = children[j]
      pair == CanonicalPair(doc, children[1], children[2])
  IN IF asked.kind = "group" /\ \E k \in 1..2 : ~MatchesOnce(groups, asked.members[k])
       THEN "INVALID_GROUP_IDENTITY"
     ELSE IF asked.kind = "group" /\ Overlap(doc, pair[1], pair[2])
       THEN "GROUP_RANGE_OVERLAP"
     ELSE IF /\ asked.kind = "group"
             /\ \E m \in 1..(n - 1) :
                  /\ units[m].kind = "group"
                  /\ LET other == ChildrenOf(groups, units[m])
                     IN CanonicalPair(doc, other[1], other[2]) = pair
       THEN "DUPLICATE_GROUP"
     ELSE IF repeated \/ ToSet(children) \cap earlier # {}
       THEN "DUPLICATE_LOGICAL_UNIT"
     ELSE "none"

LogicalUnit(doc, groups, asked) ==
  IF asked.kind = "standalone"
  THEN LET group == groups[asked.position]
       IN [id |-> group.reference, duplicate |-> FALSE, ranges |-> group.ranges,
           contexts |-> StandaloneContext(group, group.ranges)]
  ELSE LET pair == CanonicalPair(doc, asked.members[1].child, asked.members[2].child)
           member(c) == asked.members[IF asked.members[1].child = c THEN 1 ELSE 2]
           group(k) == groups[member(pair[k]).position]
           found(k) == group(k).ranges[CHOOSE i \in DOMAIN group(k).ranges :
                                         Child(group(k).ranges[i]) = pair[k]]
           context(k) == IF group(k).context = <<>> THEN <<>>
                         ELSE <<[range |-> group(k).context, of |-> {k}]>>
       IN [id |-> pair, duplicate |-> FALSE, ranges |-> <<found(1), found(2)>>,
           contexts |-> context(1) \o context(2)]

(* EvidenceGroupService.build                                              *)
BuildGroups(store, doc, request, units) ==
  LET failure == ResolutionError(store, doc, request)
      groups == ResolvedGroups(doc, request)
      wrong == {n \in DOMAIN units : UnitError(doc, groups, units, n) # "none"}
      packed == PackUnits([n \in DOMAIN units |-> LogicalUnit(doc, groups, units[n])],
                          request.budget)
      kept == {n \in DOMAIN units : packed.dispositions[n].omission = "none"}
      logical(n) == [kind |-> units[n].kind, labels |-> packed.dispositions[n].labels,
                     group |-> IF units[n].kind = "group"
                               THEN packed.dispositions[n].unit ELSE <<>>]
  IN IF failure # "none" THEN Failed("GROUP_MEMBER_RESOLUTION_FAILED")
     ELSE IF wrong # {} THEN Failed(UnitError(doc, groups, units, Min(wrong)))
     ELSE Sealed("groups", request, {logical(n) : n \in kept}, packed, doc)
==============================================================================
