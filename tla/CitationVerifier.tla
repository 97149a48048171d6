--------------------------- MODULE CitationVerifier ---------------------------
(***************************************************************************)
(* Verification of a proposal against a bundle                             *)
(* (analysis/supported_objective_verifier.py): bind the cited labels to    *)
(* the bundle's units, revalidate them against the store, then compare the *)
(* proposed value with the cited text.                                     *)
(*                                                                         *)
(* A proposal is [value, units], a unit [kind, labels, group].             *)
(***************************************************************************)
EXTENDS EvidenceBundle

(* Binding: labels distinct over the whole proposal, each the label of one *)
(* entry, together the labels of one packed unit.                          *)
EntriesFor(bundle, labels) ==
  [i \in DOMAIN labels |-> CHOOSE e \in ToSet(bundle.entries) : e.label = labels[i]]

IsEntryLabel(bundle, label) ==
  Cardinality({i \in DOMAIN bundle.entries : bundle.entries[i].label = label}) = 1

GroupLabels(bundle) ==
  UNION {ToSet(u.labels) : u \in {v \in bundle.units : v.kind = "group"}}

BindError(bundle, units, n) ==
  LET unit == units[n]
      cited == ToSet(unit.labels)
      reused == \/ Cardinality(cited) < Len(unit.labels)
                \/ \E m \in 1..(n - 1) : cited \cap ToSet(units[m].labels) # {}
      known == \A label \in cited : IsEntryLabel(bundle, label)
      packed == \E i \in DOMAIN bundle.dispositions :
                  /\ bundle.dispositions[i].omission = "none"
                  /\ bundle.dispositions[i].labels = unit.labels
      grouped == \E u \in bundle.units : u = unit
  IN IF reused THEN "EVIDENCE_REFERENCE_INVALID"
     ELSE IF bundle.kind = "bundle"
       THEN IF known /\ unit.kind = "standalone" /\ packed
            THEN "none" ELSE "EVIDENCE_REFERENCE_INVALID"
     ELSE IF known /\ grouped THEN "none"
     ELSE IF unit.kind = "group" THEN "EVIDENCE_GROUP_INCOMPLETE"
     ELSE IF known /\ cited \cap GroupLabels(bundle) # {} THEN "EVIDENCE_GROUP_INCOMPLETE"
     ELSE "EVIDENCE_REFERENCE_INVALID"

(***************************************************************************)
(* Revalidation: a bundle is built again from what it says of its          *)
(* candidates and compared whole; of a bundle of groups the cited entries  *)
(* are resolved again and compared one by one.                             *)
(***************************************************************************)
MapAuthorityError(code) ==
  IF code \in {"GENERATION_NOT_CURRENT", "VECTOR_NOT_CURRENT"}
  THEN "SOURCE_NOT_CURRENT" ELSE "AUTHORITATIVE_EVIDENCE_INVALID"

(* Mutant: a bundle is built again from its packed candidates only.        *)
RebuiltPacked(store, doc, bundle) ==
  LET packed == SelectSeq(bundle.dispositions, LAMBDA d : d.omission = "none")
  IN BuildBundle(store, doc,
       [generation |-> bundle.generation, index |-> bundle.index, mode |-> bundle.mode,
        candidates |-> [i \in DOMAIN packed |-> packed[i].unit], budget |-> bundle.budget])

Rebuilt(store, doc, bundle) ==
  BuildBundle(store, doc,
    [generation |-> bundle.generation, index |-> bundle.index, mode |-> bundle.mode,
     candidates |-> [i \in DOMAIN bundle.dispositions |-> bundle.dispositions[i].unit],
     budget |-> bundle.budget])

(* A candidate of one or two cited entries, from their provenance.         *)
CandidateForEntries(entries, rank) ==
  LET says(channel) == {i \in DOMAIN entries :
                          \E origin \in ToSet(entries[i].provenance) :
                            (origin = 0) = (channel = "lexical")}
      range(channel) == IF says(channel) = {} THEN <<>>
                        ELSE entries[Min(says(channel))].range
      spans == (UNION {ToSet(entries[i].provenance) : i \in DOMAIN entries}) \ {0}
  IN [chunk |-> entries[1].chunk, rank |-> rank, lexical |-> range("lexical"),
      semantic |-> range("semantic"), span |-> IF spans = {} THEN 0 ELSE Max(spans)]

(* Mutant: the text of a cited entry is not compared.                      *)
RangeEqualsEntryTextless(range, entry) ==
  \A f \in {"chunk", "range", "provenance"} : range[f] = entry[f]

RangeEqualsEntry(range, entry) ==
  \A f \in {"chunk", "range", "text", "provenance"} : range[f] = entry[f]

CitedEntriesError(store, doc, bundle, units) ==
  LET parts(unit) == LET entries == EntriesFor(bundle, unit.labels)
                     IN IF unit.kind = "standalone" THEN <<entries>>
                        ELSE [k \in DOMAIN entries |-> <<entries[k]>>]
      cited == FlattenSeq([n \in DOMAIN units |-> parts(units[n])])
      request == [generation |-> bundle.generation, index |-> bundle.index,
                  mode |-> bundle.mode, budget |-> bundle.budget,
                  candidates |-> [i \in DOMAIN cited |-> CandidateForEntries(cited[i], i)]]
      failure == ResolutionError(store, doc, request)
      groups == ResolvedGroups(doc, request)
      same(i) == /\ Len(groups[i].ranges) = Len(cited[i])
                 /\ \A k \in DOMAIN cited[i] : RangeEqualsEntry(groups[i].ranges[k], cited[i][k])
      canonical(unit) ==
        unit.kind = "group" =>
          LET entries == EntriesFor(bundle, unit.labels)
          IN unit.group = <<Child(entries[1]), Child(entries[2])>>
             /\ CanonicalPair(doc, unit.group[1], unit.group[2]) = unit.group
  IN IF failure # "none" THEN MapAuthorityError(failure)
     ELSE IF (\A i \in DOMAIN cited : same(i)) /\ (\A n \in DOMAIN units : canonical(units[n]))
       THEN "none"
     ELSE "AUTHORITATIVE_EVIDENCE_INVALID"

AuthorityError(store, doc, bundle, units) ==
  LET again == Rebuilt(store, doc, bundle)
  IN IF bundle.kind = "groups" THEN CitedEntriesError(store, doc, bundle, units)
     ELSE IF again.error # "none" THEN MapAuthorityError(again.error)
     ELSE IF again # bundle THEN "AUTHORITATIVE_EVIDENCE_INVALID"
     ELSE "none"

DirectSupport(bundle, proposal) ==
  LET cited == UNION {ToSet(EntriesFor(bundle, u.labels)) : u \in ToSet(proposal.units)}
  IN IF \E u \in ToSet(proposal.units) : u.kind = "group" THEN "abstained"
     ELSE IF \E entry \in cited : entry.text # proposal.value THEN "abstained"
     ELSE "verified"

(* SupportedObjectiveCitationVerifier.verify                               *)
Verify(store, doc, bundle, proposal) ==
  LET unbound == {n \in DOMAIN proposal.units : BindError(bundle, proposal.units, n) # "none"}
      authority == AuthorityError(store, doc, bundle, proposal.units)
  IN IF unbound # {} THEN BindError(bundle, proposal.units, Min(unbound))
     ELSE IF authority # "none" THEN authority
     ELSE DirectSupport(bundle, proposal)
==============================================================================
