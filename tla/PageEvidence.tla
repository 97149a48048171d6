----------------------------- MODULE PageEvidence ----------------------------
(***************************************************************************)
(* From the word boxes of a page to citable text: the reading order        *)
(* (documents/normalization.py), the lexical chunks (documents/chunking.py)*)
(* and the embedding spans of a chunk (embeddings/spans.py).               *)
(*                                                                         *)
(* A word box is [line, x, text, len, stop, tokens]: its vertical key, its *)
(* left edge, its text (a number), its length in characters, whether it    *)
(* ends like a sentence and how many tokens it costs.  The words of a page *)
(* become ranges of its text, which joins them by one character.           *)
(***************************************************************************)
EXTENDS Ranking

CONSTANTS
  LineTolerance,  \* _LINE_CLUSTER_TOLERANCE_POINTS
  MaxWords,       \* MAX_WORDS of a chunk
  PreferredWords, \* PREFERRED_BOUNDARY_MIN_WORDS
  TokenLimit      \* tokens of the longest embeddable slice

ASSUME PageAssumption ==
  /\ LineTolerance \in Nat /\ TokenLimit \in Nat
  /\ MaxWords \in Nat \ {0} /\ PreferredWords \in 1..MaxWords

(* Words without text are dropped before (canonicalize_extracted_words).   *)
WordBoxes ==
  [line : Int, x : Int, text : Nat, len : Nat \ {0}, stop : BOOLEAN, tokens : Nat]

(***************************************************************************)
(* Reading order: boxes sorted by height; a box within the tolerance of    *)
(* the FIRST box of a line joins it; a line is read from left to right.    *)
(***************************************************************************)
ReadingOrder(boxes) ==
  LET byHeight == Sorted(boxes, LAMBDA b : <<b.line, b.x>>)
      lineOf[i \in DOMAIN byHeight] ==
        IF i > 1 /\ byHeight[i].line - lineOf[i - 1] <= LineTolerance
        THEN lineOf[i - 1]
        ELSE byHeight[i].line
      placed == [i \in DOMAIN byHeight |-> [box |-> byHeight[i], row |-> lineOf[i]]]
      read == Sorted(placed, LAMBDA p : <<p.row, p.box.x, p.box.line>>)
  IN [i \in DOMAIN read |-> read[i].box]

(* The canonical words, each with the offset construction gave it.         *)
CanonicalWords(boxes) ==
  LET read == ReadingOrder(boxes)
      start[i \in DOMAIN read] == IF i = 1 THEN 0 ELSE start[i - 1] + read[i - 1].len + 1
  IN [i \in DOMAIN read |->
        [text |-> read[i].text, start |-> start[i], end |-> start[i] + read[i].len,
         stop |-> read[i].stop, tokens |-> read[i].tokens]]

TextLength(words) == IF words = <<>> THEN 0 ELSE words[Len(words)].end

(***************************************************************************)
(* A chunk ends at the last sentence-like word of its preferred tail, else *)
(* where it is full; the last chunk of a page takes what is left.          *)
(***************************************************************************)
ChunkEnd(words, first) ==
  LET furthest == Least(first + MaxWords - 1, Len(words))
      breaks == {i \in (first + PreferredWords - 1)..furthest : words[i].stop}
  IN IF furthest < Len(words) /\ breaks # {} THEN Max(breaks) ELSE furthest

(* A span takes words while the slice fits the tokenizer; a word that does *)
(* not fit alone is covered by a span that is never embedded.              *)
Fits(words, first, last) ==
  Total([i \in 1..(last - first + 1) |-> words[first + i - 1].tokens]) <= TokenLimit

(* Mutant: each word is measured alone.                                     *)
SpanEndByWord(words, first, last) ==
  Max({first} \cup {i \in first..last : \A j \in first..i : Fits(words, j, j)})

SpanEnd(words, first, last) ==
  Max({first} \cup {i \in first..last : \A j \in first..i : Fits(words, first, j)})
==============================================================================
