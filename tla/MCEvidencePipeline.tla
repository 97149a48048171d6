-------------------------- MODULE MCEvidencePipeline --------------------------
(* Three small papers for EvidencePipeline: a page whose words must be put *)
(* in reading order and have equal texts, two pages with a page between    *)
(* them that has no text, and a word that no slice can hold.               *)
EXTENDS EvidencePipeline

Word(line, x, text, tokens) ==
  [line |-> line, x |-> x, text |-> text, len |-> 2, stop |-> text = 1, tokens |-> tokens]

Mixed == <<<<Word(5, 0, 3, 1), Word(0, 4, 2, 1), Word(1, 0, 1, 1), Word(9, 0, 2, 2),
            Word(9, 4, 1, 1)>>>>
Blank == <<<<Word(0, 0, 2, 1), Word(0, 4, 1, 1)>>, <<>>, <<Word(0, 0, 2, 1)>>>>
Long == <<<<Word(0, 0, 2, 3), Word(0, 4, 2, 1), Word(3, 0, 1, 2)>>>>

MCLayouts == {Mixed, Blank, Long}
MCBudgets == {[entries |-> 3, bytes |-> 100], [entries |-> 2, bytes |-> 14]}
==============================================================================
