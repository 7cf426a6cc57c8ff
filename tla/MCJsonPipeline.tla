--------------------------- MODULE MCJsonPipeline --------------------------
(***************************************************************************)
(* Texts for JsonPipeline: short ones over all classes, and longer ones, of *)
(* several blocks, over those whose effect reaches into the next block.    *)
(***************************************************************************)
EXTENDS JsonPipeline

CONSTANTS
  Carried,     \* the classes of the longer texts
  MaxLen,      \* bound: the length of a text
  MaxCarried   \* bound: the length of a longer one

TextsOf(classes, len) == UNION {[1 .. n -> classes] : n \in 0 .. len}
AllTexts == TextsOf(Classes, MaxLen) \cup TextsOf(Carried, MaxCarried)
=============================================================================
