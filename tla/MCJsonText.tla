----------------------------- MODULE MCJsonText ----------------------------
(***************************************************************************)
(* Texts for JsonText: all up to a length.                                 *)
(***************************************************************************)
EXTENDS JsonText

CONSTANT MaxLen   \* bound: the length of a text

AllInputs == UNION {[1 .. n -> Characters] : n \in 0 .. MaxLen}
=============================================================================
