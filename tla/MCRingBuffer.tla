---------------------------- MODULE MCRingBuffer ---------------------------
(***************************************************************************)
(* RingBuffer for TLC: blocks are interchangeable, and so are buffers.     *)
(***************************************************************************)
EXTENDS RingBuffer, TLC

Symmetry == Permutations(Blocks) \cup Permutations(Rings)
=============================================================================
