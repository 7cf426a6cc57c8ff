-------------------------- MODULE MCStackAllocator --------------------------
(***************************************************************************)
(* Instances of StackAllocator for TLC.                                    *)
(***************************************************************************)
EXTENDS StackAllocator, TLC

(* Blocks are interchangeable: no action prefers one to another. *)
BlockSymmetry == Permutations(Blocks)
=============================================================================
