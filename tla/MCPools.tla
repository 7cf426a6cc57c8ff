------------------------------ MODULE MCPools ------------------------------
(* Two rings and two forward lists of four elements, two *)
(* automatic_free_pools, and two object pools, over three chunks. *)
EXTENDS Pools

CONSTANTS n1, n2, n3, n4

MCKind == n1 :> 1 @@ n2 :> 2 @@ n3 :> 2 @@ n4 :> 1

Symmetry == Permutations(Chunks) \cup Permutations(FreePools)

(* The lists of a user and the pools have nothing in common: they are *)
(* explored one beside the other, not in all combinations, and so are rings *)
(* and forward lists. *)
NoPoolUsed == DOMAIN heap = {} /\ arena = [a \in Arenas |-> NewArena(Cache, "Factor2")]

MCNext ==
  \/ NoPoolUsed /\ ListNext /\ (Linked' = {} \/ Chained' = {})
  \/ Linked = {} /\ Chained = {} /\ PoolNext
MCSpec == Init /\ [][MCNext]_vars
=============================================================================
