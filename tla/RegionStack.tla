---------------------------- MODULE RegionStack -----------------------------
(***************************************************************************)
(* What nested scratch owners promise their users, without slabs, cursors  *)
(* or pools: a stack of regions.  A region is a set of extents (a block, an *)
(* offset, a length); an extent joins a region disjoint from every extent  *)
(* that is in use, and stays in use exactly until its region is popped.    *)
(***************************************************************************)
EXTENDS Integers

CONSTANT MaxDepth

VARIABLES height, region

Disjoint(x, y) == x.b # y.b \/ x.lo + x.n <= y.lo \/ y.lo + y.n <= x.lo

InUse == UNION {region[k] : k \in 1 .. height}

Init ==
  /\ height = 0
  /\ region = [k \in 1 .. MaxDepth |-> {}]

Push ==
  /\ height < MaxDepth
  /\ height' = height + 1
  /\ UNCHANGED region

Add(k, x) ==
  /\ \A y \in InUse : Disjoint(x, y)
  /\ region' = [region EXCEPT ![k] = @ \cup {x}]
  /\ UNCHANGED height

Pop ==
  /\ height > 0
  /\ height' = height - 1
  /\ region' = [region EXCEPT ![height] = {}]

(* The extent that joins is one of the new region's, which names it without *)
(* enumerating the addresses of the machine. *)
Next == Push \/ (\E k \in 1 .. height : \E x \in region'[k] : Add(k, x)) \/ Pop

Spec == Init /\ [][Next]_<<height, region>>
=============================================================================
