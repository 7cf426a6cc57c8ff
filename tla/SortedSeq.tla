----------------------------- MODULE SortedSeq -----------------------------
(***************************************************************************)
(* What two ordered containers of basic_btree promise: each is a sequence  *)
(* of elements, sorted by key.  A set or map holds a key once; a multiset  *)
(* or multimap keeps equal keys in some order that no operation changes.   *)
(***************************************************************************)
EXTENDS Integers, Sequences

VARIABLES
  content,   \* the elements in order
  second,    \* those of another container
  held,      \* the element that merge moves from second to content, if any
  merging,   \* merge runs
  use        \* multi: may a key occur more than once; elems: the elements there are

(* An element is a key and what is mapped to it. *)
Elems == use.elems
KeyOf(e) == e[1]

(* The gaps an element of key k may go into: gap g is in front of the *)
(* element at (zero-based) position g. *)
Gaps(k) ==
  {g \in 0 .. Len(content) :
     /\ \A i \in 1 .. g : KeyOf(content[i]) <= k
     /\ \A i \in g + 1 .. Len(content) : k <= KeyOf(content[i])}

Holds(k) == \E i \in DOMAIN content : KeyOf(content[i]) = k

Without(s, g, n) == SubSeq(s, 1, g) \o SubSeq(s, g + n + 1, Len(s))

Init == content = <<>> /\ second = <<>> /\ held = <<>> /\ merging = FALSE

Put(e, g) == content' = SubSeq(content, 1, g) \o <<e>> \o SubSeq(content, g + 1, Len(content))

Insert(e) ==
  /\ use.multi \/ ~Holds(KeyOf(e))
  /\ \E g \in Gaps(KeyOf(e)) : Put(e, g)

(* Removes n elements from position g on. *)
Remove(g, n) == content' = Without(content, g, n)

One ==
  /\ \/ \E e \in Elems : Insert(e)
     \/ \E g \in 0 .. Len(content) - 1 : \E n \in 1 .. Len(content) - g : Remove(g, n)
  /\ UNCHANGED <<second, held>>

(* Swap, copy, and move, which merge into an empty container may be as well.*)
Both ==
  /\ content' = second
  /\ second' \in {content, second, <<>>}
  /\ UNCHANGED held

(* The next element that merge moves. *)
Lift(g) ==
  /\ held = <<>> /\ (use.multi \/ ~Holds(KeyOf(second[g + 1])))
  /\ held' = <<second[g + 1]>> /\ second' = Without(second, g, 1)
  /\ UNCHANGED content

(* It goes behind the elements of its key. *)
Drop ==
  /\ held # <<>> /\ held' = <<>>
  /\ Put(held[1], CHOOSE g \in Gaps(KeyOf(held[1])) : g + 1 \notin Gaps(KeyOf(held[1])))
  /\ UNCHANGED second

Transfer == Drop \/ \E g \in 0 .. Len(second) - 1 : Lift(g)

(* merge leaves only elements whose keys a set has already. *)
Merged == held = <<>> /\ \A i \in DOMAIN second : ~use.multi /\ Holds(KeyOf(second[i]))

Next ==
  \/ ~merging /\ (One \/ Both) /\ UNCHANGED merging
  \/ merging /\ Transfer /\ UNCHANGED merging
  \/ merging' # merging /\ (merging => Merged) /\ UNCHANGED <<content, second, held>>

Spec == Init /\ [][Next /\ UNCHANGED use]_<<content, second, held, merging, use>>
=============================================================================
