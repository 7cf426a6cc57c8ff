------------------------------ MODULE MCBTree ------------------------------
(***************************************************************************)
(* Instances of BTree: a set whose callers do what they like, a multiset of *)
(* bounded size, a set whose callers build a tree of three levels by a     *)
(* fixed sequence of insertions, erase any range from it, and then erase or *)
(* insert any one element, and sets and multisets whose callers build two  *)
(* trees of up to three levels, merge, swap, copy or move them, and then   *)
(* erase any one element.                                                  *)
(***************************************************************************)
EXTENDS BTreePair

CONSTANTS
  SetKeys,     \* the keys of the set
  MultiSize    \* bound: elements in the multiset

(* Ascending; descending; from both ends to the middle. *)
Up(n) == [i \in 1 .. n |-> i]
Down(n) == [i \in 1 .. n |-> n + 1 - i]
Inward(n) == [i \in 1 .. n |-> IF i % 2 = 1 THEN (i + 1) \div 2 ELSE n + 1 - i \div 2]

DeepKeys == 1 .. 60

Inserting(s) == [i \in DOMAIN s |-> [ops |-> {"insert"}, keys |-> {s[i]}]]
AnyOf(ops, ks) == [ops |-> ops, keys |-> ks]

(* The range begins at one of the keys from. *)
Then(s, from) ==
  Inserting(s) \o <<AnyOf({"range"}, from), AnyOf({"erase", "insert"}, DeepKeys), AnyOf({}, {})>>

(* A tree of the elements s, a second one of t, and the calls with both. *)
ThenTwo(s, t) ==
  Inserting(s) \o <<AnyOf({"swap"}, DeepKeys)>> \o Inserting(t)
    \o <<AnyOf({"swap", "copy", "move", "merge"}, DeepKeys), AnyOf({"erase"}, DeepKeys), AnyOf({}, {})>>

(* Every other key, descending, and every third one, ascending: the two *)
(* trees have some keys in common, and nodes with different numbers of sons.*)
Odd(n) == [i \in 1 .. n |-> 2 * (n - i) + 1]
Third(n) == [i \in 1 .. n |-> 3 * i]

Once(ks) == ks \X {0}

Instances == {
  [node_size |-> 4, multi |-> FALSE, two |-> FALSE, elems |-> Once(SetKeys),
   limit |-> Cardinality(SetKeys), plans |-> {<<>>}],
  [node_size |-> 4, multi |-> TRUE, two |-> FALSE, elems |-> Once({1, 2, 3}) \cup {<<2, 1>>},
   limit |-> MultiSize, plans |-> {<<>>}],
  [node_size |-> 5, multi |-> FALSE, two |-> FALSE, elems |-> Once(1 .. 30),
   limit |-> 30,
   plans |-> {Then(Up(30), 9 .. 17), Then(Down(23), 1 .. 12), Then(Inward(22), 7 .. 16)}],
  [node_size |-> 4, multi |-> FALSE, two |-> TRUE, elems |-> Once(DeepKeys), limit |-> 60,
   plans |-> {ThenTwo(Odd(m), Third(n)) : m, n \in {0, 2, 3, 6, 12, 18}}],
  [node_size |-> 4, multi |-> TRUE, two |-> TRUE, elems |-> Once(DeepKeys), limit |-> 60,
   plans |-> {ThenTwo(Third(m), Odd(n)) : m, n \in {1, 4, 9, 18}}]}
=============================================================================
