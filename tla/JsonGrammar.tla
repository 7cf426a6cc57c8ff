---------------------------- MODULE JsonGrammar ----------------------------
(***************************************************************************)
(* What json::document::parse promises (include/wjr/json/document.hpp): the *)
(* texts of JSON, as sequences of tokens, each with the value it denotes.  *)
(* The visitor is compared with these.                                     *)
(*                                                                         *)
(* A string is two tokens, its quotes; the closing one stands for the      *)
(* content as well.  A value is [kind, text, kids]: kids are <<key, value>> *)
(* pairs, in the order in which the keys first appear, with the value that *)
(* came last; the key of an array's element is NoKey.                      *)
(***************************************************************************)
EXTENDS Integers, Sequences, SequencesExt

CONSTANTS
  Scalars,    \* literals and numbers
  Contents    \* contents of strings

NoKey == "-"

ASSUME KeyAssumption == NoKey \notin Contents

Leaf(kind, text) == [kind |-> kind, text |-> text, kids |-> <<>>]

Null == "null"
ScalarLeaf(s) == IF s = Null THEN Leaf("null", "") ELSE Leaf("scalar", s)

(* kids with value under key: in the place the key already has, or last. *)
With(kids, key, value) ==
  IF key # NoKey /\ \E i \in DOMAIN kids : kids[i][1] = key
    THEN [i \in DOMAIN kids |-> IF kids[i][1] = key THEN <<key, value>> ELSE kids[i]]
    ELSE Append(kids, <<key, value>>)

Larger(a, b) == IF a > b THEN a ELSE b

-----------------------------------------------------------------------------
(* Values [text, value, nest], and what stands in a container: lists *)
(* [text, kids, nest], of elements or of members.  nest is how deep *)
(* containers are nested. *)

ScalarValue(s) == [text |-> <<s>>, value |-> ScalarLeaf(s), nest |-> 0]
StringValue(c) == [text |-> <<"quote", c>>, value |-> Leaf("string", c), nest |-> 0]

Opening(kind) == IF kind = "object" THEN "{" ELSE "["
Closing(kind) == IF kind = "object" THEN "}" ELSE "]"

Container(kind, list) ==
  [text |-> Append(<<Opening(kind)>> \o list.text, Closing(kind)),
   value |-> [kind |-> kind, text |-> "", kids |-> list.kids], nest |-> list.nest + 1]

Nothing == [text |-> <<>>, kids |-> <<>>, nest |-> 0]

(* What is in front of a further value: the comma, and a member's key. *)
Separated(list) == IF list.text = <<>> THEN <<>> ELSE Append(list.text, ",")
KeyText(key) == IF key = NoKey THEN <<>> ELSE <<"quote", key, ":">>

Extended(list, key, v) ==
  [text |-> (Separated(list) \o KeyText(key)) \o v.text,
   kids |-> With(list.kids, key, v.value), nest |-> Larger(list.nest, v.nest)]

(* p.values[n], p.arrays[n] and p.objects[n] are the values and the lists *)
(* of n tokens, for n up to some length. *)
OfLength(sets, n) == IF n \in DOMAIN sets THEN sets[n] ELSE {}
ListsOf(sets, n) == IF n = 0 THEN {Nothing} ELSE OfLength(sets, n)

Values(p, n) ==
  (IF n = 1 THEN {ScalarValue(s) : s \in Scalars} ELSE {})
  \cup (IF n = 2 THEN {StringValue(c) : c \in Contents} ELSE {})
  \cup {Container("array", l) : l \in ListsOf(p.arrays, n - 2)}
  \cup {Container("object", l) : l \in ListsOf(p.objects, n - 2)}

(* Lists of n tokens whose last value is one of values, its key of keys, of *)
(* len tokens. *)
Lists(values, lists, keys, len, n) ==
  UNION {{Extended(l, key, v) : l \in ListsOf(lists, i), key \in keys,
                                v \in OfLength(values, n - len - IF i = 0 THEN 0 ELSE i + 1)} : i \in 0 .. n}

Longer(p, n) ==
  LET values == Append(p.values, Values(p, n))
  IN  [values  |-> values,
       arrays  |-> Append(p.arrays, Lists(values, p.arrays, {NoKey}, 0, n)),
       objects |-> Append(p.objects, Lists(values, p.objects, Contents, 3, n))]

Phrases[n \in Nat] ==
  IF n = 0 THEN [values |-> <<>>, arrays |-> <<>>, objects |-> <<>>] ELSE Longer(Phrases[n - 1], n)

(* The texts of up to maxLen tokens, nested up to maxNest deep. *)
Language(maxLen, maxNest) ==
  {v \in UNION {Phrases[maxLen].values[n] : n \in 1 .. maxLen} : v.nest <= maxNest}
=============================================================================
