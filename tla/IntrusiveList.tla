--------------------------- MODULE IntrusiveList ---------------------------
(***************************************************************************)
(* The intrusive lists of include/wjr/container/list.hpp and their         *)
(* algorithms (intrusive_algorithms.hpp): rings of hooks that the elements *)
(* hold themselves.                                                        *)
(*                                                                         *)
(* h is the memory of the hooks that are linked, as functions next and     *)
(* prev.  The links of a hook that is not linked are not in it: nobody may *)
(* follow them.                                                            *)
(*                                                                         *)
(* The lists of include/wjr/container/forward_list.hpp have the links next *)
(* only, a function f here, and end with a null link.                      *)
(***************************************************************************)
EXTENDS Integers, Sequences, FiniteSets, TLC, SequencesExt

CONSTANTS
  Nodes,     \* the elements
  Kind,      \* the value of each element that predicates see
  NULL       \* no node

(* The memory f after b is stored at a. *)
With(f, a, b) == [x \in DOMAIN f \cup {a} |-> IF x = a THEN b ELSE f[x]]

SetNext(h, a, b) == [h EXCEPT !.next = With(@, a, b)]
SetPrev(h, a, b) == [h EXCEPT !.prev = With(@, a, b)]
Forget(h, gone) ==
  [next |-> [a \in DOMAIN h.next \ gone |-> h.next[a]],
   prev |-> [a \in DOMAIN h.prev \ gone |-> h.prev[a]]]

InitSelf(h, a) == SetPrev(SetNext(h, a, a), a, a)

Insert(h, pre, nex, n) ==
  SetNext(SetPrev(SetPrev(SetNext(h, pre, n), n, pre), nex, n), n, nex)
LinkBack(h, head, n) == Insert(h, h.prev[head], head, n)
LinkFront(h, head, n) == Insert(h, head, h.next[head], n)

Unlink(h, n) ==
  LET g == SetNext(h, h.prev[n], h.next[n])
  IN  Forget(SetPrev(g, g.next[n], g.prev[n]), {n})

(* Mutant: both links of the source are read before any is written. *)
ReplaceCopied(h, from, to) ==
  LET h1 == SetPrev(SetNext(h, to, h.next[from]), to, h.prev[from])
  IN  SetNext(SetPrev(h1, h.next[from], to), h.prev[from], to)

(* replace: each store may change what the next one reads, when from is a *)
(* ring of its own. *)
Replace(h, from, to) ==
  LET h1 == SetNext(h, to, h.next[from])
      h2 == SetPrev(h1, h1.next[from], to)
      h3 == SetPrev(h2, to, h2.prev[from])
  IN  SetNext(h3, h3.prev[from], to)

(* swap_with: tmp is the temporary hook. *)
SwapRings(h, a, b, tmp) ==
  LET copied == SetPrev(SetNext(h, tmp, h.next[a]), tmp, h.prev[a])
  IN  Forget(Replace(Replace(copied, b, a), tmp, b), {tmp})

(* Mutant: the node before the position is read after the range is cut out. *)
SpliceLate(h, pos, first, last) ==
  IF first = last \/ pos = first \/ pos = last THEN h
  ELSE LET beforeFirst == h.prev[first]
           beforePos   == h.prev[pos]
           h1 == SetPrev(SetNext(h, beforeFirst, last), last, beforeFirst)
           tail == h1.prev[last]
           h2 == SetPrev(SetNext(h1, beforePos, first), first, beforePos)
       IN  SetPrev(SetNext(h2, tail, pos), pos, tail)

(* splice_before. *)
SpliceBefore(h, pos, first, last) ==
  IF first = last \/ pos = first \/ pos = last THEN h
  ELSE LET beforeFirst == h.prev[first]
           tail        == h.prev[last]
           beforePos   == h.prev[pos]
           h1 == SetPrev(SetNext(h, beforeFirst, last), last, beforeFirst)
           h2 == SetPrev(SetNext(h1, beforePos, first), first, beforePos)
       IN  SetPrev(SetNext(h2, tail, pos), pos, tail)

(* The nodes from one on, following the links f, up to another one.  A walk *)
(* that never gets there is cut off when it has seen more nodes than there *)
(* are. *)
Walk(f, first, last) ==
  LET most == Cardinality(DOMAIN f) + 1
      w[i \in 0 .. most] ==
        IF i = 0 THEN [at |-> first, seen |-> <<>>]
        ELSE LET v == w[i - 1]
             IN  IF v.at = last THEN v
                 ELSE [at |-> IF v.at \in DOMAIN f THEN f[v.at] ELSE v.at,
                       seen |-> Append(v.seen, v.at)]
  IN  w[most].seen

Walked(h, head) == Walk(h.next, h.next[head], head)

(* What a walk that keeps the elements at some places leaves of a sequence. *)
Left(s, keep) ==
  LET left[i \in 0 .. Len(s)] ==
        IF i = 0 THEN <<>>
        ELSE IF i \in keep THEN Append(left[i - 1], s[i]) ELSE left[i - 1]
  IN  left[Len(s)]

(* remove_if and unique: the walk saves each next link before it removes. *)
RemoveAll(h, head, bad) ==
  LET walk == Walked(h, head)
      g[i \in 0 .. Len(walk)] ==
        IF i = 0 THEN h
        ELSE IF walk[i] \in bad THEN Unlink(g[i - 1], walk[i]) ELSE g[i - 1]
  IN  g[Len(walk)]

UniqueRing(h, head) ==
  LET walk == Walked(h, head)
      g[i \in 0 .. Len(walk)] ==
        IF i = 0 THEN [h |-> h, kept |-> head]
        ELSE LET a == g[i - 1]
                 n == walk[i]
             IN  IF a.kept # head /\ Kind[a.kept] = Kind[n]
                   THEN [h |-> Unlink(a.h, n), kept |-> a.kept]
                   ELSE [h |-> a.h, kept |-> n]
  IN  g[Len(walk)].h

(* Mutant: the link of the first node is read after it is disposed of. *)
ClearFirst(h, head) ==
  LET gone == IF h.next[head] = head THEN <<>> ELSE <<h.next[head]>>
  IN  [h |-> Forget(InitSelf(h, head), ToSet(gone)), disposed |-> gone]

(* clear_and_dispose: the head is empty before the first node is disposed *)
(* of. *)
ClearRing(h, head) ==
  LET gone == Walked(h, head)
  IN  [h |-> Forget(InitSelf(h, head), ToSet(gone)), disposed |-> gone]

-----------------------------------------------------------------------------
(* Forward lists. *)

(* push_front: the chain from first to last is linked behind a. *)
PushAfter(f, a, first, last) == With(With(f, last, f[a]), a, first)

(* pop_front and remove: what is linked behind a goes. *)
UnlinkAfter(f, a) ==
  [x \in DOMAIN f \ {f[a]} |-> IF x = a THEN f[f[a]] ELSE f[x]]

(* replace of an empty head, and init_self of the one it replaces. *)
MoveChain(f, from, to) == With(With(f, to, f[from]), from, NULL)

Chain(f, head) == Walk(f, f[head], NULL)

(* Mutant: a removed element becomes the one to unlink behind. *)
RemoveAllStale(f, head, bad) ==
  LET walk == Chain(f, head)
      g[i \in 0 .. Len(walk)] ==
        IF i = 0 THEN [f |-> f, kept |-> head]
        ELSE LET a == g[i - 1]
                 n == walk[i]
             IN  IF n \in bad /\ a.kept \in DOMAIN a.f
                   THEN [f |-> UnlinkAfter(a.f, a.kept), kept |-> n]
                   ELSE [f |-> a.f, kept |-> n]
  IN  g[Len(walk)].f

(* remove_if and unique of a forward list unlink behind what they have kept.*)
RemoveAllAfter(f, head, bad) ==
  LET walk == Chain(f, head)
      g[i \in 0 .. Len(walk)] ==
        IF i = 0 THEN [f |-> f, kept |-> head]
        ELSE LET a == g[i - 1]
             IN  IF walk[i] \in bad THEN [f |-> UnlinkAfter(a.f, a.kept), kept |-> a.kept]
                                     ELSE [f |-> a.f, kept |-> walk[i]]
  IN  g[Len(walk)].f

UniqueAfter(f, head) ==
  LET walk == Chain(f, head)
      g[i \in 0 .. Len(walk)] ==
        IF i = 0 THEN [f |-> f, kept |-> head]
        ELSE LET a == g[i - 1]
                 n == walk[i]
             IN  IF a.kept # head /\ Kind[a.kept] = Kind[n]
                   THEN [f |-> UnlinkAfter(a.f, a.kept), kept |-> a.kept]
                   ELSE [f |-> a.f, kept |-> n]
  IN  g[Len(walk)].f

(* clear_and_dispose of a forward list. *)
ClearChain(f, head) ==
  LET gone == ToSet(Chain(f, head))
  IN  [x \in DOMAIN f \ gone |-> IF x = head THEN NULL ELSE f[x]]
=============================================================================
