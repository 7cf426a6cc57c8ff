------------------------------- MODULE BTree -------------------------------
(***************************************************************************)
(* basic_btree (include/wjr/container/btree.hpp): the B+tree behind        *)
(* btree_set, btree_multiset, btree_map and btree_multimap.                *)
(*                                                                         *)
(* Up to two elements live in the tree object itself (root is NULL); from  *)
(* the third on they are in leaves, linked in key order, under inner nodes *)
(* of up to N keys and N + 1 sons.  A node knows its parent and its        *)
(* position among its parent's sons.  Arrays are indexed from 0, as in the *)
(* code: At(s, i) is s[i] there, Slice(s, a, b) the range [s + a, s + b).  *)
(*                                                                         *)
(* A call that splits or merges upwards runs a loop, one level of the tree *)
(* per iteration.  The iterations are steps of their own here: work.pc says *)
(* which loop the running call is in, and only that loop's next iteration  *)
(* is enabled.  An iterator is a leaf and a position; the leaf NULL stands *)
(* for the tree object: its two slots, and the sentry of the leaf list.    *)
(***************************************************************************)
EXTENDS Integers, Sequences, FiniteSets

CONSTANTS
  Uses,     \* the instances of the template, each with a bound on its callers
  NULL      \* nullptr, and the tree object as a leaf

(* node_size and multi are the Traits of an instance.  Its callers have the *)
(* elements elems: a key each and, to tell those of equal keys apart, a *)
(* tag.  bound: a tree has up to limit elements, and callers follow one of *)
(* plans, see Calling. *)
ASSUME UsesAssumption ==
  \A u \in Uses : u.node_size \in 4 .. 64 /\ u.multi \in BOOLEAN /\ u.limit \in Nat
ASSUME NullAssumption == NULL \notin Nat

(* Compare orders the keys: they stand for integers. *)
ASSUME KeysAssumption == \A u \in Uses : \A e \in u.elems : e[1] \in Int

VARIABLES
  use,        \* the instance and its callers; it never changes
  root,       \* _get_root()
  size,       \* _get_size()
  base,       \* the elements in the tree object while root is NULL
  vals,       \* leaf  -> its elements (m_values up to size())
  keys,       \* inner -> its separators (m_keys)
  sons,       \* inner -> its sons (m_sons)
  parent,     \* node  -> m_parent
  pos,        \* node  -> pos()
  chain,      \* the list of leaves that starts at the sentry
  work,       \* the running call and what the last one returned
  plan        \* bound: the calls still allowed

nodes == <<vals, keys, sons, parent, pos, chain>>
vars == <<use, root, size, base, nodes, work, plan>>

N == use.node_size
Multi == use.multi
FloorHalf == N \div 2
CeilHalf == N - FloorHalf

KeyOf(e) == e[1]
Elems == use.elems
Keys == {KeyOf(e) : e \in Elems}

-----------------------------------------------------------------------------
(* Arrays and maps. *)

At(s, i) == s[i + 1]
Slice(s, a, b) == SubSeq(s, a + 1, b)
Put(s, i, x) == Slice(s, 0, i) \o <<x>> \o Slice(s, i, Len(s))
Cut(s, i) == Slice(s, 0, i) \o Slice(s, i + 1, Len(s))
Least(a, b) == IF a < b THEN a ELSE b

With(f, g) == [x \in DOMAIN f \cup DOMAIN g |-> IF x \in DOMAIN g THEN g[x] ELSE f[x]]
Without(f, x) == [y \in DOMAIN f \ {x} |-> f[y]]
Only(x, y) == [z \in {x} |-> y]
Two(x, a, y, b) == [z \in {x, y} |-> IF z = x THEN a ELSE b]

(* The sequences f has for the members of s, one behind the other. *)
Flat(f, s) ==
  LET upto[i \in 0 .. Len(s)] == IF i = 0 THEN <<>> ELSE upto[i - 1] \o f[s[i]]
  IN  upto[Len(s)]

(* The address of a node the allocator hands out: one that is not in use. *)
Fresh == CHOOSE n \in 1 .. Cardinality(DOMAIN parent) + 1 : n \notin DOMAIN parent

IsLeaf(n) == n \in DOMAIN vals
SizeOf(n) == IF IsLeaf(n) THEN Len(vals[n]) ELSE Len(keys[n])

(* p with every son at an index of I told its position. *)
Numbered(p, s, I) ==
  [n \in DOMAIN p |->
     IF \E i \in I : At(s, i) = n THEN CHOOSE i \in I : At(s, i) = n ELSE p[n]]

(* q with every son at an index of I told its parent. *)
Adopted(q, s, I, par) ==
  [n \in DOMAIN q |-> IF \E i \in I : At(s, i) = n THEN par ELSE q[n]]

-----------------------------------------------------------------------------
(* Iterators. *)

Iter(leaf, i) == [leaf |-> leaf, pos |-> i]

Begin == Iter(IF root = NULL THEN NULL ELSE chain[1], 0)
End == Iter(NULL, IF root = NULL THEN Len(base) ELSE 0)

RankOf(ch, l) == CHOOSE i \in 1 .. Len(ch) : ch[i] = l
NextLeaf(ch, l) == IF l = ch[Len(ch)] THEN NULL ELSE ch[RankOf(ch, l) + 1]
PrevLeaf(ch, l) == IF l = NULL THEN ch[Len(ch)] ELSE ch[RankOf(ch, l) - 1]

(* _adjust_next: a position behind a leaf is the first one of the next. *)
Adjust(it, v, ch) ==
  IF it.leaf # NULL /\ it.pos = Len(v[it.leaf]) THEN Iter(NextLeaf(ch, it.leaf), 0) ELSE it

ElemAt(it) == IF it.leaf = NULL THEN At(base, it.pos) ELSE At(vals[it.leaf], it.pos)
Following(it) == Adjust(Iter(it.leaf, it.pos + 1), vals, chain)
Preceding(it) ==
  IF it.pos # 0
    THEN Iter(it.leaf, it.pos - 1)
    ELSE LET l == PrevLeaf(chain, it.leaf) IN Iter(l, Len(vals[l]) - 1)

(* The iterators a caller can hold that point to an element. *)
Elements ==
  IF root = NULL
    THEN {Iter(NULL, i) : i \in 0 .. Len(base) - 1}
    ELSE UNION {{Iter(l, i) : i \in 0 .. Len(vals[l]) - 1} : l \in DOMAIN vals}

(* The container's elements in iteration order. *)
Contents == IF root = NULL THEN base ELSE Flat(vals, chain)

(* The number of elements in front of an iterator. *)
Rank(it) ==
  IF root = NULL THEN it.pos
  ELSE IF it.leaf = NULL THEN Len(Contents) + it.pos
  ELSE Len(Flat(vals, Slice(chain, 0, RankOf(chain, it.leaf) - 1))) + it.pos

-----------------------------------------------------------------------------
(* Search. *)

(* The node-local search: the first position whose key is above k (upper), *)
(* or not below k. *)
FirstAfter(s, k, upper) ==
  Cardinality({i \in DOMAIN s : s[i] < k \/ (upper /\ s[i] = k)})

KeysOf(s) == [i \in DOMAIN s |-> KeyOf(s[i])]

(* _search<Upper, false>: a position in a leaf, maybe behind its last one. *)
Search(k, upper) ==
  LET down[n \in DOMAIN parent] ==
        IF IsLeaf(n) THEN Iter(n, FirstAfter(KeysOf(vals[n]), k, upper))
        ELSE down[At(sons[n], FirstAfter(keys[n], k, upper))]
  IN  IF root = NULL THEN Iter(NULL, FirstAfter(KeysOf(base), k, upper)) ELSE down[root]

(* lower_bound and upper_bound: _search<Upper, true>. *)
Bound(k, upper) == Adjust(Search(k, upper), vals, chain)

(* _same_insert_key: the element in front of an insert position has key k. *)
SameKey(it, k) == it.pos # 0 /\ KeyOf(ElemAt(Iter(it.leaf, it.pos - 1))) >= k

-----------------------------------------------------------------------------
(* Insertion hints. *)

Place(it) == [at |-> it, dup |-> FALSE]
Same(it) == [at |-> it, dup |-> TRUE]

(* _before_hint: the gap in front of an iterator, as a position behind the *)
(* element before it, so that no separator changes. *)
BeforeHint(it) ==
  IF it.pos = 0 /\ it # Begin
    THEN LET p == Preceding(it) IN Iter(p.leaf, p.pos + 1)
    ELSE it

(* Mutant: the lower bound is searched, as for a lookup. *)
SearchedLower(k) ==
  LET at == Search(k, FALSE)
  IN  IF ~Multi /\ SameKey(at, k) THEN Same(Iter(at.leaf, at.pos - 1)) ELSE Place(at)

(* Ordinary search, the fallback of both kinds of hint. *)
Searched(k) ==
  LET at == Search(k, TRUE)
  IN  IF ~Multi /\ SameKey(at, k) THEN Same(Iter(at.leaf, at.pos - 1)) ELSE Place(at)

(* _locate_hint: where to insert k, given an iterator close to it. *)
Located(hint, k) ==
  LET before == Preceding(hint)
      behind == IF k < KeyOf(ElemAt(before)) THEN Searched(k)
                ELSE IF ~Multi /\ KeyOf(ElemAt(before)) >= k THEN Same(before)
                ELSE Place(BeforeHint(hint))
      next == Following(hint)
  IN  IF size = 0 THEN Place(hint)
      ELSE IF hint = End THEN behind
      ELSE IF KeyOf(ElemAt(hint)) >= k THEN
             IF ~Multi /\ KeyOf(ElemAt(hint)) <= k THEN Same(hint)
             ELSE IF hint = Begin THEN Place(hint)
             ELSE behind
      ELSE IF next = End THEN Place(BeforeHint(next))
      ELSE IF KeyOf(ElemAt(next)) >= k THEN
             IF ~Multi /\ KeyOf(ElemAt(next)) <= k THEN Same(next)
             ELSE Place(BeforeHint(next))
      ELSE IF Multi THEN Place(BeforeHint(Search(k, FALSE)))
      ELSE Searched(k)

(* _locate_range_hint: the hint is what the previous insertion of the same *)
(* range returned, or end(). *)
LocatedNext(hint, k) ==
  LET here == KeyOf(ElemAt(hint))
      next == Following(hint)
      behind == Place(Iter(hint.leaf, hint.pos + 1))
  IN  IF hint = End THEN Located(hint, k)
      ELSE IF here = k THEN IF Multi THEN behind ELSE Same(hint)
      ELSE IF here > k THEN Searched(k)
      ELSE IF next = End THEN behind
      ELSE IF KeyOf(ElemAt(next)) < k THEN Searched(k)
      ELSE IF KeyOf(ElemAt(next)) > k THEN behind
      ELSE IF Multi THEN Place(Search(k, TRUE))
      ELSE Same(next)

-----------------------------------------------------------------------------
(* Calls. *)

(* No call runs.  The last one returned the iterator it; want is the rank *)
(* it should have, and import tells that it was an insert_with_hint step. *)
Returned(it, want, import) ==
  [pc |-> "idle", cur |-> NULL, inst |-> NULL, key |-> NULL, at |-> 0,
   it |-> it, left |-> 0, want |-> want, import |-> import]

Init ==
  /\ root = NULL /\ size = 0 /\ base = <<>>
  /\ vals = <<>> /\ keys = <<>> /\ sons = <<>> /\ parent = <<>> /\ pos = <<>> /\ chain = <<>>
  /\ work = Returned(Iter(NULL, 0), 0, FALSE)
  /\ use \in Uses /\ plan \in use.plans

(* A call of kind op for a key of ks begins.  Under the empty plan callers *)
(* do what they like; any other lists kinds and keys of the calls to come. *)
Calling(op, ks) ==
  /\ work.pc = "idle"
  /\ plan # <<>> => op \in Head(plan).ops /\ ks \cap Head(plan).keys # {}
  /\ plan' = (IF plan = <<>> THEN plan ELSE Tail(plan)) /\ UNCHANGED use

(* The running call is in this loop. *)
In(loop) == work.pc = loop /\ UNCHANGED <<use, plan>>

-----------------------------------------------------------------------------
(* Mutant: the new leaf is linked in front of the split one. *)
LinkedBefore(ch, l, inst) == Put(ch, RankOf(ch, l) - 1, inst)

(* leaf->push_front(inst): the new leaf is linked behind leaf. *)
Linked(ch, l, inst) == Put(ch, RankOf(ch, l), inst)

(* leaf->unlink(). *)
Unlinked(ch, l) == Cut(ch, RankOf(ch, l) - 1)

(* _insert_iter: element e goes into leaf position p. *)

InsertSmall(p, e, want, import) ==
  /\ root = NULL /\ Len(base) < 2
  /\ base' = Put(base, p.pos, e)
  /\ size' = size + 1
  /\ work' = Returned(p, want, import)
  /\ UNCHANGED <<root, nodes>>

(* The third element moves the other two into a first leaf. *)
InsertThird(p, e, want, import) ==
  /\ root = NULL /\ Len(base) = 2
  /\ LET l == Fresh IN
       /\ root' = l
       /\ vals' = Only(l, Put(base, p.pos, e))
       /\ parent' = Only(l, NULL)
       /\ pos' = Only(l, 0)
       /\ chain' = <<l>>
       /\ work' = Returned(Iter(l, p.pos), want, import)
  /\ base' = <<>>
  /\ size' = size + 1
  /\ UNCHANGED <<keys, sons>>

InsertRoom(p, e, want, import) ==
  /\ root # NULL /\ Len(vals[p.leaf]) < N
  /\ vals' = [vals EXCEPT ![p.leaf] = Put(@, p.pos, e)]
  /\ size' = size + 1
  /\ work' = Returned(p, want, import)
  /\ UNCHANGED <<root, base, keys, sons, parent, pos, chain>>

(* A full leaf is split: it keeps FloorHalf + 1 elements, the new one *)
(* counted, and a new leaf behind it takes the rest. *)
InsertSplit(p, e, want, import) ==
  /\ root # NULL /\ Len(vals[p.leaf]) = N
  /\ LET l    == p.leaf
         inst == Fresh
         v    == vals[l]
         here == p.pos <= FloorHalf
         low  == IF here THEN Put(Slice(v, 0, FloorHalf), p.pos, e) ELSE Slice(v, 0, FloorHalf + 1)
         rpos == p.pos - FloorHalf - 1
         high == IF here THEN Slice(v, FloorHalf, N)
                 ELSE Slice(v, FloorHalf + 1, p.pos) \o <<e>> \o Slice(v, p.pos, N)
     IN  /\ vals' = With(vals, Two(l, low, inst, high))
         /\ parent' = With(parent, Only(inst, NULL))
         /\ pos' = With(pos, Only(inst, 0))
         /\ chain' = Linked(chain, l, inst)
         /\ work' = [Returned(IF here THEN p ELSE Iter(inst, rpos), want, import)
                       EXCEPT !.pc = "ascend", !.cur = l, !.inst = inst, !.key = KeyOf(high[1])]
  /\ size' = size + 1
  /\ UNCHANGED <<root, base, keys, sons>>

InsertIn(p, e, want, import) ==
  \/ InsertSmall(p, e, want, import) \/ InsertThird(p, e, want, import)
  \/ InsertRoom(p, e, want, import) \/ InsertSplit(p, e, want, import)

(* One iteration of the loop that links work.inst behind work.cur: the *)
(* parent has room for it. *)
AscendRoom ==
  /\ In("ascend") /\ parent[work.cur] # NULL
  /\ LET par == parent[work.cur]
         i   == pos[work.cur] + 1
         s   == Put(sons[par], i, work.inst)
     IN  /\ Len(keys[par]) < N
         /\ keys' = [keys EXCEPT ![par] = Put(@, i - 1, work.key)]
         /\ sons' = [sons EXCEPT ![par] = s]
         /\ parent' = [parent EXCEPT ![work.inst] = par]
         /\ pos' = Numbered(pos, s, i .. Len(s) - 1)
  /\ work' = Returned(work.it, work.want, work.import)
  /\ UNCHANGED <<root, size, base, vals, chain>>

(* Mutant: the separator in front of the middle one moves up. *)
UpKeyTooLow(k, i, key) == IF i = CeilHalf + 1 THEN key ELSE At(k, CeilHalf - 1)

(* The separator that moves up when a full inner node with keys k is split *)
(* and its son i is new, behind separator key. *)
UpKey(k, i, key) ==
  IF i <= CeilHalf THEN At(k, CeilHalf - 1)
  ELSE IF i = CeilHalf + 1 THEN key
  ELSE At(k, CeilHalf)

(* Mutant: the sons behind the new one keep their old positions. *)
ToldOnlyNew(i) == IF i <= CeilHalf THEN {i} ELSE {}

(* The sons the split node keeps whose positions are renewed. *)
Told(i) == IF i <= CeilHalf THEN i .. CeilHalf ELSE {}

(* How its keys k and sons s divide: what the node keeps and what the new *)
(* one gets. *)
Split(k, s, i, key, inst) ==
  IF i <= CeilHalf
    THEN [low |-> Put(Slice(k, 0, CeilHalf - 1), i - 1, key), high |-> Slice(k, CeilHalf, N),
          lowSons |-> Put(Slice(s, 0, CeilHalf), i, inst), highSons |-> Slice(s, CeilHalf, N + 1)]
  ELSE IF i = CeilHalf + 1
    THEN [low |-> Slice(k, 0, CeilHalf), high |-> Slice(k, CeilHalf, N),
          lowSons |-> Slice(s, 0, CeilHalf + 1),
          highSons |-> <<inst>> \o Slice(s, CeilHalf + 1, N + 1)]
    ELSE [low |-> Slice(k, 0, CeilHalf),
          high |-> Slice(k, CeilHalf + 1, i - 1) \o <<key>> \o Slice(k, i - 1, N),
          lowSons |-> Slice(s, 0, CeilHalf + 1),
          highSons |-> Slice(s, CeilHalf + 1, i) \o <<inst>> \o Slice(s, i, N + 1)]

(* The parent is full: it is split in turn. *)
AscendSplit ==
  /\ In("ascend") /\ parent[work.cur] # NULL
  /\ LET par  == parent[work.cur]
         i    == pos[work.cur] + 1
         d    == Split(keys[par], sons[par], i, work.key, work.inst)
         inst == Fresh
         all  == 0 .. FloorHalf
     IN  /\ Len(keys[par]) = N
         /\ keys' = With(keys, Two(par, d.low, inst, d.high))
         /\ sons' = With(sons, Two(par, d.lowSons, inst, d.highSons))
         /\ parent' = Adopted(With(parent, Two(work.inst, par, inst, NULL)), d.highSons, all, inst)
         /\ pos' = Numbered(Numbered(With(pos, Only(inst, 0)), d.lowSons, Told(i)), d.highSons, all)
         /\ work' = [work EXCEPT !.cur = par, !.inst = inst, !.key = UpKey(keys[par], i, work.key)]
  /\ UNCHANGED <<root, size, base, vals, chain>>

(* The root was split: a new root above both halves. *)
AscendRoot ==
  /\ In("ascend") /\ parent[work.cur] = NULL
  /\ LET r == Fresh IN
       /\ keys' = With(keys, Only(r, <<work.key>>))
       /\ sons' = With(sons, Only(r, <<work.cur, work.inst>>))
       /\ parent' = With(With(parent, Two(work.cur, r, work.inst, r)), Only(r, NULL))
       /\ pos' = With(With(pos, Two(work.cur, 0, work.inst, 1)), Only(r, 0))
       /\ root' = r
  /\ work' = Returned(work.it, work.want, work.import)
  /\ UNCHANGED <<size, base, vals, chain>>

-----------------------------------------------------------------------------
(* The calls that insert. *)

Below(k) == Cardinality({i \in DOMAIN Contents : KeyOf(Contents[i]) < k})
UpTo(k) == Cardinality({i \in DOMAIN Contents : KeyOf(Contents[i]) <= k})

(* A duplicate is returned, anything else inserted where loc says. *)
InsertLocated(loc, e, want, import) ==
  IF loc.dup
    THEN /\ work' = Returned(loc.at, Below(KeyOf(e)), import)
         /\ UNCHANGED <<root, size, base, nodes>>
    ELSE InsertIn(loc.at, e, want, import)

(* _emplace_unique, _emplace_multi. *)
Insert(e) ==
  /\ Calling("insert", {KeyOf(e)})
  /\ InsertLocated(Searched(KeyOf(e)), e, UpTo(KeyOf(e)), FALSE)

(* emplace_hint: of the gaps the key may go into, the one closest to hint. *)
InsertHint(hint, e) ==
  /\ Calling("hint", {KeyOf(e)})
  /\ LET k    == KeyOf(e)
         want == IF Rank(hint) < Below(k) THEN Below(k) ELSE Least(Rank(hint), UpTo(k))
     IN  InsertLocated(Located(hint, k), e, want, FALSE)

(* The next element of insert_with_hint. *)
Import(e) ==
  /\ Calling("import", {KeyOf(e)})
  /\ LET hint == IF work.import THEN work.it ELSE End
     IN  InsertLocated(LocatedNext(hint, KeyOf(e)), e, UpTo(KeyOf(e)), TRUE)

-----------------------------------------------------------------------------
(* _erase_iter: the element at p is removed.  left more are to be removed *)
(* from the iterator it returns on, and want is its rank. *)

Erased(it, left, want) ==
  [Returned(it, want, FALSE) EXCEPT !.pc = IF left = 0 THEN "idle" ELSE "range", !.left = left]

(* Mutant: only the parent's separator is renewed, not that of an ancestor. *)
ReseparatedInParent(k, n, key) ==
  IF parent[n] = NULL \/ pos[n] = 0 THEN k ELSE [k EXCEPT ![parent[n]][pos[n]] = key]

(* The separator of the lowest ancestor that has something left of the *)
(* subtree of n becomes key; a leftmost subtree has none. *)
Reseparated(k, n, key) ==
  LET top[m \in DOMAIN parent] ==
        IF parent[m] = NULL \/ pos[m] # 0 THEN m ELSE top[parent[m]]
      t == top[n]
  IN  IF parent[t] = NULL THEN k ELSE [k EXCEPT ![parent[t]][pos[t]] = key]

(* _init_remove_select: son i of par, which is too small now, is repaired *)
(* with its left sibling unless it has none or its right one is larger. *)
UsesLeft(par, i) ==
  i # 0 /\ (i < Len(keys[par]) => SizeOf(At(sons[par], i + 1)) <= SizeOf(At(sons[par], i - 1)))

(* moved_elements: what a sibling of size next hands over. *)
Moved(next) == (next - FloorHalf + 1) \div 2

EraseSmall(p, left, want) ==
  /\ root = NULL
  /\ base' = Cut(base, p.pos)
  /\ work' = Erased(p, left, want)
  /\ UNCHANGED <<root, nodes>>

EraseRoom(p, left, want) ==
  /\ root # NULL /\ Len(vals[p.leaf]) > FloorHalf
  /\ LET l == p.leaf
         v == Cut(vals[l], p.pos)
     IN  /\ vals' = [vals EXCEPT ![l] = v]
         /\ keys' = IF p.pos = 0 /\ parent[l] # NULL /\ l # chain[1]
                      THEN Reseparated(keys, l, KeyOf(v[1])) ELSE keys
         /\ work' = Erased(Adjust(p, vals', chain), left, want)
  /\ UNCHANGED <<root, base, sons, parent, pos, chain>>

(* Mutant: root still points to the leaf that was dropped. *)
EraseRootLeafKeepsRoot(p, left, want) ==
  /\ root # NULL /\ Len(vals[p.leaf]) <= FloorHalf /\ parent[p.leaf] = NULL
  /\ LET l == p.leaf IN
     IF Len(vals[l]) = 1
       THEN /\ vals' = Without(vals, l) /\ parent' = Without(parent, l) /\ pos' = Without(pos, l)
            /\ chain' = <<>>
            /\ work' = Erased(Iter(NULL, 0), left, want)
       ELSE /\ vals' = [vals EXCEPT ![l] = Cut(@, p.pos)]
            /\ work' = Erased(Adjust(p, vals', chain), left, want)
            /\ UNCHANGED <<parent, pos, chain>>
  /\ UNCHANGED <<root, base, keys, sons>>

(* The root leaf may be smaller than the others, and disappears with its *)
(* last element. *)
EraseRootLeaf(p, left, want) ==
  /\ root # NULL /\ Len(vals[p.leaf]) <= FloorHalf /\ parent[p.leaf] = NULL
  /\ LET l == p.leaf IN
     IF Len(vals[l]) = 1
       THEN /\ root' = NULL
            /\ vals' = Without(vals, l) /\ parent' = Without(parent, l) /\ pos' = Without(pos, l)
            /\ chain' = <<>>
            /\ work' = Erased(Iter(NULL, 0), left, want)
       ELSE /\ vals' = [vals EXCEPT ![l] = Cut(@, p.pos)]
            /\ work' = Erased(Adjust(p, vals', chain), left, want)
            /\ UNCHANGED <<root, parent, pos, chain>>
  /\ UNCHANGED <<base, keys, sons>>

(* An underfull leaf takes elements from its larger left sibling. *)
LeafFromLeft(p, left, want) ==
  /\ root # NULL /\ Len(vals[p.leaf]) = FloorHalf /\ parent[p.leaf] # NULL
  /\ LET l    == p.leaf
         par  == parent[l]
         i    == pos[l]
         lhs  == At(sons[par], i - 1)
         next == Len(vals[lhs])
         m    == Moved(next)
         v    == Slice(vals[lhs], next - m, next) \o Cut(vals[l], p.pos)
     IN  /\ UsesLeft(par, i) /\ next # FloorHalf
         /\ vals' = With(vals, Two(l, v, lhs, Slice(vals[lhs], 0, next - m)))
         /\ keys' = [keys EXCEPT ![par] = [@ EXCEPT ![i] = KeyOf(v[1])]]
         /\ work' = Erased(Adjust(Iter(l, p.pos + m), vals', chain), left, want)
  /\ UNCHANGED <<root, base, sons, parent, pos, chain>>

(* Mutant: the iterator is not moved on from behind the merged leaf. *)
LeafMergedUnadjusted(lhs, v, r, par, i, it, left, want) ==
  LET without == Unlinked(chain, r)
      vs == Without([vals EXCEPT ![lhs] = v], r)
  IN  /\ vals' = vs
      /\ parent' = Without(parent, r) /\ pos' = Without(pos, r)
      /\ chain' = without
      /\ work' = [Erased(it, left, want) EXCEPT !.pc = "rebalance", !.cur = par, !.at = i]
      /\ UNCHANGED <<root, base, sons>>

(* Leaf r goes: its left neighbour lhs has its elements now, and the loop *)
(* that removes it from its parent starts. *)
LeafMerged(lhs, v, r, par, i, it, left, want) ==
  LET without == Unlinked(chain, r)
      vs == Without([vals EXCEPT ![lhs] = v], r)
  IN  /\ vals' = vs
      /\ parent' = Without(parent, r) /\ pos' = Without(pos, r)
      /\ chain' = without
      /\ work' = [Erased(Adjust(it, vs, without), left, want)
                    EXCEPT !.pc = "rebalance", !.cur = par, !.at = i]
      /\ UNCHANGED <<root, base, sons>>

LeafIntoLeft(p, left, want) ==
  /\ root # NULL /\ Len(vals[p.leaf]) = FloorHalf /\ parent[p.leaf] # NULL
  /\ LET l   == p.leaf
         lhs == At(sons[parent[l]], pos[l] - 1)
     IN  /\ UsesLeft(parent[l], pos[l]) /\ Len(vals[lhs]) = FloorHalf
         /\ LeafMerged(lhs, vals[lhs] \o Cut(vals[l], p.pos), l, parent[l], pos[l],
                       Iter(lhs, p.pos + FloorHalf), left, want)
  /\ UNCHANGED keys

(* An underfull leaf takes elements from its right sibling.  Its own *)
(* separator changes when its first element was removed. *)
LeafFromRight(p, left, want) ==
  /\ root # NULL /\ Len(vals[p.leaf]) = FloorHalf /\ parent[p.leaf] # NULL
  /\ LET l    == p.leaf
         par  == parent[l]
         i    == pos[l]
         rhs  == At(sons[par], i + 1)
         next == Len(vals[rhs])
         m    == Moved(next)
         v    == Cut(vals[l], p.pos)
         r    == Slice(vals[rhs], m, next)
         k    == IF p.pos = 0 THEN Reseparated(keys, l, KeyOf(v[1])) ELSE keys
     IN  /\ ~UsesLeft(par, i) /\ next # FloorHalf
         /\ vals' = With(vals, Two(l, v \o Slice(vals[rhs], 0, m), rhs, r))
         /\ keys' = [k EXCEPT ![par] = [@ EXCEPT ![i + 1] = KeyOf(r[1])]]
         /\ work' = Erased(Adjust(p, vals', chain), left, want)
  /\ UNCHANGED <<root, base, sons, parent, pos, chain>>

LeafIntoRight(p, left, want) ==
  /\ root # NULL /\ Len(vals[p.leaf]) = FloorHalf /\ parent[p.leaf] # NULL
  /\ LET l   == p.leaf
         rhs == At(sons[parent[l]], pos[l] + 1)
         v   == Cut(vals[l], p.pos)
     IN  /\ ~UsesLeft(parent[l], pos[l]) /\ Len(vals[rhs]) = FloorHalf
         /\ keys' = IF p.pos = 0 THEN Reseparated(keys, l, KeyOf(v[1])) ELSE keys
         /\ LeafMerged(l, v \o vals[rhs], rhs, parent[l], pos[l] + 1, p, left, want)

EraseAt(p, left, want) ==
  /\ size' = size - 1
  /\ \/ EraseSmall(p, left, want) \/ EraseRoom(p, left, want) \/ EraseRootLeaf(p, left, want)
     \/ LeafFromLeft(p, left, want) \/ LeafIntoLeft(p, left, want)
     \/ LeafFromRight(p, left, want) \/ LeafIntoRight(p, left, want)

-----------------------------------------------------------------------------
(* _erase_iter_reblance: one iteration removes son work.at, and the *)
(* separator in front of it, from the inner node work.cur. *)

Resume == Erased(work.it, work.left, work.want)

(* Mutant: an inner node with one key to spare counts as too small. *)
RebalanceRoomStrict ==
  /\ In("rebalance") /\ parent[work.cur] # NULL
  /\ LET n == work.cur
         s == Cut(sons[n], work.at)
     IN  /\ Len(keys[n]) > FloorHalf + 1
         /\ keys' = [keys EXCEPT ![n] = Cut(@, work.at - 1)]
         /\ sons' = [sons EXCEPT ![n] = s]
         /\ pos' = Numbered(pos, s, work.at .. Len(s) - 1)
  /\ work' = Resume
  /\ UNCHANGED <<root, size, base, vals, parent, chain>>

RebalanceRoom ==
  /\ In("rebalance") /\ parent[work.cur] # NULL
  /\ LET n == work.cur
         s == Cut(sons[n], work.at)
     IN  /\ Len(keys[n]) > FloorHalf
         /\ keys' = [keys EXCEPT ![n] = Cut(@, work.at - 1)]
         /\ sons' = [sons EXCEPT ![n] = s]
         /\ pos' = Numbered(pos, s, work.at .. Len(s) - 1)
  /\ work' = Resume
  /\ UNCHANGED <<root, size, base, vals, parent, chain>>

(* An underfull inner node takes sons from its larger left sibling: the *)
(* separator between the two comes down, and another goes up. *)
InnerFromLeft ==
  /\ In("rebalance") /\ parent[work.cur] # NULL /\ Len(keys[work.cur]) = FloorHalf
  /\ LET n    == work.cur
         par  == parent[n]
         i    == pos[n]
         lhs  == At(sons[par], i - 1)
         next == Len(keys[lhs])
         m    == Moved(next)
         k    == Slice(keys[lhs], next - m + 1, next) \o <<At(keys[par], i - 1)>> \o Cut(keys[n], work.at - 1)
         s    == Slice(sons[lhs], next - m + 1, next + 1) \o Cut(sons[n], work.at)
         told == 0 .. (IF m = 1 THEN work.at ELSE FloorHalf + m - 1)
     IN  /\ UsesLeft(par, i) /\ next # FloorHalf
         /\ keys' = [With(keys, Two(n, k, lhs, Slice(keys[lhs], 0, next - m)))
                       EXCEPT ![par] = [@ EXCEPT ![i] = At(keys[lhs], next - m)]]
         /\ sons' = With(sons, Two(n, s, lhs, Slice(sons[lhs], 0, next - m + 1)))
         /\ parent' = Adopted(parent, s, 0 .. m - 1, n)
         /\ pos' = Numbered(pos, s, told)
  /\ work' = Resume
  /\ UNCHANGED <<root, size, base, vals, chain>>

(* Inner node r goes; its parent is the next to lose a son. *)
InnerMerged(lhs, k, s, r, told, par, i) ==
  /\ keys' = Without([keys EXCEPT ![lhs] = k], r)
  /\ sons' = Without([sons EXCEPT ![lhs] = s], r)
  /\ parent' = Without(Adopted(parent, s, FloorHalf .. 2 * FloorHalf, lhs), r)
  /\ pos' = Without(Numbered(pos, s, told), r)
  /\ work' = [work EXCEPT !.cur = par, !.at = i]
  /\ UNCHANGED <<root, size, base, vals, chain>>

InnerIntoLeft ==
  /\ In("rebalance") /\ parent[work.cur] # NULL /\ Len(keys[work.cur]) = FloorHalf
  /\ LET n   == work.cur
         par == parent[n]
         lhs == At(sons[par], pos[n] - 1)
         k   == keys[lhs] \o <<At(keys[par], pos[n] - 1)>> \o Cut(keys[n], work.at - 1)
     IN  /\ UsesLeft(par, pos[n]) /\ Len(keys[lhs]) = FloorHalf
         /\ InnerMerged(lhs, k, sons[lhs] \o Cut(sons[n], work.at), n, FloorHalf .. 2 * FloorHalf,
                        par, pos[n])

InnerFromRight ==
  /\ In("rebalance") /\ parent[work.cur] # NULL /\ Len(keys[work.cur]) = FloorHalf
  /\ LET n    == work.cur
         par  == parent[n]
         i    == pos[n]
         rhs  == At(sons[par], i + 1)
         next == Len(keys[rhs])
         m    == Moved(next)
         k    == Cut(keys[n], work.at - 1) \o <<At(keys[par], i)>> \o Slice(keys[rhs], 0, m - 1)
         s    == Cut(sons[n], work.at) \o Slice(sons[rhs], 0, m)
         r    == Slice(sons[rhs], m, next + 1)
     IN  /\ ~UsesLeft(par, i) /\ next # FloorHalf
         /\ keys' = [With(keys, Two(n, k, rhs, Slice(keys[rhs], m, next)))
                       EXCEPT ![par] = [@ EXCEPT ![i + 1] = At(keys[rhs], m - 1)]]
         /\ sons' = With(sons, Two(n, s, rhs, r))
         /\ parent' = Adopted(parent, s, FloorHalf .. FloorHalf + m - 1, n)
         /\ pos' = Numbered(Numbered(pos, s, work.at .. FloorHalf + m - 1), r, 0 .. next - m)
  /\ work' = Resume
  /\ UNCHANGED <<root, size, base, vals, chain>>

InnerIntoRight ==
  /\ In("rebalance") /\ parent[work.cur] # NULL /\ Len(keys[work.cur]) = FloorHalf
  /\ LET n   == work.cur
         par == parent[n]
         rhs == At(sons[par], pos[n] + 1)
         k   == Cut(keys[n], work.at - 1) \o <<At(keys[par], pos[n])>> \o keys[rhs]
     IN  /\ ~UsesLeft(par, pos[n]) /\ Len(keys[rhs]) = FloorHalf
         /\ InnerMerged(n, k, Cut(sons[n], work.at) \o sons[rhs], rhs, work.at .. 2 * FloorHalf,
                        par, pos[n] + 1)

(* The root loses a son, and with its second to last one its place. *)
RebalanceRoot ==
  /\ In("rebalance") /\ parent[work.cur] = NULL
  /\ LET n == work.cur
         s == Cut(sons[n], work.at)
     IN  IF Len(keys[n]) = 1
           THEN LET top == At(sons[n], 0) IN
                /\ root' = top
                /\ keys' = Without(keys, n) /\ sons' = Without(sons, n)
                /\ parent' = Without([parent EXCEPT ![top] = NULL], n)
                /\ pos' = Without(pos, n)
           ELSE /\ keys' = [keys EXCEPT ![n] = Cut(@, work.at - 1)]
                /\ sons' = [sons EXCEPT ![n] = s]
                /\ pos' = Numbered(pos, s, work.at .. Len(s) - 1)
                /\ UNCHANGED <<root, parent>>
  /\ work' = Resume
  /\ UNCHANGED <<size, base, vals, chain>>

-----------------------------------------------------------------------------
(* The calls that erase. *)

EraseIter(p) ==
  /\ Calling("erase", {KeyOf(ElemAt(p))})
  /\ EraseAt(p, 0, Rank(p))

(* What clear() leaves, and the erasure of a range that holds everything. *)
Emptied ==
  /\ root' = NULL /\ size' = 0 /\ base' = <<>>
  /\ vals' = <<>> /\ keys' = <<>> /\ sons' = <<>> /\ parent' = <<>> /\ pos' = <<>> /\ chain' = <<>>
  /\ work' = Returned(Iter(NULL, 0), 0, FALSE)

Clear == Calling("clear", Keys) /\ Emptied

(* The leaves from one iterator's to another's, which is not counted. *)
LeavesFrom(first, last) ==
  Slice(chain, RankOf(chain, first.leaf) - 1,
        IF last.leaf = NULL THEN Len(chain) ELSE RankOf(chain, last.leaf) - 1)

(* Mutant: the first leaf is counted whole. *)
CountFromLeaf(first, last) ==
  LET ls == LeavesFrom(first, last)
      count[i \in 0 .. Len(ls)] == IF i = 0 THEN 0 ELSE count[i - 1] + Len(vals[ls[i]])
  IN  IF first.leaf = last.leaf THEN last.pos - first.pos ELSE count[Len(ls)] + last.pos

(* _range_count. *)
CountBetween(first, last) ==
  LET ls == LeavesFrom(first, last)
      count[i \in 0 .. Len(ls)] == IF i = 0 THEN 0 ELSE count[i - 1] + Len(vals[ls[i]])
  IN  IF first.leaf = last.leaf THEN last.pos - first.pos
      ELSE count[Len(ls)] - first.pos + last.pos

(* The elements from first up to last go, in pieces: _erase_n.  They are *)
(* counted before the first removal, which may invalidate last. *)
Erasing(first, last) ==
  IF first = Begin /\ last = End THEN Emptied
  ELSE /\ work' = Erased(first, CountBetween(first, last), Rank(first))
       /\ UNCHANGED <<root, size, base, nodes>>

(* erase(first, last). *)
EraseRange(first, last) ==
  /\ Calling("range", {KeyOf(ElemAt(first))})
  /\ Rank(first) < Rank(last)
  /\ Erasing(first, last)

(* erase(key). *)
EraseKey(k) ==
  /\ Calling("key", {k})
  /\ LET first == Bound(k, FALSE) IN
     IF Multi THEN first # Bound(k, TRUE) /\ Erasing(first, Bound(k, TRUE))
     ELSE first # End /\ KeyOf(ElemAt(first)) = k /\ EraseAt(first, 0, Rank(first))

(* Mutant: one element of the leaf may be outside the range. *)
WholeLeafDueEarly ==
  /\ work.left > 1 /\ root # NULL /\ work.it.pos = 0
  /\ work.left + 1 >= Len(vals[work.it.leaf]) /\ parent[work.it.leaf] # NULL

(* A leaf all of whose elements are in the range, with another leaf beside *)
(* it under its parent: the leaf is unlinked and removed from its parent. *)
(* A parent's first son is replaced by the second, whose place then goes. *)
WholeLeafDue ==
  /\ work.left > 1 /\ root # NULL /\ work.it.pos = 0
  /\ work.left >= Len(vals[work.it.leaf]) /\ parent[work.it.leaf] # NULL

EraseWholeLeaf ==
  /\ In("range") /\ WholeLeafDue
  /\ LET l    == work.it.leaf
         par  == parent[l]
         succ == At(sons[par], 1)
         it   == Iter(NextLeaf(chain, l), 0)
         left == work.left - Len(vals[l])
     IN  /\ IF pos[l] = 0
              THEN /\ keys' = Reseparated(keys, par, KeyOf(vals[succ][1]))
                   /\ sons' = [sons EXCEPT ![par] = [@ EXCEPT ![1] = succ]]
                   /\ pos' = Without([pos EXCEPT ![succ] = 0], l)
              ELSE pos' = Without(pos, l) /\ UNCHANGED <<keys, sons>>
         /\ size' = size - Len(vals[l])
         /\ vals' = Without(vals, l) /\ parent' = Without(parent, l)
         /\ chain' = Unlinked(chain, l)
         /\ work' = [Erased(it, left, work.want) EXCEPT
                       !.pc = "rebalance", !.cur = par, !.at = IF pos[l] = 0 THEN 1 ELSE pos[l]]
  /\ UNCHANGED <<root, base>>

(* Mutant: a leaf may become too small. *)
AmountIgnoresHalf == Least(Len(vals[work.it.leaf]) - work.it.pos, work.left)

(* How many elements of the leaf go at once: no more than the range has, or *)
(* the leaf can lose without becoming too small. *)
Amount ==
  LET l    == work.it.leaf
      most == Least(Len(vals[l]) - work.it.pos, work.left)
  IN  IF parent[l] # NULL THEN Least(most, Len(vals[l]) - FloorHalf) ELSE most

PartDue == work.left > 1 /\ root # NULL /\ ~WholeLeafDue /\ Amount > 1

ErasePart ==
  /\ In("range") /\ PartDue
  /\ LET l == work.it.leaf
         i == work.it.pos
         v == Slice(vals[l], 0, i) \o Slice(vals[l], i + Amount, Len(vals[l]))
     IN  IF v = <<>>
           THEN /\ root' = NULL
                /\ vals' = Without(vals, l) /\ parent' = Without(parent, l) /\ pos' = Without(pos, l)
                /\ chain' = <<>>
                /\ work' = Erased(Iter(NULL, 0), 0, work.want)
                /\ UNCHANGED keys
           ELSE /\ vals' = [vals EXCEPT ![l] = v]
                /\ keys' = IF i = 0 THEN Reseparated(keys, l, KeyOf(v[1])) ELSE keys
                /\ work' = Erased(Adjust(work.it, vals', chain), work.left - Amount, work.want)
                /\ UNCHANGED <<root, parent, pos, chain>>
  /\ size' = size - Amount
  /\ UNCHANGED <<base, sons>>

EraseOne ==
  /\ In("range") /\ ~WholeLeafDue /\ ~PartDue
  /\ EraseAt(work.it, work.left - 1, work.want)

-----------------------------------------------------------------------------
Ascend == AscendRoom \/ AscendSplit \/ AscendRoot
Rebalance ==
  \/ RebalanceRoom \/ RebalanceRoot
  \/ InnerFromLeft \/ InnerIntoLeft \/ InnerFromRight \/ InnerIntoRight
RangeLoop == EraseWholeLeaf \/ ErasePart \/ EraseOne

(* The running call goes on. *)
Continue == Ascend \/ Rebalance \/ RangeLoop

(* A caller's next call. *)
Call ==
  \/ \E e \in Elems : Insert(e) \/ Import(e)
  \/ \E e \in Elems, hint \in Elements \cup {End} : InsertHint(hint, e)
  \/ \E p \in Elements : EraseIter(p)
  \/ \E first \in Elements, last \in Elements \cup {End} : EraseRange(first, last)
  \/ \E k \in Keys : EraseKey(k)
  \/ Clear

Next == Continue \/ (Call /\ size' <= use.limit)

(* The thread that runs a call keeps running it. *)
Spec == Init /\ [][Next]_vars /\ WF_vars(Continue)

-----------------------------------------------------------------------------
(* Properties. *)

Idle == work.pc = "idle"
Nodes == DOMAIN parent
Inners == DOMAIN keys

TypeOK ==
  /\ root \in Nodes \cup {NULL}
  /\ size \in Nat
  /\ base \in Seq(Elems) /\ Len(base) <= 2 /\ (root # NULL => base = <<>>)
  /\ \A l \in DOMAIN vals : vals[l] \in Seq(Elems)
  /\ \A n \in Inners : keys[n] \in Seq(Keys)
  /\ \A n \in Inners : \A i \in DOMAIN sons[n] :
       sons[n][i] \in Nodes \/ (work.pc = "rebalance" /\ n = work.cur /\ i = work.at + 1)
  /\ DOMAIN sons = Inners /\ DOMAIN pos = Nodes
  /\ Nodes = DOMAIN vals \cup Inners /\ DOMAIN vals \cap Inners = {}
  /\ \A n \in Nodes : parent[n] \in Inners \cup {NULL} /\ pos[n] \in 0 .. N
  /\ chain \in Seq(DOMAIN vals)
  /\ work.pc \in {"idle", "ascend", "rebalance", "range"}
  /\ work.cur \in Nodes \cup {NULL} /\ work.inst \in Nodes \cup {NULL}
  /\ work.key \in Keys \cup {NULL} /\ work.at \in Nat /\ work.left \in Nat

(* Between calls every node but the root is at least half full and none is *)
(* over-full, whatever splits, borrowings and mergers led there: what the *)
(* merge code assumes of its siblings, and what bounds the height. *)
HalfFull ==
  Idle =>
    /\ \A n \in Nodes \ {root} : SizeOf(n) \in FloorHalf .. N
    /\ \A n \in Inners : Len(sons[n]) = Len(keys[n]) + 1
    /\ root \in Inners => Len(keys[root]) \in 1 .. N
    /\ root \in DOMAIN vals => Len(vals[root]) \in 1 .. N

(* Every node but the root is son number pos of its parent and of no other, *)
(* so climbing from a leaf, as separator updates and splits do, ends at the *)
(* right places; no node is leaked. *)
LinksExact ==
  Idle =>
    /\ root # NULL => parent[root] = NULL
    /\ \A n \in Nodes \ {root} : parent[n] # NULL /\ pos[n] < Len(sons[parent[n]])
                                 /\ At(sons[parent[n]], pos[n]) = n
    /\ \A n \in Inners : \A i \in 0 .. Len(sons[n]) - 1 :
         parent[At(sons[n], i)] = n /\ pos[At(sons[n], i)] = i

(* The leaves below node n, from left to right. *)
LeavesBelow ==
  [n \in Nodes |->
     LET below[m \in Nodes] ==
           IF IsLeaf(m) THEN <<m>> ELSE Flat(below, sons[m])
     IN  below[n]]

(* The list of leaves, which iteration follows, and the tree, which searches *)
(* follow, agree on the leaves and their order. *)
ChainFollowsTree ==
  Idle => chain = (IF root = NULL THEN <<>> ELSE LeavesBelow[root])

(* A separator is the first key of the subtree to its right: it follows *)
(* that key through erasures, borrowings and mergers on any level. *)
SeparatorsExact ==
  Idle => LET lb == LeavesBelow IN
    \A n \in Inners : \A i \in 1 .. Len(keys[n]) :
       keys[n][i] = KeyOf(vals[lb[sons[n][i + 1]][1]][1])

(* A search from the root finds, for every key, the position an examination *)
(* of all elements would. *)
SearchExact ==
  Idle => LET all == KeysOf(Contents) IN
    \A k \in Keys, upper \in BOOLEAN :
      LET want == Cardinality({i \in DOMAIN all : all[i] < k \/ (upper /\ all[i] = k)})
          at   == Search(k, upper)
      IN  Rank(at) = want /\ Rank(Adjust(at, vals, chain)) = want

(* The size counter, kept by every kind of erasure on its own, counts the *)
(* elements, and the distance of two iterators, which is all that bounds a *)
(* range erasure once it runs, is right however many leaves lie between: *)
(* within a leaf, from the first element on, and up to the end. *)
CountsExact ==
  /\ Idle \/ work.pc = "range" => size = Len(Contents)
  /\ Idle => LET rank == [it \in Elements \cup {End} |-> Rank(it)] IN
       \A first, last \in Elements \cup {End} :
         /\ first = Begin \/ last = End \/ first.leaf = last.leaf
         /\ rank[first] < rank[last]
         => CountBetween(first, last) = rank[last] - rank[first]

(* The iterator a call returns, computed before the loops that restructure *)
(* the tree, points where it should once they are done: to the inserted *)
(* element, at the place the call promises for it, or to the one behind *)
(* what was erased, in the form in which iteration reaches it. *)
ReturnExact ==
  Idle \/ work.pc = "range" =>
    work.it \in Elements \cup {End} /\ Rank(work.it) = work.want

(* The loop of a range erasure removes, whatever piece it takes, just the *)
(* next elements of the range, and the loops that restructure the tree *)
(* leave the contents alone. *)
PiecesExact ==
  [][~Idle =>
       LET gone == work.left - work'.left
       IN  /\ gone \in 0 .. work.left
           /\ Contents' = SubSeq(Contents, 1, work.want)
                            \o SubSeq(Contents, work.want + gone + 1, Len(Contents))]_vars
=============================================================================
