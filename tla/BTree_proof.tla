--------------------------- MODULE BTree_proof ------------------------------
(***************************************************************************)
(* The inductive invariant of BTree and what follows from it.  TreeInv says *)
(* that nodes, sons and parents make a tree (Shape), that positions are those *)
(* of the sons (Placed), what a running loop has put into the tree and what *)
(* not yet (Ascending, Rebalancing), how full nodes are (Sized) and what they *)
(* hold (Filled); Ranks, that the size and the iterator of the running loop *)
(* fit the contents.  There is one lemma for each action.  At the end, what a *)
(* separator is (Separated), for BTreeOrder_proof.                         *)
(***************************************************************************)
EXTENDS BTreeNodes_proof

(* it is an iterator a caller can hold. *)
Held(it) ==
  IF root = NULL THEN \E i \in 0 .. Len(base) : it = Iter(NULL, i) ELSE it = Iter(NULL, 0) \/ Points(vals, it)

(* it points to an element. *)
Pointing(it) ==
  IF root = NULL THEN \E i \in 0 .. Len(base) - 1 : it = Iter(NULL, i) ELSE Points(vals, it)

Working ==
  /\ work.pc \in Pcs /\ work.at \in Nat /\ work.left \in Nat
  /\ work.pc \in {"idle", "range"} => work.cur = NULL
  /\ work.pc # "ascend" => work.inst = NULL /\ work.key = NULL
  /\ work.pc = "ascend" => work.key \in Keys
  /\ work.pc \in {"idle", "ascend"} => work.left = 0
  /\ work.pc = "range" => work.left # 0

Ranks ==
  /\ size = Len(Contents) /\ Held(work.it)
  /\ work.pc \in {"rebalance", "range"} =>
       work.want \in Nat /\ Rank(work.it) = work.want /\ work.want + work.left <= Len(Contents)

TreeInv == ShapeInv /\ Filled /\ Sized

IInv == TreeInv /\ Working /\ Ranks

LEMMA HeldIs ==
  ASSUME base \in Seq(Elems), NEW it
  PROVE  (Held(it) <=> it \in Elements \cup {End}) /\ (Pointing(it) <=> it \in Elements)
<1>1. Len(base) \in Nat BY LenProperties
<1>2. CASE root = NULL
  <2>1. Elements = {Iter(NULL, i) : i \in 0 .. Len(base) - 1} /\ End = Iter(NULL, Len(base))
    BY <1>2 DEF Elements, End
  <2>2. Pointing(it) <=> it \in Elements BY <1>2, <2>1 DEF Pointing
  <2>3. \A i : i \in 0 .. Len(base) <=> i \in 0 .. Len(base) - 1 \/ i = Len(base)
    BY <1>1
  <2>4. Held(it) <=> it \in Elements \cup {End} BY <1>2, <2>1, <2>3 DEF Held
  <2> QED BY <2>2, <2>4
<1>3. CASE root # NULL
  <2>1. Elements = UNION {{Iter(l, i) : i \in 0 .. Len(vals[l]) - 1} : l \in DOMAIN vals} /\ End = Iter(NULL, 0)
    BY <1>3 DEF Elements, End
  <2>2. Points(vals, it) <=> it \in Elements BY <2>1 DEF Points
  <2> QED BY <1>3, <2>1, <2>2 DEF Held, Pointing
<1> QED BY <1>2, <1>3

LEMMA ChainListed ==
  ASSUME TreeInv, root # NULL
  PROVE  Listed(vals, chain)
<1>1. Tree(Nodes, DOMAIN vals, Kids, Tops, chain) /\ Typed
  BY DEF TreeInv, ShapeInv, Shape
<1>2. chain \in Seq(Nodes) /\ Unique(chain) /\ Members(chain) = DOMAIN vals
  BY <1>1, SonsOf
<1>3. chain \in Seq(DOMAIN vals) BY <1>2, SeqSub
<1>4. NULL \notin DOMAIN vals BY <1>1, NullAssumption DEF Typed
<1>5. ASSUME NEW l \in DOMAIN vals PROVE vals[l] \in Seq(Elems) /\ Len(vals[l]) # 0
  <2>1. vals[l] \in Seq(Elems) /\ Len(vals[l]) \in 1 .. N
    BY LeafHolds DEF TreeInv
  <2> QED BY <2>1
<1> QED BY <1>2, <1>3, <1>4, <1>5 DEF Listed

(* Neighbouring leaves follow each other in the chain. *)
LEMMA LeavesBeside ==
  ASSUME TreeInv, root # NULL, NEW x, NEW y, NEW par, NEW i, Beside(x, y, par, i), x \in DOMAIN vals, y \in DOMAIN vals
  PROVE  \E A, B : PlacingTwo(vals, chain, A, x, y, B)
<1>1. Tree(Nodes, DOMAIN vals, Kids, Tops, chain) /\ Typed /\ ShapeInv
  BY DEF TreeInv, ShapeInv, Shape
<1>2. DOMAIN Kids = Inners BY <1>1, KidsAre
<1>3. /\ par \in Inners /\ sons[par] \in Seq(Nodes) /\ i \in 0 .. Len(sons[par]) - 2 /\ x \in Nodes /\ y \in Nodes
      /\ At(sons[par], i) = x /\ At(sons[par], i + 1) = y /\ Kids[par] = sons[par]
  BY DEF Beside, IsSon
<1>4. \E P, Q \in Seq(Nodes) : sons[par] = Pairs(P, At(sons[par], i), At(sons[par], i + 1), Q)
  BY <1>3, PairsAt
<1>5. PICK P \in Seq(Nodes), Q \in Seq(Nodes) : Kids[par] = Pairs(P, x, y, Q)
  BY <1>3, <1>4
<1>6. PICK m, lev, ht : Levels(Nodes, DOMAIN vals, Kids, Tops, chain, m, lev, ht)
  BY <1>1 DEF Tree
<1>7. \E A, B \in Seq(Nodes) : lev[ht[x]] = Pairs(A, x, y, B)
  BY <1>2, <1>3, <1>5, <1>6, Neighbours
<1>8. ht[x] = 1 /\ lev[1] = chain BY <1>6 DEF Levels
<1>9. PICK A \in Seq(Nodes), B \in Seq(Nodes) : chain = Pairs(A, x, y, B)
  BY <1>7, <1>8
<1>10. Members(chain) = DOMAIN vals /\ Unique(chain) BY <1>1, SonsOf
<1>11. PairsTyped(A, x, y, B, Nodes) BY <1>3, <1>9, PairsType
<1>12. Members(A) \subseteq DOMAIN vals /\ Members(B) \subseteq DOMAIN vals
  BY <1>9, <1>10, <1>11 DEF PairsTyped
<1>13. A \in Seq(DOMAIN vals) /\ B \in Seq(DOMAIN vals) BY <1>9, <1>12, SeqSub
<1> QED BY <1>9, <1>13 DEF PlacingTwo

-----------------------------------------------------------------------------
(* Separators are renewed in place. *)
Kept(s, t) == t \in Seq(Keys) /\ Len(t) = Len(s)

LEMMA ExceptKept ==
  ASSUME NEW s \in Seq(Keys), NEW i, NEW x \in Keys, NEW t, t = [s EXCEPT ![i] = x]
  PROVE  Kept(s, t)
<1> DEFINE n == Len(s)
<1>1. n \in Nat /\ DOMAIN s = 1 .. n /\ \A j \in 1 .. n : s[j] \in Keys
  BY LenProperties, ElementOfSeq
<1> HIDE DEF n
<1>2. t = [j \in 1 .. n |-> IF j = i THEN x ELSE s[j]] BY <1>1
<1>3. t \in [1 .. n -> Keys] BY <1>1, <1>2
<1>4. t \in Seq(Keys) /\ Len(t) = n BY <1>1, <1>3, LenProperties, SeqDef
<1> QED BY <1>4 DEF n, Kept

KeysKept(k, r) == DOMAIN r = DOMAIN k /\ \A x \in DOMAIN k : Kept(k[x], r[x])

LEMMA OneKept ==
  ASSUME NEW k, \A x \in DOMAIN k : k[x] \in Seq(Keys), NEW key \in Keys, NEW p, NEW i, NEW r,
         r = [k EXCEPT ![p] = [@ EXCEPT ![i] = key]]
  PROVE  KeysKept(k, r)
<1>1. DOMAIN r = DOMAIN k /\ \A x \in DOMAIN k : r[x] = IF x = p THEN [k[x] EXCEPT ![i] = key] ELSE k[x]
  OBVIOUS
<1>2. ASSUME NEW x \in DOMAIN k PROVE Kept(k[x], r[x])
  <2>1. CASE x = p
    <3>1. r[x] = [k[x] EXCEPT ![i] = key] /\ k[x] \in Seq(Keys) BY <1>1, <2>1
    <3> QED BY <3>1, ExceptKept
  <2>2. CASE x # p BY <1>1, <2>2 DEF Kept
  <2> QED BY <2>1, <2>2
<1> QED BY <1>1, <1>2 DEF KeysKept

LEMMA ReseparatedKept ==
  ASSUME NEW k, \A x \in DOMAIN k : k[x] \in Seq(Keys), NEW key \in Keys, NEW n
  PROVE  KeysKept(k, Reseparated(k, n, key))
<1> DEFINE top[m \in DOMAIN parent] == IF parent[m] = NULL \/ pos[m] # 0 THEN m ELSE top[parent[m]]
           t == top[n]
<1>1. Reseparated(k, n, key) = IF parent[t] = NULL THEN k ELSE [k EXCEPT ![parent[t]][pos[t]] = key]
  BY DEF Reseparated
<1> HIDE DEF t
<1>2. CASE parent[t] = NULL BY <1>1, <1>2 DEF KeysKept, Kept
<1>3. CASE parent[t] # NULL
  <2>1. Reseparated(k, n, key) = [k EXCEPT ![parent[t]] = [@ EXCEPT ![pos[t]] = key]]
    BY <1>1, <1>3
  <2> QED BY <2>1, OneKept
<1> QED BY <1>2, <1>3

(* A step has removed the g elements from rank r on, and the iterator it *)
(* goes on from is where they were. *)
EraseDone(r, g) ==
  /\ TreeInv' /\ Contents' = CutOut(Contents, r, g) /\ Len(Contents') = Len(Contents) - g
  /\ Held(work.it)' /\ Rank(work.it)' = r

WorkDone(left, want) == Working' /\ work'.left = left /\ work'.want = want

LEMMA ErasedWork ==
  ASSUME NEW it, NEW left \in Nat, NEW want, work' = Erased(it, left, want)
  PROVE  WorkDone(left, want) /\ work'.it = it /\ work'.pc \in {"idle", "range"}
<1>1. /\ work'.pc = (IF left = 0 THEN "idle" ELSE "range") /\ work'.left = left /\ work'.want = want /\ work'.it = it
      /\ work'.cur = NULL /\ work'.inst = NULL /\ work'.key = NULL /\ work'.at = 0
  BY DEF Erased, Returned
<1>2. Working' BY <1>1 DEF Working, Pcs
<1> QED BY <1>1, <1>2 DEF WorkDone

RankAt(l, i, it) ==
  /\ it = Iter(l, i) => Rank(it) = Len(Front(vals, chain, l)) + i
  /\ Contents = Flat(vals, chain)

LEMMA RanksAt ==
  ASSUME TreeInv, root # NULL, NEW l \in DOMAIN vals, NEW i, NEW it
  PROVE  RankAt(l, i, it)
<1>1. l # NULL BY ChainListed DEF Listed
<1>2. Contents = Flat(vals, chain) BY DEF Contents
<1>3. ASSUME it = Iter(l, i)
      PROVE  Rank(it) = Len(Front(vals, chain, l)) + i
  <2>1. it.leaf = l /\ it.pos = i BY <1>3 DEF Iter
  <2> QED BY <1>1, <2>1 DEF Rank, Front
<1>4. RankAt(l, i, it) BY <1>2, <1>3 DEF RankAt
<1> QED BY <1>4

(* The iterator a step leaves, gone on from the end of its leaf. *)
LEMMA HeldTo ==
  ASSUME root # NULL, Listed(vals, chain), NEW l \in DOMAIN vals, NEW j \in 0 .. Len(vals[l]),
         NEW it, it = Adjust(Iter(l, j), vals, chain)
  PROVE  Held(it) /\ Rank(it) = Len(Front(vals, chain, l)) + j
<1>1. AdjustedTo(vals, chain, l, j) BY Adjusts
<1>2. (it = Iter(NULL, 0) \/ Points(vals, it)) /\ RankIn(vals, chain, it) = Len(Front(vals, chain, l)) + j
  BY <1>1 DEF AdjustedTo
<1>3. Held(it) BY <1>2 DEF Held
<1>4. Rank(it) = RankIn(vals, chain, it) BY DEF Rank, RankIn, Front, Contents
<1> QED BY <1>2, <1>3, <1>4

(* The same node structure, other elements and separators. *)
LEMMA SameNodes ==
  ASSUME TreeInv, work.pc \in {"idle", "range"}, root # NULL, use' = use, root' = root, base' = base,
         sons' = sons, parent' = parent, pos' = pos, chain' = chain, DOMAIN vals' = DOMAIN vals,
         KeysKept(keys, keys'), Listed(vals', chain'), work'.pc \in {"idle", "range"},
         \A l \in DOMAIN vals : Len(vals'[l]) <= N /\ (l # root => Len(vals'[l]) >= FloorHalf)
  PROVE  TreeInv'
<1>1. ShapeInv /\ Filled /\ Sized /\ Typed /\ use \in Uses
  BY DEF TreeInv, ShapeInv, Typed
<1>2. /\ Nodes = DOMAIN vals \cup Inners /\ DOMAIN vals \cap Inners = {} /\ Nodes' = Nodes /\ Inners' = Inners
      /\ N' = N /\ FloorHalf' = FloorHalf /\ N \in Nat
  BY <1>1, Halves DEF Typed, Nodes, Inners, KeysKept, N, FloorHalf
<1>3. ShapeInv' BY <1>1, SameShape DEF KeysKept
<1>4. \A n \in Inners : keys'[n] \in Seq(Keys) /\ Len(keys'[n]) = Len(keys[n])
  BY DEF KeysKept, Kept, Inners
<1>5. Keys' = Keys /\ Elems' = Elems BY DEF Keys, Elems
<1>6. \A l \in DOMAIN vals : vals'[l] \in Seq(Elems) /\ Len(vals'[l]) # 0
  BY DEF Listed
<1>7. Filled' BY <1>1, <1>2, <1>4, <1>5, <1>6 DEF Filled
<1>8. \A l \in DOMAIN vals : SizeOf(l)' = Len(vals'[l]) /\ Len(vals'[l]) \in 1 .. N
  <2> TAKE l \in DOMAIN vals
  <2>1. Len(vals'[l]) \in Nat /\ Len(vals'[l]) # 0 BY <1>6, LenProperties
  <2> QED BY <1>2, <2>1 DEF SizeOf, IsLeaf
<1>9. \A n \in Inners : SizeOf(n)' = SizeOf(n)
  <2> TAKE n \in Inners
  <2>1. n \notin DOMAIN vals BY <1>2
  <2> QED BY <1>4, <2>1 DEF SizeOf, IsLeaf
<1>10. Sized' BY <1>1, <1>2, <1>8, <1>9 DEF Sized
<1> QED BY <1>3, <1>7, <1>10 DEF TreeInv

(* Where an element is. *)
LeafAt(p, l, i) ==
  /\ l = p.leaf /\ i = p.pos /\ p = Iter(l, i) /\ l \in DOMAIN vals /\ i \in 0 .. Len(vals[l]) - 1
  /\ Listed(vals, chain) /\ vals[l] \in Seq(Elems) /\ Len(vals[l]) \in 1 .. N /\ N \in Nat
  /\ FloorHalf \in Nat /\ FloorHalf >= 2 /\ 2 * FloorHalf <= N
  /\ Rank(p) = Len(Front(vals, chain, l)) + i /\ Contents = Flat(vals, chain)

LEMMA LeafsAt ==
  ASSUME TreeInv, root # NULL, NEW p, Pointing(p)
  PROVE  LeafAt(p, p.leaf, p.pos)
<1>1. PICK l \in DOMAIN vals : \E i \in 0 .. Len(vals[l]) - 1 : p = Iter(l, i)
  BY DEF Pointing, Points
<1>2. PICK i \in 0 .. Len(vals[l]) - 1 : p = Iter(l, i) BY <1>1
<1>3. p.leaf = l /\ p.pos = i BY <1>2 DEF Iter
<1>4. Listed(vals, chain) BY ChainListed
<1>5. vals[l] \in Seq(Elems) /\ Len(vals[l]) \in 1 .. N BY LeafHolds DEF TreeInv
<1>6. use \in Uses BY DEF TreeInv, ShapeInv, Typed
<1>7. N \in Nat /\ FloorHalf \in Nat /\ FloorHalf >= 2 /\ 2 * FloorHalf <= N
  <2>1. N \in Nat /\ FloorHalf \in Nat /\ CeilHalf \in Nat /\ FloorHalf >= 2 /\ FloorHalf + CeilHalf = N
        /\ FloorHalf <= CeilHalf
    BY <1>6, Halves
  <2> QED BY <2>1
<1>8. RankAt(l, i, p) BY RanksAt
<1>9. Rank(p) = Len(Front(vals, chain, l)) + i /\ Contents = Flat(vals, chain)
  BY <1>2, <1>8 DEF RankAt
<1> QED BY <1>2, <1>3, <1>4, <1>5, <1>7, <1>9 DEF LeafAt

ErasedAt(p, left, want) == EraseDone(Rank(p), 1) /\ WorkDone(left, want)

LEMMA CutIsOut ==
  ASSUME NEW s, NEW i \in Nat
  PROVE  Cut(s, i) = CutOut(s, i, 1)
BY DEF Cut, CutOut

LEMMA EraseSmallDone ==
  ASSUME TreeInv, work.pc \in {"idle", "range"}, use' = use, NEW p, Pointing(p), NEW left \in Nat, NEW want,
         EraseSmall(p, left, want)
  PROVE  ErasedAt(p, left, want)
<1>1. /\ root = NULL /\ root' = root /\ base' = Cut(base, p.pos) /\ work' = Erased(p, left, want)
      /\ vals' = vals /\ keys' = keys /\ sons' = sons /\ parent' = parent /\ pos' = pos /\ chain' = chain
  BY DEF EraseSmall, nodes
<1>2. ShapeInv /\ Filled /\ Sized /\ Typed /\ NoTree BY DEF TreeInv, ShapeInv
<1>3. PICK i \in 0 .. Len(base) - 1 : p = Iter(NULL, i) BY <1>1 DEF Pointing
<1>4. p.leaf = NULL /\ p.pos = i BY <1>3 DEF Iter
<1>5. base \in Seq(Elems) /\ Len(base) \in Nat /\ Len(base) <= 2
  BY <1>2, LenProperties DEF Filled
<1>6. WorkDone(left, want) /\ work'.it = p /\ work'.pc \in {"idle", "range"}
  BY <1>1, ErasedWork
<1>7. base' \in Seq(Elems) /\ Len(base') = Len(base) - 1
  BY <1>1, <1>4, <1>5, CutIs
<1>8. Nodes = {} /\ Nodes' = {} /\ Inners' = {} /\ DOMAIN vals' = {}
  BY <1>1, <1>2 DEF NoTree, Typed, Nodes, Inners
<1>9. TreeInv'
  <2>1. ShapeInv' BY <1>1, <1>2, <1>6, SameShape
  <2>2. Filled' BY <1>1, <1>5, <1>7, <1>8 DEF Filled, Elems
  <2>3. Sized' BY <1>6, <1>8 DEF Sized
  <2> QED BY <2>1, <2>2, <2>3 DEF TreeInv
<1>10. Contents = base /\ Contents' = base' /\ Rank(p) = i /\ Rank(p)' = i
  BY <1>1, <1>4 DEF Contents, Rank
<1>11. i \in Nat /\ Cut(base, i) = CutOut(base, i, 1) BY <1>5, CutIsOut
<1>12. i \in 0 .. Len(base') BY <1>5, <1>7
<1>13. Held(work.it)' BY <1>1, <1>3, <1>6, <1>12 DEF Held
<1>14. Rank(work.it)' = i BY <1>6, <1>10
<1>15. EraseDone(i, 1)
  BY <1>1, <1>4, <1>7, <1>9, <1>10, <1>11, <1>13, <1>14 DEF EraseDone
<1> QED BY <1>6, <1>10, <1>15 DEF ErasedAt

(* One leaf becomes smaller. *)
LEMMA LeafShrinks ==
  ASSUME TreeInv, work.pc \in {"idle", "range"}, root # NULL, use' = use, root' = root, base' = base, sons' = sons,
         parent' = parent, pos' = pos, chain' = chain, KeysKept(keys, keys'), work'.pc \in {"idle", "range"},
         NEW l \in DOMAIN vals, NEW v, vals' = [vals EXCEPT ![l] = v],
         NEW i \in Nat, NEW g \in Nat, i + g <= Len(vals[l]), v = CutOut(vals[l], i, g), g < Len(vals[l]),
         l # root => Len(vals[l]) - g >= FloorHalf
  PROVE  TreeInv' /\ CutsHere(vals, vals', chain, l, i, g)
<1>1. Listed(vals, chain) BY ChainListed
<1>2. vals[l] \in Seq(Elems) /\ Len(vals[l]) \in 1 .. N /\ use \in Uses
  BY LeafHolds DEF TreeInv, ShapeInv, Typed
<1>3. InThree(vals[l], i, g, Elems) BY <1>2, ThreeParts
<1>5. v \in Seq(Elems) /\ Len(v) = Len(vals[l]) - g
  <2> DEFINE P == Slice(vals[l], 0, i)
             Q == Slice(vals[l], i + g, Len(vals[l]))
  <2>1. P \in Seq(Elems) /\ Q \in Seq(Elems) /\ Len(P) = i /\ Len(Q) = Len(vals[l]) - (i + g) /\ v = P \o Q
    BY <1>3 DEF InThree
  <2> HIDE DEF P, Q
  <2>2. P \o Q \in Seq(Elems) /\ Len(P \o Q) = Len(P) + Len(Q)
    BY <2>1, ConcatProperties
  <2>3. Len(vals[l]) \in Nat BY <1>2, LenProperties
  <2> QED BY <2>1, <2>2, <2>3
<1>6. Len(v) # 0 BY <1>2, <1>5
<1>7. DOMAIN vals' = DOMAIN vals /\ vals'[l] = v /\ \A z \in DOMAIN vals \ {l} : vals'[z] = vals[z]
  OBVIOUS
<1>8. Rewrites(vals, vals', l) BY <1>5, <1>6, <1>7 DEF Rewrites
<1>9. CutsHere(vals, vals', chain, l, i, g) BY <1>1, <1>7, <1>8, CutHere
<1>10. Listed(vals', chain') BY <1>9 DEF CutsHere
<1>11. N \in Nat /\ FloorHalf \in Nat BY <1>2, Halves
<1>12. Len(v) <= N /\ (l # root => Len(v) >= FloorHalf) BY <1>2, <1>5, <1>11
<1>13. \A z \in DOMAIN vals : Len(vals'[z]) <= N /\ (z # root => Len(vals'[z]) >= FloorHalf)
  <2> TAKE z \in DOMAIN vals
  <2>1. CASE z = l BY <1>7, <1>12, <2>1
  <2>2. CASE z # l
    <3>1. vals'[z] = vals[z] /\ Len(vals[z]) \in 1 .. N /\ SizeOf(z) = Len(vals[z]) /\ z \in Nodes
      BY <1>7, <2>2, LeafHolds DEF TreeInv
    <3>2. z # root => SizeOf(z) >= FloorHalf BY <3>1 DEF TreeInv, Sized
    <3> QED BY <1>11, <3>1, <3>2
  <2> QED BY <2>1, <2>2
<1>14. TreeInv' BY <1>7, <1>10, <1>13, SameNodes
<1> QED BY <1>9, <1>14

HeldAt(it, l, j) ==
  TreeInv /\ root # NULL /\ l \in DOMAIN vals /\ j \in 0 .. Len(vals[l]) /\ it = Adjust(Iter(l, j), vals, chain)
  => Held(it) /\ Rank(it) = Len(Front(vals, chain, l)) + j

LEMMA HeldAlways ==
  ASSUME NEW it, NEW l, NEW j
  PROVE  HeldAt(it, l, j)
BY HeldTo, ChainListed DEF HeldAt

LEMMA HeldThen ==
  ASSUME NEW l, NEW j, NEW it, TreeInv', root' # NULL, l \in DOMAIN vals', j \in 0 .. Len(vals'[l]),
         it = Adjust(Iter(l, j), vals', chain')
  PROVE  Held(it)' /\ Rank(it)' = Len(Front(vals', chain', l)) + j
<1>1. HeldAt(it, l, j)' BY HeldAlways, PTL
<1> QED BY <1>1 DEF HeldAt

LEMMA ShrunkDone ==
  ASSUME NEW p, NEW l, NEW i \in Nat, NEW g \in Nat, LeafAt(p, l, i), TreeInv', CutsHere(vals, vals', chain, l, i, g),
         root # NULL, root' = root, chain' = chain, i + g <= Len(vals[l]), Len(vals'[l]) = Len(vals[l]) - g,
         l \in DOMAIN vals', work'.it = Adjust(p, vals', chain)
  PROVE  EraseDone(Rank(p), g)
<1> DEFINE r == Len(Front(vals, chain, l)) + i
<1>1. /\ p = Iter(l, i) /\ Rank(p) = r /\ Contents = Flat(vals, chain) /\ Len(vals[l]) \in Nat
  <2>1. p = Iter(l, i) /\ Contents = Flat(vals, chain) /\ Len(vals[l]) \in 1 .. N /\ N \in Nat
    BY DEF LeafAt
  <2>2. Rank(p) = r BY DEF LeafAt
  <2> QED BY <2>1, <2>2
<1>2. /\ Listed(vals', chain') /\ Flat(vals', chain') = CutOut(Flat(vals, chain), r, g)
      /\ Front(vals', chain', l) = Front(vals, chain, l) /\ Len(Flat(vals', chain')) = Len(Flat(vals, chain)) - g
  BY DEF CutsHere
<1>3. i \in 0 .. Len(vals'[l]) BY <1>1
<1>4. \A it : it = work'.it => Held(it)' /\ Rank(it)' = r
  <2> TAKE it
  <2> HAVE it = work'.it
  <2>1. it = Adjust(Iter(l, i), vals', chain') BY <1>1
  <2>2. Held(it)' /\ Rank(it)' = Len(Front(vals', chain', l)) + i
    BY <1>2, <1>3, <2>1, HeldThen
  <2> QED BY <1>2, <2>2
<1>5. Held(work.it)' /\ Rank(work.it)' = r BY <1>4
<1>6. Contents' = Flat(vals', chain') BY DEF Contents
<1> HIDE DEF r
<1> QED BY <1>1, <1>2, <1>5, <1>6 DEF EraseDone

(* What can be cut from a leaf. *)
LEMMA ShrinkDone ==
  ASSUME TreeInv, work.pc \in {"idle", "range"}, root # NULL, use' = use, root' = root, base' = base, sons' = sons,
         parent' = parent, pos' = pos, chain' = chain, KeysKept(keys, keys'), work'.pc \in {"idle", "range"},
         NEW p, NEW l, NEW i, LeafAt(p, l, i), NEW v, vals' = [vals EXCEPT ![l] = v],
         NEW g \in Nat, i + g <= Len(vals[l]), v = CutOut(vals[l], i, g), g < Len(vals[l]),
         l # root => Len(vals[l]) - g >= FloorHalf, work'.it = Adjust(p, vals', chain)
  PROVE  EraseDone(Rank(p), g)
<1>1. l \in DOMAIN vals /\ i \in Nat /\ vals[l] \in Seq(Elems) BY DEF LeafAt
<1>2. TreeInv' /\ CutsHere(vals, vals', chain, l, i, g) BY <1>1, LeafShrinks
<1>3. CutLen(vals[l], vals[l], vals[l], i, g, Elems) BY <1>1, CutLens
<1>4. Len(v) = Len(vals[l]) - g BY <1>3 DEF CutLen
<1>5. vals'[l] = v /\ l \in DOMAIN vals' BY <1>1
<1> QED BY <1>1, <1>2, <1>4, <1>5, ShrunkDone

LEMMA KeysSame ==
  ASSUME TreeInv
  PROVE  KeysKept(keys, keys) /\ \A n \in DOMAIN keys : keys[n] \in Seq(Keys)
<1>1. \A n \in DOMAIN keys : keys[n] \in Seq(Keys)
  BY DEF TreeInv, Filled, Inners
<1> QED BY <1>1 DEF KeysKept, Kept

LEMMA ElemKey ==
  ASSUME NEW v \in Seq(Elems), Len(v) # 0
  PROVE  KeyOf(v[1]) \in Keys /\ v[1] \in Elems
<1>1. 1 \in 1 .. Len(v) BY LenProperties
<1>2. v[1] \in Elems BY <1>1, ElementOfSeq
<1> QED BY <1>2 DEF Keys

(* The separator of a leaf whose first element may have changed. *)
LEMMA ResepKept ==
  ASSUME TreeInv, NEW l, NEW v \in Seq(Elems), Len(v) # 0, NEW C \in BOOLEAN, NEW k,
         k = IF C THEN Reseparated(keys, l, KeyOf(v[1])) ELSE keys
  PROVE  KeysKept(keys, k)
<1>1. KeyOf(v[1]) \in Keys BY ElemKey
<1>2. KeysKept(keys, keys) /\ \A n \in DOMAIN keys : keys[n] \in Seq(Keys)
  BY KeysSame
<1>3. CASE C BY <1>1, <1>2, <1>3, ReseparatedKept
<1>4. CASE ~C BY <1>2, <1>4
<1> QED BY <1>3, <1>4

LEMMA EraseRoomDone ==
  ASSUME TreeInv, work.pc \in {"idle", "range"}, use' = use, NEW p, Pointing(p), NEW left \in Nat, NEW want,
         EraseRoom(p, left, want)
  PROVE  ErasedAt(p, left, want)
<1> DEFINE l == p.leaf
           v == Cut(vals[l], p.pos)
           C == p.pos = 0 /\ parent[l] # NULL /\ l # chain[1]
<1>1. /\ root # NULL /\ Len(vals[l]) > FloorHalf /\ vals' = [vals EXCEPT ![l] = v]
      /\ keys' = IF C THEN Reseparated(keys, l, KeyOf(v[1])) ELSE keys
      /\ work' = Erased(Adjust(p, vals', chain), left, want)
      /\ root' = root /\ base' = base /\ sons' = sons /\ parent' = parent /\ pos' = pos /\ chain' = chain
  BY DEF EraseRoom
<1> HIDE DEF v, C
<1>2. LeafAt(p, l, p.pos) BY <1>1, LeafsAt
<1>3. l \in DOMAIN vals /\ p.pos \in 0 .. Len(vals[l]) - 1 /\ vals[l] \in Seq(Elems) /\ FloorHalf \in Nat /\ FloorHalf >= 2
  BY <1>2 DEF LeafAt
<1>4. p.pos \in Nat /\ p.pos + 1 <= Len(vals[l]) /\ 1 < Len(vals[l]) /\ Len(vals[l]) - 1 >= FloorHalf /\ Len(vals[l]) \in Nat
  BY <1>1, <1>3, LenProperties
<1>5. v = CutOut(vals[l], p.pos, 1) BY <1>4, CutIsOut DEF v
<1>6. v \in Seq(Elems) /\ Len(v) = Len(vals[l]) - 1
  BY <1>3, CutIs, SMTT(60) DEF v
<1>7. Len(v) # 0
  <2>1. 1 < Len(vals[l]) /\ Len(vals[l]) \in Nat /\ Len(v) = Len(vals[l]) - 1
    BY <1>4, <1>6
  <2> DEFINE n == Len(vals[l])
  <2>2. 1 < n /\ n \in Nat /\ Len(v) = n - 1 BY <2>1
  <2> HIDE DEF n
  <2> QED BY <2>2
<1>8. C \in BOOLEAN BY DEF C
<1>9. KeysKept(keys, keys') BY <1>1, <1>6, <1>7, <1>8, ResepKept
<1>10. WorkDone(left, want) /\ work'.it = Adjust(p, vals', chain) /\ work'.pc \in {"idle", "range"}
  BY <1>1, ErasedWork
<1>11. EraseDone(Rank(p), 1) BY <1>1, <1>2, <1>4, <1>5, <1>9, <1>10, ShrinkDone
<1> QED BY <1>10, <1>11 DEF ErasedAt

LEMMA CutAll ==
  ASSUME NEW E, NEW c \in Seq(E), NEW g, g = Len(c)
  PROVE  CutOut(c, 0, g) = <<>>
<1>1. Slice(c, 0, 0) = <<>> /\ Slice(c, Len(c), Len(c)) = <<>>
  BY SliceAll, LenProperties
<1>2. CutOut(c, 0, g) = Slice(c, 0, 0) \o Slice(c, Len(c), Len(c))
  BY LenProperties DEF CutOut
<1>3. Slice(c, 0, 0) \in Seq(E) /\ Slice(c, Len(c), Len(c)) \in Seq(E)
  BY <1>1, EmptySeq
<1> QED BY <1>1, <1>2, <1>3, ConcatProperties, EmptySeq

(* The last leaf goes with its elements. *)
LEMMA LeafEmptied ==
  ASSUME TreeInv, work.pc \in {"idle", "range"}, root # NULL, use' = use, root' = NULL, base' = base,
         NEW p, NEW l, NEW i, LeafAt(p, l, i), i = 0, parent[l] = NULL,
         vals' = Without(vals, l), parent' = Without(parent, l), pos' = Without(pos, l), chain' = <<>>,
         keys' = keys, sons' = sons, work'.it = Iter(NULL, 0), work'.pc \in {"idle", "range"}
  PROVE  EraseDone(Rank(p), Len(vals[l]))
<1>1. ShapeInv /\ Filled /\ Typed /\ use \in Uses
  BY DEF TreeInv, ShapeInv, Typed
<1>2. /\ l \in DOMAIN vals /\ vals[l] \in Seq(Elems) /\ Listed(vals, chain) /\ Contents = Flat(vals, chain)
      /\ Rank(p) = Len(Front(vals, chain, l)) + i
  BY DEF LeafAt
<1>3. work.pc # "ascend" /\ work.pc \in Pcs BY DEF Pcs
<1>4. Nodes = {l} /\ DOMAIN vals = {l} /\ Inners = {} /\ chain = <<l>>
  BY <1>1, <1>2, <1>3, LoneLeaf
<1>5. /\ DOMAIN vals' = {} /\ DOMAIN parent' = {} /\ DOMAIN pos' = {} /\ DOMAIN keys' = {} /\ DOMAIN sons' = {}
      /\ Nodes' = {} /\ Inners' = {}
  BY <1>1, <1>4 DEF Typed, Without, Nodes, Inners
<1>6. ShapeInv' BY <1>1, <1>5, NoShape
<1>7. base = <<>> BY <1>1 DEF Filled
<1>8. Filled'
  <2>1. Len(base) = 0 /\ base \in Seq(Elems) BY <1>1, <1>7, EmptySeq DEF Filled
  <2> QED BY <1>5, <2>1 DEF Filled, Elems
<1>9. Sized' BY <1>5 DEF Sized
<1>10. TreeInv' BY <1>6, <1>8, <1>9 DEF TreeInv
<1>11. Gives(vals, DOMAIN vals, Elems) BY <1>2, ListedGives
<1>12. Contents = vals[l] BY <1>2, <1>4, <1>11, FlatOne
<1>13. Contents' = <<>> /\ CutOut(vals[l], 0, Len(vals[l])) = <<>>
  BY <1>2, <1>7, CutAll DEF Contents
<1>14. Placing(vals, chain, <<>>, l, <<>>)
  <2> DEFINE nil == <<>>
             one == <<l>>
  <2>1. nil \in Seq(DOMAIN vals) /\ one \in Seq(DOMAIN vals) /\ Len(nil) = 0
    BY <1>2, EmptySeq
  <2>2. nil \o one = one /\ one \o nil = one
    <3> HIDE DEF one
    <3> QED BY <2>1, ConcatEmptySeq
  <2> QED BY <1>2, <1>4, <2>1, <2>2 DEF Placing, Joins
<1>15. Front(vals, chain, l) = Flat(vals, <<>>)
  <2> DEFINE nil == <<>>
  <2>1. Placing(vals, chain, nil, l, nil) BY <1>14
  <2> HIDE DEF nil
  <2>2. FlatAt(vals, chain, nil, l, nil) BY <1>2, <2>1, FlatsAt
  <2>3. Front(vals, chain, l) = Flat(vals, nil) BY <2>2 DEF FlatAt
  <2> QED BY <2>3 DEF nil
<1>16. Len(Front(vals, chain, l)) = 0 BY <1>15, FlatNil, EmptySeq
<1>17. Rank(p) = 0 BY <1>2, <1>16
<1>18. Len(Contents') = 0 /\ Len(vals[l]) \in Nat /\ Len(Contents) = Len(vals[l])
  BY <1>2, <1>12, <1>13, LenProperties, EmptySeq
<1>19. Held(work.it)' /\ Rank(work.it)' = 0
  <2>1. work'.it.pos = 0 /\ 0 \in 0 .. Len(base') BY <1>7, EmptySeq DEF Iter
  <2> QED BY <2>1 DEF Held, Rank
<1> QED BY <1>10, <1>12, <1>13, <1>17, <1>18, <1>19 DEF EraseDone

LEMMA EraseRootLeafDone ==
  ASSUME TreeInv, work.pc \in {"idle", "range"}, use' = use, NEW p, Pointing(p), NEW left \in Nat, NEW want,
         EraseRootLeaf(p, left, want)
  PROVE  ErasedAt(p, left, want)
<1> DEFINE l == p.leaf
<1>1. root # NULL /\ parent[l] = NULL /\ base' = base /\ keys' = keys /\ sons' = sons
  BY DEF EraseRootLeaf
<1>2. LeafAt(p, l, p.pos) BY <1>1, LeafsAt
<1>3. l \in DOMAIN vals /\ p.pos \in 0 .. Len(vals[l]) - 1 /\ vals[l] \in Seq(Elems) /\ Len(vals[l]) \in 1 .. N
  BY <1>2 DEF LeafAt
<1>4. ShapeInv /\ work.pc # "ascend" /\ work.pc \in Pcs BY DEF TreeInv, Pcs
<1>5. l = root BY <1>1, <1>3, <1>4, LoneLeaf
<1>6. CASE Len(vals[l]) = 1
  <2>1. /\ root' = NULL /\ vals' = Without(vals, l) /\ parent' = Without(parent, l) /\ pos' = Without(pos, l)
        /\ chain' = <<>> /\ work' = Erased(Iter(NULL, 0), left, want)
    BY <1>6 DEF EraseRootLeaf
  <2>2. WorkDone(left, want) /\ work'.it = Iter(NULL, 0) /\ work'.pc \in {"idle", "range"}
    BY <2>1, ErasedWork
  <2>3. p.pos = 0 BY <1>3, <1>6
  <2>4. EraseDone(Rank(p), Len(vals[l]))
    BY <1>1, <1>2, <2>1, <2>2, <2>3, LeafEmptied
  <2> QED BY <1>6, <2>2, <2>4 DEF ErasedAt
<1>7. CASE Len(vals[l]) # 1
  <2> DEFINE v == Cut(vals[l], p.pos)
  <2>1. /\ root' = root /\ vals' = [vals EXCEPT ![l] = v] /\ parent' = parent /\ pos' = pos
        /\ chain' = chain /\ work' = Erased(Adjust(p, vals', chain), left, want)
    BY <1>7 DEF EraseRootLeaf
  <2> HIDE DEF v
  <2>2. WorkDone(left, want) /\ work'.it = Adjust(p, vals', chain) /\ work'.pc \in {"idle", "range"}
    BY <2>1, ErasedWork
  <2>3. Len(vals[l]) \in Nat BY <1>3, LenProperties
  <2>4. p.pos \in Nat /\ p.pos + 1 <= Len(vals[l]) /\ 1 < Len(vals[l])
    <3> DEFINE n == Len(vals[l])
    <3>1. n \in Nat /\ n # 1 /\ p.pos \in 0 .. n - 1 BY <1>3, <1>7, <2>3
    <3> HIDE DEF n
    <3>2. p.pos \in Nat /\ p.pos + 1 <= n /\ 1 < n BY <3>1
    <3> QED BY <3>2 DEF n
  <2>5. v = CutOut(vals[l], p.pos, 1) BY <2>4, CutIsOut DEF v
  <2>6. KeysKept(keys, keys') BY <1>1, KeysSame
  <2>7. EraseDone(Rank(p), 1)
    BY <1>1, <1>2, <1>5, <2>1, <2>2, <2>4, <2>5, <2>6, ShrinkDone
  <2> QED BY <2>2, <2>7 DEF ErasedAt
<1> QED BY <1>6, <1>7

LEMMA HeldPoints ==
  ASSUME Held(work.it), Rank(work.it) < Len(Contents), Len(Contents) \in Nat
  PROVE  Pointing(work.it)
<1>1. CASE root = NULL
  <2>1. PICK i \in 0 .. Len(base) : work.it = Iter(NULL, i) BY <1>1 DEF Held
  <2>2. Rank(work.it) = i /\ Contents = base
    BY <1>1, <2>1 DEF Rank, Iter, Contents
  <2>3. i \in 0 .. Len(base) - 1 BY <2>2
  <2> QED BY <1>1, <2>1, <2>3 DEF Pointing
<1>2. CASE root # NULL
  <2>1. CASE work.it = Iter(NULL, 0)
    <3>1. Rank(work.it) = Len(Contents) + 0 BY <1>2, <2>1 DEF Rank, Iter
    <3> QED BY <3>1
  <2>2. CASE Points(vals, work.it) BY <1>2, <2>2 DEF Pointing
  <2> QED BY <1>2, <2>1, <2>2 DEF Held
<1> QED BY <1>1, <1>2

(* One step of a range erasure removes g elements. *)
PieceDone(g) == EraseDone(work.want, g) /\ WorkDone(work.left - g, work.want)

InRange == IInv /\ work.pc = "range"

RangeAt(p) ==
  /\ Pointing(p) /\ p = work.it /\ Rank(p) = work.want /\ work.left \in Nat /\ work.left # 0 /\ work.want \in Nat
  /\ TreeInv /\ work.pc \in {"idle", "range"} /\ work.want + work.left <= Len(Contents) /\ size = Len(Contents)
  /\ Len(Contents) \in Nat

LEMMA RangesAt ==
  ASSUME InRange
  PROVE  RangeAt(work.it)
<1>1. IInv /\ TreeInv /\ Working /\ Ranks /\ work.pc = "range"
  BY DEF InRange, IInv
<1>2. /\ size = Len(Contents) /\ Held(work.it) /\ work.want \in Nat /\ Rank(work.it) = work.want
      /\ work.want + work.left <= Len(Contents) /\ work.left \in Nat /\ work.left # 0
  BY <1>1 DEF Ranks, Working
<1>3. Len(Contents) \in Nat
  <2>1. Contents \in Seq(Elems)
    <3>1. CASE root = NULL BY <1>1, <3>1 DEF Contents, TreeInv, Filled
    <3>2. CASE root # NULL BY <1>1, <3>2, ChainListed, ListedGives DEF Contents
    <3> QED BY <3>1, <3>2
  <2> QED BY <2>1, LenProperties
<1>4. Rank(work.it) < Len(Contents) BY <1>2, <1>3
<1>5. Pointing(work.it) BY <1>2, <1>3, <1>4, HeldPoints
<1> QED BY <1>1, <1>2, <1>3, <1>5 DEF RangeAt

AmountIs(l, i, g) ==
  /\ g \in Nat /\ g > 1 /\ i + g <= Len(vals[l]) /\ g <= work.left
  /\ parent[l] # NULL => Len(vals[l]) - g >= FloorHalf

LEMMA AmountsTo ==
  ASSUME PartDue, NEW l, NEW i, LeafAt(work.it, l, i), work.left \in Nat
  PROVE  AmountIs(l, i, Amount)
<1>1. l = work.it.leaf /\ i = work.it.pos /\ i \in 0 .. Len(vals[l]) - 1 /\ Len(vals[l]) \in 1 .. N /\ N \in Nat /\ FloorHalf \in Nat
  BY DEF LeafAt
<1> DEFINE n == Len(vals[l])
           F == FloorHalf
           most == Least(n - i, work.left)
           less == Least(most, n - F)
<1>2. Amount = IF parent[l] # NULL THEN less ELSE most BY <1>1 DEF Amount
<1>3. Amount > 1 BY DEF PartDue
<1>4. n \in Nat /\ i \in 0 .. n - 1 /\ F \in Nat BY <1>1
<1> HIDE DEF n, F
<1>5. most \in Int /\ most <= n - i /\ most <= work.left BY <1>4 DEF Least
<1> HIDE DEF most
<1>6. less \in Int /\ less <= most /\ less <= n - F BY <1>4, <1>5 DEF Least
<1> HIDE DEF less
<1>7. CASE parent[l] # NULL
  <2>1. Amount = less BY <1>2, <1>7
  <2>2. Amount \in Nat /\ i + Amount <= n /\ Amount <= work.left /\ n - Amount >= F
    BY <1>3, <1>4, <1>5, <1>6, <2>1
  <2> QED BY <1>3, <2>2 DEF AmountIs, n, F
<1>8. CASE parent[l] = NULL
  <2>1. Amount = most BY <1>2, <1>8
  <2>2. Amount \in Nat /\ i + Amount <= n /\ Amount <= work.left
    BY <1>3, <1>4, <1>5, <2>1
  <2> QED BY <1>3, <1>8, <2>2 DEF AmountIs, n
<1> QED BY <1>7, <1>8

CutOutIs(s, i, g, E) == CutOut(s, i, g) \in Seq(E) /\ Len(CutOut(s, i, g)) = Len(s) - g

LEMMA CutsOutIs ==
  ASSUME NEW E, NEW s \in Seq(E), NEW i \in Nat, NEW g \in Nat, i + g <= Len(s)
  PROVE  CutOutIs(s, i, g, E)
<1>1. CutLen(s, s, s, i, g, E) BY CutLens
<1> QED BY <1>1 DEF CutLen, CutOutIs

LEMMA ErasePartDone ==
  ASSUME InRange, ErasePart
  PROVE  \E g \in Nat : g <= work.left /\ PieceDone(g) /\ size' = size - g
<1> DEFINE p == work.it
           l == p.leaf
           i == p.pos
           g == Amount
           v == Slice(vals[l], 0, i) \o Slice(vals[l], i + g, Len(vals[l]))
<1>1. /\ root # NULL /\ PartDue /\ size' = size - g /\ base' = base /\ sons' = sons /\ use' = use
  BY DEF ErasePart, PartDue, In
<1>2. RangeAt(p) BY RangesAt
<1>3. Pointing(p) /\ Rank(p) = work.want /\ work.left \in Nat /\ TreeInv /\ work.pc \in {"idle", "range"}
      /\ work.want \in Nat /\ work.want + work.left <= Len(Contents) /\ Len(Contents) \in Nat
  BY <1>2 DEF RangeAt
<1>4. LeafAt(p, l, i) BY <1>1, <1>3, LeafsAt
<1>5. AmountIs(l, i, g) BY <1>1, <1>3, <1>4, AmountsTo
<1>6. l \in DOMAIN vals /\ i \in 0 .. Len(vals[l]) - 1 /\ vals[l] \in Seq(Elems) /\ FloorHalf \in Nat /\ FloorHalf >= 2
      /\ Contents = Flat(vals, chain)
  BY <1>4 DEF LeafAt
<1>7. g \in Nat /\ g > 1 /\ i + g <= Len(vals[l]) /\ g <= work.left /\ (parent[l] # NULL => Len(vals[l]) - g >= FloorHalf)
  BY <1>5 DEF AmountIs
<1>8. v = CutOut(vals[l], i, g) BY DEF CutOut
<1>9. i \in Nat BY <1>6
<1>10. CASE v = <<>>
  <2>1. /\ root' = NULL /\ vals' = Without(vals, l) /\ parent' = Without(parent, l) /\ pos' = Without(pos, l)
        /\ chain' = <<>> /\ work' = Erased(Iter(NULL, 0), 0, work.want) /\ keys' = keys
    BY <1>10 DEF ErasePart
  <2> HIDE DEF v, g
  <2>2. Len(v) = Len(vals[l]) - g /\ Len(vals[l]) \in Nat
    BY <1>6, <1>7, <1>8, <1>9, CutsOutIs, LenProperties DEF CutOutIs
  <2>3. Len(v) = 0 BY <1>10, EmptySeq
  <2>4. g = Len(vals[l]) /\ i = 0 /\ parent[l] = NULL
    <3> DEFINE n == Len(vals[l])
    <3>1. n \in Nat /\ 0 = n - g /\ i + g <= n /\ (parent[l] # NULL => n - g >= FloorHalf)
      BY <1>7, <2>2, <2>3
    <3> HIDE DEF n
    <3>2. g = n /\ i = 0 /\ ~(n - g >= FloorHalf) BY <1>6, <1>7, <1>9, <3>1
    <3> QED BY <3>1, <3>2 DEF n
  <2>5. WorkDone(0, work.want) /\ work'.it = Iter(NULL, 0) /\ work'.pc \in {"idle", "range"}
    <3> DEFINE zero == 0
               w == work.want
               it == Iter(NULL, zero)
    <3>1. zero \in Nat /\ work' = Erased(it, zero, w) BY <2>1
    <3> HIDE DEF zero, w, it
    <3>2. WorkDone(zero, w) /\ work'.it = it /\ work'.pc \in {"idle", "range"}
      BY <3>1, ErasedWork
    <3> QED BY <3>2 DEF zero, w, it
  <2>6. EraseDone(Rank(p), Len(vals[l]))
    BY <1>1, <1>3, <1>4, <2>1, <2>4, <2>5, LeafEmptied
  <2>7. base = <<>> BY <1>1, <1>3 DEF TreeInv, Filled
  <2>8. Contents' = <<>> /\ Len(Contents') = Len(Contents) - Len(vals[l])
    BY <1>1, <2>1, <2>6, <2>7 DEF EraseDone, Contents
  <2>9. work.left - g = 0
    <3>1. Len(Contents) = g BY <1>3, <1>7, <2>4, <2>8, EmptySeq
    <3> QED BY <1>3, <1>7, <3>1
  <2>10. PieceDone(g) BY <1>3, <2>4, <2>5, <2>6, <2>9, SMTT(60) DEF PieceDone
  <2> QED BY <1>1, <1>7, <2>10 DEF g
<1>11. CASE v # <<>>
  <2> DEFINE C == i = 0
  <2>1. /\ vals' = [vals EXCEPT ![l] = v]
        /\ keys' = IF C THEN Reseparated(keys, l, KeyOf(v[1])) ELSE keys
        /\ work' = Erased(Adjust(work.it, vals', chain), work.left - g, work.want)
        /\ root' = root /\ parent' = parent /\ pos' = pos /\ chain' = chain
    BY <1>11 DEF ErasePart
  <2>2. C \in BOOLEAN OBVIOUS
  <2> HIDE DEF v, g, C
  <2>3. CutOutIs(vals[l], i, g, Elems) BY <1>6, <1>7, <1>9, CutsOutIs
  <2>4. v \in Seq(Elems) /\ Len(v) = Len(vals[l]) - g BY <1>8, <2>3 DEF CutOutIs
  <2>5. Len(v) # 0 /\ Len(v) \in Nat /\ Len(vals[l]) \in Nat
    BY <1>6, <1>11, <2>4, EmptySeq, LenProperties
  <2>6. KeysKept(keys, keys') BY <1>3, <2>1, <2>2, <2>4, <2>5, ResepKept
  <2>7. work.left - g \in Nat BY <1>3, <1>7
  <2>8. WorkDone(work.left - g, work.want) /\ work'.it = Adjust(p, vals', chain) /\ work'.pc \in {"idle", "range"}
    <3> DEFINE d == work.left - g
               w == work.want
               it == Adjust(work.it, vals', chain)
    <3>1. d \in Nat /\ work' = Erased(it, d, w) BY <2>1, <2>7
    <3> HIDE DEF d, w, it
    <3>2. WorkDone(d, w) /\ work'.it = it /\ work'.pc \in {"idle", "range"}
      BY <3>1, ErasedWork
    <3> QED BY <3>2 DEF d, w, it
  <2>9. g < Len(vals[l]) BY <1>7, <2>4, <2>5
  <2>10. l # root => Len(vals[l]) - g >= FloorHalf
    <3>1. parent[l] = NULL => l = root
      <4>1. ShapeInv /\ work.pc # "ascend" /\ work.pc \in Pcs /\ l \in Nodes
        BY <1>3, <1>6, LeafHolds, SMTT(60) DEF TreeInv, Pcs
      <4> QED BY <1>1, <4>1, RootHome
    <3> QED BY <1>7, <3>1
  <2>11. EraseDone(Rank(p), g)
    BY <1>1, <1>3, <1>4, <1>7, <1>8, <2>1, <2>6, <2>8, <2>9, <2>10, ShrinkDone
  <2>12. PieceDone(g) BY <1>3, <2>8, <2>11 DEF PieceDone
  <2> QED BY <1>1, <1>7, <2>12 DEF g
<1> QED BY <1>10, <1>11

(* The element at i is cut from one of two sequences put together. *)
CutOfTwo(S, V, i, E) ==
  /\ Cut(V, i) \in Seq(E) /\ Len(Cut(V, i)) = Len(V) - 1
  /\ S \o Cut(V, i) = CutOut(S \o V, Len(S) + i, 1) /\ Cut(V, i) \o S = CutOut(V \o S, i, 1)
  /\ S \o V \in Seq(E) /\ V \o S \in Seq(E) /\ Len(S \o V) = Len(S) + Len(V) /\ Len(V \o S) = Len(S) + Len(V)

LEMMA CutsOfTwo ==
  ASSUME NEW E, NEW S \in Seq(E), NEW V \in Seq(E), NEW i \in 0 .. Len(V) - 1
  PROVE  CutOfTwo(S, V, i, E)
<1> DEFINE nil == <<>>
           one == 1
           c == Cut(V, i)
<1>1. nil \in Seq(E) /\ Len(nil) = 0 /\ \A s \in Seq(E) : nil \o s = s /\ s \o nil = s
  BY EmptySeq, ConcatEmptySeq
<1>2. Len(V) \in Nat /\ Len(S) \in Nat BY LenProperties
<1>3. i \in Nat /\ one \in Nat /\ i + one <= Len(V) BY <1>2
<1>4. c = CutOut(V, i, one) BY <1>3, CutIsOut
<1> HIDE DEF nil, one, c
<1>5. CutInside(S, V, nil, i, one, E) BY <1>1, <1>3, CutWithin
<1>6. CutInside(nil, V, S, i, one, E) BY <1>1, <1>3, CutWithin
<1>7. /\ c \in Seq(E) /\ Len(c) = Len(V) - one /\ (S \o c) \o nil = CutOut((S \o V) \o nil, Len(S) + i, one)
      /\ (nil \o c) \o S = CutOut((nil \o V) \o S, Len(nil) + i, one)
  BY <1>4, <1>5, <1>6 DEF CutInside
<1>8. S \o V \in Seq(E) /\ V \o S \in Seq(E) /\ S \o c \in Seq(E)
  BY <1>7, ConcatType
<1>9. Len(S \o V) = Len(S) + Len(V) /\ Len(V \o S) = Len(S) + Len(V)
  BY <1>2, ConcatProperties
<1>10. S \o c = CutOut(S \o V, Len(S) + i, one) BY <1>1, <1>7, <1>8
<1>11. Len(nil) + i = i BY <1>1, <1>3
<1>12. c \o S = CutOut(V \o S, i, one) BY <1>1, <1>7, <1>11
<1> QED BY <1>7, <1>8, <1>9, <1>10, <1>12 DEF CutOfTwo, c, one

(* Two leaves beside each other. *)
TwoLeaves(x, y, par, i) ==
  /\ Beside(x, y, par, i) /\ x \in DOMAIN vals /\ y \in DOMAIN vals /\ x # y
  /\ vals[x] \in Seq(Elems) /\ vals[y] \in Seq(Elems)
  /\ Len(vals[x]) \in FloorHalf .. N /\ Len(vals[y]) \in FloorHalf .. N
  /\ par \in Inners /\ N \in Nat /\ FloorHalf \in Nat /\ FloorHalf >= 2 /\ 2 * FloorHalf <= N

LEMMA LeafSize ==
  ASSUME TreeInv, root # NULL, work.pc \in {"idle", "range"}, NEW l \in DOMAIN vals, parent[l] # NULL
  PROVE  Len(vals[l]) \in FloorHalf .. N
<1>1. l \in Nodes /\ Len(vals[l]) \in 1 .. N /\ SizeOf(l) = Len(vals[l])
  BY LeafHolds DEF TreeInv
<1>2. parent[root] = NULL BY RootHas DEF TreeInv, Pcs
<1>3. Len(vals[l]) >= FloorHalf BY <1>1, <1>2 DEF TreeInv, Sized
<1>4. N \in Nat /\ FloorHalf \in Nat BY Halves DEF TreeInv, ShapeInv, Typed
<1> QED BY <1>1, <1>3, <1>4

LEMMA TwoLeavesAre ==
  ASSUME TreeInv, root # NULL, work.pc \in {"idle", "range"}, NEW x, NEW y, NEW par, NEW i, Beside(x, y, par, i),
         x \in DOMAIN vals \/ y \in DOMAIN vals
  PROVE  TwoLeaves(x, y, par, i)
<1>1. ShapeInv /\ Typed /\ use \in Uses BY DEF TreeInv, ShapeInv, Typed
<1>2. x \in Nodes /\ y \in Nodes /\ x # y /\ par \in Inners /\ parent[x] = par /\ parent[y] = par /\ par # NULL
  BY DEF Beside, IsSon
<1>3. x \in Inners <=> y \in Inners BY <1>1, SameKind
<1>4. Nodes = DOMAIN vals \cup Inners /\ DOMAIN vals \cap Inners = {}
  BY <1>1 DEF Typed
<1>5. x \in DOMAIN vals /\ y \in DOMAIN vals BY <1>2, <1>3, <1>4
<1>6. vals[x] \in Seq(Elems) /\ vals[y] \in Seq(Elems)
  BY <1>5 DEF TreeInv, Filled
<1>7. Len(vals[x]) \in FloorHalf .. N BY <1>2, <1>5, LeafSize
<1>8. Len(vals[y]) \in FloorHalf .. N BY <1>2, <1>5, LeafSize
<1>9. N \in Nat /\ FloorHalf \in Nat /\ FloorHalf >= 2 /\ 2 * FloorHalf <= N
  <2>1. N \in Nat /\ FloorHalf \in Nat /\ CeilHalf \in Nat /\ FloorHalf >= 2 /\ FloorHalf + CeilHalf = N
        /\ FloorHalf <= CeilHalf
    BY <1>1, Halves
  <2> QED BY <2>1
<1> QED BY <1>2, <1>5, <1>6, <1>7, <1>8, <1>9 DEF TwoLeaves

(* An element is cut and the border between two leaves moves. *)
LEMMA BorrowDone ==
  ASSUME TreeInv, work.pc \in {"idle", "range"}, root # NULL, use' = use, root' = root, base' = base, sons' = sons,
         parent' = parent, pos' = pos, chain' = chain, KeysKept(keys, keys'), work'.pc \in {"idle", "range"},
         NEW x, NEW y, NEW par, NEW i, TwoLeaves(x, y, par, i), NEW a \in Seq(Elems), NEW b \in Seq(Elems),
         DOMAIN vals' = DOMAIN vals, \A z \in DOMAIN vals \ {x, y} : vals'[z] = vals[z], vals'[x] = a, vals'[y] = b,
         Len(a) \in FloorHalf .. N, Len(b) \in FloorHalf .. N,
         NEW j \in Nat, j + 1 <= Len(vals[x] \o vals[y]), a \o b = CutOut(vals[x] \o vals[y], j, 1)
  PROVE  TreeInv' /\ CutsTwo(vals, vals', chain, x, y, j, 1)
<1>1. Listed(vals, chain) BY ChainListed
<1>2. Beside(x, y, par, i) /\ x \in DOMAIN vals /\ y \in DOMAIN vals /\ N \in Nat /\ FloorHalf \in Nat /\ FloorHalf >= 2
  BY DEF TwoLeaves
<1>3. PICK A, B : PlacingTwo(vals, chain, A, x, y, B) BY <1>2, LeavesBeside
<1>4. Len(a) # 0 /\ Len(b) # 0 /\ Len(a) <= N /\ Len(b) <= N /\ Len(a) >= FloorHalf /\ Len(b) >= FloorHalf
  BY <1>2
<1> DEFINE one == 1
<1>5. one \in Nat /\ j + one <= Len(vals[x] \o vals[y]) /\ vals'[x] \o vals'[y] = CutOut(vals[x] \o vals[y], j, one)
  OBVIOUS
<1> HIDE DEF one
<1>6. vals'[x] \in Seq(Elems) /\ vals'[y] \in Seq(Elems) /\ Len(vals'[x]) # 0 /\ Len(vals'[y]) # 0
  BY <1>4
<1>7. CutsTwo(vals, vals', chain, x, y, j, one)
  BY <1>1, <1>3, <1>5, <1>6, CutTwo
<1>8. Listed(vals', chain') BY <1>7 DEF CutsTwo
<1>9. \A z \in DOMAIN vals : Len(vals'[z]) <= N /\ (z # root => Len(vals'[z]) >= FloorHalf)
  <2> TAKE z \in DOMAIN vals
  <2>1. CASE z = x \/ z = y BY <1>4, <2>1
  <2>2. CASE z # x /\ z # y
    <3>1. vals'[z] = vals[z] /\ Len(vals[z]) \in 1 .. N /\ SizeOf(z) = Len(vals[z]) /\ z \in Nodes
      BY <2>2, LeafHolds DEF TreeInv
    <3>2. z # root => SizeOf(z) >= FloorHalf BY <3>1 DEF TreeInv, Sized
    <3> QED BY <1>2, <3>1, <3>2
  <2> QED BY <2>1, <2>2
<1>10. TreeInv' BY <1>8, <1>9, SameNodes
<1> QED BY <1>7, <1>10 DEF one

(* An element of an underfull leaf, and the sibling it is repaired with. *)
Repaired(p, l, k) ==
  /\ LeafAt(p, l, k) /\ l = p.leaf /\ k = p.pos /\ root # NULL /\ Len(vals[l]) = FloorHalf
  /\ UsesLeft(parent[l], pos[l]) => TwoLeaves(At(sons[parent[l]], pos[l] - 1), l, parent[l], pos[l] - 1)
  /\ ~UsesLeft(parent[l], pos[l]) => TwoLeaves(l, At(sons[parent[l]], pos[l] + 1), parent[l], pos[l])

LEMMA RepairedIs ==
  ASSUME TreeInv, work.pc \in {"idle", "range"}, root # NULL, NEW p, Pointing(p), Len(vals[p.leaf]) = FloorHalf, parent[p.leaf] # NULL
  PROVE  Repaired(p, p.leaf, p.pos)
<1> DEFINE l == p.leaf
           par == parent[l]
<1>1. LeafAt(p, l, p.pos) BY LeafsAt
<1>2. l \in DOMAIN vals BY <1>1 DEF LeafAt
<1>3. ShapeInv /\ Filled /\ Sized /\ work.pc # "ascend" /\ work.pc \in Pcs /\ work.pc # "rebalance" /\ l \in Nodes
  BY <1>2, LeafHolds DEF TreeInv, Pcs
<1>4. Sides(l, par) BY <1>3, SidesAre
<1>5. ASSUME UsesLeft(par, pos[l])
      PROVE  TwoLeaves(At(sons[par], pos[l] - 1), l, par, pos[l] - 1)
  <2>1. Beside(At(sons[par], pos[l] - 1), l, par, pos[l] - 1)
    BY <1>4, <1>5 DEF Sides
  <2> QED BY <1>2, <2>1, TwoLeavesAre
<1>6. ASSUME ~UsesLeft(par, pos[l])
      PROVE  TwoLeaves(l, At(sons[par], pos[l] + 1), par, pos[l])
  <2>1. Beside(l, At(sons[par], pos[l] + 1), par, pos[l])
    BY <1>4, <1>6 DEF Sides
  <2> QED BY <1>2, <2>1, TwoLeavesAre
<1> QED BY <1>1, <1>5, <1>6 DEF Repaired

LEMMA LeafFromLeftDone ==
  ASSUME TreeInv, work.pc \in {"idle", "range"}, use' = use, NEW p, Pointing(p), NEW left \in Nat, NEW want,
         LeafFromLeft(p, left, want)
  PROVE  ErasedAt(p, left, want)
<1> DEFINE l    == p.leaf
           q    == p.pos
           par  == parent[l]
           i    == pos[l]
           lhs  == At(sons[par], i - 1)
           S    == vals[lhs]
           next == Len(S)
           m    == Moved(next)
           V    == vals[l]
           c    == Cut(V, q)
           b    == Slice(S, next - m, next) \o c
           a    == Slice(S, 0, next - m)
<1>1. /\ root # NULL /\ Len(V) = FloorHalf /\ par # NULL /\ UsesLeft(par, i) /\ next # FloorHalf
      /\ vals' = With(vals, Two(l, b, lhs, a))
      /\ keys' = [keys EXCEPT ![par] = [@ EXCEPT ![i] = KeyOf(b[1])]]
      /\ work' = Erased(Adjust(Iter(l, q + m), vals', chain), left, want)
      /\ root' = root /\ base' = base /\ sons' = sons /\ parent' = parent /\ pos' = pos /\ chain' = chain
  BY ZenonT(60) DEF LeafFromLeft
<1>2. Repaired(p, l, q) BY <1>1, RepairedIs, ZenonT(60)
<1>3. LeafAt(p, l, q) /\ TwoLeaves(lhs, l, par, i - 1)
  BY <1>1, <1>2 DEF Repaired
<1> HIDE DEF lhs
<1>4. /\ lhs \in DOMAIN vals /\ l \in DOMAIN vals /\ lhs # l /\ S \in Seq(Elems) /\ V \in Seq(Elems)
      /\ next \in FloorHalf .. N /\ N \in Nat /\ FloorHalf \in Nat /\ FloorHalf >= 2 /\ 2 * FloorHalf <= N
  BY <1>3 DEF TwoLeaves
<1>5. q \in 0 .. Len(V) - 1 /\ Rank(p) = Len(Front(vals, chain, l)) + q /\ Contents = Flat(vals, chain)
  BY <1>3 DEF LeafAt
<1> HIDE DEF S, V, c
<1>6. use \in Uses BY DEF TreeInv, ShapeInv, Typed
<1>7. next \in Nat /\ next > FloorHalf /\ next <= N
  <2> HIDE DEF next
  <2> QED BY <1>1, <1>4
<1> HIDE DEF next
<1>8. m \in 1 .. next - FloorHalf BY <1>6, <1>7, MovedIs
<1> HIDE DEF m
<1>9. CutOfTwo(S, V, q, Elems) BY <1>4, <1>5, CutsOfTwo
<1>10. /\ c \in Seq(Elems) /\ Len(c) = Len(V) - 1 /\ S \o c = CutOut(S \o V, next + q, 1) /\ Len(S \o V) = next + Len(V)
  BY <1>9 DEF CutOfTwo, c, next
<1> DEFINE d == next - m
<1>11. d \in 0 .. next /\ next - d = m /\ d >= FloorHalf /\ d <= N /\ d \in Nat
  BY <1>4, <1>7, <1>8
<1> HIDE DEF d
<1>12. d \in 0 .. Len(S) BY <1>11 DEF next
<1>13. LowBorrow(S, c, d, Elems) BY <1>4, <1>10, <1>12, BorrowsLow
<1>14. /\ a = Slice(S, 0, d) /\ b = Slice(S, d, Len(S)) \o c BY DEF d, next
<1> HIDE DEF a, b
<1>15. a \in Seq(Elems) /\ b \in Seq(Elems) /\ a \o b = S \o c /\ Len(a) = d /\ Len(b) = m + Len(c)
  BY <1>11, <1>13, <1>14 DEF LowBorrow, next
<1>16. Len(a) \in FloorHalf .. N /\ Len(b) \in FloorHalf .. N /\ Len(b) = m + (FloorHalf - 1) /\ q \in 0 .. FloorHalf - 1
  <2>1. Len(b) = m + (FloorHalf - 1) /\ q \in 0 .. FloorHalf - 1 /\ Len(a) = d
    BY <1>1, <1>5, <1>10, <1>15
  <2>2. m + (FloorHalf - 1) \in FloorHalf .. N /\ d \in FloorHalf .. N
    BY <1>4, <1>7, <1>8, <1>11
  <2> QED BY <2>1, <2>2
<1>17. /\ DOMAIN vals' = DOMAIN vals /\ vals'[lhs] = a /\ vals'[l] = b
       /\ \A z \in DOMAIN vals \ {lhs, l} : vals'[z] = vals[z]
  BY <1>1, <1>4 DEF With, Two
<1>18. KeysKept(keys, keys')
  <2>1. Len(b) # 0 BY <1>4, <1>16
  <2>2. KeyOf(b[1]) \in Keys BY <1>15, <2>1, ElemKey
  <2> QED BY <1>1, <2>2, KeysSame, OneKept
<1>19. WorkDone(left, want) /\ work'.it = Adjust(Iter(l, q + m), vals', chain) /\ work'.pc \in {"idle", "range"}
  BY <1>1, ErasedWork
<1>20. next + q \in Nat /\ (next + q) + 1 <= Len(S \o V)
  <2> DEFINE F == FloorHalf
  <2>1. next \in Nat /\ F \in Nat /\ q \in 0 .. F - 1 /\ Len(S \o V) = next + F
    BY <1>1, <1>4, <1>7, <1>10, <1>16
  <2> HIDE DEF F, q
  <2> QED BY <2>1
<1> DEFINE j == next + q
<1>21. j \in Nat /\ j + 1 <= Len(vals[lhs] \o vals[l]) /\ a \o b = CutOut(vals[lhs] \o vals[l], j, 1)
  BY <1>10, <1>15, <1>20, SMTT(60) DEF S, V
<1> HIDE DEF j
<1>22. TreeInv' /\ CutsTwo(vals, vals', chain, lhs, l, j, 1)
  BY <1>1, <1>3, <1>15, <1>16, <1>17, <1>18, <1>19, <1>21, BorrowDone, ZenonT(60)
<1> DEFINE f == Len(Front(vals, chain, lhs))
<1>23. /\ Listed(vals', chain) /\ Flat(vals', chain) = CutOut(Flat(vals, chain), f + j, 1)
       /\ Len(Front(vals, chain, l)) = f + next
       /\ Len(Front(vals', chain, l)) = f + d
       /\ Len(Flat(vals', chain)) = Len(Flat(vals, chain)) - 1
  BY <1>15, <1>17, <1>22 DEF CutsTwo, S, next
<1>24. f \in Nat
  <2>1. Listed(vals, chain) BY <1>3 DEF LeafAt
  <2>2. PICK A, B : Placing(vals, chain, A, lhs, B) BY <1>4, <2>1, PlacingIs
  <2>3. FlatAt(vals, chain, A, lhs, B) BY <2>1, <2>2, FlatsAt
  <2> QED BY <2>3, LenProperties DEF FlatAt
<1> HIDE DEF f
<1>25. Rank(p) = f + j BY <1>5, <1>7, <1>16, <1>23, <1>24 DEF j
<1>26. (f + d) + (q + m) = f + j /\ q + m \in 0 .. Len(b)
  <2> DEFINE F == FloorHalf
  <2>1. next \in Nat /\ m \in Nat /\ d \in Nat /\ next - d = m /\ F \in Nat /\ q \in 0 .. F - 1 /\ f \in Nat /\ j = next + q
        /\ Len(b) = m + (F - 1)
    BY <1>4, <1>7, <1>8, <1>11, <1>16, <1>24 DEF j
  <2> HIDE DEF F, q, j
  <2> QED BY <2>1
<1> DEFINE t == q + m
<1>27. t \in 0 .. Len(vals'[l]) /\ (f + d) + t = f + j /\ work'.it = Adjust(Iter(l, t), vals', chain)
  BY <1>17, <1>19, <1>26
<1> HIDE DEF t
<1>28. \A it : it = work'.it => Held(it)' /\ Rank(it)' = f + j
  <2> TAKE it
  <2> HAVE it = work'.it
  <2>1. it = Adjust(Iter(l, t), vals', chain') /\ l \in DOMAIN vals' /\ t \in 0 .. Len(vals'[l]) /\ TreeInv' /\ root' # NULL
    BY <1>1, <1>4, <1>17, <1>22, <1>27
  <2>2. Held(it)' /\ Rank(it)' = Len(Front(vals', chain', l)) + t
    BY <2>1, HeldThen
  <2> QED BY <1>1, <1>23, <1>27, <2>2
<1>29. Contents' = Flat(vals', chain) BY <1>1 DEF Contents
<1>30. EraseDone(Rank(p), 1)
  BY <1>5, <1>22, <1>23, <1>25, <1>28, <1>29 DEF EraseDone
<1> QED BY <1>19, <1>30, SMTT(60) DEF ErasedAt

LEMMA KeptTwice ==
  ASSUME NEW k, NEW r, NEW s, KeysKept(k, r), KeysKept(r, s)
  PROVE  KeysKept(k, s)
<1>1. DOMAIN s = DOMAIN k /\ DOMAIN r = DOMAIN k BY DEF KeysKept
<1>2. \A x \in DOMAIN k : Kept(k[x], s[x])
  <2> TAKE x \in DOMAIN k
  <2>1. Kept(k[x], r[x]) /\ Kept(r[x], s[x]) BY <1>1, SMTT(60) DEF KeysKept
  <2> QED BY <2>1 DEF Kept
<1> QED BY <1>1, <1>2 DEF KeysKept

LEMMA LeafFromRightDone ==
  ASSUME TreeInv, work.pc \in {"idle", "range"}, use' = use, NEW p, Pointing(p), NEW left \in Nat, NEW want,
         LeafFromRight(p, left, want)
  PROVE  ErasedAt(p, left, want)
<1> DEFINE l    == p.leaf
           q    == p.pos
           par  == parent[l]
           i    == pos[l]
           rhs  == At(sons[par], i + 1)
           S    == vals[rhs]
           next == Len(S)
           m    == Moved(next)
           V    == vals[l]
           c    == Cut(V, q)
           C    == q = 0
           k    == IF C THEN Reseparated(keys, l, KeyOf(c[1])) ELSE keys
           a    == c \o Slice(S, 0, m)
           b    == Slice(S, m, next)
<1>1. /\ root # NULL /\ Len(V) = FloorHalf /\ par # NULL /\ ~UsesLeft(par, i) /\ next # FloorHalf
      /\ vals' = With(vals, Two(l, a, rhs, b))
      /\ keys' = [k EXCEPT ![par] = [@ EXCEPT ![i + 1] = KeyOf(b[1])]]
      /\ work' = Erased(Adjust(p, vals', chain), left, want)
      /\ root' = root /\ base' = base /\ sons' = sons /\ parent' = parent /\ pos' = pos /\ chain' = chain
  BY ZenonT(60) DEF LeafFromRight
<1>2. Repaired(p, l, q) BY <1>1, RepairedIs, ZenonT(60)
<1>3. LeafAt(p, l, q) /\ TwoLeaves(l, rhs, par, i) BY <1>1, <1>2 DEF Repaired
<1> HIDE DEF rhs
<1>4. /\ rhs \in DOMAIN vals /\ l \in DOMAIN vals /\ rhs # l /\ S \in Seq(Elems) /\ V \in Seq(Elems)
      /\ next \in FloorHalf .. N /\ N \in Nat /\ FloorHalf \in Nat /\ FloorHalf >= 2 /\ 2 * FloorHalf <= N
  BY <1>3 DEF TwoLeaves
<1>5. q \in 0 .. Len(V) - 1 /\ Rank(p) = Len(Front(vals, chain, l)) + q /\ Contents = Flat(vals, chain) /\ p = Iter(l, q)
  BY <1>3 DEF LeafAt
<1> HIDE DEF S, V, c
<1>6. use \in Uses BY DEF TreeInv, ShapeInv, Typed
<1>7. next \in Nat /\ next > FloorHalf /\ next <= N
  <2> HIDE DEF next
  <2> QED BY <1>1, <1>4
<1> HIDE DEF next
<1>8. m \in 1 .. next - FloorHalf BY <1>6, <1>7, MovedIs
<1> HIDE DEF m
<1>9. CutOfTwo(S, V, q, Elems) BY <1>4, <1>5, CutsOfTwo
<1>10. /\ c \in Seq(Elems) /\ Len(c) = Len(V) - 1 /\ c \o S = CutOut(V \o S, q, 1) /\ Len(V \o S) = next + Len(V)
  BY <1>9 DEF CutOfTwo, c, next
<1>11. m \in 0 .. Len(S)
  <2>1. m \in 0 .. next BY <1>4, <1>7, <1>8
  <2> QED BY <2>1 DEF next
<1>12. HighBorrow(c, S, m, Elems) BY <1>4, <1>10, <1>11, BorrowsHigh
<1>13. b = Slice(S, m, Len(S)) BY DEF next
<1>14. a \in Seq(Elems) /\ b \in Seq(Elems) /\ a \o b = c \o S /\ Len(a) = Len(c) + m /\ Len(b) = next - m
  BY <1>12, <1>13 DEF HighBorrow, next
<1> HIDE DEF a, b
<1>15. Len(a) \in FloorHalf .. N /\ Len(b) \in FloorHalf .. N /\ q \in 0 .. Len(a) /\ q \in Nat /\ q + 1 <= Len(V \o S)
  <2> DEFINE F == FloorHalf
  <2>1. next \in Nat /\ next <= N /\ m \in 1 .. next - F /\ F \in Nat /\ F >= 2 /\ 2 * F <= N /\ N \in Nat /\ q \in 0 .. F - 1
        /\ Len(a) = (F - 1) + m /\ Len(b) = next - m /\ Len(V \o S) = next + F
    BY <1>1, <1>4, <1>5, <1>7, <1>8, <1>10, <1>14
  <2> HIDE DEF F, q
  <2>2. Len(a) \in F .. N /\ Len(b) \in F .. N /\ q \in 0 .. Len(a) /\ q \in Nat /\ q + 1 <= Len(V \o S)
    BY <2>1
  <2> QED BY <2>2 DEF F
<1>16. /\ DOMAIN vals' = DOMAIN vals /\ vals'[rhs] = b /\ vals'[l] = a
       /\ \A z \in DOMAIN vals \ {l, rhs} : vals'[z] = vals[z]
  BY <1>1, <1>4 DEF With, Two
<1>17. KeysKept(keys, keys')
  <2>1. Len(b) # 0 /\ Len(c) # 0 BY <1>1, <1>4, <1>10, <1>15, SMTT(60)
  <2>2. KeyOf(b[1]) \in Keys BY <1>14, <2>1, ElemKey
  <2> HIDE DEF k, C
  <2>3. C \in BOOLEAN /\ k = IF C THEN Reseparated(keys, l, KeyOf(c[1])) ELSE keys
    BY DEF C, k
  <2>4. KeysKept(keys, k) BY <1>10, <2>1, <2>3, ResepKept
  <2>5. \A n \in DOMAIN k : k[n] \in Seq(Keys) BY <2>4 DEF KeysKept, Kept
  <2>6. KeysKept(k, keys') BY <1>1, <2>2, <2>5, OneKept
  <2> QED BY <2>4, <2>6, KeptTwice
<1>18. WorkDone(left, want) /\ work'.it = Adjust(p, vals', chain) /\ work'.pc \in {"idle", "range"}
  BY <1>1, ErasedWork
<1>19. q \in Nat /\ q + 1 <= Len(vals[l] \o vals[rhs]) /\ a \o b = CutOut(vals[l] \o vals[rhs], q, 1)
  BY <1>10, <1>14, <1>15, SMTT(60) DEF S, V
<1> HIDE DEF q
<1>20. TreeInv' /\ CutsTwo(vals, vals', chain, l, rhs, q, 1)
  BY <1>1, <1>3, <1>14, <1>15, <1>16, <1>17, <1>18, <1>19, BorrowDone, ZenonT(60)
<1> DEFINE f == Len(Front(vals, chain, l))
<1>21. /\ Flat(vals', chain) = CutOut(Flat(vals, chain), f + q, 1)
       /\ Len(Front(vals', chain, l)) = f
       /\ Len(Flat(vals', chain)) = Len(Flat(vals, chain)) - 1
  BY <1>20 DEF CutsTwo
<1> HIDE DEF f
<1>22. \A it : it = work'.it => Held(it)' /\ Rank(it)' = f + q
  <2> TAKE it
  <2> HAVE it = work'.it
  <2>1. it = Adjust(Iter(l, q), vals', chain') /\ l \in DOMAIN vals' /\ q \in 0 .. Len(vals'[l]) /\ TreeInv' /\ root' # NULL
    BY <1>1, <1>4, <1>5, <1>15, <1>16, <1>18, <1>20
  <2>2. Held(it)' /\ Rank(it)' = Len(Front(vals', chain', l)) + q
    BY <2>1, HeldThen
  <2> QED BY <1>1, <1>21, <2>2
<1>23. Contents' = Flat(vals', chain) /\ Rank(p) = f + q
  BY <1>1, <1>5 DEF Contents, f
<1>24. EraseDone(Rank(p), 1) BY <1>5, <1>20, <1>21, <1>22, <1>23 DEF EraseDone
<1> QED BY <1>18, <1>24 DEF ErasedAt

LEMMA MergedWork ==
  ASSUME NEW it, NEW left \in Nat, NEW want, NEW par, NEW a \in Nat,
         work' = [Erased(it, left, want) EXCEPT !.pc = "rebalance", !.cur = par, !.at = a]
  PROVE  WorkDone(left, want) /\ work'.it = it /\ work'.pc = "rebalance" /\ work'.cur = par /\ work'.at = a
<1>1. /\ work'.pc = "rebalance" /\ work'.left = left /\ work'.want = want /\ work'.it = it
      /\ work'.cur = par /\ work'.inst = NULL /\ work'.key = NULL /\ work'.at = a
  BY DEF Erased, Returned
<1>2. Working' BY <1>1 DEF Working, Pcs
<1> QED BY <1>1, <1>2 DEF WorkDone

(* A leaf goes. *)
LEMMA LeafGoneTree ==
  ASSUME TreeInv, root # NULL, ShapeInv', work'.pc = "rebalance", use' = use, root' = root, base' = base, NEW y,
         DOMAIN vals' = DOMAIN vals \ {y}, Nodes' = Nodes \ {y}, y \in DOMAIN vals, DOMAIN sons' = DOMAIN sons,
         KeysKept(keys, keys'), \A n \in Inners : Len(sons'[n]) = Len(sons[n]), Listed(vals', chain'),
         \A l \in DOMAIN vals' : Len(vals'[l]) <= N /\ (l # root => Len(vals'[l]) >= FloorHalf)
  PROVE  TreeInv'
<1>1. ShapeInv /\ Filled /\ Sized /\ Typed /\ use \in Uses
  BY DEF TreeInv, ShapeInv, Typed
<1>2. /\ Nodes = DOMAIN vals \cup Inners /\ DOMAIN vals \cap Inners = {} /\ Inners' = Inners
      /\ N' = N /\ FloorHalf' = FloorHalf /\ N \in Nat
  BY <1>1, Halves DEF Typed, Inners, KeysKept, N, FloorHalf
<1>3. \A n \in Inners : keys'[n] \in Seq(Keys) /\ Len(keys'[n]) = Len(keys[n])
  BY DEF KeysKept, Kept, Inners
<1>4. Keys' = Keys /\ Elems' = Elems BY DEF Keys, Elems
<1>5. \A l \in DOMAIN vals' : vals'[l] \in Seq(Elems) /\ Len(vals'[l]) # 0
  BY DEF Listed
<1>6. Filled' BY <1>1, <1>2, <1>3, <1>4, <1>5 DEF Filled
<1>7. \A l \in DOMAIN vals' : SizeOf(l)' = Len(vals'[l]) /\ Len(vals'[l]) \in 1 .. N
  <2> TAKE l \in DOMAIN vals'
  <2>1. Len(vals'[l]) \in Nat /\ Len(vals'[l]) # 0 BY <1>5, LenProperties
  <2> QED BY <1>2, <2>1 DEF SizeOf, IsLeaf
<1>8. \A n \in Inners : SizeOf(n)' = SizeOf(n)
  <2> TAKE n \in Inners
  <2>1. n \notin DOMAIN vals /\ n \notin DOMAIN vals' BY <1>2
  <2> QED BY <1>3, <2>1 DEF SizeOf, IsLeaf
<1>9. Sized' BY <1>1, <1>2, <1>7, <1>8 DEF Sized
<1> QED BY <1>6, <1>9 DEF TreeInv

LEMMA MergeDone ==
  ASSUME TreeInv, work.pc \in {"idle", "range"}, root # NULL, use' = use,
         NEW x, NEW y, NEW par, NEW i, TwoLeaves(x, y, par, i), KeysKept(keys, keys'),
         NEW v \in Seq(Elems), Len(v) \in FloorHalf .. N, NEW j \in Nat, j + 1 <= Len(vals[x] \o vals[y]),
         v = CutOut(vals[x] \o vals[y], j, 1), j \in 0 .. Len(v),
         NEW left \in Nat, NEW want, LeafMerged(x, v, y, par, i + 1, Iter(x, j), left, want),
         NEW p, Rank(p) = Len(Front(vals, chain, x)) + j
  PROVE  ErasedAt(p, left, want)
<1>1. /\ vals' = Without([vals EXCEPT ![x] = v], y)
      /\ parent' = Without(parent, y) /\ pos' = Without(pos, y) /\ chain' = Unlinked(chain, y)
      /\ root' = root /\ base' = base /\ sons' = sons
  BY DEF LeafMerged
<1>2. work' = [Erased(Adjust(Iter(x, j), vals', chain'), left, want) EXCEPT !.pc = "rebalance", !.cur = par, !.at = i + 1]
  BY DEF LeafMerged
<1>3. /\ Beside(x, y, par, i) /\ x \in DOMAIN vals /\ y \in DOMAIN vals /\ x # y /\ par \in Inners
      /\ N \in Nat /\ FloorHalf \in Nat /\ FloorHalf >= 2
  BY DEF TwoLeaves
<1>4. i + 1 \in Nat
  <2>1. i \in 0 .. Len(sons[par]) - 2 BY <1>3 DEF Beside
  <2> QED BY <2>1
<1>5. WorkDone(left, want) /\ work'.it = Adjust(Iter(x, j), vals', chain') /\ work'.pc = "rebalance"
  <2> DEFINE it == Adjust(Iter(x, j), vals', chain')
             a == i + 1
  <2>1. a \in Nat /\ work' = [Erased(it, left, want) EXCEPT !.pc = "rebalance", !.cur = par, !.at = a]
    BY <1>2, <1>4
  <2> HIDE DEF it, a
  <2>2. WorkDone(left, want) /\ work'.it = it /\ work'.pc = "rebalance"
    BY <2>1, MergedWork
  <2> QED BY <2>2 DEF it
<1>6. ShapeInv'
  <2>1. ShapeInv /\ DOMAIN keys' = DOMAIN keys BY DEF TreeInv, KeysKept
  <2> DEFINE it == Iter(x, j)
  <2>2. LeafMerged(x, v, y, par, i + 1, it, left, want) OBVIOUS
  <2> HIDE DEF it
  <2> QED BY <1>3, <2>1, <2>2, MergedShape
<1>7. /\ DOMAIN vals' = DOMAIN vals \ {y} /\ vals'[x] = v /\ \A z \in DOMAIN vals \ {x, y} : vals'[z] = vals[z]
  BY <1>1, <1>3 DEF Without
<1>8. Listed(vals, chain) BY ChainListed
<1>9. PICK A, B : PlacingTwo(vals, chain, A, x, y, B) BY <1>3, LeavesBeside
<1> DEFINE one == 1
<1>10. one \in Nat /\ j + one <= Len(vals[x] \o vals[y]) /\ vals'[x] = CutOut(vals[x] \o vals[y], j, one)
  BY <1>7
<1>11. Len(vals'[x]) # 0 /\ Len(v) <= N /\ Len(v) >= FloorHalf /\ Len(v) \in Nat
  BY <1>3, <1>7
<1> HIDE DEF one
<1>12. CutsMerge(vals, vals', chain, Unlinked(chain, y), x, y, j, one)
  BY <1>7, <1>8, <1>9, <1>10, <1>11, CutMerge
<1> DEFINE f == Len(Front(vals, chain, x))
<1>13. /\ Listed(vals', chain') /\ Flat(vals', chain') = CutOut(Flat(vals, chain), f + j, 1)
       /\ Len(Front(vals', chain', x)) = f
       /\ Len(Flat(vals', chain')) = Len(Flat(vals, chain)) - 1
  BY <1>1, <1>12 DEF CutsMerge, one
<1> HIDE DEF f
<1>14. \A z \in DOMAIN vals' : Len(vals'[z]) <= N /\ (z # root => Len(vals'[z]) >= FloorHalf)
  <2> TAKE z \in DOMAIN vals'
  <2>1. CASE z = x BY <1>7, <1>11, <2>1
  <2>2. CASE z # x
    <3>1. vals'[z] = vals[z] /\ Len(vals[z]) \in 1 .. N /\ SizeOf(z) = Len(vals[z]) /\ z \in Nodes
      BY <1>7, <2>2, LeafHolds DEF TreeInv
    <3>2. z # root => SizeOf(z) >= FloorHalf BY <3>1 DEF TreeInv, Sized
    <3> QED BY <1>3, <3>1, <3>2
  <2> QED BY <2>1, <2>2
<1>15. Nodes' = Nodes \ {y} BY <1>1 DEF Nodes, Without
<1>16. TreeInv'
  BY <1>1, <1>3, <1>5, <1>6, <1>7, <1>13, <1>14, <1>15, LeafGoneTree
<1>17. \A it : it = work'.it => Held(it)' /\ Rank(it)' = f + j
  <2> TAKE it
  <2> HAVE it = work'.it
  <2>1. it = Adjust(Iter(x, j), vals', chain') /\ x \in DOMAIN vals' /\ j \in 0 .. Len(vals'[x]) /\ TreeInv' /\ root' # NULL
    BY <1>1, <1>3, <1>5, <1>7, <1>16
  <2>2. Held(it)' /\ Rank(it)' = Len(Front(vals', chain', x)) + j
    BY <2>1, HeldThen
  <2> QED BY <1>13, <2>2
<1>18. Contents' = Flat(vals', chain') /\ Contents = Flat(vals, chain) /\ Rank(p) = f + j
  BY <1>1 DEF Contents, f
<1>19. EraseDone(Rank(p), 1) BY <1>13, <1>16, <1>17, <1>18 DEF EraseDone
<1> QED BY <1>5, <1>19 DEF ErasedAt

LEMMA LeafIntoLeftDone ==
  ASSUME TreeInv, work.pc \in {"idle", "range"}, use' = use, NEW p, Pointing(p), NEW left \in Nat, NEW want,
         LeafIntoLeft(p, left, want)
  PROVE  ErasedAt(p, left, want)
<1> DEFINE l    == p.leaf
           q    == p.pos
           par  == parent[l]
           i    == pos[l] - 1
           lhs  == At(sons[par], pos[l] - 1)
           S    == vals[lhs]
           V    == vals[l]
           v    == S \o Cut(V, q)
           j    == FloorHalf + q
<1>1. /\ root # NULL /\ Len(V) = FloorHalf /\ par # NULL /\ UsesLeft(par, pos[l]) /\ Len(S) = FloorHalf
      /\ LeafMerged(lhs, v, l, par, pos[l], Iter(lhs, q + FloorHalf), left, want) /\ keys' = keys
  BY DEF LeafIntoLeft
<1>2. Repaired(p, l, q) BY <1>1, RepairedIs
<1>3. LeafAt(p, l, q) /\ TwoLeaves(lhs, l, par, i) BY <1>1, <1>2 DEF Repaired
<1> HIDE DEF lhs
<1>4. /\ lhs \in DOMAIN vals /\ l \in DOMAIN vals /\ lhs # l /\ S \in Seq(Elems) /\ V \in Seq(Elems)
      /\ N \in Nat /\ FloorHalf \in Nat /\ FloorHalf >= 2 /\ 2 * FloorHalf <= N
  BY <1>3 DEF TwoLeaves
<1>5. q \in 0 .. Len(V) - 1 /\ Rank(p) = Len(Front(vals, chain, l)) + q
  BY <1>3 DEF LeafAt
<1>6. i + 1 = pos[l]
  <2>1. i \in 0 .. Len(sons[par]) - 2 /\ pos[l] = i + 1
    BY <1>3 DEF TwoLeaves, Beside
  <2> QED BY <2>1
<1> HIDE DEF S, V, i
<1>7. CutOfTwo(S, V, q, Elems) BY <1>4, <1>5, CutsOfTwo
<1>8. /\ Cut(V, q) \in Seq(Elems) /\ Len(Cut(V, q)) = Len(V) - 1 /\ v = CutOut(S \o V, Len(S) + q, 1)
      /\ Len(S \o V) = Len(S) + Len(V)
  BY <1>7 DEF CutOfTwo
<1>9. v \in Seq(Elems) /\ Len(v) = Len(S) + Len(Cut(V, q))
  BY <1>4, <1>8, ConcatType, ConcatProperties
<1> HIDE DEF v, q
<1>10. j \in Nat /\ j + 1 <= Len(S \o V) /\ j \in 0 .. Len(v) /\ Len(v) \in FloorHalf .. N /\ q + FloorHalf = j
  <2> DEFINE F == FloorHalf
  <2>1. F \in Nat /\ F >= 2 /\ 2 * F <= N /\ N \in Nat /\ q \in 0 .. F - 1 /\ Len(v) = F + (F - 1) /\ Len(S \o V) = F + F
        /\ j = F + q
    BY <1>1, <1>4, <1>5, <1>8, <1>9
  <2> HIDE DEF F, j
  <2>2. j \in Nat /\ j + 1 <= Len(S \o V) /\ j \in 0 .. Len(v) /\ Len(v) \in F .. N /\ q + F = j
    BY <2>1
  <2> QED BY <2>2 DEF F
<1>11. v = CutOut(S \o V, j, 1) BY <1>1, <1>8
<1> HIDE DEF j
<1>12. LeafMerged(lhs, v, l, par, i + 1, Iter(lhs, j), left, want)
  BY <1>1, <1>6, <1>10
<1>13. v = CutOut(vals[lhs] \o vals[l], j, 1) /\ j + 1 <= Len(vals[lhs] \o vals[l])
  BY <1>10, <1>11 DEF S, V
<1>14. KeysKept(keys, keys') BY <1>1, KeysSame
<1>15. Rank(p) = Len(Front(vals, chain, lhs)) + j
  <2>1. Listed(vals, chain) BY <1>3 DEF LeafAt
  <2>2. PICK A, B : PlacingTwo(vals, chain, A, lhs, l, B)
    BY <1>1, <1>3, LeavesBeside DEF TwoLeaves
  <2>3. FlatAtTwo(vals, chain, A, lhs, l, B) BY <2>1, <2>2, FlatsAtTwo
  <2> DEFINE f == Len(Front(vals, chain, lhs))
  <2>4. Len(Front(vals, chain, l)) = f + Len(S) /\ f \in Nat
    BY <2>3, LenProperties DEF FlatAtTwo, S
  <2> HIDE DEF f
  <2>5. Rank(p) = (f + FloorHalf) + q /\ q \in Nat BY <1>1, <1>5, <2>4
  <2>6. Rank(p) = f + j BY <1>4, <2>4, <2>5 DEF j
  <2> QED BY <2>6 DEF f
<1> QED BY <1>1, <1>3, <1>9, <1>10, <1>12, <1>13, <1>14, <1>15, MergeDone

LEMMA LeafIntoRightDone ==
  ASSUME TreeInv, work.pc \in {"idle", "range"}, use' = use, NEW p, Pointing(p), NEW left \in Nat, NEW want,
         LeafIntoRight(p, left, want)
  PROVE  ErasedAt(p, left, want)
<1> DEFINE l    == p.leaf
           q    == p.pos
           par  == parent[l]
           i    == pos[l]
           rhs  == At(sons[par], pos[l] + 1)
           S    == vals[rhs]
           V    == vals[l]
           c    == Cut(V, q)
           C    == q = 0
           v    == c \o S
<1>1. /\ root # NULL /\ Len(V) = FloorHalf /\ par # NULL /\ ~UsesLeft(par, pos[l]) /\ Len(S) = FloorHalf
      /\ keys' = IF C THEN Reseparated(keys, l, KeyOf(c[1])) ELSE keys
      /\ LeafMerged(l, v, rhs, par, i + 1, p, left, want)
  BY DEF LeafIntoRight
<1>2. Repaired(p, l, q) BY <1>1, RepairedIs
<1>3. LeafAt(p, l, q) /\ TwoLeaves(l, rhs, par, i) BY <1>1, <1>2 DEF Repaired
<1> HIDE DEF rhs
<1>4. /\ rhs \in DOMAIN vals /\ l \in DOMAIN vals /\ rhs # l /\ S \in Seq(Elems) /\ V \in Seq(Elems)
      /\ N \in Nat /\ FloorHalf \in Nat /\ FloorHalf >= 2 /\ 2 * FloorHalf <= N
  BY <1>3 DEF TwoLeaves
<1>5. q \in 0 .. Len(V) - 1 /\ Rank(p) = Len(Front(vals, chain, l)) + q /\ p = Iter(l, q)
  BY <1>3 DEF LeafAt
<1> HIDE DEF S, V
<1>6. CutOfTwo(S, V, q, Elems) BY <1>4, <1>5, CutsOfTwo
<1>7. /\ c \in Seq(Elems) /\ Len(c) = Len(V) - 1 /\ v = CutOut(V \o S, q, 1)
      /\ Len(V \o S) = Len(S) + Len(V)
  BY <1>6 DEF CutOfTwo
<1> HIDE DEF c
<1>8. v \in Seq(Elems) /\ Len(v) = Len(c) + Len(S)
  BY <1>4, <1>7, ConcatType, ConcatProperties
<1> HIDE DEF v, q
<1>9. q \in Nat /\ q + 1 <= Len(V \o S) /\ q \in 0 .. Len(v) /\ Len(v) \in FloorHalf .. N /\ Len(c) # 0
  <2> DEFINE F == FloorHalf
  <2>1. F \in Nat /\ F >= 2 /\ 2 * F <= N /\ N \in Nat /\ q \in 0 .. F - 1 /\ Len(v) = (F - 1) + F /\ Len(V \o S) = F + F
        /\ Len(c) = F - 1
    BY <1>1, <1>4, <1>5, <1>7, <1>8
  <2> HIDE DEF F
  <2>2. q \in Nat /\ q + 1 <= Len(V \o S) /\ q \in 0 .. Len(v) /\ Len(v) \in F .. N /\ Len(c) # 0
    BY <2>1
  <2> QED BY <2>2 DEF F
<1>10. LeafMerged(l, v, rhs, par, i + 1, Iter(l, q), left, want) BY <1>1, <1>5
<1>11. v = CutOut(vals[l] \o vals[rhs], q, 1) /\ q + 1 <= Len(vals[l] \o vals[rhs])
  BY <1>7, <1>9 DEF S, V
<1>12. KeysKept(keys, keys')
  <2>1. C \in BOOLEAN BY DEF C
  <2> HIDE DEF C
  <2> QED BY <1>1, <1>7, <1>9, <2>1, ResepKept
<1> QED BY <1>1, <1>3, <1>5, <1>8, <1>9, <1>10, <1>11, <1>12, MergeDone

LEMMA EraseWholeLeafDone ==
  ASSUME InRange, EraseWholeLeaf
  PROVE  \E g \in Nat : g <= work.left /\ PieceDone(g) /\ size' = size - g
<1> DEFINE p    == work.it
           l    == p.leaf
           par  == parent[l]
           succ == At(sons[par], 1)
           V    == vals[l]
           g    == Len(V)
           it   == Iter(NextLeaf(chain, l), 0)
           left == work.left - g
           a    == IF pos[l] = 0 THEN 1 ELSE pos[l]
<1>1. /\ root # NULL /\ p.pos = 0 /\ work.left >= g /\ par # NULL /\ root' = root /\ base' = base /\ use' = use
      /\ size' = size - g /\ vals' = Without(vals, l) /\ parent' = Without(parent, l) /\ chain' = Unlinked(chain, l)
      /\ work' = [Erased(it, left, work.want) EXCEPT !.pc = "rebalance", !.cur = par, !.at = a]
  BY DEF EraseWholeLeaf, WholeLeafDue, In
<1>2. RangeAt(p) BY RangesAt
<1>3. Pointing(p) /\ Rank(p) = work.want /\ work.left \in Nat /\ TreeInv /\ work.pc \in {"idle", "range"}
  BY <1>2 DEF RangeAt
<1>4. LeafAt(p, l, 0) BY <1>1, <1>3, LeafsAt
<1>5. l \in DOMAIN vals /\ V \in Seq(Elems) /\ Len(V) \in 1 .. N /\ N \in Nat /\ FloorHalf \in Nat
      /\ Rank(p) = Len(Front(vals, chain, l)) + 0 /\ Contents = Flat(vals, chain) /\ Listed(vals, chain)
  BY <1>4 DEF LeafAt
<1>6. ShapeInv /\ Filled /\ Sized /\ Typed /\ work.pc # "ascend" /\ work.pc \in Pcs /\ work.pc # "rebalance" /\ l \in Nodes
  BY <1>3, <1>5, LeafHolds DEF TreeInv, Pcs, ShapeInv
<1>7. par \in Inners BY <1>1, <1>6 DEF Typed
<1>8. Len(keys[par]) \in 1 .. N /\ Len(sons[par]) = Len(keys[par]) + 1
  BY <1>6, <1>7, SonsMany
<1>9. Len(sons[par]) >= 2 /\ 0 \in 0 .. Len(sons[par]) - 2 /\ Len(sons[par]) \in Nat
  <2> DEFINE n == Len(sons[par])
             k == Len(keys[par])
  <2>1. k \in 1 .. N /\ n = k + 1 /\ N \in Nat BY <1>5, <1>8
  <2> HIDE DEF n, k
  <2>2. n >= 2 /\ 0 \in 0 .. n - 2 /\ n \in Nat BY <2>1
  <2> QED BY <2>2 DEF n
<1>10. ShapeInv' BY <1>3, <1>5, <1>6, <1>9, WholeLeafShape
<1>11. pos[l] \in Nat
  <2>1. pos[l] \in 0 .. N BY <1>6 DEF Typed
  <2> QED BY <2>1
<1>12. ASSUME pos[l] = 0
       PROVE  succ \in DOMAIN vals
  <2>1. IsSon(l, par) BY <1>1, <1>6, SonHome
  <2>2. At(sons[par], 0) = l BY <1>12, <2>1 DEF IsSon
  <2>3. Beside(At(sons[par], 0), At(sons[par], 0 + 1), par, 0)
    <3> DEFINE z == 0
    <3>1. z \in 0 .. Len(sons[parent[l]]) - 2 /\ z = pos[l] BY <1>9, <1>12
    <3> HIDE DEF z
    <3>2. Beside(At(sons[par], z), At(sons[par], z + 1), par, z)
      BY <1>1, <1>6, <3>1, BesideIs
    <3> QED BY <3>2 DEF z
  <2>4. Beside(l, succ, par, 0) BY <2>2, <2>3
  <2>5. l \in Inners <=> succ \in Inners BY <1>1, <1>6, <2>4, SameKind
  <2>6. succ \in Nodes BY <2>4 DEF Beside
  <2> QED BY <1>5, <1>6, <2>5, <2>6 DEF Typed
<1>13. KeysKept(keys, keys') /\ DOMAIN sons' = DOMAIN sons /\ \A n \in Inners : Len(sons'[n]) = Len(sons[n])
  <2>1. CASE pos[l] = 0
    <3>1. keys' = Reseparated(keys, par, KeyOf(vals[succ][1])) /\ sons' = [sons EXCEPT ![par] = [@ EXCEPT ![1] = succ]]
      BY <2>1 DEF EraseWholeLeaf
    <3>2. vals[succ] \in Seq(Elems) /\ Len(vals[succ]) # 0
      BY <1>5, <1>12, <2>1 DEF Listed
    <3>3. KeyOf(vals[succ][1]) \in Keys BY <3>2, ElemKey, SMTT(60)
    <3>4. KeysKept(keys, keys') BY <1>3, <3>1, <3>3, KeysSame, ReseparatedKept
    <3>5. \A n \in Inners : Len(sons'[n]) = Len(sons[n])
      <4> TAKE n \in Inners
      <4>1. sons[n] \in Seq(Nat) /\ DOMAIN sons = Inners BY <1>6 DEF Typed
      <4>2. CASE n = par
        <5> DEFINE t == [sons[par] EXCEPT ![1] = At(sons[par], 1)]
        <5>1. Len(t) = Len(sons[par]) BY <1>9, <4>1, <4>2, DoubledCut, SMTT(60)
        <5>2. sons'[n] = t BY <3>1, <4>1, <4>2, SMTT(60)
        <5> QED BY <4>2, <5>1, <5>2
      <4>3. CASE n # par BY <3>1, <4>1, <4>3
      <4> QED BY <4>2, <4>3
    <3> QED BY <3>1, <3>4, <3>5, ZenonT(60)
  <2>2. CASE pos[l] # 0 BY <1>3, <2>2, KeysSame DEF EraseWholeLeaf
  <2> QED BY <2>1, <2>2, SMTT(60)
<1>14. /\ DOMAIN vals' = DOMAIN vals \ {l} /\ (\A z \in DOMAIN vals \ {l} : vals'[z] = vals[z]) /\ Nodes' = Nodes \ {l}
  BY <1>1 DEF Without, Nodes
<1>15. CutsWhole(vals, vals', chain, Unlinked(chain, l), l)
  BY <1>5, <1>14, CutWhole
<1>16. /\ Listed(vals', chain') /\ Flat(vals', chain') = CutOut(Flat(vals, chain), Len(Front(vals, chain, l)), g)
       /\ Len(Flat(vals', chain')) = Len(Flat(vals, chain)) - g
       /\ it = Iter(NULL, 0) \/ Points(vals', it)
       /\ RankIn(vals', chain', it) = Len(Front(vals, chain, l))
  BY <1>1, <1>15 DEF CutsWhole
<1>17. work'.it = it /\ WorkDone(left, work.want) /\ work'.pc = "rebalance"
  <2> DEFINE w == work.want
  <2>1. a \in Nat BY <1>11
  <2>2. left \in Nat
    <3>1. g \in Nat BY <1>5, LenProperties
    <3> HIDE DEF g
    <3> QED BY <1>1, <1>3, <3>1
  <2>3. work' = [Erased(it, left, w) EXCEPT !.pc = "rebalance", !.cur = par, !.at = a]
    BY <1>1
  <2> HIDE DEF it, left, w, a, par
  <2>4. WorkDone(left, w) /\ work'.it = it /\ work'.pc = "rebalance"
    BY <2>1, <2>2, <2>3, MergedWork
  <2> QED BY <2>4 DEF w
<1>18. \A z \in DOMAIN vals' : Len(vals'[z]) <= N /\ (z # root => Len(vals'[z]) >= FloorHalf)
  <2> TAKE z \in DOMAIN vals'
  <2>1. vals'[z] = vals[z] /\ Len(vals[z]) \in 1 .. N /\ SizeOf(z) = Len(vals[z]) /\ z \in Nodes
    BY <1>6, <1>14, LeafHolds
  <2>2. z # root => SizeOf(z) >= FloorHalf BY <1>6, <2>1, SMTT(60) DEF Sized
  <2> QED BY <1>5, <2>1, <2>2
<1>19. TreeInv'
  BY <1>1, <1>3, <1>5, <1>10, <1>13, <1>14, <1>16, <1>17, <1>18, LeafGoneTree
<1> HIDE DEF it
<1>20. Held(work.it)' BY <1>1, <1>16, <1>17 DEF Held, it
<1>21. Rank(work.it)' = RankIn(vals', chain', it)
  BY <1>1, <1>17 DEF Rank, RankIn, Front, Contents
<1>22. Contents' = Flat(vals', chain') BY <1>1 DEF Contents
<1> DEFINE f == Len(Front(vals, chain, l))
<1>23. f \in Nat
  <2>1. PICK A, B : Placing(vals, chain, A, l, B) BY <1>5, PlacingIs
  <2>2. FlatAt(vals, chain, A, l, B) BY <1>5, <2>1, FlatsAt
  <2> QED BY <2>2, LenProperties DEF FlatAt
<1> HIDE DEF f
<1>24. work.want = f
  <2>1. work.want = f + 0 BY <1>3, <1>5 DEF f
  <2> QED BY <1>23, <2>1
<1>25. EraseDone(work.want, g)
  BY <1>5, <1>16, <1>19, <1>20, <1>21, <1>22, <1>24 DEF EraseDone, f
<1>26. PieceDone(g) BY <1>17, <1>25 DEF PieceDone
<1>27. g \in Nat BY <1>5, LenProperties
<1> QED BY <1>1, <1>26, <1>27, SMTT(60)

LEMMA EraseAtDone ==
  ASSUME TreeInv, work.pc \in {"idle", "range"}, use' = use, NEW p, Pointing(p), NEW left \in Nat, NEW want,
         EraseAt(p, left, want)
  PROVE  ErasedAt(p, left, want) /\ size' = size - 1
<1>1. CASE EraseSmall(p, left, want) BY <1>1, EraseSmallDone DEF EraseAt
<1>2. CASE EraseRoom(p, left, want) BY <1>2, EraseRoomDone DEF EraseAt
<1>3. CASE EraseRootLeaf(p, left, want) BY <1>3, EraseRootLeafDone DEF EraseAt
<1>4. CASE LeafFromLeft(p, left, want) BY <1>4, LeafFromLeftDone DEF EraseAt
<1>5. CASE LeafIntoLeft(p, left, want) BY <1>5, LeafIntoLeftDone DEF EraseAt
<1>6. CASE LeafFromRight(p, left, want) BY <1>6, LeafFromRightDone DEF EraseAt
<1>7. CASE LeafIntoRight(p, left, want) BY <1>7, LeafIntoRightDone DEF EraseAt
<1> QED BY <1>1, <1>2, <1>3, <1>4, <1>5, <1>6, <1>7 DEF EraseAt

LEMMA EraseOneDone ==
  ASSUME InRange, EraseOne
  PROVE  \E g \in Nat : g <= work.left /\ PieceDone(g) /\ size' = size - g
<1> DEFINE p == work.it
           w == work.want
           d == work.left - 1
<1>1. use' = use /\ EraseAt(p, d, w) BY DEF EraseOne, In
<1>2. RangeAt(p) BY RangesAt
<1>3. Pointing(p) /\ Rank(p) = w /\ work.left \in Nat /\ work.left # 0 /\ TreeInv /\ work.pc \in {"idle", "range"}
  BY <1>2 DEF RangeAt
<1>4. d \in Nat BY <1>3
<1> HIDE DEF p, w, d
<1>5. ErasedAt(p, d, w) /\ size' = size - 1 BY <1>1, <1>3, <1>4, EraseAtDone
<1>6. EraseDone(w, 1) /\ WorkDone(d, w) BY <1>3, <1>5 DEF ErasedAt
<1>7. PieceDone(1) BY <1>6 DEF PieceDone, w, d
<1>8. 1 \in Nat /\ 1 <= work.left BY <1>3
<1> QED BY <1>5, <1>7, <1>8

LEMMA RangeStep ==
  ASSUME InRange, RangeLoop
  PROVE  \E g \in Nat : g <= work.left /\ PieceDone(g) /\ size' = size - g
BY EraseOneDone, ErasePartDone, EraseWholeLeafDone DEF RangeLoop

LEMMA ContentsIs ==
  ASSUME TreeInv
  PROVE  Contents \in Seq(Elems) /\ Len(Contents) \in Nat
<1>1. CASE root = NULL BY <1>1, LenProperties DEF Contents, TreeInv, Filled
<1>2. CASE root # NULL
  BY <1>2, ChainListed, ListedGives, LenProperties DEF Contents
<1> QED BY <1>1, <1>2

(* What a removal leaves. *)
LEMMA AfterErase ==
  ASSUME TreeInv, size = Len(Contents), NEW r \in Nat, NEW g \in Nat, NEW left \in Nat, EraseDone(r, g), WorkDone(left, r),
         size' = size - g, r + g + left <= Len(Contents)
  PROVE  IInv'
<1>1. /\ TreeInv' /\ Len(Contents') = Len(Contents) - g /\ Held(work.it)' /\ Rank(work.it)' = r
  BY DEF EraseDone
<1>2. Working' /\ work'.left = left /\ work'.want = r BY DEF WorkDone
<1>3. Len(Contents) \in Nat BY ContentsIs
<1>4. r + left <= Len(Contents') /\ size' = Len(Contents') BY <1>1, <1>3
<1>5. Ranks' BY <1>1, <1>2, <1>4 DEF Ranks
<1> QED BY <1>1, <1>2, <1>5 DEF IInv

LEMMA RangeInv ==
  ASSUME InRange, RangeLoop
  PROVE  IInv'
<1>1. PICK g \in Nat : g <= work.left /\ PieceDone(g) /\ size' = size - g
  BY RangeStep
<1>2. RangeAt(work.it) BY RangesAt
<1>3. TreeInv /\ work.left \in Nat /\ work.want \in Nat /\ work.want + work.left <= Len(Contents) /\ size = Len(Contents)
      /\ Len(Contents) \in Nat
  BY <1>2 DEF RangeAt
<1> DEFINE w == work.want
           d == work.left - g
<1>4. w \in Nat /\ d \in Nat /\ w + g + d <= Len(Contents)
  BY <1>1, <1>3, SMTT(60)
<1>5. EraseDone(w, g) /\ WorkDone(d, w) BY <1>1 DEF PieceDone
<1> HIDE DEF w, d
<1> QED BY <1>1, <1>3, <1>4, <1>5, AfterErase

LEMMA PointingRank ==
  ASSUME TreeInv, NEW p, Pointing(p)
  PROVE  Rank(p) \in Nat /\ Rank(p) + 1 <= Len(Contents)
<1>1. CASE root = NULL
  <2>1. PICK i \in 0 .. Len(base) - 1 : p = Iter(NULL, i) BY <1>1 DEF Pointing
  <2>2. Rank(p) = i /\ Contents = base BY <1>1, <2>1 DEF Rank, Iter, Contents
  <2>3. Len(base) \in Nat BY LenProperties DEF TreeInv, Filled
  <2> QED BY <2>2, <2>3
<1>2. CASE root # NULL
  <2> DEFINE l == p.leaf
             i == p.pos
  <2>1. LeafAt(p, l, i) BY <1>2, LeafsAt
  <2>2. /\ l \in DOMAIN vals /\ i \in 0 .. Len(vals[l]) - 1 /\ Listed(vals, chain) /\ Rank(p) = Len(Front(vals, chain, l)) + i
        /\ Contents = Flat(vals, chain) /\ vals[l] \in Seq(Elems)
    BY <2>1 DEF LeafAt
  <2>3. PICK A, B : Placing(vals, chain, A, l, B) BY <2>2, PlacingIs
  <2>4. FlatAt(vals, chain, A, l, B) BY <2>2, <2>3, FlatsAt
  <2> DEFINE f == Len(Flat(vals, A))
             h == Len(Flat(vals, B))
             n == Len(vals[l])
  <2>5. f \in Nat /\ h \in Nat /\ n \in Nat /\ Len(Contents) = f + n + h /\ Rank(p) = f + i /\ i \in 0 .. n - 1
    BY <2>2, <2>4, LenProperties DEF FlatAt
  <2> HIDE DEF f, h, n, i
  <2> QED BY <2>5
<1> QED BY <1>1, <1>2

LEMMA EraseIterInv ==
  ASSUME IInv, work.pc = "idle", NEW p, Pointing(p), use' = use, EraseAt(p, 0, Rank(p))
  PROVE  IInv'
<1> DEFINE zero == 0
           one == 1
           r == Rank(p)
<1>1. TreeInv /\ size = Len(Contents) /\ work.pc \in {"idle", "range"}
  BY DEF IInv, Ranks
<1>2. r \in Nat /\ r + 1 <= Len(Contents) /\ Len(Contents) \in Nat
  BY <1>1, PointingRank, ContentsIs
<1>3. zero \in Nat /\ one \in Nat /\ r + one + zero <= Len(Contents) /\ EraseAt(p, zero, r)
  BY <1>2
<1> HIDE DEF zero, r
<1>4. ErasedAt(p, zero, r) /\ size' = size - 1 BY <1>1, <1>3, EraseAtDone
<1>5. EraseDone(r, one) /\ WorkDone(zero, r) /\ size' = size - one
  BY <1>4 DEF ErasedAt, r
<1> HIDE DEF one
<1> QED BY <1>1, <1>2, <1>3, <1>5, AfterErase

LEMMA ReturnedWork ==
  ASSUME NEW it, NEW want, NEW import, work' = Returned(it, want, import)
  PROVE  Working' /\ work'.it = it /\ work'.pc = "idle" /\ work'.want = want
<1>1. /\ work'.pc = "idle" /\ work'.left = 0 /\ work'.want = want /\ work'.it = it
      /\ work'.cur = NULL /\ work'.inst = NULL /\ work'.key = NULL /\ work'.at = 0
  BY DEF Returned
<1>2. Working' BY <1>1 DEF Working, Pcs
<1> QED BY <1>1, <1>2

LEMMA EmptiedInv ==
  ASSUME use' \in Uses, Emptied
  PROVE  IInv'
<1> DEFINE it0 == Iter(NULL, 0)
           zero == 0
<1>1. /\ root' = NULL /\ size' = 0 /\ base' = <<>> /\ vals' = <<>> /\ keys' = <<>> /\ sons' = <<>> /\ parent' = <<>>
      /\ pos' = <<>> /\ chain' = <<>> /\ work' = Returned(it0, zero, FALSE)
  BY DEF Emptied
<1>2. DOMAIN vals' = {} /\ DOMAIN keys' = {} /\ DOMAIN sons' = {} /\ DOMAIN parent' = {} /\ DOMAIN pos' = {}
  BY <1>1
<1> HIDE DEF it0, zero
<1>3. Working' /\ work'.it = it0 /\ work'.pc = "idle" BY <1>1, ReturnedWork
<1>4. ShapeInv' BY <1>1, <1>2, <1>3, NoShape
<1>5. base' \in Seq(Elems') /\ Len(base') = 0 BY <1>1
<1>6. Filled' BY <1>1, <1>2, <1>5 DEF Filled, Inners
<1>7. Sized' BY <1>2, <1>3 DEF Sized, Nodes
<1>8. Contents' = base' /\ size' = Len(Contents') BY <1>1, <1>5 DEF Contents
<1>9. Held(work.it)'
  <2>1. 0 \in 0 .. Len(base') BY <1>5
  <2> QED BY <1>1, <1>3, <2>1 DEF Held, it0
<1>10. Ranks' BY <1>3, <1>8, <1>9 DEF Ranks
<1> QED BY <1>3, <1>4, <1>6, <1>7, <1>10 DEF IInv, TreeInv

(* The positions an element can be inserted at. *)
Gap(p) ==
  IF root = NULL THEN \E i \in 0 .. Len(base) : p = Iter(NULL, i)
  ELSE \E l \in DOMAIN vals : \E i \in 0 .. Len(vals[l]) : p = Iter(l, i)

(* An insertion has put e where p was. *)
InsertDone(p, e) ==
  /\ TreeInv' /\ Contents' = Put(Contents, Rank(p), e) /\ size' = size + 1
  /\ Held(work.it)' /\ Rank(work.it)' = Rank(p)
  /\ Working' /\ work'.pc \in {"idle", "ascend"}

LEMMA InsertSmallDone ==
  ASSUME TreeInv, work.pc = "idle", use' = use, NEW p, Gap(p), NEW e \in Elems, NEW want, NEW import,
         InsertSmall(p, e, want, import)
  PROVE  InsertDone(p, e)
<1>1. /\ root = NULL /\ root' = root /\ Len(base) < 2 /\ base' = Put(base, p.pos, e) /\ work' = Returned(p, want, import)
      /\ vals' = vals /\ keys' = keys /\ sons' = sons /\ parent' = parent /\ pos' = pos /\ chain' = chain
      /\ size' = size + 1
  BY DEF InsertSmall, nodes
<1>2. ShapeInv /\ Filled /\ Sized /\ Typed /\ NoTree BY DEF TreeInv, ShapeInv
<1>3. PICK i \in 0 .. Len(base) : p = Iter(NULL, i) BY <1>1 DEF Gap
<1>4. p.leaf = NULL /\ p.pos = i BY <1>3 DEF Iter
<1>5. base \in Seq(Elems) /\ Len(base) \in Nat BY <1>2, LenProperties DEF Filled
<1>6. Working' /\ work'.it = p /\ work'.pc = "idle" BY <1>1, ReturnedWork
<1>7. base' \in Seq(Elems) /\ Len(base') = Len(base) + 1
  BY <1>1, <1>4, <1>5, PutIs
<1>8. Nodes = {} /\ Nodes' = {} /\ Inners' = {} /\ DOMAIN vals' = {}
  BY <1>1, <1>2 DEF NoTree, Typed, Nodes, Inners
<1>9. TreeInv'
  <2>1. ShapeInv' BY <1>1, <1>2, <1>6, SameShape
  <2>2. Filled' BY <1>1, <1>5, <1>7, <1>8 DEF Filled, Elems
  <2>3. Sized' BY <1>6, <1>8 DEF Sized
  <2> QED BY <2>1, <2>2, <2>3 DEF TreeInv
<1>10. Contents = base /\ Contents' = base' /\ Rank(p) = i /\ Rank(p)' = i
  BY <1>1, <1>4 DEF Contents, Rank
<1>12. i \in 0 .. Len(base') BY <1>5, <1>7
<1>13. Held(work.it)' BY <1>1, <1>3, <1>6, <1>12 DEF Held
<1>14. Rank(work.it)' = i BY <1>6, <1>10
<1> QED BY <1>1, <1>4, <1>6, <1>9, <1>10, <1>13, <1>14 DEF InsertDone

SingleLeaf(v, l) ==
  /\ Listed(v, <<l>>) /\ Flat(v, <<l>>) = v[l] /\ Len(Front(v, <<l>>, l)) = 0

LEMMA LeafAlone ==
  ASSUME NEW v, NEW l, DOMAIN v = {l}, v[l] \in Seq(Elems), Len(v[l]) # 0, l # NULL
  PROVE  SingleLeaf(v, l)
<1> DEFINE one == <<l>>
           nil == <<>>
<1>1. one \in Seq(DOMAIN v) /\ Unique(one) /\ Members(one) = {l} /\ nil \in Seq(DOMAIN v) /\ Len(nil) = 0
  <2>1. one \in Seq(DOMAIN v) /\ nil \in Seq(DOMAIN v) /\ Len(nil) = 0 OBVIOUS
  <2>2. Unique(one) /\ Members(one) = {l} BY OneMember
  <2> QED BY <2>1, <2>2
<1>2. nil \o one = one /\ one \o nil = one
  <2> HIDE DEF one
  <2> QED BY <1>1, ConcatEmptySeq
<1>3. one = Joins(nil, l, nil) BY <1>2 DEF Joins
<1> HIDE DEF one, nil
<1>4. Listed(v, one) BY <1>1 DEF Listed
<1>5. Placing(v, one, nil, l, nil) BY <1>1, <1>3 DEF Placing
<1>6. FlatAt(v, one, nil, l, nil) BY <1>4, <1>5, FlatsAt
<1>7. Front(v, one, l) = Flat(v, nil) BY <1>6 DEF FlatAt
<1>8. Len(Front(v, one, l)) = 0 BY <1>7, FlatNil, EmptySeq DEF nil
<1>9. Gives(v, DOMAIN v, Elems) BY <1>4, ListedGives
<1>10. Flat(v, one) = v[l] BY <1>9, FlatOne DEF one
<1>11. one = <<l>> BY SMTT(60) DEF one
<1> QED BY <1>4, <1>8, <1>10, <1>11 DEF SingleLeaf

(* An insertion keeps the iterator on the element. *)
LEMMA HeldNow ==
  ASSUME NEW l, NEW j, NEW it, TreeInv', root' # NULL, l \in DOMAIN vals', j \in 0 .. Len(vals'[l]) - 1, it = Iter(l, j)
  PROVE  Held(it)' /\ Rank(it)' = Len(Front(vals', chain', l)) + j
<1>1. vals'[l] \in Seq(Elems') BY DEF TreeInv, Filled
<1>2. Len(vals'[l]) \in Nat BY <1>1, LenProperties
<1>3. j \in 0 .. Len(vals'[l]) /\ j # Len(vals'[l]) BY <1>2
<1>4. it.leaf = l /\ it.pos = j BY DEF Iter
<1>5. it = Adjust(Iter(l, j), vals', chain') BY <1>3, <1>4 DEF Adjust
<1> QED BY <1>3, <1>5, HeldThen

LEMMA ThirdDone ==
  ASSUME TreeInv, work.pc = "idle", use' = use, NEW p, Gap(p), NEW e \in Elems, NEW l \in Nat, NEW v \in Seq(Elems),
         NEW i \in 0 .. 2, Len(v) = 3, root = NULL, p = Iter(NULL, i), v = Put(base, i, e),
         root' = l, vals' = Only(l, v), parent' = Only(l, NULL), pos' = Only(l, 0), chain' = <<l>>,
         base' = <<>>, size' = size + 1, keys' = keys, sons' = sons,
         Working', work'.it = Iter(l, i), work'.pc = "idle"
  PROVE  InsertDone(p, e)
<1>1. l # NULL BY NullAssumption
<1>2. ShapeInv /\ Filled /\ Sized /\ Typed /\ NoTree /\ use \in Uses
  BY DEF TreeInv, ShapeInv, Typed
<1>4. p.leaf = NULL /\ p.pos = i BY DEF Iter
<1>9. DOMAIN vals' = {l} /\ vals'[l] = v /\ DOMAIN parent' = {l} BY DEF Only
<1>9a. Len(vals'[l]) = 3 /\ vals'[l] \in Seq(Elems)
  BY <1>9, Zenon
<1>10. ShapeInv' BY <1>2, <1>9, ThirdShape
<1>11. SingleLeaf(vals', l)
  <2>1. Len(vals'[l]) # 0 /\ vals'[l] \in Seq(Elems) BY <1>9a
  <2> QED BY <1>1, <1>9, <2>1, LeafAlone
<1>12. Inners' = {} /\ Nodes' = {l}
  BY <1>2, <1>9 DEF NoTree, Typed, Nodes, Inners
<1>13. Filled'
  <2>1. Len(base') = 0 /\ base' \in Seq(Elems') OBVIOUS
  <2> QED BY <1>9, <1>12, <2>1 DEF Filled, Elems
<1>14. Sized'
  <2>1. N' = N /\ N \in Nat /\ N >= 4 BY <1>2, Halves DEF N
  <2>2. SizeOf(l)' = 3 BY <1>9 DEF SizeOf, IsLeaf
  <2>3. SizeOf(l)' \in 1 .. N' BY <2>1, <2>2
  <2>4. \A n \in Nodes' : n = l BY <1>12
  <2> QED BY <2>3, <2>4 DEF Sized
<1>15. TreeInv' BY <1>10, <1>13, <1>14 DEF TreeInv
<1>16. Contents = base /\ Contents' = v /\ Rank(p) = i
  BY <1>1, <1>4, <1>9, <1>11 DEF Contents, Rank, SingleLeaf
<1>17. i \in 0 .. Len(vals'[l]) - 1 /\ i \in Nat
  <2>1. i \in 0 .. 3 - 1 /\ i \in Nat OBVIOUS
  <2> QED BY <1>9a, <2>1, Zenon
<1>18. \A a : a = work'.it => Held(a)' /\ Rank(a)' = i
  <2> TAKE a
  <2> HAVE a = work'.it
  <2>1. a = Iter(l, i) OBVIOUS
  <2>2. Held(a)' /\ Rank(a)' = Len(Front(vals', chain', l)) + i
    BY <1>1, <1>9, <1>15, <1>17, <2>1, HeldNow
  <2>3. Len(Front(vals', chain', l)) = 0 BY <1>11 DEF SingleLeaf
  <2> QED BY <1>17, <2>2, <2>3
<1>19. Held(work.it)' /\ Rank(work.it)' = i BY <1>18
<1> QED BY <1>15, <1>16, <1>19 DEF InsertDone

LEMMA InsertThirdDone ==
  ASSUME TreeInv, work.pc = "idle", use' = use, NEW p, Gap(p), NEW e \in Elems, NEW want, NEW import,
         InsertThird(p, e, want, import)
  PROVE  InsertDone(p, e)
<1> DEFINE l == Fresh
           v == Put(base, p.pos, e)
           it == Iter(l, p.pos)
<1>1. /\ root = NULL /\ Len(base) = 2 /\ root' = l /\ vals' = Only(l, v) /\ parent' = Only(l, NULL)
      /\ pos' = Only(l, 0) /\ chain' = <<l>> /\ work' = Returned(it, want, import)
      /\ base' = <<>> /\ size' = size + 1 /\ keys' = keys /\ sons' = sons
  BY DEF InsertThird
<1>3. PICK i \in 0 .. Len(base) : p = Iter(NULL, i) BY <1>1 DEF Gap
<1>4. p.pos = i BY <1>3 DEF Iter
<1>5. base \in Seq(Elems) BY DEF TreeInv, Filled
<1>6. l \in Nat BY FreshIs DEF TreeInv, ShapeInv, Typed
<1>7. v \in Seq(Elems) /\ Len(v) = 3
  <2>1. PutIn(base, i, e, Elems) BY <1>5, PutInto
  <2>2. v \in Seq(Elems) /\ Len(v) = Len(base) + 1 BY <1>4, <2>1 DEF PutIn
  <2> QED BY <1>1, <2>2
<1>8. i \in 0 .. 2 /\ it = Iter(l, i) /\ v = Put(base, i, e) BY <1>1, <1>4
<1> HIDE DEF l, v, it
<1>9. Working' /\ work'.it = it /\ work'.pc = "idle" BY <1>1, ReturnedWork
<1> QED BY <1>1, <1>3, <1>6, <1>7, <1>8, <1>9, ThirdDone

(* Where a position is. *)
GapAt(p, l, i) ==
  /\ l = p.leaf /\ i = p.pos /\ p = Iter(l, i) /\ l \in DOMAIN vals /\ i \in 0 .. Len(vals[l])
  /\ Listed(vals, chain) /\ vals[l] \in Seq(Elems) /\ Len(vals[l]) \in 1 .. N /\ N \in Nat
  /\ Rank(p) = Len(Front(vals, chain, l)) + i /\ Contents = Flat(vals, chain)

LEMMA GapsAt ==
  ASSUME TreeInv, root # NULL, NEW p, Gap(p)
  PROVE  GapAt(p, p.leaf, p.pos)
<1>1. PICK l \in DOMAIN vals : \E i \in 0 .. Len(vals[l]) : p = Iter(l, i)
  BY DEF Gap
<1>2. PICK i \in 0 .. Len(vals[l]) : p = Iter(l, i) BY <1>1
<1>3. p.leaf = l /\ p.pos = i BY <1>2 DEF Iter
<1>4. Listed(vals, chain) BY ChainListed
<1>5. vals[l] \in Seq(Elems) /\ Len(vals[l]) \in 1 .. N BY LeafHolds DEF TreeInv
<1>6. use \in Uses BY DEF TreeInv, ShapeInv, Typed
<1>7. N \in Nat BY <1>6, Halves
<1>8. RankAt(l, i, p) BY RanksAt
<1>9. Rank(p) = Len(Front(vals, chain, l)) + i /\ Contents = Flat(vals, chain)
  BY <1>2, <1>8 DEF RankAt
<1> QED BY <1>2, <1>3, <1>4, <1>5, <1>7, <1>9 DEF GapAt

LEMMA RoomDone ==
  ASSUME TreeInv, work.pc = "idle", root # NULL, use' = use, root' = root, base' = base, keys' = keys, sons' = sons,
         parent' = parent, pos' = pos, chain' = chain, size' = size + 1,
         NEW p, NEW l, NEW i, GapAt(p, l, i), NEW e \in Elems, NEW v, v = Put(vals[l], i, e), Len(vals[l]) < N,
         vals' = [vals EXCEPT ![l] = v], Working', work'.it = p, work'.pc = "idle"
  PROVE  InsertDone(p, e)
<1>1. /\ p = Iter(l, i) /\ l \in DOMAIN vals /\ i \in 0 .. Len(vals[l]) /\ Listed(vals, chain) /\ vals[l] \in Seq(Elems)
      /\ Contents = Flat(vals, chain) /\ Rank(p) = Len(Front(vals, chain, l)) + i
  BY DEF GapAt
<1>2. Len(vals[l]) \in Nat /\ N \in Nat /\ FloorHalf \in Nat
  <2>1. use \in Uses BY DEF TreeInv, ShapeInv, Typed
  <2> QED BY <1>1, <2>1, Halves, LenProperties
<1>3. PutIn(vals[l], i, e, Elems) BY <1>1, PutInto
<1>4. v \in Seq(Elems) /\ Len(v) = Len(vals[l]) + 1 BY <1>3 DEF PutIn
<1>5. Len(v) # 0 /\ Len(v) <= N
  <2> DEFINE n == Len(vals[l])
  <2>1. n \in Nat /\ n < N /\ N \in Nat /\ Len(v) = n + 1 BY <1>2, <1>4
  <2> HIDE DEF n
  <2> QED BY <2>1
<1>6. DOMAIN vals' = DOMAIN vals /\ vals'[l] = v /\ \A z \in DOMAIN vals \ {l} : vals'[z] = vals[z]
  BY <1>1
<1>7. Rewrites(vals, vals', l) BY <1>1, <1>4, <1>5, <1>6 DEF Rewrites
<1>8. PutsHere(vals, vals', chain, l, i, e) BY <1>1, <1>6, <1>7, PutHere
<1>9. /\ Listed(vals', chain') /\ Flat(vals', chain') = Put(Flat(vals, chain), Len(Front(vals, chain, l)) + i, e)
      /\ Front(vals', chain', l) = Front(vals, chain, l)
  BY <1>8 DEF PutsHere
<1>10. \A z \in DOMAIN vals : Len(vals'[z]) <= N /\ (z # root => Len(vals'[z]) >= FloorHalf)
  <2> TAKE z \in DOMAIN vals
  <2>1. Len(vals[z]) \in 1 .. N /\ SizeOf(z) = Len(vals[z]) /\ z \in Nodes
    BY LeafHolds DEF TreeInv
  <2>2. z # root => SizeOf(z) >= FloorHalf BY <2>1 DEF TreeInv, Sized
  <2>3. CASE z = l
    <3> DEFINE n == Len(vals[l])
    <3>1. n \in Nat /\ Len(v) = n + 1 /\ (z # root => n >= FloorHalf)
      BY <1>2, <1>4, <2>1, <2>2, <2>3
    <3> HIDE DEF n
    <3>2. z # root => Len(v) >= FloorHalf BY <1>2, <3>1
    <3> QED BY <1>5, <1>6, <2>3, <3>2
  <2>4. CASE z # l
    <3>1. vals'[z] = vals[z] BY <1>6, <2>4
    <3> QED BY <1>2, <2>1, <2>2, <3>1
  <2> QED BY <2>3, <2>4
<1>11. TreeInv'
  <2>1. KeysKept(keys, keys') /\ work.pc \in {"idle", "range"} /\ work'.pc \in {"idle", "range"}
    BY KeysSame
  <2> QED BY <1>6, <1>9, <1>10, <2>1, SameNodes
<1>12. i \in 0 .. Len(vals'[l]) - 1
  <2> DEFINE n == Len(vals[l])
             m == Len(vals'[l])
  <2>1. n \in Nat /\ m = n + 1 /\ i \in 0 .. n BY <1>1, <1>2, <1>4, <1>6
  <2> HIDE DEF n, m
  <2>2. i \in 0 .. m - 1 BY <2>1
  <2> QED BY <2>2 DEF m
<1>13. \A a : a = work'.it => Held(a)' /\ Rank(a)' = Rank(p)
  <2> TAKE a
  <2> HAVE a = work'.it
  <2>1. a = Iter(l, i) /\ root' # NULL /\ l \in DOMAIN vals' BY <1>1, <1>6
  <2>2. Held(a)' /\ Rank(a)' = Len(Front(vals', chain', l)) + i
    BY <1>11, <1>12, <2>1, HeldNow
  <2> QED BY <1>1, <1>9, <2>2
<1>14. Held(work.it)' /\ Rank(work.it)' = Rank(p) BY <1>13
<1>15. Contents' = Put(Contents, Rank(p), e) BY <1>1, <1>9 DEF Contents
<1> QED BY <1>11, <1>14, <1>15 DEF InsertDone

LEMMA InsertRoomDone ==
  ASSUME TreeInv, work.pc = "idle", use' = use, NEW p, Gap(p), NEW e \in Elems, NEW want, NEW import,
         InsertRoom(p, e, want, import)
  PROVE  InsertDone(p, e)
<1> DEFINE l == p.leaf
           i == p.pos
           v == Put(vals[l], i, e)
<1>1. /\ root # NULL /\ Len(vals[l]) < N /\ vals' = [vals EXCEPT ![l] = v] /\ size' = size + 1
      /\ work' = Returned(p, want, import) /\ root' = root /\ base' = base /\ keys' = keys /\ sons' = sons
      /\ parent' = parent /\ pos' = pos /\ chain' = chain
  BY DEF InsertRoom
<1>2. GapAt(p, l, i) BY <1>1, GapsAt
<1>3. Working' /\ work'.it = p /\ work'.pc = "idle" BY <1>1, ReturnedWork
<1>4. v = Put(vals[l], i, e) OBVIOUS
<1> HIDE DEF l, i, v
<1> QED BY <1>1, <1>2, <1>3, <1>4, RoomDone

(* How a full leaf with elements V divides when e goes to position i. *)
LeafHalved(V, i, e, low, high) ==
  /\ low \in Seq(Elems) /\ high \in Seq(Elems) /\ Len(low) = FloorHalf + 1 /\ Len(high) = CeilHalf
  /\ low \o high = Put(V, i, e)

LEMMA LeafHalvesLow ==
  ASSUME use \in Uses, NEW V \in Seq(Elems), Len(V) = N, NEW i \in 0 .. N, NEW e \in Elems, i <= FloorHalf
  PROVE  LeafHalved(V, i, e, Put(Slice(V, 0, FloorHalf), i, e), Slice(V, FloorHalf, N))
<1> DEFINE c == FloorHalf
           low == Put(Slice(V, 0, c), i, e)
           high == Slice(V, c, Len(V))
<1>1. N \in Nat /\ c \in Nat /\ CeilHalf \in Nat /\ c + CeilHalf = N BY Halves
<1>2. c \in 0 .. Len(V) /\ i \in 0 .. c BY <1>1
<1> HIDE DEF c
<1>3. PutLow(V, c, i, e, Elems) BY <1>2, PutsLow
<1>4. low \in Seq(Elems) /\ Len(low) = c + 1 /\ high \in Seq(Elems) /\ Len(high) = Len(V) - c /\ low \o high = Put(V, i, e)
  BY <1>3 DEF PutLow
<1>5. Len(V) - c = CeilHalf BY <1>1
<1>6. LeafHalved(V, i, e, low, high) BY <1>4, <1>5 DEF LeafHalved, c
<1> QED BY <1>6 DEF c

LEMMA LeafHalvesHigh ==
  ASSUME use \in Uses, NEW V \in Seq(Elems), Len(V) = N, NEW i \in 0 .. N, NEW e \in Elems, ~(i <= FloorHalf)
  PROVE  LeafHalved(V, i, e, Slice(V, 0, FloorHalf + 1), (Slice(V, FloorHalf + 1, i) \o <<e>>) \o Slice(V, i, N))
<1> DEFINE c == FloorHalf + 1
           low == Slice(V, 0, c)
           high == (Slice(V, c, i) \o <<e>>) \o Slice(V, i, Len(V))
<1>1. N \in Nat /\ FloorHalf \in Nat /\ CeilHalf \in Nat /\ FloorHalf + CeilHalf = N
  BY Halves
<1>2. i \in 0 .. Len(V) /\ c \in 0 .. i BY <1>1
<1>3. Len(V) - c + 1 = CeilHalf BY <1>1
<1> HIDE DEF c
<1>4. PutHigh(V, c, i, e, Elems) BY <1>2, PutsHigh
<1>5. low \in Seq(Elems) /\ Len(low) = c /\ high \in Seq(Elems) /\ Len(high) = Len(V) - c + 1 /\ low \o high = Put(V, i, e)
  BY <1>4 DEF PutHigh
<1>6. LeafHalved(V, i, e, low, high) BY <1>3, <1>5 DEF LeafHalved, c
<1> QED BY <1>6 DEF c

(* A leaf is split. *)
LeafSplits(l, inst, low, high) ==
  /\ use' = use /\ root' = root /\ base' = base /\ keys' = keys /\ sons' = sons
  /\ vals' = With(vals, Two(l, low, inst, high)) /\ chain' = Linked(chain, l, inst)
  /\ parent' = With(parent, Only(inst, NULL)) /\ pos' = With(pos, Only(inst, 0))
  /\ work'.pc = "ascend" /\ work'.cur = l /\ work'.inst = inst

SplitInto(l, inst, low, high) ==
  /\ TreeInv' /\ inst \in Nat /\ inst \notin Nodes /\ vals'[l] = low /\ vals'[inst] = high
  /\ DOMAIN vals' = DOMAIN vals \cup {inst} /\ \A z \in DOMAIN vals \ {l} : vals'[z] = vals[z]

LEMMA SplitTree ==
  ASSUME TreeInv, work.pc = "idle", root # NULL, NEW l \in DOMAIN vals, NEW inst, inst = Fresh,
         NEW low, NEW high, NEW i, NEW e, LeafHalved(vals[l], i, e, low, high), LeafSplits(l, inst, low, high)
  PROVE  SplitInto(l, inst, low, high)
<1>1. ShapeInv /\ Filled /\ Sized /\ Typed /\ use \in Uses
  BY DEF TreeInv, ShapeInv, Typed
<1>2. inst \in Nat /\ inst \notin Nodes BY <1>1, FreshIs DEF Typed
<1>3. /\ Nodes = DOMAIN vals \cup Inners /\ DOMAIN vals \cap Inners = {} /\ l # inst /\ inst \notin DOMAIN vals
      /\ inst \notin Inners
  BY <1>1, <1>2 DEF Typed
<1>4. /\ vals'[l] = low /\ vals'[inst] = high /\ DOMAIN vals' = DOMAIN vals \cup {inst}
      /\ \A z \in DOMAIN vals \ {l} : vals'[z] = vals[z]
  <2>1. vals' = With(vals, Two(l, low, inst, high)) BY DEF LeafSplits
  <2> QED BY <1>3, <2>1 DEF With, Two
<1>5. Nodes' = Nodes \cup {inst} /\ Inners' = Inners
  BY DEF LeafSplits, With, Only, Nodes, Inners
<1>6. ShapeInv'
  <2>1. /\ use' = use /\ root' = root /\ keys' = keys /\ sons' = sons /\ work.pc \in {"idle", "range"}
        /\ parent' = With(parent, Only(inst, NULL)) /\ pos' = With(pos, Only(inst, 0)) /\ chain' = Linked(chain, l, inst)
        /\ work'.pc = "ascend" /\ work'.cur = l /\ work'.inst = inst
    BY DEF LeafSplits
  <2> QED BY <1>1, <1>4, <2>1, SplitShape
<1>7. low \in Seq(Elems) /\ high \in Seq(Elems) /\ Len(low) = FloorHalf + 1 /\ Len(high) = CeilHalf
  BY DEF LeafHalved
<1>8. use' = use /\ root' = root /\ base' = base /\ keys' = keys /\ sons' = sons /\ work'.pc = "ascend" /\ work'.cur = l
  BY DEF LeafSplits
<1>9. Filled'
  <2>1. \A z \in DOMAIN vals' : vals'[z] \in Seq(Elems)
    <3> TAKE z \in DOMAIN vals'
    <3>1. CASE z = l BY <1>4, <1>7, <3>1
    <3>2. CASE z = inst BY <1>4, <1>7, <3>2
    <3>3. CASE z # l /\ z # inst BY <1>1, <1>4, <3>3 DEF Filled
    <3> QED BY <3>1, <3>2, <3>3
  <2> QED BY <1>1, <1>5, <1>8, <2>1 DEF Filled, Elems, Keys
<1>10. Sized'
  <2> DEFINE F == FloorHalf
             C == CeilHalf
  <2>1. N' = N /\ FloorHalf' = F /\ N \in Nat /\ N >= 4 /\ F \in Nat /\ C \in Nat /\ F >= 2 /\ F + C = N /\ F <= C
    BY <1>1, <1>8, Halves DEF N, FloorHalf
  <2>2. SizeOf(l)' = F + 1 /\ SizeOf(inst)' = C
    <3>1. \A z \in DOMAIN vals' : SizeOf(z)' = Len(vals'[z])
      BY DEF SizeOf, IsLeaf
    <3>2. \A a, b : a = l /\ b = inst => SizeOf(a)' = Len(vals'[a]) /\ SizeOf(b)' = Len(vals'[b])
      BY <1>4, <3>1
    <3>3. SizeOf(l)' = Len(vals'[l]) /\ SizeOf(inst)' = Len(vals'[inst]) BY <3>2
    <3> QED BY <1>4, <1>7, <3>3
  <2> HIDE DEF F, C
  <2>3. F + 1 \in 1 .. N /\ F + 1 >= F /\ C \in 1 .. N /\ C >= F BY <2>1
  <2>4. \A z \in Nodes : z # l => SizeOf(z)' = SizeOf(z)
    <3> TAKE z \in Nodes
    <3> HAVE z # l
    <3>1. z # inst BY <1>2
    <3>2. CASE z \in DOMAIN vals BY <1>4, <3>2 DEF SizeOf, IsLeaf
    <3>3. CASE z \notin DOMAIN vals BY <1>4, <1>8, <3>1, <3>3 DEF SizeOf, IsLeaf
    <3> QED BY <3>2, <3>3
  <2>5. \A z \in Nodes' : SizeOf(z)' \in 1 .. N' /\ (z # root' => SizeOf(z)' >= FloorHalf')
    <3> TAKE z \in Nodes'
    <3>1. CASE z = l BY <2>1, <2>2, <2>3, <3>1
    <3>2. CASE z = inst BY <2>1, <2>2, <2>3, <3>2
    <3>3. CASE z # l /\ z # inst
      <4>1. z \in Nodes /\ SizeOf(z)' = SizeOf(z) BY <1>5, <2>4, <3>3
      <4>2. SizeOf(z) \in 1 .. N /\ (z # root => SizeOf(z) >= F)
        BY <1>1, <4>1 DEF Sized, F
      <4> QED BY <1>8, <2>1, <4>1, <4>2
    <3> QED BY <3>1, <3>2, <3>3
  <2>6. SizeOf(work.cur)' >= FloorHalf' BY <1>8, <2>1, <2>2, <2>3
  <2> QED BY <2>5, <2>6 DEF Sized
<1> QED BY <1>2, <1>4, <1>6, <1>9, <1>10 DEF TreeInv, SplitInto

LEMMA SplitDone ==
  ASSUME TreeInv, work.pc = "idle", root # NULL, NEW p, NEW l, NEW i, GapAt(p, l, i), NEW inst, inst = Fresh,
         NEW low, NEW high, NEW e \in Elems, LeafHalved(vals[l], i, e, low, high), LeafSplits(l, inst, low, high),
         size' = size + 1, Working', Len(vals[l]) = N,
         work'.it = IF i <= FloorHalf THEN p ELSE Iter(inst, i - FloorHalf - 1)
  PROVE  InsertDone(p, e)
<1>1. /\ p = Iter(l, i) /\ l \in DOMAIN vals /\ i \in 0 .. Len(vals[l]) /\ Listed(vals, chain) /\ vals[l] \in Seq(Elems)
      /\ Contents = Flat(vals, chain) /\ Rank(p) = Len(Front(vals, chain, l)) + i
  BY DEF GapAt
<1> DEFINE F == FloorHalf
           C == CeilHalf
<1>2. N \in Nat /\ F \in Nat /\ C \in Nat /\ F + C = N /\ F >= 2 /\ F <= C
  <2>1. use \in Uses BY DEF TreeInv, ShapeInv, Typed
  <2> QED BY <2>1, Halves
<1>3. /\ TreeInv' /\ inst \in Nat /\ inst \notin Nodes /\ vals'[l] = low /\ vals'[inst] = high
      /\ DOMAIN vals' = DOMAIN vals \cup {inst} /\ \A z \in DOMAIN vals \ {l} : vals'[z] = vals[z]
  <2>1. SplitInto(l, inst, low, high) BY <1>1, SplitTree
  <2> QED BY <2>1 DEF SplitInto
<1>4. inst # NULL /\ inst \notin DOMAIN vals
  <2>1. DOMAIN vals \subseteq Nodes BY DEF TreeInv, ShapeInv, Typed
  <2> QED BY <1>3, <2>1, NullAssumption
<1>5. low \in Seq(Elems) /\ high \in Seq(Elems) /\ Len(low) = F + 1 /\ Len(high) = C /\ low \o high = Put(vals[l], i, e)
  BY DEF LeafHalved
<1> HIDE DEF F, C
<1>6. vals'[l] \in Seq(Elems) /\ vals'[inst] \in Seq(Elems) /\ Len(vals'[l]) # 0 /\ Len(vals'[inst]) # 0
      /\ vals'[l] \o vals'[inst] = Put(vals[l], i, e)
  <2>1. Len(low) # 0 /\ Len(high) # 0 BY <1>2, <1>5
  <2> QED BY <1>3, <1>5, <2>1
<1>7. PutsSplit(vals, vals', chain, Linked(chain, l, inst), l, inst, i, e)
  BY <1>1, <1>3, <1>4, <1>6, PutSplit
<1>8. chain' = Linked(chain, l, inst) /\ root' = root BY DEF LeafSplits
<1>9. /\ Flat(vals', chain') = Put(Contents, Rank(p), e) /\ Front(vals', chain', l) = Front(vals, chain, l)
      /\ Len(Front(vals', chain', inst)) = Len(Front(vals, chain, l)) + (F + 1)
  BY <1>1, <1>3, <1>5, <1>7, <1>8 DEF PutsSplit
<1>10. Len(Front(vals, chain, l)) \in Nat
  <2>1. PICK A, B : Placing(vals, chain, A, l, B) BY <1>1, PlacingIs
  <2>2. FlatAt(vals, chain, A, l, B) BY <1>1, <2>1, FlatsAt
  <2>3. Front(vals, chain, l) \in Seq(Elems) BY <2>2 DEF FlatAt
  <2> QED BY <2>3, LenProperties
<1>11. Contents' = Put(Contents, Rank(p), e) BY <1>8, <1>9 DEF Contents
<1>12. \A a : a = work'.it => Held(a)' /\ Rank(a)' = Rank(p)
  <2> TAKE a
  <2> HAVE a = work'.it
  <2> DEFINE f == Len(Front(vals, chain, l))
             r == Rank(p)
  <2>1. CASE i <= F
    <3>1. a = Iter(l, i) BY <1>1, <2>1 DEF F
    <3>2. i \in 0 .. Len(vals'[l]) - 1
      <4>1. i \in 0 .. (F + 1) - 1 BY <1>1, <1>2, <2>1
      <4> QED BY <1>3, <1>5, <4>1
    <3>3. l \in DOMAIN vals' /\ root' # NULL BY <1>1, <1>3, <1>8
    <3>4. Held(a)' /\ Rank(a)' = Len(Front(vals', chain', l)) + i
      BY <1>3, <3>1, <3>2, <3>3, HeldNow
    <3> QED BY <1>1, <1>9, <3>4
  <2>2. CASE ~(i <= F)
    <3> DEFINE j == i - F - 1
    <3>1. a = Iter(inst, j) BY <2>2 DEF F
    <3>2. i \in Nat /\ i <= N BY <1>1, <1>2
    <3>3. j \in 0 .. C - 1 BY <1>2, <2>2, <3>2
    <3>4. j \in 0 .. Len(vals'[inst]) - 1 BY <1>3, <1>5, <3>3
    <3>5. f + (F + 1) + j = f + i BY <1>2, <1>10, <3>2
    <3> HIDE DEF j
    <3>6. inst \in DOMAIN vals' /\ root' # NULL BY <1>3, <1>8
    <3>7. Held(a)' /\ Rank(a)' = Len(Front(vals', chain', inst)) + j
      BY <1>3, <3>1, <3>4, <3>6, HeldNow
    <3>8. Rank(a)' = f + (F + 1) + j BY <1>9, <3>7
    <3>9. Rank(p) = f + i BY <1>1
    <3> QED BY <3>5, <3>7, <3>8, <3>9
  <2> QED BY <2>1, <2>2
<1>13. Held(work.it)' /\ Rank(work.it)' = Rank(p) BY <1>12
<1>14. work'.pc \in {"idle", "ascend"} BY DEF LeafSplits
<1> QED BY <1>3, <1>11, <1>13, <1>14 DEF InsertDone

LEMMA AscendWork ==
  ASSUME NEW it, NEW want, NEW import, NEW l, NEW inst, NEW key \in Keys,
         work' = [Returned(it, want, import) EXCEPT !.pc = "ascend", !.cur = l, !.inst = inst, !.key = key], use' = use
  PROVE  Working' /\ work'.it = it /\ work'.pc = "ascend" /\ work'.cur = l /\ work'.inst = inst
<1>1. /\ work'.pc = "ascend" /\ work'.left = 0 /\ work'.want = want /\ work'.it = it
      /\ work'.cur = l /\ work'.inst = inst /\ work'.key = key /\ work'.at = 0
  BY DEF Returned
<1>2. Working' BY <1>1 DEF Working, Pcs, Keys, Elems
<1> QED BY <1>1, <1>2

LEMMA InsertSplitDone ==
  ASSUME TreeInv, work.pc = "idle", use' = use, NEW p, Gap(p), NEW e \in Elems, NEW want, NEW import,
         InsertSplit(p, e, want, import)
  PROVE  InsertDone(p, e)
<1> DEFINE l    == p.leaf
           i    == p.pos
           inst == Fresh
           V    == vals[l]
           here == i <= FloorHalf
           rpos == i - FloorHalf - 1
           low  == IF here THEN Put(Slice(V, 0, FloorHalf), i, e) ELSE Slice(V, 0, FloorHalf + 1)
           high == IF here THEN Slice(V, FloorHalf, N)
                   ELSE Slice(V, FloorHalf + 1, i) \o <<e>> \o Slice(V, i, N)
           it   == IF here THEN p ELSE Iter(inst, rpos)
           key  == KeyOf(high[1])
<1>1. /\ root # NULL /\ Len(V) = N /\ size' = size + 1 /\ root' = root /\ base' = base /\ keys' = keys /\ sons' = sons
      /\ vals' = With(vals, Two(l, low, inst, high)) /\ chain' = Linked(chain, l, inst)
      /\ parent' = With(parent, Only(inst, NULL)) /\ pos' = With(pos, Only(inst, 0))
      /\ work' = [Returned(it, want, import) EXCEPT !.pc = "ascend", !.cur = l, !.inst = inst, !.key = key]
  BY DEF InsertSplit
<1>2. GapAt(p, l, i) BY <1>1, GapsAt
<1>3. V \in Seq(Elems) /\ i \in 0 .. N /\ use \in Uses
  BY <1>1, <1>2 DEF GapAt, TreeInv, ShapeInv, Typed
<1>4. LeafHalved(V, i, e, low, high)
  <2>1. CASE here BY <1>1, <1>3, <2>1, LeafHalvesLow
  <2>2. CASE ~here BY <1>1, <1>3, <2>2, LeafHalvesHigh
  <2> QED BY <2>1, <2>2
<1>5. it = (IF i <= FloorHalf THEN p ELSE Iter(inst, i - FloorHalf - 1)) /\ inst = Fresh
  OBVIOUS
<1> HIDE DEF l, i, inst, low, high, it
<1>6. key \in Keys
  <2>1. high \in Seq(Elems) /\ Len(high) = CeilHalf /\ CeilHalf # 0
    <3>1. CeilHalf \in Nat /\ FloorHalf \in Nat /\ FloorHalf >= 2 /\ FloorHalf <= CeilHalf
      BY <1>3, Halves
    <3> QED BY <1>4, <3>1 DEF LeafHalved
  <2> QED BY <2>1, ElemKey
<1> HIDE DEF key
<1>7. Working' /\ work'.it = it /\ work'.pc = "ascend" /\ work'.cur = l /\ work'.inst = inst
  BY <1>1, <1>6, AscendWork
<1>8. LeafSplits(l, inst, low, high) BY <1>1, <1>7 DEF LeafSplits
<1> QED BY <1>1, <1>2, <1>4, <1>5, <1>7, <1>8, SplitDone

LEMMA InsertInDone ==
  ASSUME TreeInv, work.pc = "idle", use' = use, NEW p, Gap(p), NEW e \in Elems, NEW want, NEW import,
         InsertIn(p, e, want, import)
  PROVE  InsertDone(p, e)
BY InsertSmallDone, InsertThirdDone, InsertRoomDone, InsertSplitDone DEF InsertIn

LEMMA GapRank ==
  ASSUME TreeInv, NEW p, Gap(p)
  PROVE  Rank(p) \in 0 .. Len(Contents)
<1>1. CASE root = NULL
  <2>1. PICK i \in 0 .. Len(base) : p = Iter(NULL, i) BY <1>1 DEF Gap
  <2> QED BY <1>1, <2>1 DEF Rank, Iter, Contents
<1>2. CASE root # NULL
  <2> DEFINE l == p.leaf
             i == p.pos
  <2>1. GapAt(p, l, i) BY <1>2, GapsAt
  <2>2. /\ l \in DOMAIN vals /\ i \in 0 .. Len(vals[l]) /\ Listed(vals, chain) /\ Rank(p) = Len(Front(vals, chain, l)) + i
        /\ Contents = Flat(vals, chain) /\ vals[l] \in Seq(Elems)
    BY <2>1 DEF GapAt
  <2> HIDE DEF l, i
  <2>3. AdjustedTo(vals, chain, l, i) BY <2>2, Adjusts
  <2> QED BY <2>2, <2>3 DEF AdjustedTo
<1> QED BY <1>1, <1>2

LEMMA InsertInInv ==
  ASSUME IInv, work.pc = "idle", use' = use, NEW p, Gap(p), NEW e \in Elems, NEW want, NEW import,
         InsertIn(p, e, want, import)
  PROVE  IInv' /\ InsertDone(p, e)
<1>1. TreeInv /\ size = Len(Contents) BY DEF IInv, Ranks
<1>2. InsertDone(p, e) BY <1>1, InsertInDone
<1>3. /\ TreeInv' /\ Contents' = Put(Contents, Rank(p), e) /\ size' = size + 1
      /\ Held(work.it)' /\ Working' /\ work'.pc \in {"idle", "ascend"}
  BY <1>2 DEF InsertDone
<1>4. Contents \in Seq(Elems) BY <1>1, ContentsIs
<1> DEFINE r == Rank(p)
<1>5. r \in 0 .. Len(Contents) BY <1>1, GapRank
<1> HIDE DEF r
<1>6. PutIn(Contents, r, e, Elems) BY <1>4, <1>5, PutInto
<1>7. size' = Len(Contents') BY <1>1, <1>3, <1>6 DEF PutIn, r
<1>8. Ranks' BY <1>3, <1>7 DEF Ranks
<1> QED BY <1>2, <1>3, <1>8 DEF IInv

(* A step that leaves the tree alone. *)
LEMMA SameTreeInv ==
  ASSUME IInv, work.pc \in {"idle", "range"}, use' = use, UNCHANGED <<root, size, base, nodes>>, NEW it, Held(it),
         Working', work'.it = it, work'.pc \in {"idle", "range"},
         work'.pc = "range" => work'.want \in Nat /\ Rank(it) = work'.want /\ work'.want + work'.left <= Len(Contents)
  PROVE  IInv' /\ Contents' = Contents
<1>1. /\ root' = root /\ size' = size /\ base' = base /\ vals' = vals /\ keys' = keys /\ sons' = sons
      /\ parent' = parent /\ pos' = pos /\ chain' = chain
  BY DEF nodes
<1>2. TreeInv /\ ShapeInv /\ Filled /\ Sized /\ size = Len(Contents)
  BY DEF IInv, TreeInv, Ranks
<1>3. ShapeInv' BY <1>1, <1>2, SameShape
<1>4. Filled' BY <1>1, <1>2 DEF Filled, Elems, Keys, Inners
<1>5. Sized'
  <2>1. \A n : SizeOf(n)' = SizeOf(n) BY <1>1 DEF SizeOf, IsLeaf
  <2>2. N' = N /\ FloorHalf' = FloorHalf /\ Nodes' = Nodes
    BY <1>1 DEF N, FloorHalf, Nodes
  <2> QED BY <1>1, <1>2, <2>1, <2>2 DEF Sized
<1>6. Contents' = Contents BY <1>1 DEF Contents
<1>7. \A a : a = work'.it => Held(a)' /\ Rank(a)' = Rank(it)
  <2> TAKE a
  <2> HAVE a = work'.it
  <2>1. a = it OBVIOUS
  <2>2. Held(it)' BY <1>1 DEF Held, Points
  <2>3. Rank(it)' = Rank(it) BY <1>1, <1>6 DEF Rank
  <2> QED BY <2>1, <2>2, <2>3
<1>8. Held(work.it)' /\ Rank(work.it)' = Rank(it) BY <1>7
<1>9. Ranks' BY <1>1, <1>2, <1>6, <1>8 DEF Ranks
<1> QED BY <1>3, <1>4, <1>5, <1>6, <1>9 DEF IInv, TreeInv

LEMMA PointingHeld ==
  ASSUME NEW p, Pointing(p), TreeInv
  PROVE  Held(p)
<1>1. Len(base) \in Nat BY LenProperties DEF TreeInv, Filled
<1>2. CASE root = NULL
  <2>1. PICK i \in 0 .. Len(base) - 1 : p = Iter(NULL, i) BY <1>2 DEF Pointing
  <2>2. i \in 0 .. Len(base) BY <1>1
  <2> QED BY <1>2, <2>1, <2>2 DEF Held
<1>3. CASE root # NULL BY <1>3 DEF Pointing, Held
<1> QED BY <1>2, <1>3

LEMMA InsertLocatedInv ==
  ASSUME IInv, work.pc = "idle", use' = use, NEW loc, IF loc.dup THEN Pointing(loc.at) ELSE Gap(loc.at), NEW e \in Elems,
         NEW want, NEW import, InsertLocated(loc, e, want, import)
  PROVE  IInv'
<1>1. CASE loc.dup
  <2> DEFINE it == loc.at
             w == Below(KeyOf(e))
  <2>1. work' = Returned(it, w, import) /\ UNCHANGED <<root, size, base, nodes>>
    BY <1>1 DEF InsertLocated
  <2>2. TreeInv /\ Pointing(it) BY <1>1 DEF IInv
  <2> HIDE DEF it, w
  <2>3. Held(it) BY <2>2, PointingHeld
  <2>4. Working' /\ work'.it = it /\ work'.pc = "idle" BY <2>1, ReturnedWork
  <2> QED BY <2>1, <2>3, <2>4, SameTreeInv
<1>2. CASE ~loc.dup
  <2> DEFINE p == loc.at
  <2>1. InsertIn(p, e, want, import) /\ Gap(p) BY <1>2 DEF InsertLocated
  <2> HIDE DEF p
  <2> QED BY <2>1, InsertInInv
<1> QED BY <1>1, <1>2

(* A step of a loop that restructures inner nodes. *)
LEMMA InnerStep ==
  ASSUME IInv, root # NULL, root' # NULL, use' = use, size' = size, base' = base, vals' = vals, chain' = chain,
         TreeInv', Working', work'.it = work.it, work'.want = work.want, work'.left = work.left,
         work'.pc \in {"rebalance", "range"} => work.pc \in {"rebalance", "range"}
  PROVE  IInv' /\ Contents' = Contents
<1>1. size = Len(Contents) /\ Held(work.it) BY DEF IInv, Ranks
<1>2. work.pc \in {"rebalance", "range"} =>
       work.want \in Nat /\ Rank(work.it) = work.want /\ work.want + work.left <= Len(Contents)
  BY DEF IInv, Ranks
<1>3. Contents' = Contents BY DEF Contents
<1>4. \A a : a = work.it => (Held(a)' <=> Held(a)) /\ Rank(a)' = Rank(a)
  BY <1>3 DEF Held, Points, Rank
<1>5. \A a : a = work'.it => (Held(a)' <=> Held(a)) /\ Rank(a)' = Rank(a)
  BY <1>4
<1>6. Held(work.it)' /\ Rank(work.it)' = Rank(work.it) BY <1>1, <1>5
<1>7. Ranks' BY <1>1, <1>2, <1>3, <1>6 DEF Ranks
<1> QED BY <1>3, <1>7 DEF IInv

InnerSized(n) ==
  /\ keys'[n] \in Seq(Keys) /\ Len(sons'[n]) = Len(keys'[n]) + 1 /\ Len(keys'[n]) \in 1 .. N
  /\ n # root' => Len(keys'[n]) >= FloorHalf

LEMMA InnerTree ==
  ASSUME TreeInv, ShapeInv', use' = use, base' = base, vals' = vals, root # NULL,
         \A n \in Inners' : InnerSized(n),
         work'.pc = "ascend" => work'.cur \in Inners' /\ Len(keys'[work'.cur]) >= FloorHalf,
         \A l \in DOMAIN vals : l # root' => Len(vals[l]) >= FloorHalf
  PROVE  TreeInv'
<1>1. /\ Filled /\ Sized /\ ShapeInv /\ Nodes' = DOMAIN vals' \cup Inners' /\ DOMAIN vals' \cap Inners' = {}
      /\ N' = N /\ FloorHalf' = FloorHalf /\ use \in Uses
  BY DEF TreeInv, ShapeInv, Typed, N, FloorHalf
<1>2. base = <<>> /\ base \in Seq(Elems) /\ Len(base) <= 2 /\ \A l \in DOMAIN vals : vals[l] \in Seq(Elems)
  BY <1>1 DEF Filled
<1>3. Filled' BY <1>2 DEF Filled, Elems, Keys, InnerSized
<1>4. \A n \in Inners' : SizeOf(n)' = Len(keys'[n]) BY <1>1 DEF SizeOf, IsLeaf
<1>5. \A l \in DOMAIN vals : SizeOf(l)' = Len(vals[l]) /\ Len(vals[l]) \in 1 .. N
  <2> TAKE l \in DOMAIN vals
  <2>1. Len(vals[l]) \in 1 .. N BY <1>1, LeafHolds
  <2> QED BY <1>1, <2>1 DEF SizeOf, IsLeaf
<1>6. \A n \in Nodes' : SizeOf(n)' \in 1 .. N' /\ (n # root' => SizeOf(n)' >= FloorHalf')
  <2> TAKE n \in Nodes'
  <2>1. CASE n \in Inners' BY <1>1, <1>4, <2>1 DEF InnerSized
  <2>2. CASE n \in DOMAIN vals BY <1>1, <1>5, <2>2
  <2> QED BY <1>1, <2>1, <2>2
<1>7. work'.pc = "ascend" => SizeOf(work.cur)' >= FloorHalf'
  <2>1. \A n : n = work'.cur /\ n \in Inners' => SizeOf(n)' = Len(keys'[n])
    BY <1>4
  <2>2. work'.cur \in Inners' => SizeOf(work.cur)' = Len(keys'[work'.cur])
    BY <2>1
  <2> QED BY <1>1, <2>2
<1>8. Sized' BY <1>6, <1>7 DEF Sized
<1> QED BY <1>3, <1>8 DEF TreeInv

(* What an inner node that a step leaves alone keeps. *)
LEMMA InnerAlone ==
  ASSUME TreeInv, NEW n \in Inners, keys'[n] = keys[n], sons'[n] = sons[n], n # root' => n # root
  PROVE  InnerSized(n)
<1>1. keys[n] \in Seq(Keys) /\ Len(sons[n]) = Len(keys[n]) + 1 /\ Len(keys[n]) \in 1 .. N
  BY SonsMany DEF TreeInv
<1>2. n # root => Len(keys[n]) >= FloorHalf
  <2>1. n \in Nodes /\ SizeOf(n) = Len(keys[n]) BY SonsMany DEF TreeInv
  <2> QED BY <2>1 DEF TreeInv, Sized
<1> QED BY <1>1, <1>2 DEF InnerSized

LEMMA LeavesBig ==
  ASSUME TreeInv, root' = root \/ root \notin DOMAIN vals
  PROVE  \A l \in DOMAIN vals : l # root' => Len(vals[l]) >= FloorHalf
<1> TAKE l \in DOMAIN vals
<1> HAVE l # root'
<1>1. l \in Nodes /\ SizeOf(l) = Len(vals[l]) BY LeafHolds DEF TreeInv
<1>2. l # root OBVIOUS
<1> QED BY <1>1, <1>2 DEF TreeInv, Sized

LEMMA AscendRoomInv ==
  ASSUME IInv, AscendRoom
  PROVE  IInv' /\ Contents' = Contents
<1> DEFINE par == parent[work.cur]
           i == pos[work.cur] + 1
           j == pos[work.cur]
           key == work.key
           inst == work.inst
           it == work.it
           w == work.want
           im == work.import
<1>1. /\ work.pc = "ascend" /\ use' = use /\ par # NULL /\ Len(keys[par]) < N
      /\ keys' = [keys EXCEPT ![par] = Put(@, i - 1, key)] /\ sons' = [sons EXCEPT ![par] = Put(sons[par], i, inst)]
      /\ work' = Returned(it, w, im) /\ root' = root /\ size' = size /\ base' = base /\ vals' = vals /\ chain' = chain
  BY DEF AscendRoom, In
<1>2. TreeInv /\ ShapeInv /\ Filled /\ Sized /\ Working /\ use \in Uses
  BY DEF IInv, TreeInv, ShapeInv, Typed
<1>3. key \in Keys /\ work.left = 0 BY <1>1, <1>2 DEF Working
<1>4. par \in Inners /\ j \in 0 .. Len(sons[par]) - 1
  <2>1. Ascending /\ Typed BY <1>2 DEF ShapeInv
  <2>2. work.cur \in Nodes BY <1>1, <2>1 DEF Ascending
  <2> QED BY <1>1, <2>1, <2>2 DEF Typed, Ascending
<1>5. keys[par] \in Seq(Keys) /\ sons[par] \in Seq(Nat) /\ Len(keys[par]) \in 1 .. N /\ Len(sons[par]) = Len(keys[par]) + 1
  BY <1>2, <1>4, SonsMany
<1>6. root # NULL BY <1>1, <1>2 DEF ShapeInv, NoTree
<1>7. Len(sons[par]) <= N /\ N \in Nat
  <2>1. N \in Nat BY <1>2, Halves
  <2> DEFINE n == Len(keys[par])
  <2>2. n \in 1 .. N /\ n < N /\ Len(sons[par]) = n + 1 BY <1>1, <1>5
  <2> HIDE DEF n
  <2> QED BY <2>1, <2>2
<1>8. ShapeInv' BY <1>2, <1>7, RoomShape
<1>9. Working' /\ work'.it = it /\ work'.pc = "idle" /\ work'.want = w /\ work'.left = work.left
  <2> HIDE DEF it, w, im
  <2>1. Working' /\ work'.it = it /\ work'.pc = "idle" /\ work'.want = w
    BY <1>1, ReturnedWork
  <2>2. work'.left = 0 BY <1>1 DEF Returned
  <2> QED BY <1>3, <2>1, <2>2
<1>10. i - 1 = j /\ j \in 0 .. Len(keys[par]) /\ i \in 0 .. Len(sons[par]) /\ inst \in Nat
  <2>1. inst \in Nat
    <3>1. inst \in Nodes BY <1>1, <1>2 DEF ShapeInv, Ascending
    <3> QED BY <1>2, <3>1 DEF ShapeInv, Typed
  <2> DEFINE n == Len(keys[par])
             m == Len(sons[par])
  <2>2. n \in Nat /\ m = n + 1 /\ j \in 0 .. m - 1 BY <1>4, <1>5, LenProperties
  <2> HIDE DEF n, m, j
  <2>3. j \in 0 .. n /\ j + 1 - 1 = j /\ j + 1 \in 0 .. m BY <2>2
  <2> QED BY <2>1, <2>3 DEF n, m, j
<1>11. Inners' = Inners BY <1>1 DEF Inners
<1> HIDE DEF i, j, inst, key
<1>12. InnerSized(par)
  <2>1. PutIn(keys[par], j, key, Keys) BY <1>3, <1>5, <1>10, PutInto
  <2>2. PutIn(sons[par], i, inst, Nat) BY <1>5, <1>10, PutInto
  <2>3. keys'[par] = Put(keys[par], j, key) /\ sons'[par] = Put(sons[par], i, inst)
    <3>1. DOMAIN sons = Inners BY <1>2 DEF ShapeInv, Typed
    <3> QED BY <1>1, <1>4, <1>10, <3>1 DEF Inners
  <2>4. keys'[par] \in Seq(Keys) /\ Len(keys'[par]) = Len(keys[par]) + 1 /\ Len(sons'[par]) = Len(sons[par]) + 1
    BY <2>1, <2>2, <2>3 DEF PutIn
  <2>5. par # root => Len(keys[par]) >= FloorHalf
    <3>1. par \in Nodes /\ SizeOf(par) = Len(keys[par]) BY <1>2, <1>4, SonsMany
    <3> QED BY <1>2, <3>1 DEF Sized
  <2>6. FloorHalf \in Nat BY <1>2, Halves
  <2> DEFINE n == Len(keys[par])
  <2>7. n \in 1 .. N /\ n < N /\ (par # root => n >= FloorHalf) /\ Len(sons[par]) = n + 1
    BY <1>1, <1>5, <2>5
  <2>8. Len(keys'[par]) = n + 1 /\ Len(sons'[par]) = n + 1 + 1 BY <2>4, <2>7
  <2> HIDE DEF n
  <2>9. n + 1 \in 1 .. N /\ (par # root => n + 1 >= FloorHalf)
    BY <1>7, <2>6, <2>7
  <2> QED BY <1>1, <2>4, <2>8, <2>9 DEF InnerSized
<1>13. \A n \in Inners' : InnerSized(n)
  <2> TAKE n \in Inners'
  <2>1. CASE n = par BY <1>12, <2>1
  <2>2. CASE n # par
    <3>1. keys'[n] = keys[n] /\ sons'[n] = sons[n] /\ n \in Inners
      <4>1. DOMAIN sons = Inners BY <1>2 DEF ShapeInv, Typed
      <4> QED BY <1>1, <1>11, <2>2, <4>1 DEF Inners
    <3> QED BY <1>1, <1>2, <3>1, InnerAlone
  <2> QED BY <2>1, <2>2
<1>14. \A l \in DOMAIN vals : l # root' => Len(vals[l]) >= FloorHalf
  BY <1>1, <1>2, LeavesBig
<1>15. TreeInv' BY <1>1, <1>2, <1>6, <1>8, <1>9, <1>13, <1>14, InnerTree
<1> QED BY <1>1, <1>6, <1>9, <1>15, InnerStep

KeysHalved(k, s, i, key, inst) ==
  LET d == Split(k, s, i, key, inst)
  IN  /\ d.low \in Seq(Keys) /\ d.high \in Seq(Keys) /\ Len(d.low) = CeilHalf /\ Len(d.high) = FloorHalf
      /\ UpKey(k, i, key) \in Keys

Sliced(s, a, b, E) == Slice(s, a, b) \in Seq(E) /\ Len(Slice(s, a, b)) = b - a

LEMMA Slices ==
  ASSUME NEW E, NEW s \in Seq(E), NEW b \in 0 .. Len(s), NEW a \in 0 .. b
  PROVE  Sliced(s, a, b, E)
BY SliceIs DEF Sliced

LEMMA SplitKeys ==
  ASSUME use \in Uses, NEW k \in Seq(Keys), Len(k) = N, NEW s, NEW i \in 1 .. N + 1, NEW key \in Keys, NEW inst
  PROVE  KeysHalved(k, s, i, key, inst)
<1> DEFINE d == Split(k, s, i, key, inst)
           C == CeilHalf
           F == FloorHalf
           b == C - 1
           a == C + 1
           j == i - 1
<1>1. N \in Nat /\ F \in Nat /\ C \in Nat /\ F + C = N /\ F >= 2 /\ F <= C
  BY Halves
<1>2. At(k, b) \in Keys /\ At(k, C) \in Keys
  <2>1. b \in 0 .. Len(k) - 1 /\ C \in 0 .. Len(k) - 1 BY <1>1
  <2> HIDE DEF b, C
  <2> QED BY <2>1, SliceOne
<1>3. UpKey(k, i, key) \in Keys BY <1>2 DEF UpKey
<1>4. CASE i <= C
  <2>1. d.low = Put(Slice(k, 0, b), j, key) /\ d.high = Slice(k, C, N)
    BY <1>4 DEF Split
  <2>2. b \in 0 .. Len(k) /\ j \in 0 .. b /\ C \in 0 .. Len(k) /\ N \in 0 .. Len(k) /\ C \in 0 .. N
    BY <1>1, <1>4
  <2>3. N - C = F /\ b + 1 = C BY <1>1
  <2> HIDE DEF b, C, F, j, d
  <2>4. PutLow(k, b, j, key, Keys) BY <2>2, PutsLow
  <2>5. d.low \in Seq(Keys) /\ Len(d.low) = b + 1 BY <2>1, <2>4 DEF PutLow
  <2>6. d.high \in Seq(Keys) /\ Len(d.high) = N - C
    <3>1. Sliced(k, C, N, Keys) BY <2>2, Slices
    <3> QED BY <2>1, <3>1 DEF Sliced
  <2> QED BY <1>3, <2>3, <2>5, <2>6 DEF KeysHalved, d, C, F
<1>5. CASE i = C + 1
  <2>1. d.low = Slice(k, 0, C) /\ d.high = Slice(k, C, N)
    BY <1>1, <1>5 DEF Split
  <2> DEFINE zero == 0
  <2>2. C \in 0 .. Len(k) /\ N \in 0 .. Len(k) /\ C \in 0 .. N /\ zero \in 0 .. C
    BY <1>1
  <2>3. N - C = F /\ C - zero = C BY <1>1
  <2>4. d.low = Slice(k, zero, C) BY <2>1
  <2> HIDE DEF C, F, d, zero
  <2>5. d.low \in Seq(Keys) /\ Len(d.low) = C - zero
    <3>1. Sliced(k, zero, C, Keys) BY <2>2, Slices
    <3> QED BY <2>4, <3>1 DEF Sliced
  <2>6. d.high \in Seq(Keys) /\ Len(d.high) = N - C
    <3>1. Sliced(k, C, N, Keys) BY <2>2, Slices
    <3> QED BY <2>1, <3>1 DEF Sliced
  <2> QED BY <1>3, <2>3, <2>5, <2>6 DEF KeysHalved, d, C, F
<1>6. CASE i > C + 1
  <2>1. d.low = Slice(k, 0, C) /\ d.high = (Slice(k, a, j) \o <<key>>) \o Slice(k, j, Len(k))
    BY <1>1, <1>6 DEF Split
  <2> DEFINE zero == 0
  <2>2. C \in 0 .. Len(k) /\ zero \in 0 .. C /\ j \in 0 .. Len(k) /\ a \in 0 .. j
    BY <1>1, <1>6
  <2>3. Len(k) - a + 1 = F /\ C - zero = C BY <1>1
  <2>4. d.low = Slice(k, zero, C) BY <2>1
  <2> HIDE DEF C, F, d, zero, a, j
  <2>5. d.low \in Seq(Keys) /\ Len(d.low) = C - zero
    <3>1. Sliced(k, zero, C, Keys) BY <2>2, Slices
    <3> QED BY <2>4, <3>1 DEF Sliced
  <2>6. PutHigh(k, a, j, key, Keys) BY <2>2, PutsHigh
  <2>7. d.high \in Seq(Keys) /\ Len(d.high) = Len(k) - a + 1
    BY <2>1, <2>6 DEF PutHigh
  <2> QED BY <1>3, <2>3, <2>5, <2>7 DEF KeysHalved, d, C, F
<1>7. i \in Nat /\ C \in Nat BY <1>1
<1>8. i <= C \/ i = C + 1 \/ i > C + 1 BY <1>7
<1> QED BY <1>4, <1>5, <1>6, <1>8, Zenon

(* What a split leaves in the two nodes. *)
SplitSized(par, inst, s, t) ==
  /\ par \in Inners /\ inst \notin Inners /\ par # inst
  /\ keys'[par] \in Seq(Keys) /\ keys'[inst] \in Seq(Keys) /\ Len(keys'[par]) = CeilHalf /\ Len(keys'[inst]) = FloorHalf
  /\ Len(sons'[par]) = CeilHalf + 1 /\ Len(sons'[inst]) = FloorHalf + 1
  /\ Inners' = Inners \cup {inst} /\ \A n \in Inners \ {par} : keys'[n] = keys[n] /\ sons'[n] = sons[n]

LEMMA SplitSizes ==
  ASSUME TreeInv, NEW par \in Inners, NEW inst, inst \notin Inners, NEW k, NEW low, NEW high, NEW s, NEW t,
         keys' = With(keys, Two(par, low, inst, high)), sons' = With(sons, Two(par, s, inst, t)),
         low \in Seq(Keys), high \in Seq(Keys), Len(low) = CeilHalf, Len(high) = FloorHalf,
         Len(s) = CeilHalf + 1, Len(t) = FloorHalf + 1
  PROVE  SplitSized(par, inst, s, t)
<1>1. DOMAIN sons = Inners BY DEF TreeInv, ShapeInv, Typed
<1>2. par # inst OBVIOUS
<1>3. /\ keys'[par] = low /\ keys'[inst] = high /\ DOMAIN keys' = Inners \cup {inst}
      /\ \A n \in Inners \ {par} : keys'[n] = keys[n]
  BY <1>2 DEF With, Two, Inners
<1>4. /\ sons'[par] = s /\ sons'[inst] = t
      /\ \A n \in Inners \ {par} : sons'[n] = sons[n]
  BY <1>1, <1>2 DEF With, Two
<1>5. Inners' = Inners \cup {inst} BY <1>3 DEF Inners
<1> QED BY <1>2, <1>3, <1>4, <1>5 DEF SplitSized

LEMMA SplitInners ==
  ASSUME TreeInv, NEW par, NEW inst, NEW s, NEW t, SplitSized(par, inst, s, t), root' = root
  PROVE  (\A n \in Inners' : InnerSized(n)) /\ Len(keys'[par]) >= FloorHalf
<1> DEFINE F == FloorHalf
           C == CeilHalf
<1>1. N \in Nat /\ F \in Nat /\ C \in Nat /\ F + C = N /\ F >= 2 /\ F <= C
  BY Halves DEF TreeInv, ShapeInv, Typed
<1>2. /\ keys'[par] \in Seq(Keys) /\ keys'[inst] \in Seq(Keys) /\ Len(keys'[par]) = C /\ Len(keys'[inst]) = F
      /\ Len(sons'[par]) = C + 1 /\ Len(sons'[inst]) = F + 1
      /\ Inners' = Inners \cup {inst} /\ \A n \in Inners \ {par} : keys'[n] = keys[n] /\ sons'[n] = sons[n]
  BY DEF SplitSized
<1> HIDE DEF F, C
<1>3. C \in 1 .. N /\ F \in 1 .. N /\ C >= F /\ F >= F BY <1>1
<1>4. InnerSized(par) /\ InnerSized(inst) BY <1>2, <1>3 DEF InnerSized, F
<1>5. \A n \in Inners' : InnerSized(n)
  <2> TAKE n \in Inners'
  <2>1. CASE n = par \/ n = inst BY <1>4, <2>1
  <2>2. CASE n # par /\ n # inst
    <3>1. n \in Inners /\ keys'[n] = keys[n] /\ sons'[n] = sons[n] BY <1>2, <2>2
    <3> QED BY <3>1, InnerAlone
  <2> QED BY <2>1, <2>2
<1> QED BY <1>2, <1>3, <1>5 DEF F

LEMMA AscendSplitInv ==
  ASSUME IInv, AscendSplit
  PROVE  IInv' /\ Contents' = Contents
<1> DEFINE par == parent[work.cur]
           i == pos[work.cur] + 1
           j == pos[work.cur]
           key == work.key
           new == work.inst
           inst == Fresh
           k == keys[par]
           s == sons[par]
           d == Split(k, s, i, key, new)
           up == UpKey(k, i, key)
<1>1. /\ work.pc = "ascend" /\ use' = use /\ par # NULL /\ Len(k) = N
      /\ keys' = With(keys, Two(par, d.low, inst, d.high)) /\ sons' = With(sons, Two(par, d.lowSons, inst, d.highSons))
      /\ work' = [work EXCEPT !.cur = par, !.inst = inst, !.key = up]
      /\ root' = root /\ size' = size /\ base' = base /\ vals' = vals /\ chain' = chain
  BY SMTT(60) DEF AscendSplit, In
<1>2. TreeInv /\ ShapeInv /\ Filled /\ Sized /\ Working /\ use \in Uses
  BY DEF IInv, TreeInv, ShapeInv, Typed
<1>3. key \in Keys /\ work.left = 0 /\ work.at \in Nat
  BY <1>1, <1>2, SMTT(60) DEF Working
<1>4. par \in Inners /\ j \in 0 .. Len(s) - 1
  <2>1. Ascending /\ Typed BY <1>2 DEF ShapeInv
  <2>2. work.cur \in Nodes BY <1>1, <2>1 DEF Ascending
  <2> QED BY <1>1, <2>1, <2>2, SMTT(60) DEF Typed, Ascending
<1>5. k \in Seq(Keys) /\ s \in Seq(Nat) /\ Len(s) = Len(k) + 1
  BY <1>2, <1>4, SonsMany, SMTT(60)
<1>6. root # NULL BY <1>1, <1>2, SMTT(60) DEF ShapeInv, NoTree
<1>7. Len(s) = N + 1 /\ N \in Nat
  <2>1. N \in Nat BY <1>2, Halves
  <2> QED BY <1>1, <1>5, <2>1
<1>8. ShapeInv' BY <1>2, <1>7, AscendSplitShape
<1>9. i \in 1 .. N + 1 BY <1>4, <1>7, SMTT(60)
<1>10. new \in Nat
  <2>1. new \in Nodes BY <1>1, <1>2 DEF ShapeInv, Ascending
  <2> QED BY <1>2, <2>1 DEF ShapeInv, Typed
<1>11. inst \notin Inners /\ inst \in Nat
  <2>1. inst \notin Nodes /\ inst \in Nat BY <1>2, FreshIs DEF ShapeInv, Typed
  <2> QED BY <1>2, <2>1 DEF ShapeInv, Typed
<1> HIDE DEF par, i, j, key, new, inst, k, s
<1>12. KeysHalved(k, s, i, key, new) BY <1>1, <1>2, <1>3, <1>5, <1>9, SplitKeys
<1>13. Halved(s, i, new, d.lowSons, d.highSons, Nat)
  <2>1. Halved(s, i, new, Split(k, s, i, key, new).lowSons, Split(k, s, i, key, new).highSons, Nat)
    BY <1>2, <1>5, <1>7, <1>9, <1>10, SplitSons
  <2> QED BY <2>1
<1>14. d.low \in Seq(Keys) /\ d.high \in Seq(Keys) /\ Len(d.low) = CeilHalf /\ Len(d.high) = FloorHalf /\ up \in Keys
  BY <1>12 DEF KeysHalved
<1>15. Len(d.lowSons) = CeilHalf + 1 /\ Len(d.highSons) = FloorHalf + 1
  BY <1>13 DEF Halved
<1> DEFINE lo == d.low
           hi == d.high
           ls == d.lowSons
           hs == d.highSons
<1>16. /\ keys' = With(keys, Two(par, lo, inst, hi)) /\ sons' = With(sons, Two(par, ls, inst, hs))
       /\ lo \in Seq(Keys) /\ hi \in Seq(Keys) /\ Len(lo) = CeilHalf /\ Len(hi) = FloorHalf
       /\ Len(ls) = CeilHalf + 1 /\ Len(hs) = FloorHalf + 1
  BY <1>1, <1>14, <1>15
<1> HIDE DEF d, up, lo, hi, ls, hs
<1>17. SplitSized(par, inst, ls, hs) BY <1>2, <1>4, <1>11, <1>16, SplitSizes
<1>18. (\A n \in Inners' : InnerSized(n)) /\ Len(keys'[par]) >= FloorHalf
  BY <1>1, <1>2, <1>17, SplitInners
<1>19. work' = [work EXCEPT !.cur = par, !.inst = inst, !.key = up] BY <1>1
<1>20. Working' /\ work'.it = work.it /\ work'.want = work.want /\ work'.left = work.left /\ work'.pc = "ascend" /\ work'.cur = par
  <2>1. /\ work'.pc = "ascend" /\ work'.cur = par /\ work'.inst = inst /\ work'.key = up
        /\ work'.at = work.at /\ work'.left = work.left /\ work'.it = work.it /\ work'.want = work.want
    BY <1>1, <1>19
  <2>2. Working' BY <1>1, <1>3, <1>14, <2>1 DEF Working, Pcs, Keys, Elems
  <2> QED BY <2>1, <2>2
<1>21. \A l \in DOMAIN vals : l # root' => Len(vals[l]) >= FloorHalf
  BY <1>1, <1>2, LeavesBig
<1>22. work'.cur \in Inners' /\ Len(keys'[work'.cur]) >= FloorHalf
  BY <1>17, <1>18, <1>20 DEF SplitSized
<1>23. TreeInv' BY <1>1, <1>2, <1>6, <1>8, <1>18, <1>21, <1>22, InnerTree
<1> QED BY <1>1, <1>6, <1>20, <1>23, InnerStep, SMTT(60)

LEMMA AscendRootInv ==
  ASSUME IInv, AscendRoot
  PROVE  IInv' /\ Contents' = Contents
<1> DEFINE r == Fresh
           key == work.key
           x == work.cur
           y == work.inst
           it == work.it
           w == work.want
           im == work.import
<1>1. /\ work.pc = "ascend" /\ use' = use /\ parent[x] = NULL
      /\ keys' = With(keys, Only(r, <<key>>)) /\ sons' = With(sons, Only(r, <<x, y>>))
      /\ work' = Returned(it, w, im) /\ root' = r /\ size' = size /\ base' = base /\ vals' = vals /\ chain' = chain
  BY DEF AscendRoot, In
<1>2. TreeInv /\ ShapeInv /\ Filled /\ Sized /\ Working /\ use \in Uses
  BY DEF IInv, TreeInv, ShapeInv, Typed
<1>3. key \in Keys /\ work.left = 0 BY <1>1, <1>2 DEF Working
<1>4. x \in Nodes /\ x = root /\ root # NULL
  BY <1>1, <1>2 DEF ShapeInv, Ascending, NoTree
<1>5. r \in Nat /\ r \notin Nodes /\ r # NULL
  <2>1. r \in Nat /\ r \notin Nodes BY <1>2, FreshIs DEF ShapeInv, Typed
  <2> QED BY <2>1, NullAssumption
<1>6. Nodes = DOMAIN vals \cup Inners /\ DOMAIN vals \cap Inners = {} /\ DOMAIN sons = Inners /\ r \notin Inners
  BY <1>2, <1>5 DEF ShapeInv, Typed
<1>7. ShapeInv' BY <1>2, AscendRootShape
<1>8. N \in Nat /\ N >= 4 /\ FloorHalf \in Nat BY <1>2, Halves
<1> HIDE DEF r
<1>9. keys'[r] = <<key>> /\ sons'[r] = <<x, y>> /\ Inners' = Inners \cup {r}
      /\ \A n \in Inners : keys'[n] = keys[n] /\ sons'[n] = sons[n]
  BY <1>1, <1>6 DEF With, Only, Inners
<1>10. Len(keys'[x]) >= FloorHalf \/ x \notin Inners
  <2>1. CASE x \in Inners
    <3>1. SizeOf(x) >= FloorHalf /\ SizeOf(x) = Len(keys[x])
      BY <1>1, <1>2, <2>1, SonsMany DEF Sized
    <3> QED BY <1>9, <2>1, <3>1
  <2> QED BY <2>1
<1>11. \A n \in Inners' : InnerSized(n)
  <2> TAKE n \in Inners'
  <2>1. CASE n = r
    <3>1. keys'[n] = <<key>> /\ sons'[n] = <<x, y>> BY <1>9, <2>1
    <3>2. <<key>> \in Seq(Keys) /\ Len(<<key>>) = 1 /\ Len(<<x, y>>) = 2 BY <1>3
    <3>3. keys'[n] \in Seq(Keys) /\ Len(keys'[n]) = 1 /\ Len(sons'[n]) = 2
      BY <3>1, <3>2
    <3>4. 1 \in 1 .. N /\ 2 = 1 + 1 BY <1>8
    <3> QED BY <1>1, <2>1, <3>3, <3>4 DEF InnerSized
  <2>2. CASE n # r
    <3>1. n \in Inners /\ keys'[n] = keys[n] /\ sons'[n] = sons[n] BY <1>9, <2>2
    <3>2. keys[n] \in Seq(Keys) /\ Len(sons[n]) = Len(keys[n]) + 1 /\ Len(keys[n]) \in 1 .. N /\ n \in Nodes
          /\ SizeOf(n) = Len(keys[n])
      BY <1>2, <3>1, SonsMany
    <3>3. Len(keys[n]) >= FloorHalf
      <4>1. CASE n = x BY <1>9, <1>10, <3>1, <4>1
      <4>2. CASE n # x BY <1>2, <1>4, <3>2, <4>2 DEF Sized
      <4> QED BY <4>1, <4>2
    <3> QED BY <3>1, <3>2, <3>3 DEF InnerSized
  <2> QED BY <2>1, <2>2
<1>12. \A l \in DOMAIN vals : l # root' => Len(vals[l]) >= FloorHalf
  <2> TAKE l \in DOMAIN vals
  <2>1. l \in Nodes /\ SizeOf(l) = Len(vals[l]) BY <1>2, LeafHolds
  <2>2. SizeOf(l) >= FloorHalf BY <1>1, <1>2, <1>4, <2>1 DEF Sized
  <2> QED BY <2>1, <2>2
<1>13. Working' /\ work'.it = it /\ work'.pc = "idle" /\ work'.want = w /\ work'.left = work.left
  <2> HIDE DEF it, w, im
  <2>1. Working' /\ work'.it = it /\ work'.pc = "idle" /\ work'.want = w
    BY <1>1, ReturnedWork
  <2>2. work'.left = 0 BY <1>1 DEF Returned
  <2> QED BY <1>3, <2>1, <2>2
<1>14. TreeInv' BY <1>1, <1>2, <1>4, <1>7, <1>11, <1>12, <1>13, InnerTree
<1> QED BY <1>1, <1>4, <1>5, <1>13, <1>14, InnerStep

(* The inner node a rebalancing iteration works on. *)
Shrinks(n, a) ==
  /\ work.pc = "rebalance" /\ root # NULL /\ n = work.cur /\ a = work.at - 1
  /\ TreeInv /\ ShapeInv /\ Filled /\ Sized /\ use \in Uses /\ work.left \in Nat
  /\ n \in Inners /\ n \in Nodes /\ keys[n] \in Seq(Keys) /\ sons[n] \in Seq(Nat)
  /\ Len(keys[n]) \in 1 .. N /\ Len(sons[n]) = Len(keys[n]) + 1
  /\ a \in 0 .. Len(keys[n]) - 1 /\ work.at \in 0 .. Len(sons[n]) - 1
  /\ Cut(keys[n], a) \in Seq(Keys) /\ Len(Cut(keys[n], a)) = Len(keys[n]) - 1
  /\ Len(Cut(sons[n], work.at)) = Len(keys[n])
  /\ (n # root => Len(keys[n]) >= FloorHalf)
  /\ N \in Nat /\ FloorHalf \in Nat /\ FloorHalf >= 2 /\ 2 * FloorHalf <= N
  /\ DOMAIN sons = Inners

LEMMA ShrinksAt ==
  ASSUME IInv, work.pc = "rebalance"
  PROVE  Shrinks(work.cur, work.at - 1)
<1> DEFINE n == work.cur
           at == work.at
           a == at - 1
           k == keys[n]
           s == sons[n]
<1>1. TreeInv /\ ShapeInv /\ Filled /\ Sized /\ use \in Uses /\ work.left \in Nat /\ DOMAIN sons = Inners
  BY DEF IInv, Working, TreeInv, ShapeInv, Typed
<1>2. n \in Inners /\ at \in 1 .. Len(s) - 1 BY <1>1 DEF ShapeInv, Rebalancing
<1>3. n \in Nodes /\ k \in Seq(Keys) /\ s \in Seq(Nat) /\ Len(k) \in 1 .. N /\ Len(s) = Len(k) + 1 /\ SizeOf(n) = Len(k)
  BY <1>1, <1>2, SonsMany
<1>4. root # NULL BY <1>1 DEF ShapeInv, NoTree
<1>5. N \in Nat /\ FloorHalf \in Nat /\ FloorHalf >= 2 /\ 2 * FloorHalf <= N
  <2>1. N \in Nat /\ FloorHalf \in Nat /\ CeilHalf \in Nat /\ FloorHalf >= 2 /\ FloorHalf + CeilHalf = N
        /\ FloorHalf <= CeilHalf
    BY <1>1, Halves
  <2> QED BY <2>1
<1>6. n # root => Len(k) >= FloorHalf BY <1>1, <1>3 DEF Sized
<1>7. Len(k) \in Nat BY <1>3, LenProperties
<1>8. a \in 0 .. Len(k) - 1 /\ at \in 0 .. Len(s) - 1
  <2> DEFINE x == Len(k)
             y == Len(s)
  <2>1. x \in Nat /\ y = x + 1 /\ at \in 1 .. y - 1 BY <1>2, <1>3, <1>7
  <2> HIDE DEF x, y, at
  <2>2. at - 1 \in 0 .. x - 1 /\ at \in 0 .. y - 1 BY <2>1
  <2> QED BY <2>2 DEF x, y
<1> HIDE DEF a, k, s, at
<1>9. CutFrom(k, a, Keys) /\ CutFrom(s, at, Nat) BY <1>3, <1>8, CutOff
<1>10. Cut(k, a) \in Seq(Keys) /\ Len(Cut(k, a)) = Len(k) - 1 /\ Len(Cut(s, at)) = Len(s) - 1
  BY <1>9 DEF CutFrom
<1>11. Len(Cut(s, at)) = Len(k) BY <1>3, <1>7, <1>10
<1> QED
  BY <1>1, <1>2, <1>3, <1>4, <1>5, <1>6, <1>8, <1>10, <1>11 DEF Shrinks, a, k, s, at

LEMMA ResumeWork ==
  ASSUME work.left \in Nat, work' = Resume
  PROVE  Working' /\ work'.it = work.it /\ work'.want = work.want /\ work'.left = work.left /\ work'.pc \in {"idle", "range"}
<1> DEFINE it == work.it
           left == work.left
           want == work.want
<1>1. left \in Nat /\ work' = Erased(it, left, want) BY DEF Resume
<1> HIDE DEF it, left, want
<1>2. WorkDone(left, want) /\ work'.it = it /\ work'.pc \in {"idle", "range"}
  BY <1>1, ErasedWork
<1> QED BY <1>2 DEF WorkDone, it, left, want

LEMMA RebalanceStep ==
  ASSUME IInv, work.pc = "rebalance", use' = use, root' # NULL, size' = size, base' = base, vals' = vals, chain' = chain,
         ShapeInv', \A n \in Inners' : InnerSized(n), root' = root \/ root \notin DOMAIN vals,
         Working', work'.it = work.it, work'.want = work.want, work'.left = work.left, work'.pc # "ascend"
  PROVE  IInv' /\ Contents' = Contents
<1>1. TreeInv /\ root # NULL BY DEF IInv, TreeInv, ShapeInv, NoTree
<1>2. \A l \in DOMAIN vals : l # root' => Len(vals[l]) >= FloorHalf
  BY <1>1, LeavesBig
<1>3. TreeInv' BY <1>1, <1>2, InnerTree
<1> QED BY <1>1, <1>3, InnerStep

LEMMA RebalanceRoomInv ==
  ASSUME IInv, RebalanceRoom
  PROVE  IInv' /\ Contents' = Contents
<1> DEFINE n == work.cur
           a == work.at - 1
<1>1. /\ work.pc = "rebalance" /\ use' = use /\ Len(keys[n]) > FloorHalf /\ keys' = [keys EXCEPT ![n] = Cut(@, a)]
      /\ sons' = [sons EXCEPT ![n] = Cut(sons[n], work.at)] /\ work' = Resume
      /\ root' = root /\ size' = size /\ base' = base /\ vals' = vals /\ chain' = chain
  BY DEF RebalanceRoom, In
<1>2. Shrinks(n, a) BY <1>1, ShrinksAt
<1>3. /\ root # NULL /\ TreeInv /\ ShapeInv /\ work.left \in Nat /\ n \in Inners /\ Len(keys[n]) \in 1 .. N
      /\ Len(sons[n]) = Len(keys[n]) + 1 /\ Cut(keys[n], a) \in Seq(Keys) /\ Len(Cut(keys[n], a)) = Len(keys[n]) - 1
      /\ Len(Cut(sons[n], work.at)) = Len(keys[n]) /\ N \in Nat /\ FloorHalf \in Nat /\ FloorHalf >= 2 /\ DOMAIN sons = Inners
  BY <1>2 DEF Shrinks
<1>4. ShapeInv'
  <2>1. Len(sons[work.cur]) <= N + 1
    <3> DEFINE x == Len(keys[n])
    <3>1. x \in 1 .. N /\ Len(sons[n]) = x + 1 BY <1>3
    <3> HIDE DEF x
    <3> QED BY <1>3, <3>1
  <2> QED BY <1>3, <2>1, RebalanceRoomShape
<1>5. Working' /\ work'.it = work.it /\ work'.want = work.want /\ work'.left = work.left /\ work'.pc \in {"idle", "range"}
  BY <1>1, <1>3, ResumeWork
<1>6. Inners' = Inners BY <1>1 DEF Inners
<1>7. keys'[n] = Cut(keys[n], a) /\ sons'[n] = Cut(sons[n], work.at)
  BY <1>1, <1>3 DEF Inners
<1>8. InnerSized(n)
  <2> DEFINE x == Len(keys[n])
  <2>1. x \in 1 .. N /\ x > FloorHalf /\ Len(keys'[n]) = x - 1 /\ Len(sons'[n]) = x /\ keys'[n] \in Seq(Keys)
    BY <1>1, <1>3, <1>7
  <2> HIDE DEF x
  <2>2. x - 1 \in 1 .. N /\ x - 1 >= FloorHalf /\ x = (x - 1) + 1
    BY <1>3, <2>1, SMTT(60)
  <2> QED BY <2>1, <2>2 DEF InnerSized
<1>9. \A q \in Inners' : InnerSized(q)
  <2> TAKE q \in Inners'
  <2>1. CASE q = n BY <1>8, <2>1
  <2>2. CASE q # n
    <3>1. keys'[q] = keys[q] /\ sons'[q] = sons[q] /\ q \in Inners
      BY <1>1, <1>3, <1>6, <2>2 DEF Inners
    <3> QED BY <1>1, <1>3, <3>1, InnerAlone
  <2> QED BY <2>1, <2>2
<1> QED BY <1>1, <1>3, <1>4, <1>5, <1>9, RebalanceStep

(* An inner node that lost one key of more than one it may do without. *)
LEMMA InnerShrunk ==
  ASSUME TreeInv, NEW n, NEW a, Shrinks(n, a), keys' = [keys EXCEPT ![n] = Cut(@, a)],
         sons' = [sons EXCEPT ![n] = Cut(sons[n], work.at)], root' = root,
         Len(keys[n]) > 1, n # root => Len(keys[n]) > FloorHalf
  PROVE  \A q \in Inners' : InnerSized(q)
<1>1. /\ n \in Inners /\ Len(keys[n]) \in 1 .. N
      /\ Len(sons[n]) = Len(keys[n]) + 1 /\ Cut(keys[n], a) \in Seq(Keys) /\ Len(Cut(keys[n], a)) = Len(keys[n]) - 1
      /\ Len(Cut(sons[n], work.at)) = Len(keys[n]) /\ N \in Nat /\ FloorHalf \in Nat /\ FloorHalf >= 2 /\ DOMAIN sons = Inners
  BY DEF Shrinks
<1>2. Inners' = Inners BY DEF Inners
<1>3. keys'[n] = Cut(keys[n], a) /\ sons'[n] = Cut(sons[n], work.at)
  BY <1>1 DEF Inners
<1>4. InnerSized(n)
  <2> DEFINE x == Len(keys[n])
  <2>1. x \in 1 .. N /\ x > 1 /\ (n # root => x > FloorHalf) /\ Len(keys'[n]) = x - 1 /\ Len(sons'[n]) = x /\ keys'[n] \in Seq(Keys)
    BY <1>1, <1>3
  <2> HIDE DEF x
  <2>2. x - 1 \in 1 .. N /\ (n # root => x - 1 >= FloorHalf) /\ x = (x - 1) + 1
    BY <1>1, <2>1
  <2> QED BY <2>1, <2>2 DEF InnerSized
<1> TAKE q \in Inners'
<1>5. CASE q = n BY <1>4, <1>5
<1>6. CASE q # n
  <2>1. keys'[q] = keys[q] /\ sons'[q] = sons[q] /\ q \in Inners
    BY <1>1, <1>2, <1>6 DEF Inners
  <2> QED BY <2>1, InnerAlone
<1> QED BY <1>5, <1>6

LEMMA RebalanceRootInv ==
  ASSUME IInv, RebalanceRoot
  PROVE  IInv' /\ Contents' = Contents
<1> DEFINE n == work.cur
           a == work.at - 1
           top == At(sons[n], 0)
<1>1. /\ work.pc = "rebalance" /\ use' = use /\ parent[n] = NULL /\ work' = Resume
      /\ size' = size /\ base' = base /\ vals' = vals /\ chain' = chain
  BY DEF RebalanceRoot, In
<1>2. Shrinks(n, a) BY <1>1, ShrinksAt
<1>3. /\ root # NULL /\ TreeInv /\ ShapeInv /\ work.left \in Nat /\ n \in Inners /\ n \in Nodes /\ Len(keys[n]) \in 1 .. N
      /\ Len(sons[n]) = Len(keys[n]) + 1 /\ sons[n] \in Seq(Nat) /\ N \in Nat /\ DOMAIN sons = Inners
  BY <1>2 DEF Shrinks
<1>4. n = root
  <2>1. work.pc # "ascend" /\ work.pc \in Pcs BY <1>1 DEF Pcs
  <2> QED BY <1>1, <1>3, <2>1, RootHome
<1>5. Working' /\ work'.it = work.it /\ work'.want = work.want /\ work'.left = work.left /\ work'.pc \in {"idle", "range"}
  BY <1>1, <1>3, ResumeWork
<1>6. ShapeInv'
  <2>1. Len(keys[work.cur]) <= N /\ Len(keys[work.cur]) \in Nat
    <3> DEFINE x == Len(keys[n])
    <3>1. x \in 1 .. N BY <1>3
    <3> HIDE DEF x
    <3>2. x <= N /\ x \in Nat BY <1>3, <3>1
    <3> QED BY <3>2 DEF x
  <2> QED BY <1>3, <2>1, RebalanceRootShape
<1>7. CASE Len(keys[n]) = 1
  <2>1. root' = top /\ keys' = Without(keys, n) /\ sons' = Without(sons, n)
    BY <1>7 DEF RebalanceRoot
  <2>2. top \in Nat
    <3>1. 0 \in 0 .. Len(sons[n]) - 1 BY <1>3, <1>7
    <3> QED BY <1>3, <3>1, AtMember
  <2>3. root' # NULL BY <2>1, <2>2, NullAssumption
  <2>4. root \notin DOMAIN vals BY <1>3, <1>4 DEF ShapeInv, Typed
  <2>5. \A q \in Inners' : InnerSized(q)
    <3> TAKE q \in Inners'
    <3>1. q \in Inners /\ q # n /\ keys'[q] = keys[q] /\ sons'[q] = sons[q]
      BY <1>3, <2>1 DEF Inners, Without
    <3> QED BY <1>3, <1>4, <3>1, InnerAlone
  <2> QED BY <1>1, <1>3, <1>5, <1>6, <2>3, <2>4, <2>5, RebalanceStep
<1>8. CASE Len(keys[n]) # 1
  <2>1. root' = root /\ keys' = [keys EXCEPT ![n] = Cut(@, a)] /\ sons' = [sons EXCEPT ![n] = Cut(sons[n], work.at)]
    BY <1>8 DEF RebalanceRoot
  <2>2. Len(keys[n]) > 1
    <3> DEFINE x == Len(keys[n])
    <3>1. x \in 1 .. N /\ x # 1 BY <1>3, <1>8
    <3> HIDE DEF x
    <3>2. x > 1 BY <1>3, <3>1
    <3> QED BY <3>2 DEF x
  <2>3. \A q \in Inners' : InnerSized(q)
    BY <1>2, <1>3, <1>4, <2>1, <2>2, InnerShrunk
  <2> QED BY <1>1, <1>3, <1>5, <1>6, <2>1, <2>3, RebalanceStep
<1> QED BY <1>7, <1>8

(* Two inner nodes side by side under par, with the separator between them. *)
InnerAt(x) ==
  /\ x \in Inners /\ x \in Nodes /\ keys[x] \in Seq(Keys) /\ sons[x] \in Seq(Nat)
  /\ Len(keys[x]) \in FloorHalf .. N /\ Len(sons[x]) = Len(keys[x]) + 1

TwoInners(x, y, par, i) ==
  /\ Beside(x, y, par, i) /\ x # y /\ InnerAt(x) /\ InnerAt(y)
  /\ par \in Inners /\ par # x /\ par # y /\ keys[par] \in Seq(Keys)
  /\ i \in 0 .. Len(keys[par]) - 1 /\ At(keys[par], i) \in Keys
  /\ N \in Nat /\ FloorHalf \in Nat /\ FloorHalf >= 2 /\ 2 * FloorHalf <= N /\ use \in Uses /\ DOMAIN sons = Inners

LEMMA InnerHas ==
  ASSUME TreeInv, NEW x \in Inners, x # root
  PROVE  InnerAt(x)
<1>1. ShapeInv /\ Filled /\ Sized /\ use \in Uses
  BY DEF TreeInv, ShapeInv, Typed
<1>2. x \in Nodes /\ keys[x] \in Seq(Keys) /\ sons[x] \in Seq(Nat)
      /\ Len(keys[x]) \in 1 .. N /\ Len(sons[x]) = Len(keys[x]) + 1 /\ SizeOf(x) = Len(keys[x])
  BY <1>1, SonsMany
<1>3. Len(keys[x]) >= FloorHalf BY <1>1, <1>2 DEF Sized
<1>4. N \in Nat /\ FloorHalf \in Nat BY <1>1, Halves
<1> DEFINE l == Len(keys[x])
<1>5. l \in 1 .. N /\ l >= FloorHalf BY <1>2, <1>3
<1> HIDE DEF l
<1>6. l \in FloorHalf .. N BY <1>4, <1>5
<1> QED BY <1>2, <1>6 DEF InnerAt, l

LEMMA TwoInnersAre ==
  ASSUME TreeInv, root # NULL, work.pc = "rebalance", NEW x, NEW y, NEW par, NEW i, Beside(x, y, par, i),
         x \in Inners \/ y \in Inners
  PROVE  TwoInners(x, y, par, i)
<1>1. ShapeInv /\ Filled /\ Sized /\ use \in Uses /\ DOMAIN sons = Inners
  BY DEF TreeInv, ShapeInv, Typed
<1>2. x \in Inners /\ y \in Inners
  <2>1. x \in Inners <=> y \in Inners BY <1>1, SameKind
  <2> QED BY <2>1
<1>3. /\ x # y /\ par \in Inners /\ par # x /\ par # y /\ parent[x] = par /\ parent[y] = par /\ par # NULL
      /\ i \in 0 .. Len(sons[par]) - 2
  BY DEF Beside, IsSon
<1>4. x # root /\ y # root
  <2>1. work.pc # "ascend" /\ work.pc \in Pcs BY DEF Pcs
  <2>2. parent[root] = NULL BY <1>1, <2>1, RootHas
  <2> QED BY <1>3, <2>2
<1>5. InnerAt(x) /\ InnerAt(y) BY <1>2, <1>4, InnerHas
<1>6. keys[par] \in Seq(Keys) /\ Len(sons[par]) = Len(keys[par]) + 1
  BY <1>1, <1>3, SonsMany
<1>7. i \in 0 .. Len(keys[par]) - 1
  <2> DEFINE k == Len(keys[par])
  <2>1. k \in Nat /\ i \in 0 .. (k + 1) - 2 BY <1>3, <1>6, LenProperties
  <2> HIDE DEF k
  <2>2. i \in 0 .. k - 1 BY <2>1
  <2> QED BY <2>2 DEF k
<1>8. At(keys[par], i) \in Keys BY <1>6, <1>7, AtMember
<1>9. N \in Nat /\ FloorHalf \in Nat /\ FloorHalf >= 2 /\ 2 * FloorHalf <= N
  <2>1. N \in Nat /\ FloorHalf \in Nat /\ CeilHalf \in Nat /\ FloorHalf >= 2 /\ FloorHalf + CeilHalf = N
        /\ FloorHalf <= CeilHalf
    BY <1>1, Halves
  <2> QED BY <2>1
<1> QED BY <1>1, <1>3, <1>5, <1>6, <1>7, <1>8, <1>9 DEF TwoInners

(* Two neighbours have new keys and sons, and the separator between them. *)
Regrouped(x, y, par, i) ==
  /\ keys'[x] \in Seq(Keys) /\ keys'[y] \in Seq(Keys) /\ Len(keys'[x]) \in FloorHalf .. N /\ Len(keys'[y]) \in FloorHalf .. N
  /\ Len(sons'[x]) = Len(keys'[x]) + 1 /\ Len(sons'[y]) = Len(keys'[y]) + 1
  /\ Kept(keys[par], keys'[par]) /\ sons'[par] = sons[par]
  /\ Inners' = Inners /\ \A n \in Inners \ {x, y, par} : keys'[n] = keys[n] /\ sons'[n] = sons[n]

LEMMA RegroupedSized ==
  ASSUME TreeInv, NEW x, NEW y, NEW par, NEW i, TwoInners(x, y, par, i), Regrouped(x, y, par, i), root' = root
  PROVE  \A q \in Inners' : InnerSized(q)
<1>1. FloorHalf \in Nat /\ N \in Nat /\ FloorHalf >= 2 BY DEF TwoInners
<1>2. ASSUME NEW q, keys'[q] \in Seq(Keys), Len(keys'[q]) \in FloorHalf .. N, Len(sons'[q]) = Len(keys'[q]) + 1
      PROVE  InnerSized(q)
  <2> DEFINE l == Len(keys'[q])
  <2>1. l \in FloorHalf .. N BY <1>2
  <2> HIDE DEF l
  <2>2. l \in 1 .. N /\ l >= FloorHalf BY <1>1, <2>1
  <2> QED BY <1>2, <2>2 DEF l, InnerSized
<1>3. InnerSized(x) /\ InnerSized(y) BY <1>2 DEF Regrouped
<1>4. InnerSized(par)
  <2>1. /\ par \in Inners /\ keys'[par] \in Seq(Keys) /\ Len(keys'[par]) = Len(keys[par])
        /\ sons'[par] = sons[par]
    BY DEF TwoInners, Regrouped, Kept
  <2>2. ShapeInv /\ Filled /\ Sized BY DEF TreeInv
  <2>3. Len(keys[par]) \in 1 .. N /\ Len(sons[par]) = Len(keys[par]) + 1 /\ SizeOf(par) = Len(keys[par]) /\ par \in Nodes
    BY <2>1, <2>2, SonsMany
  <2>4. par # root' => Len(keys[par]) >= FloorHalf BY <2>2, <2>3 DEF Sized
  <2> QED BY <2>1, <2>3, <2>4 DEF InnerSized
<1> TAKE q \in Inners'
<1>5. CASE q \in {x, y, par} BY <1>3, <1>4, <1>5
<1>6. CASE q \notin {x, y, par}
  <2>1. q \in Inners /\ keys'[q] = keys[q] /\ sons'[q] = sons[q]
    BY <1>6 DEF Regrouped
  <2> QED BY <2>1, InnerAlone
<1> QED BY <1>5, <1>6

(* What the node that lost a son starts from, with its sibling. *)
UnderTwo(n, a) ==
  /\ Shrinks(n, a) /\ n = work.cur /\ a = work.at - 1 /\ ShapeInv /\ Filled /\ Sized /\ TreeInv /\ root # NULL
  /\ UsesLeft(parent[n], pos[n]) => TwoInners(At(sons[parent[n]], pos[n] - 1), n, parent[n], pos[n] - 1)
  /\ ~UsesLeft(parent[n], pos[n]) => TwoInners(n, At(sons[parent[n]], pos[n] + 1), parent[n], pos[n])
  /\ Cut(keys[n], a) \in Seq(Keys) /\ Len(Cut(keys[n], a)) = FloorHalf - 1 /\ Len(Cut(sons[n], work.at)) = FloorHalf
  /\ Cut(sons[n], work.at) \in Seq(Nat)

LEMMA UnderTwoIs ==
  ASSUME IInv, work.pc = "rebalance", parent[work.cur] # NULL, Len(keys[work.cur]) = FloorHalf
  PROVE  UnderTwo(work.cur, work.at - 1)
<1> DEFINE n == work.cur
           a == work.at - 1
<1>1. Shrinks(n, a) BY ShrinksAt
<1>2. /\ TreeInv /\ ShapeInv /\ Filled /\ Sized /\ root # NULL /\ n \in Inners
      /\ Cut(keys[n], a) \in Seq(Keys) /\ Len(Cut(keys[n], a)) = FloorHalf - 1 /\ Len(Cut(sons[n], work.at)) = FloorHalf
      /\ work.at \in 0 .. Len(sons[n]) - 1 /\ sons[n] \in Seq(Nat)
  BY <1>1 DEF Shrinks
<1>3. Under(n, Cut(sons[n], work.at)) BY <1>2, UnderIs
<1>4. Sides(n, parent[n]) BY <1>3 DEF Under
<1>5. UsesLeft(parent[n], pos[n]) => TwoInners(At(sons[parent[n]], pos[n] - 1), n, parent[n], pos[n] - 1)
  BY <1>2, <1>4, TwoInnersAre DEF Sides
<1>6. ~UsesLeft(parent[n], pos[n]) => TwoInners(n, At(sons[parent[n]], pos[n] + 1), parent[n], pos[n])
  BY <1>2, <1>4, TwoInnersAre DEF Sides
<1>7. CutFrom(sons[n], work.at, Nat) BY <1>2, CutOff
<1>8. Cut(sons[n], work.at) \in Seq(Nat) BY <1>7 DEF CutFrom
<1> QED BY <1>1, <1>2, <1>5, <1>6, <1>8 DEF UnderTwo

PairOf(f, x, a, y, b) == DOMAIN f = {x, y} /\ f[x] = a /\ f[y] = b

LEMMA PairsOf ==
  ASSUME NEW x, NEW y, x # y, NEW a, NEW b
  PROVE  PairOf(Two(x, a, y, b), x, a, y, b) /\ PairOf(Two(y, b, x, a), x, a, y, b)
BY DEF PairOf, Two

LEMMA Regroups ==
  ASSUME TreeInv, NEW x, NEW y, NEW par, NEW i, TwoInners(x, y, par, i), NEW f, NEW g, NEW a, NEW b, NEW s, NEW t,
         PairOf(f, x, a, y, b), PairOf(g, x, s, y, t), a \in Seq(Keys), b \in Seq(Keys),
         Len(a) \in FloorHalf .. N, Len(b) \in FloorHalf .. N, Len(s) = Len(a) + 1, Len(t) = Len(b) + 1,
         NEW j, NEW key \in Keys, keys' = [With(keys, f) EXCEPT ![par] = [@ EXCEPT ![j] = key]],
         sons' = With(sons, g)
  PROVE  Regrouped(x, y, par, i)
<1>1. /\ x # y /\ x \in Inners /\ y \in Inners /\ par \in Inners /\ par # x /\ par # y /\ keys[par] \in Seq(Keys)
      /\ DOMAIN sons = Inners
  BY DEF TwoInners, InnerAt
<1> DEFINE h == With(keys, f)
<1>2. DOMAIN h = Inners /\ h[x] = a /\ h[y] = b /\ \A n \in Inners \ {x, y} : h[n] = keys[n]
  BY <1>1 DEF With, PairOf, Inners
<1> HIDE DEF h
<1>3. keys' = [h EXCEPT ![par] = [h[par] EXCEPT ![j] = key]] BY DEF h
<1>4. Inners' = Inners /\ keys'[x] = a /\ keys'[y] = b /\ (\A n \in Inners \ {x, y, par} : keys'[n] = keys[n])
      /\ keys'[par] = [keys[par] EXCEPT ![j] = key]
  BY <1>1, <1>2, <1>3 DEF Inners
<1>5. Kept(keys[par], keys'[par]) BY <1>1, <1>4, ExceptKept
<1>6. sons'[x] = s /\ sons'[y] = t /\ \A n \in Inners \ {x, y} : sons'[n] = sons[n]
  BY <1>1 DEF With, PairOf
<1>7. \A n \in Inners \ {x, y, par} : keys'[n] = keys[n] /\ sons'[n] = sons[n]
  BY <1>4, <1>6
<1>8. sons'[par] = sons[par] BY <1>1, <1>6
<1> QED BY <1>4, <1>5, <1>6, <1>7, <1>8 DEF Regrouped

JoinedKeys(A, x, B, m) == (A \o <<x>>) \o B \in Seq(Keys) /\ Len((A \o <<x>>) \o B) = m

LEMMA JoinsKeys ==
  ASSUME NEW A \in Seq(Keys), NEW x \in Keys, NEW B \in Seq(Keys), NEW m, m = Len(A) + 1 + Len(B)
  PROVE  JoinedKeys(A, x, B, m)
<1>1. JoinsOf(Joins(A, x, B), A, x, B, Keys) BY JoinsAre
<1> QED BY <1>1 DEF JoinsOf, Joins, JoinedKeys

LEMMA InnerFromLeftInv ==
  ASSUME IInv, InnerFromLeft
  PROVE  IInv' /\ Contents' = Contents
<1> DEFINE n == work.cur
           ax == work.at - 1
           par == parent[n]
           i == pos[n]
           lhs == At(sons[par], i - 1)
           next == Len(keys[lhs])
           m == Moved(next)
           c == Cut(keys[n], ax)
           d == Cut(sons[n], work.at)
           up == Slice(keys[lhs], next - m + 1, next)
           sep == At(keys[par], i - 1)
           k == up \o <<sep>> \o c
           low == Slice(keys[lhs], 0, next - m)
           s == Slice(sons[lhs], next - m + 1, next + 1) \o d
           t == Slice(sons[lhs], 0, next - m + 1)
           key == At(keys[lhs], next - m)
<1>1. /\ work.pc = "rebalance" /\ use' = use /\ UsesLeft(par, i) /\ next # FloorHalf
      /\ parent[n] # NULL /\ Len(keys[n]) = FloorHalf
      /\ keys' = [With(keys, Two(n, k, lhs, low)) EXCEPT ![par] = [@ EXCEPT ![i] = key]]
      /\ sons' = With(sons, Two(n, s, lhs, t))
      /\ work' = Resume /\ root' = root /\ size' = size /\ base' = base /\ vals' = vals /\ chain' = chain
  BY ZenonT(60) DEF InnerFromLeft, In
<1>2. UnderTwo(n, ax) BY <1>1, UnderTwoIs, ZenonT(60)
<1>3. TwoInners(lhs, n, par, i - 1) BY <1>1, <1>2 DEF UnderTwo
<1>4. /\ TreeInv /\ ShapeInv /\ Filled /\ Sized /\ root # NULL /\ c \in Seq(Keys) /\ Len(c) = FloorHalf - 1 /\ Len(d) = FloorHalf
      /\ d \in Seq(Nat) /\ work.left \in Nat
  BY <1>2 DEF UnderTwo, Shrinks
<1>5. /\ lhs # n /\ keys[lhs] \in Seq(Keys) /\ sons[lhs] \in Seq(Nat) /\ next \in FloorHalf .. N /\ Len(sons[lhs]) = next + 1
      /\ sep \in Keys /\ N \in Nat /\ FloorHalf \in Nat /\ FloorHalf >= 2 /\ 2 * FloorHalf <= N /\ use \in Uses
  BY <1>3 DEF TwoInners, InnerAt
<1> HIDE DEF n, ax, par, i, lhs, c, d
<1> USE DEF k, s
<1>6. m \in 1 .. next - FloorHalf
  <2> HIDE DEF next, m
  <2>1. next \in Nat /\ next > FloorHalf /\ next <= N BY <1>1, <1>5, SMTT(60)
  <2>2. Moved(next) \in 1 .. next - FloorHalf BY <1>5, <2>1, MovedIs
  <2> QED BY <2>2 DEF m
<1> HIDE DEF next, m, k, s, sep, key, up, low, t
<1>7. /\ next \in Nat /\ m \in Nat /\ m >= 1 /\ m + FloorHalf <= next /\ next <= N
      /\ next - m \in 0 .. next - 1 /\ next - m + 1 \in 0 .. next /\ next - m + 1 \in 0 .. next + 1 /\ next \in 0 .. next
      /\ next + 1 \in 0 .. next + 1 /\ next - m \in 0 .. next
  BY <1>5, <1>6
<1>8. up \in Seq(Keys) /\ Len(up) = next - (next - m + 1) /\ low \in Seq(Keys) /\ Len(low) = next - m
  <2> DEFINE zero == 0
             h == next - m
             h1 == next - m + 1
  <2>1. zero \in 0 .. h /\ h \in 0 .. Len(keys[lhs]) /\ h1 \in 0 .. next /\ next \in 0 .. Len(keys[lhs])
    BY <1>7 DEF next
  <2> HIDE DEF zero, h, h1
  <2>2. Sliced(keys[lhs], zero, h, Keys) /\ Sliced(keys[lhs], h1, next, Keys)
    BY <1>5, <2>1, Slices
  <2>3. Len(low) = h - 0 /\ low \in Seq(Keys) BY <2>2 DEF Sliced, low, zero, h
  <2>4. up \in Seq(Keys) /\ Len(up) = next - h1 BY <2>2 DEF Sliced, up, h1
  <2> QED BY <1>7, <2>3, <2>4 DEF h, h1
<1>9. k \in Seq(Keys) /\ Len(k) = FloorHalf + m - 1
  <2>1. FloorHalf + m - 1 = Len(up) + 1 + Len(c) BY <1>4, <1>5, <1>7, <1>8
  <2>2. JoinedKeys(up, sep, c, FloorHalf + m - 1)
    BY <1>4, <1>5, <1>8, <2>1, JoinsKeys
  <2> QED BY <2>2 DEF JoinedKeys, k
<1>10. Len(t) = next - m + 1 /\ Len(s) = FloorHalf + m
  <2> DEFINE zero == 0
             h == next - m + 1
             e == next + 1
             r == Slice(sons[lhs], h, e)
  <2>1. zero \in 0 .. h /\ h \in 0 .. Len(sons[lhs]) /\ h \in 0 .. e /\ e \in 0 .. Len(sons[lhs])
    BY <1>5, <1>7
  <2> HIDE DEF zero, h, e
  <2>2. Sliced(sons[lhs], zero, h, Nat) /\ Sliced(sons[lhs], h, e, Nat)
    BY <1>5, <2>1, Slices
  <2>3. Len(t) = h - 0 BY <2>2 DEF Sliced, t, zero, h
  <2>4. r \in Seq(Nat) /\ Len(r) = e - h BY <2>2 DEF Sliced
  <2> HIDE DEF r
  <2>5. ConcatParts(r, d, Nat) BY <1>4, <2>4, ConcatsAt
  <2>6. Len(s) = Len(r) + Len(d) BY <2>5 DEF ConcatParts, s, r, h, e
  <2> QED BY <1>4, <1>5, <1>7, <2>3, <2>4, <2>6 DEF h, e
<1>11. key \in Keys BY <1>5, <1>7, AtMember DEF key, next
<1>12. Len(k) \in FloorHalf .. N /\ Len(low) \in FloorHalf .. N /\ Len(s) = Len(k) + 1 /\ Len(t) = Len(low) + 1
  <2>1. Len(k) = FloorHalf + m - 1 /\ Len(s) = FloorHalf + m /\ Len(low) = next - m /\ Len(t) = next - m + 1
    BY <1>7, <1>8, <1>9, <1>10
  <2>2. FloorHalf + m - 1 \in FloorHalf .. N /\ next - m \in FloorHalf .. N /\ FloorHalf + m = (FloorHalf + m - 1) + 1
    BY <1>5, <1>7
  <2> QED BY <2>1, <2>2
<1>13. PairOf(Two(n, k, lhs, low), lhs, low, n, k) /\ PairOf(Two(n, s, lhs, t), lhs, t, n, s)
  BY <1>5, PairsOf
<1> DEFINE f == Two(n, k, lhs, low)
           g == Two(n, s, lhs, t)
<1>14. keys' = [With(keys, f) EXCEPT ![par] = [@ EXCEPT ![i] = key]] /\ sons' = With(sons, g)
  BY <1>1
<1> HIDE DEF f, g
<1>15. PairOf(f, lhs, low, n, k) /\ PairOf(g, lhs, t, n, s) BY <1>13 DEF f, g
<1>16. Regrouped(lhs, n, par, i - 1)
  BY <1>3, <1>4, <1>8, <1>9, <1>11, <1>12, <1>14, <1>15, Regroups
<1>17. \A q \in Inners' : InnerSized(q)
  BY <1>1, <1>3, <1>4, <1>16, RegroupedSized
<1>18. Working' /\ work'.it = work.it /\ work'.want = work.want /\ work'.left = work.left /\ work'.pc \in {"idle", "range"}
  BY <1>1, <1>4, ResumeWork
<1>19. ShapeInv' BY <1>4, InnerFromLeftShape
<1> QED BY <1>1, <1>4, <1>17, <1>18, <1>19, RebalanceStep, SMTT(60)

LEMMA InnerFromRightInv ==
  ASSUME IInv, InnerFromRight
  PROVE  IInv' /\ Contents' = Contents
<1> DEFINE n == work.cur
           ax == work.at - 1
           par == parent[n]
           i == pos[n]
           rhs == At(sons[par], i + 1)
           next == Len(keys[rhs])
           m == Moved(next)
           c == Cut(keys[n], ax)
           d == Cut(sons[n], work.at)
           up == Slice(keys[rhs], 0, m - 1)
           sep == At(keys[par], i)
           k == c \o <<sep>> \o up
           low == Slice(keys[rhs], m, next)
           s == d \o Slice(sons[rhs], 0, m)
           t == Slice(sons[rhs], m, next + 1)
           key == At(keys[rhs], m - 1)
<1>1. /\ work.pc = "rebalance" /\ use' = use /\ ~UsesLeft(par, i) /\ next # FloorHalf
      /\ parent[n] # NULL /\ Len(keys[n]) = FloorHalf
      /\ keys' = [With(keys, Two(n, k, rhs, low)) EXCEPT ![par] = [@ EXCEPT ![i + 1] = key]]
      /\ sons' = With(sons, Two(n, s, rhs, t))
      /\ work' = Resume /\ root' = root /\ size' = size /\ base' = base /\ vals' = vals /\ chain' = chain
  BY ZenonT(60) DEF InnerFromRight, In
<1>2. UnderTwo(n, ax) BY <1>1, UnderTwoIs, ZenonT(60)
<1>3. TwoInners(n, rhs, par, i) BY <1>1, <1>2 DEF UnderTwo
<1>4. /\ TreeInv /\ ShapeInv /\ Filled /\ Sized /\ root # NULL /\ c \in Seq(Keys) /\ Len(c) = FloorHalf - 1 /\ Len(d) = FloorHalf
      /\ d \in Seq(Nat) /\ work.left \in Nat
  BY <1>2 DEF UnderTwo, Shrinks
<1>5. /\ rhs # n /\ keys[rhs] \in Seq(Keys) /\ sons[rhs] \in Seq(Nat) /\ next \in FloorHalf .. N /\ Len(sons[rhs]) = next + 1
      /\ sep \in Keys /\ N \in Nat /\ FloorHalf \in Nat /\ FloorHalf >= 2 /\ 2 * FloorHalf <= N /\ use \in Uses
  BY <1>3 DEF TwoInners, InnerAt
<1> DEFINE j == i + 1
<1> HIDE DEF n, ax, par, i, rhs, c, d
<1> USE DEF k, s
<1>6. m \in 1 .. next - FloorHalf
  <2> HIDE DEF next, m
  <2>1. next \in Nat /\ next > FloorHalf /\ next <= N BY <1>1, <1>5
  <2>2. Moved(next) \in 1 .. next - FloorHalf BY <1>5, <2>1, MovedIs
  <2> QED BY <2>2 DEF m
<1> HIDE DEF next, m, k, s, sep, key, up, low, t
<1>7. /\ next \in Nat /\ m \in Nat /\ m >= 1 /\ m + FloorHalf <= next /\ next <= N
      /\ m - 1 \in 0 .. next - 1 /\ m - 1 \in 0 .. next /\ m \in 0 .. next /\ m \in 0 .. next + 1
      /\ next \in 0 .. next /\ next + 1 \in 0 .. next + 1 /\ 0 \in 0 .. m - 1 /\ 0 \in 0 .. m
  BY <1>5, <1>6
<1>8. up \in Seq(Keys) /\ Len(up) = m - 1 /\ low \in Seq(Keys) /\ Len(low) = next - m
  <2> DEFINE zero == 0
             h == m - 1
  <2>1. zero \in 0 .. h /\ h \in 0 .. Len(keys[rhs]) /\ m \in 0 .. next /\ next \in 0 .. Len(keys[rhs])
    BY <1>7 DEF next
  <2> HIDE DEF zero, h
  <2>2. Sliced(keys[rhs], zero, h, Keys) /\ Sliced(keys[rhs], m, next, Keys)
    BY <1>5, <2>1, Slices
  <2>3. Len(up) = h - 0 /\ up \in Seq(Keys) BY <2>2 DEF Sliced, up, zero, h
  <2>4. low \in Seq(Keys) /\ Len(low) = next - m BY <2>2 DEF Sliced, low
  <2> QED BY <1>7, <2>3, <2>4 DEF h
<1>9. k \in Seq(Keys) /\ Len(k) = FloorHalf + m - 1
  <2>1. FloorHalf + m - 1 = Len(c) + 1 + Len(up) BY <1>4, <1>5, <1>7, <1>8
  <2>2. JoinedKeys(c, sep, up, FloorHalf + m - 1)
    BY <1>4, <1>5, <1>8, <2>1, JoinsKeys
  <2> QED BY <2>2 DEF JoinedKeys, k
<1>10. Len(t) = next - m + 1 /\ Len(s) = FloorHalf + m
  <2> DEFINE zero == 0
             e == next + 1
             r == Slice(sons[rhs], zero, m)
  <2>1. zero \in 0 .. m /\ m \in 0 .. Len(sons[rhs]) /\ m \in 0 .. e /\ e \in 0 .. Len(sons[rhs])
    BY <1>5, <1>7
  <2> HIDE DEF zero, e
  <2>2. Sliced(sons[rhs], zero, m, Nat) /\ Sliced(sons[rhs], m, e, Nat)
    BY <1>5, <2>1, Slices
  <2>3. Len(t) = e - m BY <2>2 DEF Sliced, t, e
  <2>4. r \in Seq(Nat) /\ Len(r) = m - 0 BY <2>2 DEF Sliced, zero
  <2> HIDE DEF r
  <2>5. ConcatParts(d, r, Nat) BY <1>4, <2>4, ConcatsAt
  <2>6. Len(s) = Len(r) + Len(d)
    <3>1. Len(s) = Len(d) + Len(r) BY <2>5 DEF ConcatParts, s, r, zero
    <3> QED BY <1>4, <1>5, <1>7, <2>4, <3>1
  <2> QED BY <1>4, <1>5, <1>7, <2>3, <2>4, <2>6 DEF e
<1>11. key \in Keys BY <1>5, <1>7, AtMember DEF key, next
<1>12. Len(k) \in FloorHalf .. N /\ Len(low) \in FloorHalf .. N /\ Len(s) = Len(k) + 1 /\ Len(t) = Len(low) + 1
  <2>1. Len(k) = FloorHalf + m - 1 /\ Len(s) = FloorHalf + m /\ Len(low) = next - m /\ Len(t) = next - m + 1
    BY <1>7, <1>8, <1>9, <1>10
  <2>2. FloorHalf + m - 1 \in FloorHalf .. N /\ next - m \in FloorHalf .. N /\ FloorHalf + m = (FloorHalf + m - 1) + 1
    BY <1>5, <1>7
  <2> QED BY <2>1, <2>2
<1>13. PairOf(Two(n, k, rhs, low), n, k, rhs, low) /\ PairOf(Two(n, s, rhs, t), n, s, rhs, t)
  BY <1>5, PairsOf
<1> DEFINE f == Two(n, k, rhs, low)
           g == Two(n, s, rhs, t)
<1>14. keys' = [With(keys, f) EXCEPT ![par] = [@ EXCEPT ![j] = key]] /\ sons' = With(sons, g)
  BY <1>1
<1> HIDE DEF f, g, j
<1>15. PairOf(f, n, k, rhs, low) /\ PairOf(g, n, s, rhs, t) BY <1>13 DEF f, g
<1>16. Regrouped(n, rhs, par, i)
  BY <1>3, <1>4, <1>8, <1>9, <1>11, <1>12, <1>14, <1>15, Regroups
<1>17. \A q \in Inners' : InnerSized(q)
  BY <1>1, <1>3, <1>4, <1>16, RegroupedSized
<1>18. Working' /\ work'.it = work.it /\ work'.want = work.want /\ work'.left = work.left /\ work'.pc \in {"idle", "range"}
  BY <1>1, <1>4, ResumeWork
<1>19. ShapeInv' BY <1>4, InnerFromRightShape
<1> QED BY <1>1, <1>4, <1>17, <1>18, <1>19, RebalanceStep, SMTT(60)

LEMMA GoesOnUp ==
  ASSUME IInv, work.pc = "rebalance", NEW par, NEW i \in Nat, work' = [work EXCEPT !.cur = par, !.at = i], use' = use
  PROVE  Working' /\ work'.it = work.it /\ work'.want = work.want /\ work'.left = work.left /\ work'.pc = "rebalance"
<1>1. Working BY DEF IInv
<1>2. work'.it = work.it /\ work'.want = work.want /\ work'.left = work.left /\ work'.pc = work.pc /\ work'.inst = work.inst
      /\ work'.key = work.key /\ work'.at = i
  OBVIOUS
<1> QED BY <1>1, <1>2 DEF Working, Pcs

LEMMA InnerMergedInv ==
  ASSUME IInv, work.pc = "rebalance", use' = use, ShapeInv', root # NULL,
         NEW x, NEW y, NEW par, NEW i, TwoInners(x, y, par, i),
         NEW k \in Seq(Keys), NEW s, Len(k) = 2 * FloorHalf, Len(s) = Len(k) + 1, NEW told, NEW j \in Nat,
         InnerMerged(x, k, s, y, told, par, j)
  PROVE  IInv' /\ Contents' = Contents
<1>1. /\ keys' = Without([keys EXCEPT ![x] = k], y) /\ sons' = Without([sons EXCEPT ![x] = s], y)
      /\ work' = [work EXCEPT !.cur = par, !.at = j]
      /\ root' = root /\ size' = size /\ base' = base /\ vals' = vals /\ chain' = chain
  BY DEF InnerMerged
<1>2. /\ x # y /\ x \in Inners /\ y \in Inners /\ DOMAIN sons = Inners
      /\ N \in Nat /\ FloorHalf \in Nat /\ FloorHalf >= 2 /\ 2 * FloorHalf <= N
  BY DEF TwoInners, InnerAt
<1>3. TreeInv BY DEF IInv
<1>4. Inners' = Inners \ {y} /\ keys'[x] = k /\ sons'[x] = s /\ \A q \in Inners \ {x, y} : keys'[q] = keys[q] /\ sons'[q] = sons[q]
  BY <1>1, <1>2 DEF Without, Inners
<1>5. InnerSized(x)
  <2>1. 2 * FloorHalf \in 1 .. N /\ 2 * FloorHalf >= FloorHalf BY <1>2
  <2> QED BY <1>4, <2>1 DEF InnerSized
<1>6. \A q \in Inners' : InnerSized(q)
  <2> TAKE q \in Inners'
  <2>1. CASE q = x BY <1>5, <2>1
  <2>2. CASE q # x
    <3>1. q \in Inners /\ keys'[q] = keys[q] /\ sons'[q] = sons[q] BY <1>4, <2>2
    <3> QED BY <1>1, <1>3, <3>1, InnerAlone
  <2> QED BY <2>1, <2>2
<1>7. Working' /\ work'.it = work.it /\ work'.want = work.want /\ work'.left = work.left /\ work'.pc = "rebalance"
  BY <1>1, GoesOnUp
<1> QED BY <1>1, <1>6, <1>7, RebalanceStep

LEMMA InnerIntoLeftInv ==
  ASSUME IInv, InnerIntoLeft
  PROVE  IInv' /\ Contents' = Contents
<1> DEFINE n == work.cur
           ax == work.at - 1
           par == parent[n]
           i == pos[n]
           lhs == At(sons[par], i - 1)
           sep == At(keys[par], i - 1)
           c == Cut(keys[n], ax)
           d == Cut(sons[n], work.at)
           k == keys[lhs] \o <<sep>> \o c
           s == sons[lhs] \o d
           told == FloorHalf .. 2 * FloorHalf
<1>1. /\ work.pc = "rebalance" /\ use' = use /\ UsesLeft(par, i) /\ Len(keys[lhs]) = FloorHalf
      /\ parent[n] # NULL /\ Len(keys[n]) = FloorHalf /\ InnerMerged(lhs, k, s, n, told, par, i)
  BY DEF InnerIntoLeft, In
<1>2. UnderTwo(n, ax) BY <1>1, UnderTwoIs
<1>3. TwoInners(lhs, n, par, i - 1) BY <1>1, <1>2 DEF UnderTwo
<1>4. /\ TreeInv /\ ShapeInv /\ Filled /\ Sized /\ root # NULL /\ c \in Seq(Keys) /\ Len(c) = FloorHalf - 1 /\ Len(d) = FloorHalf
      /\ d \in Seq(Nat)
  BY <1>2 DEF UnderTwo
<1>5. /\ keys[lhs] \in Seq(Keys) /\ sons[lhs] \in Seq(Nat) /\ Len(sons[lhs]) = Len(keys[lhs]) + 1
      /\ sep \in Keys /\ FloorHalf \in Nat /\ FloorHalf >= 2 /\ Beside(lhs, n, par, i - 1)
  BY <1>3 DEF TwoInners, InnerAt
<1>6. i \in Nat
  <2>1. n \in Nodes /\ Typed BY <1>2 DEF UnderTwo, Shrinks, ShapeInv
  <2>2. i \in 0 .. N /\ N \in Nat BY <1>3, <2>1 DEF Typed, TwoInners
  <2> QED BY <2>2
<1>7. ShapeInv' BY <1>4, InnerIntoLeftShape
<1> HIDE DEF n, ax, par, i, lhs, sep, c, d
<1>8. JoinedKeys(keys[lhs], sep, c, 2 * FloorHalf)
  <2>1. 2 * FloorHalf = Len(keys[lhs]) + 1 + Len(c) BY <1>1, <1>4, <1>5
  <2> QED BY <1>4, <1>5, <2>1, JoinsKeys
<1>9. k \in Seq(Keys) /\ Len(k) = 2 * FloorHalf BY <1>8 DEF JoinedKeys
<1>10. Len(s) = Len(k) + 1
  <2>1. ConcatParts(sons[lhs], d, Nat) BY <1>4, <1>5, ConcatsAt
  <2>2. Len(s) = Len(sons[lhs]) + Len(d) BY <2>1 DEF ConcatParts
  <2> DEFINE F == FloorHalf
  <2>3. F \in Nat /\ Len(sons[lhs]) = F + 1 /\ Len(d) = F /\ Len(k) = 2 * F
    BY <1>1, <1>4, <1>5, <1>9
  <2> HIDE DEF F, k, s
  <2>4. Len(s) = 2 * F + 1 BY <2>2, <2>3
  <2> QED BY <2>3, <2>4
<1> HIDE DEF k, s, told
<1> QED BY <1>1, <1>3, <1>4, <1>6, <1>7, <1>9, <1>10, InnerMergedInv

LEMMA InnerIntoRightInv ==
  ASSUME IInv, InnerIntoRight
  PROVE  IInv' /\ Contents' = Contents
<1> DEFINE n == work.cur
           ax == work.at - 1
           par == parent[n]
           i == pos[n]
           rhs == At(sons[par], i + 1)
           sep == At(keys[par], i)
           c == Cut(keys[n], ax)
           d == Cut(sons[n], work.at)
           k == c \o <<sep>> \o keys[rhs]
           s == d \o sons[rhs]
           told == work.at .. 2 * FloorHalf
           j == i + 1
<1>1. /\ work.pc = "rebalance" /\ use' = use /\ ~UsesLeft(par, i) /\ Len(keys[rhs]) = FloorHalf
      /\ parent[n] # NULL /\ Len(keys[n]) = FloorHalf /\ InnerMerged(n, k, s, rhs, told, par, j)
  BY DEF InnerIntoRight, In
<1>2. UnderTwo(n, ax) BY <1>1, UnderTwoIs
<1>3. TwoInners(n, rhs, par, i) BY <1>1, <1>2 DEF UnderTwo
<1>4. /\ TreeInv /\ ShapeInv /\ Filled /\ Sized /\ root # NULL /\ c \in Seq(Keys) /\ Len(c) = FloorHalf - 1 /\ Len(d) = FloorHalf
      /\ d \in Seq(Nat)
  BY <1>2 DEF UnderTwo
<1>5. /\ keys[rhs] \in Seq(Keys) /\ sons[rhs] \in Seq(Nat) /\ Len(sons[rhs]) = Len(keys[rhs]) + 1
      /\ sep \in Keys /\ FloorHalf \in Nat /\ FloorHalf >= 2
  BY <1>3 DEF TwoInners, InnerAt
<1>6. j \in Nat
  <2>1. n \in Nodes /\ Typed BY <1>2 DEF UnderTwo, Shrinks, ShapeInv
  <2>2. i \in 0 .. N /\ N \in Nat BY <1>3, <2>1 DEF Typed, TwoInners
  <2> QED BY <2>2
<1>7. ShapeInv' BY <1>4, InnerIntoRightShape
<1> HIDE DEF n, ax, par, i, rhs, sep, c, d, j
<1>8. JoinedKeys(c, sep, keys[rhs], 2 * FloorHalf)
  <2>1. 2 * FloorHalf = Len(c) + 1 + Len(keys[rhs]) BY <1>1, <1>4, <1>5
  <2> QED BY <1>4, <1>5, <2>1, JoinsKeys
<1>9. k \in Seq(Keys) /\ Len(k) = 2 * FloorHalf BY <1>8 DEF JoinedKeys
<1>10. Len(s) = Len(k) + 1
  <2>1. ConcatParts(d, sons[rhs], Nat) BY <1>4, <1>5, ConcatsAt
  <2>2. Len(s) = Len(d) + Len(sons[rhs]) BY <2>1 DEF ConcatParts
  <2> DEFINE F == FloorHalf
  <2>3. F \in Nat /\ Len(sons[rhs]) = F + 1 /\ Len(d) = F /\ Len(k) = 2 * F
    BY <1>1, <1>4, <1>5, <1>9
  <2> HIDE DEF F, k, s
  <2>4. Len(s) = 2 * F + 1 BY <2>2, <2>3
  <2> QED BY <2>3, <2>4
<1> HIDE DEF k, s, told
<1> QED BY <1>1, <1>3, <1>4, <1>6, <1>7, <1>9, <1>10, InnerMergedInv

LEMMA AscendInv ==
  ASSUME IInv, Ascend
  PROVE  IInv' /\ Contents' = Contents
BY AscendRoomInv, AscendSplitInv, AscendRootInv DEF Ascend

LEMMA RebalanceInv ==
  ASSUME IInv, Rebalance
  PROVE  IInv' /\ Contents' = Contents
BY RebalanceRoomInv, RebalanceRootInv, InnerFromLeftInv, InnerIntoLeftInv, InnerFromRightInv, InnerIntoRightInv DEF Rebalance

(* A function defined by what it is for the next node of a descent. *)
Descent(O, m, ht, L, next, own) == \E g : g = [n \in O |-> IF n \in L THEN own[n] ELSE g[next[n]]]

LEMMA DescentExists ==
  ASSUME NEW O, NEW m \in Nat, NEW ht, NEW L, NEW next, NEW own, \A n \in O : ht[n] \in 1 .. m,
         \A n \in O \ L : next[n] \in O /\ ht[n] # 1 /\ ht[next[n]] = ht[n] - 1
  PROVE  Descent(O, m, ht, L, next, own)
<1> DEFINE B == {own[n] : n \in O}
           V == [O -> B]
           a == [n \in O |-> own[n]]
           F == [i \in 1 .. m |-> [v \in V |-> [n \in O |-> IF n \in L THEN own[n] ELSE v[next[n]]]]]
<1>1. a \in V OBVIOUS
<1>2. \A v \in V, i \in 1 .. m : F[i][v] = [n \in O |-> IF n \in L THEN own[n] ELSE v[next[n]]]
  OBVIOUS
<1>3. \A v \in V, i \in 1 .. m : F[i][v] \in V
  <2> TAKE v \in V, i \in 1 .. m
  <2> DEFINE w == [n \in O |-> IF n \in L THEN own[n] ELSE v[next[n]]]
  <2>1. \A n \in O : (IF n \in L THEN own[n] ELSE v[next[n]]) \in B OBVIOUS
  <2>2. w \in V BY <2>1
  <2> HIDE DEF w, F, V
  <2> QED BY <1>2, <2>2 DEF w
<1> HIDE DEF F, V, a
<1>4. PICK f \in [0 .. m -> V] : Recursive(m, a, F, f)
  BY <1>1, <1>3, RecursiveExists
<1>5. \A i \in 1 .. m : f[i] = F[i][f[i - 1]] /\ f[i - 1] \in V
  <2> TAKE i \in 1 .. m
  <2>1. i \in 0 .. m /\ i # 0 /\ i - 1 \in 0 .. m OBVIOUS
  <2> QED BY <1>4, <2>1 DEF Recursive
<1> DEFINE g == [n \in O |-> f[ht[n]][n]]
<1>6. ASSUME NEW n \in O PROVE g[n] = IF n \in L THEN own[n] ELSE g[next[n]]
  <2> DEFINE v == f[ht[n] - 1]
  <2>1. ht[n] \in 1 .. m OBVIOUS
  <2>2. f[ht[n]] = F[ht[n]][v] /\ v \in V BY <1>5, <2>1
  <2>3. f[ht[n]][n] = IF n \in L THEN own[n] ELSE v[next[n]]
    <3> DEFINE h == ht[n]
    <3> HIDE DEF v, g, h, B
    <3>1. F[h][v] = [q \in O |-> IF q \in L THEN own[q] ELSE v[next[q]]]
      BY <1>2, <2>1, <2>2 DEF h
    <3>2. f[h] = F[h][v] BY <2>2 DEF h
    <3>3. f[h][n] = IF n \in L THEN own[n] ELSE v[next[n]] BY <3>1, <3>2
    <3> QED BY <3>3 DEF h
  <2>4. n \notin L => g[next[n]] = f[ht[n] - 1][next[n]] OBVIOUS
  <2> QED BY <2>3, <2>4
<1> HIDE DEF g
<1>7. DOMAIN g = O /\ g = [n \in O |-> g[n]] BY DEF g
<1>8. g = [n \in O |-> IF n \in L THEN own[n] ELSE g[next[n]]] BY <1>6, <1>7
<1> QED BY <1>8 DEF Descent

(* The same for a function that is gathered from all the sons. *)
Gathering(O, m, ht, L, K) == \E g : g = [n \in O |-> IF n \in L THEN <<n>> ELSE Flat(g, K[n])]

LEMMA GatheringExists ==
  ASSUME NEW O, NEW m \in Nat, NEW ht, NEW L, NEW K, \A n \in O : ht[n] \in 1 .. m,
         \A n \in O \ L : K[n] \in Seq(O) /\ ht[n] # 1 /\ \A i \in 1 .. Len(K[n]) : ht[K[n][i]] = ht[n] - 1
  PROVE  Gathering(O, m, ht, L, K)
<1> DEFINE V == [O -> Seq(O)]
           a == [n \in O |-> <<>>]
           F == [i \in 1 .. m |-> [v \in V |-> [n \in O |-> IF n \in L THEN <<n>> ELSE Flat(v, K[n])]]]
<1>1. a \in V OBVIOUS
<1>2. \A v \in V, i \in 1 .. m : F[i][v] = [n \in O |-> IF n \in L THEN <<n>> ELSE Flat(v, K[n])]
  OBVIOUS
<1>3. \A v \in V, i \in 1 .. m : F[i][v] \in V
  <2> TAKE v \in V, i \in 1 .. m
  <2> DEFINE w == [n \in O |-> IF n \in L THEN <<n>> ELSE Flat(v, K[n])]
  <2>1. ASSUME NEW n \in O PROVE (IF n \in L THEN <<n>> ELSE Flat(v, K[n])) \in Seq(O)
    <3>1. CASE n \in L BY <3>1
    <3>2. CASE n \notin L
      <4>1. Gives(v, O, O) /\ K[n] \in Seq(O) BY <3>2 DEF Gives
      <4>2. Flat(v, K[n]) \in Seq(O) BY <4>1, FlatType
      <4> QED BY <3>2, <4>2
    <3> QED BY <3>1, <3>2
  <2>2. w \in V BY <2>1
  <2> HIDE DEF w, F, V
  <2> QED BY <1>2, <2>2 DEF w
<1> HIDE DEF F, V, a
<1>4. PICK f \in [0 .. m -> V] : Recursive(m, a, F, f)
  BY <1>1, <1>3, RecursiveExists
<1>5. \A i \in 1 .. m : f[i] = F[i][f[i - 1]] /\ f[i - 1] \in V
  <2> TAKE i \in 1 .. m
  <2>1. i \in 0 .. m /\ i # 0 /\ i - 1 \in 0 .. m OBVIOUS
  <2> QED BY <1>4, <2>1 DEF Recursive
<1> DEFINE g == [n \in O |-> f[ht[n]][n]]
<1>6. ASSUME NEW n \in O PROVE g[n] = IF n \in L THEN <<n>> ELSE Flat(g, K[n])
  <2> DEFINE v == f[ht[n] - 1]
  <2>1. ht[n] \in 1 .. m OBVIOUS
  <2>2. f[ht[n]] = F[ht[n]][v] /\ v \in V BY <1>5, <2>1
  <2>3. f[ht[n]][n] = IF n \in L THEN <<n>> ELSE Flat(v, K[n])
    <3> HIDE DEF v
    <3> QED BY <1>2, <2>1, <2>2
  <2>4. ASSUME n \notin L PROVE Flat(g, K[n]) = Flat(v, K[n])
    <3>1. K[n] \in Seq(O) /\ \A i \in 1 .. Len(K[n]) : ht[K[n][i]] = ht[n] - 1 /\ K[n][i] \in O
      BY <2>4
    <3>2. \A i \in 1 .. Len(K[n]) : g[K[n][i]] = v[K[n][i]] BY <3>1
    <3> HIDE DEF g, v
    <3>3. Gives(v, O, O) BY <2>2 DEF Gives, V
    <3> QED BY <3>1, <3>2, <3>3, FlatAgree, SMTT(60)
  <2> QED BY <2>3, <2>4
<1> HIDE DEF g
<1>7. DOMAIN g = O /\ g = [n \in O |-> g[n]] BY DEF g
<1>8. g = [n \in O |-> IF n \in L THEN <<n>> ELSE Flat(g, K[n])] BY <1>6, <1>7
<1> QED BY <1>8 DEF Gathering

(* The tree of a state in which no loop restructures it. *)
LEMMA StillTree ==
  ASSUME TreeInv, root # NULL, work.pc \in {"idle", "range"}
  PROVE  Tree(Nodes, DOMAIN vals, sons, <<root>>, chain) /\ Parents(sons, <<root>>, parent) /\ DOMAIN sons = Inners
<1>1. ShapeInv /\ Typed BY DEF TreeInv, ShapeInv
<1>2. Tree(Nodes, DOMAIN vals, Kids, Tops, chain) /\ Parents(Kids, Tops, Up)
  BY <1>1 DEF ShapeInv, Shape
<1>3. DOMAIN Kids = Inners /\ Tops = <<root>> /\ Up = parent /\ (\A n \in Inners : Kids[n] = sons[n]) /\ DOMAIN sons = Inners
  BY <1>1, KidsAre DEF Typed
<1>4. Tree(Nodes, DOMAIN vals, Kids, <<root>>, chain) BY <1>2, <1>3
<1> DEFINE T == <<root>>
<1>5. Parents(Kids, T, parent) BY <1>2, <1>3
<1> HIDE DEF T
<1>6. Parents(sons, T, parent) BY <1>3, <1>5 DEF Parents
<1>7. Tree(Nodes, DOMAIN vals, sons, T, chain)
  <2>1. Tree(Nodes, DOMAIN vals, Kids, T, chain) BY <1>4 DEF T
  <2> QED BY <1>3, <2>1, SameTree
<1> QED BY <1>3, <1>6, <1>7 DEF T

LEMMA FirstAfterIs ==
  ASSUME NEW s, NEW n \in Nat, DOMAIN s = 1 .. n, NEW k, NEW upper
  PROVE  FirstAfter(s, k, upper) \in 0 .. n
<1> DEFINE S == {i \in DOMAIN s : s[i] < k \/ (upper /\ s[i] = k)}
<1>1. S \subseteq 1 .. n OBVIOUS
<1>2. 1 \in Int /\ n \in Int /\ IsFiniteSet(1 .. n) /\ Cardinality(1 .. n) = n
  <2>1. IsFiniteSet(1 .. n) /\ Cardinality(1 .. n) = IF 1 > n THEN 0 ELSE n - 1 + 1
    BY FS_Interval
  <2> QED BY <2>1
<1> HIDE DEF S
<1>3. IsFiniteSet(S) /\ Cardinality(S) <= Cardinality(1 .. n)
  BY <1>1, <1>2, FS_Subset
<1>4. Cardinality(S) \in Nat BY <1>3, FS_CardinalityType
<1>5. Cardinality(S) \in 0 .. n BY <1>2, <1>3, <1>4
<1> QED BY <1>5 DEF FirstAfter, S

LEMMA FirstAfterUp ==
  ASSUME NEW s, NEW n \in Nat, DOMAIN s = 1 .. n, NEW k
  PROVE  FirstAfter(s, k, FALSE) <= FirstAfter(s, k, TRUE)
<1> DEFINE S == {i \in DOMAIN s : s[i] < k \/ (TRUE /\ s[i] = k)}
           R == {i \in DOMAIN s : s[i] < k \/ (FALSE /\ s[i] = k)}
<1>1. S \subseteq 1 .. n /\ R \subseteq S OBVIOUS
<1>2. IsFiniteSet(1 .. n) BY FS_Interval
<1>3. IsFiniteSet(S) BY <1>1, <1>2, FS_Subset
<1>4. Cardinality(R) <= Cardinality(S) BY <1>1, <1>3, FS_Subset
<1> QED BY <1>4 DEF FirstAfter

(* The descent of a search. *)
Descends(d, k, upper) ==
  d = [n \in Nodes |-> IF n \in DOMAIN vals THEN Iter(n, FirstAfter(KeysOf(vals[n]), k, upper))
                       ELSE d[At(sons[n], FirstAfter(keys[n], k, upper))]]

LEMMA DescendsTo ==
  ASSUME TreeInv, root # NULL, work.pc \in {"idle", "range"}, NEW n \in Nodes, NEW k, NEW upper
  PROVE  /\ n \in DOMAIN vals => FirstAfter(KeysOf(vals[n]), k, upper) \in 0 .. Len(vals[n])
         /\ n \notin DOMAIN vals => /\ n \in Inners /\ FirstAfter(keys[n], k, upper) \in 0 .. Len(keys[n])
                                    /\ Len(sons[n]) = Len(keys[n]) + 1 /\ Len(keys[n]) \in Nat
<1>1. ShapeInv /\ Filled /\ Sized /\ Typed BY DEF TreeInv, ShapeInv
<1>2. ASSUME n \in DOMAIN vals PROVE FirstAfter(KeysOf(vals[n]), k, upper) \in 0 .. Len(vals[n])
  <2>1. vals[n] \in Seq(Elems) BY <1>1, <1>2 DEF Filled
  <2> DEFINE m == Len(vals[n])
             s == KeysOf(vals[n])
  <2>2. m \in Nat /\ DOMAIN vals[n] = 1 .. m BY <2>1, LenProperties
  <2>3. DOMAIN s = 1 .. m BY <2>2 DEF KeysOf
  <2> HIDE DEF m, s
  <2>4. FirstAfter(s, k, upper) \in 0 .. m BY <2>2, <2>3, FirstAfterIs
  <2> QED BY <2>4 DEF m, s
<1>3. ASSUME n \notin DOMAIN vals
      PROVE  n \in Inners /\ FirstAfter(keys[n], k, upper) \in 0 .. Len(keys[n]) /\ Len(sons[n]) = Len(keys[n]) + 1 /\ Len(keys[n]) \in Nat
  <2>1. n \in Inners BY <1>1, <1>3 DEF Typed
  <2>2. keys[n] \in Seq(Keys) /\ Len(sons[n]) = Len(keys[n]) + 1
    BY <1>1, <2>1, SonsMany
  <2> DEFINE m == Len(keys[n])
             s == keys[n]
  <2>3. m \in Nat /\ DOMAIN s = 1 .. m BY <2>2, LenProperties
  <2> HIDE DEF m, s
  <2>4. FirstAfter(s, k, upper) \in 0 .. m BY <2>3, FirstAfterIs
  <2> QED BY <2>1, <2>2, <2>3, <2>4 DEF m, s
<1> QED BY <1>2, <1>3

LEMMA SearchIs ==
  ASSUME TreeInv, root # NULL, work.pc \in {"idle", "range"}, NEW k, NEW upper
  PROVE  \E d : Descends(d, k, upper) /\ Search(k, upper) = d[root]
<1>1. Tree(Nodes, DOMAIN vals, sons, <<root>>, chain) BY StillTree
<1>2. PICK m, lev, ht : Levels(Nodes, DOMAIN vals, sons, <<root>>, chain, m, lev, ht)
  BY <1>1 DEF Tree
<1>3. m \in Nat /\ \A n \in Nodes : ht[n] \in 1 .. m BY <1>2 DEF Levels
<1> DEFINE own == [n \in Nodes |-> Iter(n, FirstAfter(KeysOf(vals[n]), k, upper))]
           next == [n \in Nodes |-> At(sons[n], FirstAfter(keys[n], k, upper))]
           O == Nodes
           L == DOMAIN vals
<1>4. ASSUME NEW n \in O \ L PROVE next[n] \in O /\ ht[n] # 1 /\ ht[next[n]] = ht[n] - 1
  <2> DEFINE i == FirstAfter(keys[n], k, upper)
  <2>1. n \in Inners /\ i \in 0 .. Len(keys[n]) /\ Len(sons[n]) = Len(keys[n]) + 1 /\ Len(keys[n]) \in Nat
    BY DescendsTo
  <2>2. DOMAIN sons = Inners /\ sons[n] \in Seq(Nat)
    BY <2>1 DEF TreeInv, ShapeInv, Typed
  <2>3. i \in 0 .. Len(sons[n]) - 1 BY <2>1
  <2> HIDE DEF i
  <2>4. At(sons[n], i) \in Members(sons[n]) BY <2>2, <2>3, AtMember
  <2>5. ht[n] \in 2 .. m /\ ht[At(sons[n], i)] = ht[n] - 1 /\ At(sons[n], i) \in Nodes
    BY <1>2, <2>1, <2>2, <2>4, SonBelow
  <2>6. next[n] = At(sons[n], i) BY DEF i
  <2>7. ht[n] # 1 BY <1>3, <2>5
  <2> HIDE DEF next
  <2> QED BY <2>5, <2>6, <2>7
<1>5. \A n \in O : ht[n] \in 1 .. m BY <1>3
<1> HIDE DEF own, next, O, L
<1>6. Descent(O, m, ht, L, next, own)
  <2>1. m \in Nat /\ \A n \in O \ L : next[n] \in O /\ ht[n] # 1 /\ ht[next[n]] = ht[n] - 1
    BY <1>3, <1>4
  <2> QED BY <1>5, <2>1, DescentExists
<1> USE DEF own, next, O, L
<1>7. \E g : g = [n \in Nodes |-> IF IsLeaf(n) THEN Iter(n, FirstAfter(KeysOf(vals[n]), k, upper))
                                  ELSE g[At(sons[n], FirstAfter(keys[n], k, upper))]]
  <2>1. PICK g : g = [n \in O |-> IF n \in L THEN own[n] ELSE g[next[n]]]
    BY <1>6 DEF Descent
  <2>2. \A n \in Nodes : (IF n \in L THEN own[n] ELSE g[next[n]])
           = IF IsLeaf(n) THEN Iter(n, FirstAfter(KeysOf(vals[n]), k, upper)) ELSE g[At(sons[n], FirstAfter(keys[n], k, upper))]
    BY DEF IsLeaf
  <2>3. g = [n \in Nodes |-> IF IsLeaf(n) THEN Iter(n, FirstAfter(KeysOf(vals[n]), k, upper))
                             ELSE g[At(sons[n], FirstAfter(keys[n], k, upper))]]
    <3> HIDE DEF own, next, L
    <3> QED BY <2>1, <2>2
  <2> QED BY <2>3
<1> HIDE DEF own, next, O, L
<1> DEFINE down[n \in DOMAIN parent] ==
             IF IsLeaf(n) THEN Iter(n, FirstAfter(KeysOf(vals[n]), k, upper))
             ELSE down[At(sons[n], FirstAfter(keys[n], k, upper))]
<1>8. Search(k, upper) = down[root] BY DEF Search
<1>9. down = [n \in Nodes |-> IF IsLeaf(n) THEN Iter(n, FirstAfter(KeysOf(vals[n]), k, upper))
                              ELSE down[At(sons[n], FirstAfter(keys[n], k, upper))]]
  BY <1>7 DEF Nodes
<1> HIDE DEF down
<1>10. Descends(down, k, upper) BY <1>9 DEF Descends, IsLeaf
<1> QED BY <1>8, <1>10

FlatTwice(f, K, h, s, D, E, P) == Flat(f, Flat(K, s)) = Flat(h, s)

LEMMA FlatFlat ==
  ASSUME NEW E, NEW D, NEW f, Gives(f, D, E), NEW P, NEW K, Gives(K, P, D), NEW s \in Seq(P), NEW h,
         \A p \in P : h[p] = Flat(f, K[p])
  PROVE  FlatTwice(f, K, h, s, D, E, P)
<1> DEFINE n == Len(s)
<1>1. PICK g \in [0 .. n -> Seq(D)] : Gathers(g, K, s) /\ Flat(K, s) = g[n]
  BY FlatIs
<1> DEFINE q == [i \in 0 .. n |-> Flat(f, g[i])]
<1>2. n \in Nat /\ \A i \in 1 .. n : s[i] \in P BY LenProperties
<1>3. n \in 0 .. n /\ 0 \in 0 .. n BY <1>2
<1>4. q \in [0 .. n -> Seq(E)]
  <2>1. \A i \in 0 .. n : Flat(f, g[i]) \in Seq(E)
    <3> TAKE i \in 0 .. n
    <3>1. g[i] \in Seq(D) OBVIOUS
    <3> QED BY <3>1, FlatType
  <2> QED BY <2>1
<1>5. q[0] = <<>>
  <2>1. g[0] = <<>> BY <1>1 DEF Gathers
  <2>2. Flat(f, <<>>) = <<>> BY FlatNil
  <2>3. q[0] = Flat(f, g[0]) BY <1>3
  <2> QED BY <2>1, <2>2, <2>3
<1>6. ASSUME NEW i \in 1 .. n PROVE q[i] = q[i - 1] \o h[s[i]]
  <2>1. i \in 0 .. n /\ i - 1 \in 0 .. n BY <1>2
  <2>2. g[i] = g[i - 1] \o K[s[i]] BY <1>1 DEF Gathers
  <2>3. g[i - 1] \in Seq(D) BY <2>1
  <2>4. K[s[i]] \in Seq(D) BY <1>2 DEF Gives
  <2>5. q[i] = Flat(f, g[i]) /\ q[i - 1] = Flat(f, g[i - 1]) BY <2>1
  <2>6. h[s[i]] = Flat(f, K[s[i]]) BY <1>2
  <2> DEFINE a == g[i - 1]
             b == K[s[i]]
  <2>8. a \in Seq(D) /\ b \in Seq(D) BY <2>3, <2>4
  <2> HIDE DEF a, b, q
  <2>7. Flat(f, a \o b) = Flat(f, a) \o Flat(f, b) BY <2>8, FlatConcat
  <2> QED BY <2>2, <2>5, <2>6, <2>7 DEF a, b
<1> HIDE DEF q
<1>7. Gathers(q, h, s)
  <2>1. DOMAIN q = 0 .. Len(s) BY DEF q, n
  <2> QED BY <1>5, <1>6, <2>1 DEF Gathers, n
<1>8. Flat(h, s) = q[n]
  <2>1. q \in [0 .. Len(s) -> Seq(E)] BY <1>4 DEF n
  <2> QED BY <1>7, <2>1, FlatBy DEF n
<1>9. q[n] = Flat(f, g[n]) BY <1>3 DEF q
<1> QED BY <1>1, <1>8, <1>9 DEF FlatTwice

FlatOnes(b, s, D) == Flat(b, s) = s

LEMMA FlatSingles ==
  ASSUME NEW D, NEW s \in Seq(D), NEW b, \A x \in D : b[x] = <<x>>
  PROVE  FlatOnes(b, s, D)
<1> DEFINE n == Len(s)
           q == [i \in 0 .. n |-> Slice(s, 0, i)]
           zero == 0
<1>1. n \in Nat /\ \A i \in 1 .. n : s[i] \in D BY LenProperties
<1>2. zero \in 0 .. n /\ n \in 0 .. n /\ \A i \in 0 .. n : zero \in 0 .. i
  BY <1>1
<1>3. Slice(s, 0, n) = s /\ \A i \in 0 .. n : Slice(s, i, i) = <<>> BY SliceAll
<1> HIDE DEF zero
<1>4. ASSUME NEW i \in 0 .. n PROVE Slice(s, zero, i) \in Seq(D)
  <2>1. i \in 0 .. Len(s) /\ zero \in 0 .. i BY <1>2
  <2>2. Sliced(s, zero, i, D) BY <2>1, Slices
  <2> QED BY <2>2 DEF Sliced
<1>5. q \in [0 .. n -> Seq(D)] BY <1>4 DEF zero
<1>6. q[0] = <<>> BY <1>2, <1>3 DEF zero
<1>7. ASSUME NEW i \in 1 .. n PROVE q[i] = q[i - 1] \o b[s[i]]
  <2> DEFINE j == i - 1
  <2>1. i \in 0 .. Len(s) /\ j \in 0 .. i /\ zero \in 0 .. j /\ j \in 0 .. Len(s) - 1 /\ j + 1 = i /\ j \in 0 .. n /\ i \in 0 .. n
    BY <1>1 DEF zero
  <2> HIDE DEF j
  <2>2. Slice(s, zero, i) = Slice(s, zero, j) \o Slice(s, j, i)
    BY <2>1, SliceSplit
  <2>3. Slice(s, j, j + 1) = <<At(s, j)>> BY <2>1, SliceOne
  <2>4. At(s, j) = s[i] /\ b[s[i]] = <<s[i]>> BY <1>1, <2>1 DEF At
  <2>5. q[i] = Slice(s, zero, i) /\ q[j] = Slice(s, zero, j) BY <2>1 DEF zero
  <2> HIDE DEF q
  <2>6. q[i] = q[j] \o b[s[i]] BY <2>1, <2>2, <2>3, <2>4, <2>5
  <2> QED BY <2>6 DEF j
<1>8. Gathers(q, b, s)
  <2>1. DOMAIN q = 0 .. Len(s) BY DEF q, n
  <2> HIDE DEF q
  <2> QED BY <1>6, <1>7, <2>1 DEF Gathers, n
<1>9. q[n] = s BY <1>2, <1>3
<1> HIDE DEF q
<1>10. q \in [0 .. Len(s) -> Seq(D)] BY <1>5 DEF n
<1>11. Flat(b, s) = q[Len(s)] BY <1>8, <1>10, FlatBy
<1> QED BY <1>9, <1>11 DEF FlatOnes, n

(* What LeavesBelow is. *)
Gathered(b) == b = [n \in Nodes |-> IF n \in DOMAIN vals THEN <<n>> ELSE Flat(b, sons[n])]

LEMMA BelowIs ==
  ASSUME TreeInv, root # NULL, work.pc \in {"idle", "range"}
  PROVE  Gathered(LeavesBelow)
<1>1. Tree(Nodes, DOMAIN vals, sons, <<root>>, chain) /\ DOMAIN sons = Inners
  BY StillTree
<1>2. PICK m, lev, ht : Levels(Nodes, DOMAIN vals, sons, <<root>>, chain, m, lev, ht)
  BY <1>1 DEF Tree
<1>3. m \in Nat /\ (\A n \in Nodes : ht[n] \in 1 .. m) /\ Gives(sons, DOMAIN sons, Nodes)
  BY <1>2 DEF Levels
<1> DEFINE O == Nodes
           L == DOMAIN vals
<1>4. ASSUME NEW n \in O \ L PROVE sons[n] \in Seq(O) /\ ht[n] # 1 /\ \A i \in 1 .. Len(sons[n]) : ht[sons[n][i]] = ht[n] - 1
  <2>1. n \in DOMAIN sons BY <1>1 DEF TreeInv, ShapeInv, Typed
  <2>2. sons[n] \in Seq(Nodes) BY <1>3, <2>1 DEF Gives
  <2>3. ht[n] # 1 BY <1>2, <2>1 DEF Levels
  <2>4. ASSUME NEW i \in 1 .. Len(sons[n]) PROVE ht[sons[n][i]] = ht[n] - 1
    <3>1. sons[n][i] \in Members(sons[n]) BY DEF Members
    <3> QED BY <1>2, <2>1, <3>1, SonBelow
  <2> QED BY <2>2, <2>3, <2>4
<1>5. \A n \in O : ht[n] \in 1 .. m BY <1>3
<1> HIDE DEF O, L
<1>6. Gathering(O, m, ht, L, sons)
  <2>1. m \in Nat /\ \A n \in O \ L : sons[n] \in Seq(O) /\ ht[n] # 1 /\ \A i \in 1 .. Len(sons[n]) : ht[sons[n][i]] = ht[n] - 1
    BY <1>3, <1>4
  <2> QED BY <1>5, <2>1, GatheringExists
<1>7. \E g : g = [n \in Nodes |-> IF IsLeaf(n) THEN <<n>> ELSE Flat(g, sons[n])]
  BY <1>6 DEF Gathering, O, L, IsLeaf
<1> DEFINE below[n \in Nodes] == IF IsLeaf(n) THEN <<n>> ELSE Flat(below, sons[n])
<1>8. below = [n \in Nodes |-> IF IsLeaf(n) THEN <<n>> ELSE Flat(below, sons[n])]
  BY <1>7
<1>9. LeavesBelow = [n \in Nodes |-> below[n]] BY DEF LeavesBelow
<1> HIDE DEF below
<1>10. LeavesBelow = below BY <1>8, <1>9
<1> QED BY <1>8, <1>10 DEF Gathered, IsLeaf

(* A tree that stands still: its levels, and the leaves below each node. *)
Still(m, ht, b) ==
  /\ TreeInv /\ root # NULL /\ work.pc \in {"idle", "range"}
  /\ m \in Nat /\ (\A n \in Nodes : ht[n] \in 1 .. m) /\ root \in Nodes
  /\ Nodes = DOMAIN vals \cup Inners /\ DOMAIN vals \cap Inners = {} /\ DOMAIN sons = Inners
  /\ (\A n \in Inners : sons[n] \in Seq(Nodes))
  /\ (\A n \in Inners : \A z \in Members(sons[n]) : z \in Nodes /\ ht[z] = ht[n] - 1 /\ ht[n] \in 2 .. m)
  /\ Gives(b, Nodes, DOMAIN vals)
  /\ (\A l \in DOMAIN vals : b[l] = <<l>>) /\ (\A n \in Inners : b[n] = Flat(b, sons[n]))
  /\ chain = b[root]

LEMMA BelowGives ==
  ASSUME NEW O, NEW L, NEW K, NEW T, NEW C, NEW m, NEW lev, NEW ht, Levels(O, L, K, T, C, m, lev, ht),
         NEW b, \A l \in L : b[l] = <<l>>, \A n \in DOMAIN K : b[n] = Flat(b, K[n])
  PROVE  Gives(b, O, L)
<1>1. m \in Nat /\ O = L \cup DOMAIN K /\ (\A n \in O : ht[n] \in 1 .. m) /\ Gives(K, DOMAIN K, O)
  BY DEF Levels
<1> DEFINE S == {i \in 0 .. m : \A n \in O : ht[n] <= i => b[n] \in Seq(L)}
<1>2. 0 \in S
  <2>1. 0 \in 0 .. m /\ \A n \in O : ~(ht[n] <= 0) BY <1>1
  <2> QED BY <2>1
<1>3. ASSUME NEW i \in 0 .. m - 1, i \in S PROVE i + 1 \in S
  <2>1. i + 1 \in 0 .. m /\ i \in Nat BY <1>1
  <2> DEFINE D == {n \in O : ht[n] <= i}
  <2>2. Gives(b, D, L) BY <1>3 DEF Gives
  <2>3. ASSUME NEW n \in O, ht[n] <= i + 1 PROVE b[n] \in Seq(L)
    <3>1. CASE n \in L
      <4>1. b[n] = <<n>> BY <3>1
      <4>2. <<n>> \in Seq(L) BY <3>1
      <4> QED BY <4>1, <4>2
    <3>2. CASE n \notin L
      <4>1. n \in DOMAIN K BY <1>1, <3>2
      <4>2. K[n] \in Seq(O) BY <1>1, <4>1 DEF Gives
      <4>3. Members(K[n]) \subseteq D
        <5> SUFFICES ASSUME NEW z \in Members(K[n]) PROVE z \in D OBVIOUS
        <5>1. z \in O /\ ht[z] = ht[n] - 1 BY <4>1, SonBelow
        <5>2. ht[n] \in 1 .. m BY <1>1
        <5> QED BY <2>1, <2>3, <5>1, <5>2
      <4> HIDE DEF D
      <4>4. K[n] \in Seq(D) BY <4>2, <4>3, SeqSub
      <4>5. Flat(b, K[n]) \in Seq(L) BY <2>2, <4>4, FlatType
      <4> QED BY <4>1, <4>5
    <3> QED BY <3>1, <3>2
  <2> QED BY <2>1, <2>3
<1> HIDE DEF S
<1>4. 0 .. m \subseteq S BY <1>1, <1>2, <1>3, Climb
<1>5. m \in S BY <1>1, <1>4
<1>6. \A n \in O : b[n] \in Seq(L) BY <1>1, <1>5 DEF S
<1> QED BY <1>6 DEF Gives

LEMMA BelowAll ==
  ASSUME NEW O, NEW L, NEW K, NEW T, NEW C, NEW m, NEW lev, NEW ht, Levels(O, L, K, T, C, m, lev, ht),
         NEW b, \A l \in L : b[l] = <<l>>, \A n \in DOMAIN K : b[n] = Flat(b, K[n])
  PROVE  Flat(b, T) = C
<1>1. m \in Nat /\ m >= 1 /\ O = L \cup DOMAIN K /\ lev[1] = C /\ lev[m] = T /\ (\A x \in O : ht[x] = 1 => x \in L)
      /\ Gives(K, DOMAIN K, O) /\ (\A i \in 1 .. m : lev[i] \in Seq(O) /\ Members(lev[i]) = {x \in O : ht[x] = i})
  BY DEF Levels
<1>2. Gives(b, O, L) BY BelowGives
<1> DEFINE S == {i \in 0 .. m : i = 0 \/ Flat(b, lev[i]) = C}
<1>3. 0 \in S BY <1>1
<1>4. ASSUME NEW i \in 0 .. m - 1, i \in S PROVE i + 1 \in S
  <2>1. i + 1 \in 0 .. m /\ i + 1 \in 1 .. m BY <1>1
  <2>2. CASE i = 0
    <3>1. 1 \in 1 .. m BY <1>1
    <3>2. C \in Seq(O) /\ Members(C) \subseteq L BY <1>1, <3>1
    <3>3. C \in Seq(L) BY <3>2, SeqSub
    <3>4. FlatOnes(b, C, L) BY <3>3, FlatSingles
    <3> QED BY <1>1, <2>1, <2>2, <3>4 DEF FlatOnes
  <2>3. CASE i # 0
    <3> DEFINE j == i + 1
    <3>1. j \in 2 .. m /\ j - 1 = i BY <1>1, <2>3
    <3> HIDE DEF j
    <3>2. lev[j] \in Seq(DOMAIN K) /\ lev[j - 1] = Flat(K, lev[j])
      BY <3>1, LevelAbove
    <3>3. FlatTwice(b, K, b, lev[j], O, L, DOMAIN K)
      BY <1>1, <1>2, <3>2, FlatFlat
    <3>4. Flat(b, lev[i]) = C BY <1>4, <2>3
    <3>5. Flat(b, lev[j]) = C BY <3>1, <3>2, <3>3, <3>4 DEF FlatTwice
    <3> QED BY <2>1, <3>5 DEF j
  <2> QED BY <2>2, <2>3
<1> HIDE DEF S
<1>5. 0 .. m \subseteq S BY <1>1, <1>3, <1>4, Climb
<1>6. m \in S /\ m # 0 BY <1>1, <1>5
<1> QED BY <1>1, <1>6 DEF S

LEMMA StillIs ==
  ASSUME TreeInv, root # NULL, work.pc \in {"idle", "range"}
  PROVE  \E m, ht : Still(m, ht, LeavesBelow)
<1>1. Tree(Nodes, DOMAIN vals, sons, <<root>>, chain) /\ DOMAIN sons = Inners
  BY StillTree
<1>2. PICK m, lev, ht : Levels(Nodes, DOMAIN vals, sons, <<root>>, chain, m, lev, ht)
  BY <1>1 DEF Tree
<1> DEFINE b == LeavesBelow
<1>3. Gathered(b) BY BelowIs
<1>4. Nodes = DOMAIN vals \cup Inners /\ DOMAIN vals \cap Inners = {} /\ root \in Nodes
  BY DEF TreeInv, ShapeInv, Typed
<1> HIDE DEF b
<1>5. (\A l \in DOMAIN vals : b[l] = <<l>>) /\ (\A n \in Inners : b[n] = Flat(b, sons[n]))
  BY <1>3, <1>4 DEF Gathered
<1>6. m \in Nat /\ (\A n \in Nodes : ht[n] \in 1 .. m) /\ Gives(sons, DOMAIN sons, Nodes)
  BY <1>2 DEF Levels
<1>7. Gives(b, Nodes, DOMAIN vals) BY <1>1, <1>2, <1>5, BelowGives
<1>8. chain = b[root]
  <2>1. Flat(b, <<root>>) = chain BY <1>1, <1>2, <1>5, BelowAll
  <2>2. Flat(b, <<root>>) = b[root] BY <1>4, <1>7, FlatOne
  <2> QED BY <2>1, <2>2
<1>9. \A n \in Inners : sons[n] \in Seq(Nodes) BY <1>1, <1>6 DEF Gives
<1>10. \A n \in Inners : \A z \in Members(sons[n]) : z \in Nodes /\ ht[z] = ht[n] - 1 /\ ht[n] \in 2 .. m
  BY <1>1, <1>2, SonBelow
<1> QED BY <1>1, <1>4, <1>5, <1>6, <1>7, <1>8, <1>9, <1>10 DEF Still, b

(* The leaves in front of the subtree of n, and those behind it. *)
Splits(b, n, P, Q) == P \in Seq(DOMAIN vals) /\ Q \in Seq(DOMAIN vals) /\ chain = (P \o b[n]) \o Q

Inside(P, A, x, B, Q, E) ==
  (P \o ((A \o x) \o B)) \o Q = ((P \o A) \o x) \o (B \o Q) /\ P \o A \in Seq(E) /\ B \o Q \in Seq(E)

LEMMA Nested ==
  ASSUME NEW E, NEW P \in Seq(E), NEW A \in Seq(E), NEW x \in Seq(E), NEW B \in Seq(E), NEW Q \in Seq(E)
  PROVE  Inside(P, A, x, B, Q, E)
<1>1. P \o A \in Seq(E) /\ B \o Q \in Seq(E) /\ A \o x \in Seq(E) /\ (A \o x) \o B \in Seq(E)
  BY ConcatType
<1> DEFINE Ax == A \o x
           PA == P \o A
<1>2. Associate(P, Ax, B) /\ Associate(P, A, x) BY <1>1, Associative
<1>3. P \o (Ax \o B) = (P \o Ax) \o B /\ P \o Ax = PA \o x BY <1>2 DEF Associate
<1>4. PA \o x \in Seq(E) BY <1>1, ConcatType
<1> DEFINE Pax == PA \o x
<1> HIDE DEF Ax, PA, Pax
<1>5. Associate(Pax, B, Q) BY <1>4, Associative DEF Pax
<1>6. (P \o (Ax \o B)) \o Q = Pax \o (B \o Q) BY <1>3, <1>5 DEF Associate, Pax
<1> QED BY <1>1, <1>6 DEF Inside, Ax, PA, Pax

(* The same for son j of an inner node. *)
Fore(b, n, P, j) == P \o Flat(b, Slice(sons[n], 0, j))
Aft(b, n, Q, j) == Flat(b, Slice(sons[n], j + 1, Len(sons[n]))) \o Q

LEMMA SplitSon ==
  ASSUME NEW m, NEW ht, NEW b, Still(m, ht, b), NEW n \in Inners, NEW P, NEW Q, Splits(b, n, P, Q),
         NEW j \in 0 .. Len(sons[n]) - 1
  PROVE  Splits(b, At(sons[n], j), Fore(b, n, P, j), Aft(b, n, Q, j))
<1> DEFINE s == sons[n]
           r == j + 1
           L == DOMAIN vals
           A == Slice(s, 0, r - 1)
           B == Slice(s, r, Len(s))
           z == s[r]
<1>1. s \in Seq(Nodes) /\ b[n] = Flat(b, s) /\ Gives(b, Nodes, L) BY DEF Still
<1>2. r \in 1 .. Len(s) /\ r - 1 = j BY <1>1, LenProperties
<1>3. s = Joins(A, z, B) /\ A \in Seq(Nodes) /\ z \in Nodes /\ B \in Seq(Nodes)
  BY <1>1, <1>2, JoinsWhere
<1> HIDE DEF A, B, z, s, r, L
<1>4. FlatOfJoins(b, A, z, B, Nodes, L) BY <1>1, <1>3, FlatJoins
<1>5. Flat(b, A) \in Seq(L) /\ Flat(b, B) \in Seq(L) BY <1>1, <1>3, FlatType
<1>6. b[z] \in Seq(L) BY <1>1, <1>3 DEF Gives
<1>7. b[n] = (Flat(b, A) \o b[z]) \o Flat(b, B)
  BY <1>1, <1>3, <1>4 DEF FlatOfJoins
<1>8. P \in Seq(L) /\ Q \in Seq(L) /\ chain = (P \o b[n]) \o Q BY DEF Splits, L
<1> DEFINE FA == Flat(b, A)
           FB == Flat(b, B)
           x == b[z]
<1>9. FA \in Seq(L) /\ FB \in Seq(L) /\ x \in Seq(L) BY <1>5, <1>6
<1>10. b[n] = (FA \o x) \o FB BY <1>7
<1> HIDE DEF FA, FB, x
<1>11. Inside(P, FA, x, FB, Q, L) BY <1>8, <1>9, Nested
<1>12. chain = ((P \o FA) \o x) \o (FB \o Q) /\ P \o FA \in Seq(L) /\ FB \o Q \in Seq(L)
  BY <1>8, <1>10, <1>11 DEF Inside
<1>13. At(sons[n], j) = z BY <1>2 DEF At, z, s, r
<1>14. Fore(b, n, P, j) = P \o FA /\ Aft(b, n, Q, j) = FB \o Q
  BY <1>2 DEF Fore, Aft, FA, FB, A, B, s, r
<1> QED BY <1>12, <1>13, <1>14 DEF Splits, x, L

FlatLens(f, A, B, E) ==
  /\ Len(Flat(f, A \o B)) = Len(Flat(f, A)) + Len(Flat(f, B)) /\ Len(Flat(f, A)) \in Nat /\ Len(Flat(f, B)) \in Nat

LEMMA FlatLen ==
  ASSUME NEW E, NEW D, NEW f, Gives(f, D, E), NEW A \in Seq(D), NEW B \in Seq(D)
  PROVE  FlatLens(f, A, B, E)
<1>1. Flat(f, A \o B) = Flat(f, A) \o Flat(f, B) BY FlatConcat
<1>2. Flat(f, A) \in Seq(E) /\ Flat(f, B) \in Seq(E) BY FlatType
<1> DEFINE a == Flat(f, A)
           b == Flat(f, B)
<1>3. a \in Seq(E) /\ b \in Seq(E) BY <1>2
<1> HIDE DEF a, b
<1>4. Len(a \o b) = Len(a) + Len(b) /\ Len(a) \in Nat /\ Len(b) \in Nat
  BY <1>3, ConcatProperties, LenProperties
<1> QED BY <1>1, <1>4 DEF FlatLens, a, b

LEMMA ValsGive ==
  ASSUME TreeInv, root # NULL
  PROVE  Gives(vals, DOMAIN vals, Elems)
BY DEF TreeInv, Filled, Gives

(* A sequence up to index j, beyond index i. *)
Passes(s, i, j, E) ==
  /\ Slice(s, 0, i) \in Seq(E) /\ At(s, i) \in E /\ Slice(s, i + 1, j) \in Seq(E)
  /\ Slice(s, 0, j) = Joins(Slice(s, 0, i), At(s, i), Slice(s, i + 1, j))

LEMMA SlicePasses ==
  ASSUME NEW E, NEW s \in Seq(E), NEW i \in Nat, NEW j \in Nat, i < j, j <= Len(s)
  PROVE  Passes(s, i, j, E)
<1> DEFINE h == i + 1
           nil == 0
<1>1. i \in 0 .. Len(s) - 1 /\ h \in 0 .. j /\ j \in 0 .. Len(s) /\ i \in 0 .. h /\ h \in 0 .. Len(s) /\ nil \in 0 .. i /\ nil \in 0 .. h /\ i \in 0 .. Len(s)
  BY LenProperties
<1>2. Slice(s, i, h) = <<At(s, i)>> /\ At(s, i) \in E BY <1>1, SliceOne
<1> HIDE DEF h, nil
<1>3. Slice(s, nil, j) = Slice(s, nil, h) \o Slice(s, h, j) BY <1>1, SliceSplit
<1>4. Slice(s, nil, h) = Slice(s, nil, i) \o Slice(s, i, h) BY <1>1, SliceSplit
<1>5. Slice(s, nil, i) \in Seq(E) /\ Slice(s, h, j) \in Seq(E) BY <1>1, SliceIs
<1> QED BY <1>2, <1>3, <1>4, <1>5 DEF Passes, Joins, h, nil

Weight(s) == Len(Flat(vals, s))

Heavier(b, s, i, j) ==
  /\ Weight(Flat(b, Slice(s, 0, j))) \in Nat /\ Weight(Flat(b, Slice(s, 0, i))) \in Nat /\ Weight(b[At(s, i)]) \in Nat
  /\ Weight(Flat(b, Slice(s, 0, i))) + Weight(b[At(s, i)]) <= Weight(Flat(b, Slice(s, 0, j)))

LEMMA HeavierIs ==
  ASSUME NEW m, NEW ht, NEW b, Still(m, ht, b), NEW s \in Seq(Nodes),
         NEW i \in Nat, NEW j \in Nat, i < j, j <= Len(s)
  PROVE  Heavier(b, s, i, j)
<1> DEFINE L == DOMAIN vals
           A == Slice(s, 0, i)
           z == At(s, i)
           B == Slice(s, i + 1, j)
           O == Nodes
<1>1. Passes(s, i, j, O) BY SlicePasses
<1>2. A \in Seq(O) /\ z \in O /\ B \in Seq(O) /\ Slice(s, 0, j) = Joins(A, z, B)
  BY <1>1 DEF Passes
<1>3. Gives(b, O, L) /\ TreeInv /\ root # NULL BY DEF Still
<1>4. Gives(vals, L, Elems) BY <1>3, ValsGive
<1> HIDE DEF A, z, B, O, L
<1>5. FlatOfJoins(b, A, z, B, O, L) BY <1>2, <1>3, FlatJoins
<1>6. Flat(b, A) \in Seq(L) /\ Flat(b, B) \in Seq(L) /\ b[z] \in Seq(L)
  BY <1>2, <1>3, FlatType DEF Gives
<1> DEFINE FA == Flat(b, A)
           FB == Flat(b, B)
           x == b[z]
           FAx == FA \o x
<1>7. FA \in Seq(L) /\ FB \in Seq(L) /\ x \in Seq(L) BY <1>6
<1>8. Flat(b, Slice(s, 0, j)) = FAx \o FB BY <1>2, <1>5 DEF FlatOfJoins
<1> HIDE DEF FA, FB, x
<1>9. FAx \in Seq(L) BY <1>7, ConcatType
<1>10. FlatLens(vals, FA, x, Elems) BY <1>4, <1>7, FlatLen
<1> HIDE DEF FAx
<1>11. FlatLens(vals, FAx, FB, Elems) BY <1>4, <1>7, <1>9, FlatLen
<1> DEFINE wa == Len(Flat(vals, FA))
           wx == Len(Flat(vals, x))
           wb == Len(Flat(vals, FB))
           wf == Len(Flat(vals, FAx))
           wj == Weight(Flat(b, Slice(s, 0, j)))
<1>12. wf = wa + wx /\ wa \in Nat /\ wx \in Nat BY <1>10 DEF FlatLens, FAx
<1>13. wj = wf + wb /\ wb \in Nat BY <1>8, <1>11 DEF FlatLens, Weight
<1> HIDE DEF wa, wx, wb, wf, wj
<1>14. wj \in Nat /\ wa + wx <= wj BY <1>12, <1>13
<1> QED BY <1>12, <1>14 DEF Heavier, Weight, wa, wx, wj, FA, x, A, z

LEMMA HeavierAll ==
  ASSUME NEW m, NEW ht, NEW b, Still(m, ht, b), NEW n \in Inners, NEW i \in 0 .. Len(sons[n]) - 1
  PROVE  /\ Weight(Flat(b, Slice(sons[n], 0, i))) \in Nat /\ Weight(b[At(sons[n], i)]) \in Nat /\ Weight(b[n]) \in Nat
         /\ Weight(Flat(b, Slice(sons[n], 0, i))) + Weight(b[At(sons[n], i)]) <= Weight(b[n])
<1> DEFINE s == sons[n]
           j == Len(s)
<1>1. s \in Seq(Nodes) /\ b[n] = Flat(b, s) BY DEF Still
<1>2. j \in Nat /\ i \in Nat /\ i < j /\ j <= Len(s) BY <1>1, LenProperties
<1>3. Slice(s, 0, j) = s BY <1>1, SliceAll
<1> HIDE DEF s, j
<1>4. Heavier(b, s, i, j) BY <1>1, <1>2, HeavierIs
<1> QED BY <1>1, <1>3, <1>4 DEF Heavier, s

(* Where the elements below son i of n begin. *)
LEMMA ForeWeight ==
  ASSUME NEW m, NEW ht, NEW b, Still(m, ht, b), NEW n \in Inners, NEW P, NEW Q, Splits(b, n, P, Q),
         NEW i \in 0 .. Len(sons[n])
  PROVE  Weight(Fore(b, n, P, i)) = Weight(P) + Weight(Flat(b, Slice(sons[n], 0, i))) /\ Weight(P) \in Nat
<1> DEFINE s == sons[n]
           L == DOMAIN vals
           A == Slice(s, 0, i)
           O == Nodes
           nil == 0
<1>1. s \in Seq(O) /\ Gives(b, O, L) /\ TreeInv /\ root # NULL /\ P \in Seq(L)
  BY DEF Still, Splits
<1>2. Gives(vals, L, Elems) BY <1>1, ValsGive
<1>3. nil \in 0 .. i OBVIOUS
<1>4. A \in Seq(O)
  <2> HIDE DEF O, L, nil
  <2>1. Slice(s, nil, i) \in Seq(O) BY <1>1, <1>3, SliceIs
  <2> QED BY <2>1 DEF nil
<1> HIDE DEF A, O, L
<1>5. Flat(b, A) \in Seq(L) BY <1>1, <1>4, FlatType
<1> DEFINE FA == Flat(b, A)
<1>6. FA \in Seq(L) BY <1>5
<1> HIDE DEF FA
<1>7. FlatLens(vals, P, FA, Elems) BY <1>1, <1>2, <1>6, FlatLen
<1> QED BY <1>7 DEF FlatLens, Weight, Fore, FA, A

(* An iterator of a position below n, whose leaves follow those of P. *)
Within(b, n, P, it) ==
  /\ \E l \in DOMAIN vals : \E i \in 0 .. Len(vals[l]) : it = Iter(l, i)
  /\ Rank(it) \in Int /\ Weight(P) <= Rank(it) /\ Rank(it) <= Weight(P) + Weight(b[n])

LEMMA WithinLeaf ==
  ASSUME NEW m, NEW ht, NEW b, Still(m, ht, b), NEW l \in DOMAIN vals, NEW P, NEW Q, Splits(b, l, P, Q),
         NEW i \in 0 .. Len(vals[l]), NEW it, it = Iter(l, i)
  PROVE  Within(b, l, P, it) /\ Rank(it) = Weight(P) + i /\ Weight(P) \in Nat
<1>1. TreeInv /\ root # NULL /\ b[l] = <<l>> BY DEF Still
<1>2. Listed(vals, chain) BY <1>1, ChainListed
<1>3. Placing(vals, chain, P, l, Q) BY <1>1 DEF Placing, Splits, Joins
<1>4. FlatAt(vals, chain, P, l, Q) BY <1>2, <1>3, FlatsAt
<1>5. RankAt(l, i, it) BY <1>1, RanksAt
<1>6. Front(vals, chain, l) = Flat(vals, P) /\ Flat(vals, P) \in Seq(Elems) /\ vals[l] \in Seq(Elems)
  BY <1>4 DEF FlatAt
<1>7. Rank(it) = Weight(P) + i BY <1>5, <1>6 DEF RankAt, Weight
<1>8. Weight(b[l]) = Len(vals[l])
  <2>1. Gives(vals, DOMAIN vals, Elems) BY <1>1, ValsGive
  <2>2. Flat(vals, <<l>>) = vals[l] BY <2>1, FlatOne
  <2> QED BY <1>1, <2>2 DEF Weight
<1>9. Weight(P) \in Nat /\ Len(vals[l]) \in Nat
  BY <1>6, LenProperties DEF Weight
<1> QED BY <1>7, <1>8, <1>9 DEF Within

LEMMA WithinSon ==
  ASSUME NEW m, NEW ht, NEW b, Still(m, ht, b), NEW n \in Inners, NEW P, NEW Q, Splits(b, n, P, Q),
         NEW j \in 0 .. Len(sons[n]) - 1, NEW it, Within(b, At(sons[n], j), Fore(b, n, P, j), it)
  PROVE  Within(b, n, P, it)
<1> DEFINE c == Weight(Flat(b, Slice(sons[n], 0, j)))
           w == Weight(b[At(sons[n], j)])
<1>1. c \in Nat /\ w \in Nat /\ Weight(b[n]) \in Nat /\ c + w <= Weight(b[n])
  BY HeavierAll
<1>2. j \in 0 .. Len(sons[n])
  <2>1. Len(sons[n]) \in Nat BY LenProperties DEF Still
  <2> QED BY <2>1
<1>3. Weight(Fore(b, n, P, j)) = Weight(P) + c /\ Weight(P) \in Nat
  BY <1>2, ForeWeight
<1> HIDE DEF c
<1>4. Rank(it) \in Int /\ Weight(P) + c <= Rank(it) /\ Rank(it) <= Weight(P) + c + w
  BY <1>3 DEF Within
<1> HIDE DEF w
<1>5. Weight(P) <= Rank(it) /\ Rank(it) <= Weight(P) + Weight(b[n])
  BY <1>1, <1>3, <1>4
<1> QED BY <1>4, <1>5 DEF Within

LEMMA DescendsSon ==
  ASSUME NEW m, NEW ht, NEW b, Still(m, ht, b), NEW n \in Nodes, n \notin DOMAIN vals, NEW d, NEW k, NEW upper, Descends(d, k, upper)
  PROVE  LET j == FirstAfter(keys[n], k, upper)
         IN  /\ n \in Inners /\ j \in 0 .. Len(sons[n]) - 1 /\ d[n] = d[At(sons[n], j)]
             /\ At(sons[n], j) \in Nodes /\ ht[At(sons[n], j)] = ht[n] - 1
<1> DEFINE j == FirstAfter(keys[n], k, upper)
<1>1. TreeInv /\ root # NULL /\ work.pc \in {"idle", "range"} BY DEF Still
<1>2. n \in Inners /\ j \in 0 .. Len(keys[n]) /\ Len(sons[n]) = Len(keys[n]) + 1 /\ Len(keys[n]) \in Nat
  BY <1>1, DescendsTo
<1>3. d[n] = d[At(sons[n], j)] BY DEF Descends
<1> HIDE DEF j
<1>4. j \in 0 .. Len(sons[n]) - 1 BY <1>2
<1>5. sons[n] \in Seq(Nodes) /\ \A z \in Members(sons[n]) : z \in Nodes /\ ht[z] = ht[n] - 1
  BY <1>2 DEF Still
<1>6. At(sons[n], j) \in Members(sons[n]) BY <1>4, <1>5, AtMember
<1> QED BY <1>2, <1>3, <1>4, <1>5, <1>6 DEF j

LEMMA SearchWithin ==
  ASSUME NEW m, NEW ht, NEW b, Still(m, ht, b), NEW d, NEW k, NEW upper, Descends(d, k, upper)
  PROVE  \A n \in Nodes : \A P, Q : Splits(b, n, P, Q) => Within(b, n, P, d[n])
<1> DEFINE S == {i \in 0 .. m : \A n \in Nodes : ht[n] <= i => \A P, Q : Splits(b, n, P, Q) => Within(b, n, P, d[n])}
<1>1. m \in Nat /\ (\A n \in Nodes : ht[n] \in 1 .. m) BY DEF Still
<1>2. 0 \in S
  <2>1. 0 \in 0 .. m /\ \A n \in Nodes : ~(ht[n] <= 0) BY <1>1
  <2> QED BY <2>1
<1>3. ASSUME NEW i \in 0 .. m - 1, i \in S PROVE i + 1 \in S
  <2>1. i + 1 \in 0 .. m /\ i \in Nat BY <1>1
  <2>2. ASSUME NEW n \in Nodes, ht[n] <= i + 1, NEW P, NEW Q, Splits(b, n, P, Q) PROVE Within(b, n, P, d[n])
    <3>1. CASE n \in DOMAIN vals
      <4> DEFINE j == FirstAfter(KeysOf(vals[n]), k, upper)
      <4>1. d[n] = Iter(n, j) BY <3>1 DEF Descends
      <4>2. j \in 0 .. Len(vals[n]) BY <3>1, DescendsTo DEF Still
      <4> HIDE DEF j
      <4> QED BY <2>2, <3>1, <4>1, <4>2, WithinLeaf
    <3>2. CASE n \notin DOMAIN vals
      <4> DEFINE j == FirstAfter(keys[n], k, upper)
                 z == At(sons[n], j)
      <4>1. n \in Inners /\ j \in 0 .. Len(sons[n]) - 1 /\ d[n] = d[z] /\ z \in Nodes /\ ht[z] = ht[n] - 1
        BY <3>2, DescendsSon
      <4> HIDE DEF j
      <4>2. Splits(b, z, Fore(b, n, P, j), Aft(b, n, Q, j))
        BY <2>2, <4>1, SplitSon
      <4>3. ht[z] <= i BY <1>1, <2>1, <2>2, <4>1
      <4> HIDE DEF z
      <4>4. Within(b, z, Fore(b, n, P, j), d[z]) BY <1>3, <4>1, <4>2, <4>3
      <4>5. Within(b, At(sons[n], j), Fore(b, n, P, j), d[n])
        BY <4>1, <4>4 DEF z
      <4> HIDE DEF S
      <4> QED BY <2>2, <4>1, <4>5, WithinSon
    <3> QED BY <3>1, <3>2
  <2> QED BY <2>1, <2>2
<1> HIDE DEF S
<1>4. 0 .. m \subseteq S BY <1>1, <1>2, <1>3, Climb
<1>5. m \in S BY <1>1, <1>4
<1> QED BY <1>1, <1>5 DEF S

LEMMA SplitsAll ==
  ASSUME NEW m, NEW ht, NEW b, Still(m, ht, b)
  PROVE  Splits(b, root, <<>>, <<>>)
<1> DEFINE L == DOMAIN vals
           nil == <<>>
<1>1. b[root] \in Seq(L) /\ chain = b[root] BY DEF Still, Gives
<1>2. nil \in Seq(L) /\ nil \o chain = chain /\ chain \o nil = chain
  BY <1>1, EmptySeq, ConcatEmptySeq
<1> QED BY <1>1, <1>2 DEF Splits

(* A search ends at a position, between which and the next one an element *)
(* fits. *)
LEMMA SearchGap ==
  ASSUME TreeInv, work.pc \in {"idle", "range"}, NEW k, NEW upper
  PROVE  Gap(Search(k, upper))
<1>1. CASE root = NULL
  <2> DEFINE s == KeysOf(base)
             n == Len(base)
  <2>1. base \in Seq(Elems) BY DEF TreeInv, Filled
  <2>2. n \in Nat /\ DOMAIN s = 1 .. n BY <2>1, LenProperties DEF KeysOf
  <2>3. Search(k, upper) = Iter(NULL, FirstAfter(s, k, upper))
    BY <1>1 DEF Search
  <2> HIDE DEF s, n
  <2>4. FirstAfter(s, k, upper) \in 0 .. n BY <2>2, FirstAfterIs
  <2> QED BY <1>1, <2>3, <2>4 DEF Gap, n
<1>2. CASE root # NULL
  <2>1. PICK m, ht : Still(m, ht, LeavesBelow) BY <1>2, StillIs
  <2>2. PICK d : Descends(d, k, upper) /\ Search(k, upper) = d[root]
    BY <1>2, SearchIs
  <2>3. Splits(LeavesBelow, root, <<>>, <<>>) BY <2>1, SplitsAll
  <2>4. root \in Nodes BY <2>1 DEF Still
  <2>5. Within(LeavesBelow, root, <<>>, d[root])
    BY <2>1, <2>2, <2>3, <2>4, SearchWithin
  <2> QED BY <1>2, <2>2, <2>5 DEF Within, Gap
<1> QED BY <1>1, <1>2

(* The searches for the lower and the upper bound of a key. *)
SonsApart(b, n, P, i, j) ==
  Weight(Fore(b, n, P, i)) + Weight(b[At(sons[n], i)]) <= Weight(Fore(b, n, P, j))

LEMMA ForeApart ==
  ASSUME NEW m, NEW ht, NEW b, Still(m, ht, b), NEW n \in Inners, NEW P, NEW Q, Splits(b, n, P, Q),
         NEW i \in Nat, NEW j \in Nat, i < j, j <= Len(sons[n])
  PROVE  SonsApart(b, n, P, i, j)
<1> DEFINE s == sons[n]
           wi == Weight(Flat(b, Slice(s, 0, i)))
           wj == Weight(Flat(b, Slice(s, 0, j)))
           wz == Weight(b[At(s, i)])
<1>1. s \in Seq(Nodes) BY DEF Still
<1>2. Heavier(b, s, i, j)
  <2> HIDE DEF s
  <2> QED BY <1>1, HeavierIs DEF s
<1>3. i \in 0 .. Len(s) /\ j \in 0 .. Len(s) BY <1>1, LenProperties
<1>4. Weight(Fore(b, n, P, i)) = Weight(P) + wi /\ Weight(Fore(b, n, P, j)) = Weight(P) + wj /\ Weight(P) \in Nat
  BY <1>3, ForeWeight
<1>5. wi \in Nat /\ wj \in Nat /\ wz \in Nat /\ wi + wz <= wj
  BY <1>2 DEF Heavier
<1> HIDE DEF wi, wj, wz, s
<1>6. Weight(P) + wi + wz <= Weight(P) + wj BY <1>4, <1>5
<1> QED BY <1>4, <1>6 DEF SonsApart, wz, s

LEMMA BoundsMeet ==
  ASSUME NEW m, NEW ht, NEW b, Still(m, ht, b), NEW k, NEW lo, NEW up, NEW d, Descends(d, k, lo), NEW e, Descends(e, k, up),
         \A s : \A n \in Nat : DOMAIN s = 1 .. n => FirstAfter(s, k, lo) <= FirstAfter(s, k, up)
  PROVE  \A n \in Nodes : \A P, Q : Splits(b, n, P, Q) => Rank(d[n]) <= Rank(e[n])
<1> DEFINE S == {i \in 0 .. m : \A n \in Nodes : ht[n] <= i => \A P, Q : Splits(b, n, P, Q) => Rank(d[n]) <= Rank(e[n])}
<1>1. m \in Nat /\ (\A n \in Nodes : ht[n] \in 1 .. m) /\ TreeInv /\ root # NULL /\ work.pc \in {"idle", "range"}
  BY DEF Still
<1>2. 0 \in S
  <2>1. 0 \in 0 .. m /\ \A n \in Nodes : ~(ht[n] <= 0) BY <1>1
  <2> QED BY <2>1
<1>3. ASSUME NEW i \in 0 .. m - 1, i \in S PROVE i + 1 \in S
  <2>1. i + 1 \in 0 .. m /\ i \in Nat BY <1>1
  <2>2. ASSUME NEW n \in Nodes, ht[n] <= i + 1, NEW P, NEW Q, Splits(b, n, P, Q) PROVE Rank(d[n]) <= Rank(e[n])
    <3>1. CASE n \in DOMAIN vals
      <4> HIDE DEF S
      <4> DEFINE s == KeysOf(vals[n])
                 len == Len(vals[n])
                 x == FirstAfter(s, k, lo)
                 y == FirstAfter(s, k, up)
      <4>1. d[n] = Iter(n, x) /\ e[n] = Iter(n, y) BY <3>1 DEF Descends
      <4>2. x \in 0 .. len /\ y \in 0 .. len BY <1>1, <3>1, DescendsTo
      <4>3. vals[n] \in Seq(Elems) BY <1>1, <3>1 DEF TreeInv, Filled
      <4>4. len \in Nat /\ DOMAIN s = 1 .. len BY <4>3, LenProperties DEF KeysOf
      <4>5. x <= y
        <5> HIDE DEF s, len
        <5> QED BY <4>4
      <4> HIDE DEF x, y, s
      <4>6. Rank(d[n]) = Weight(P) + x /\ Rank(e[n]) = Weight(P) + y /\ Weight(P) \in Nat
        BY <2>2, <3>1, <4>1, <4>2, WithinLeaf
      <4> HIDE DEF len
      <4> QED BY <4>2, <4>4, <4>5, <4>6
    <3>2. CASE n \notin DOMAIN vals
      <4> DEFINE x == FirstAfter(keys[n], k, lo)
                 y == FirstAfter(keys[n], k, up)
                 X == At(sons[n], x)
                 Y == At(sons[n], y)
      <4>1. n \in Inners /\ x \in 0 .. Len(sons[n]) - 1 /\ d[n] = d[X] /\ X \in Nodes /\ ht[X] = ht[n] - 1
        BY <3>2, DescendsSon
      <4>2. y \in 0 .. Len(sons[n]) - 1 /\ e[n] = e[Y] /\ Y \in Nodes /\ ht[Y] = ht[n] - 1
        BY <3>2, DescendsSon
      <4>3. x <= y
        <5> DEFINE len == Len(keys[n])
                   s == keys[n]
        <5>1. s \in Seq(Keys) BY <1>1, <4>1 DEF TreeInv, Filled, ShapeInv, Typed
        <5>2. len \in Nat /\ DOMAIN s = 1 .. len BY <5>1, LenProperties
        <5> HIDE DEF s, len
        <5>3. FirstAfter(s, k, lo) <= FirstAfter(s, k, up) BY <5>2
        <5> QED BY <5>3 DEF s
      <4> HIDE DEF x, y
      <4>4. Splits(b, X, Fore(b, n, P, x), Aft(b, n, Q, x)) /\ Splits(b, Y, Fore(b, n, P, y), Aft(b, n, Q, y))
        BY <2>2, <4>1, <4>2, SplitSon
      <4>5. ht[X] <= i /\ ht[Y] <= i BY <1>1, <2>1, <2>2, <4>1, <4>2
      <4>6. Within(b, X, Fore(b, n, P, x), d[X]) /\ Within(b, Y, Fore(b, n, P, y), e[Y])
        <5> HIDE DEF X, Y
        <5> QED BY <4>1, <4>2, <4>4, SearchWithin
      <4>7. CASE x = y
        <5>1. Rank(d[X]) <= Rank(e[X])
          <6>1. X \in Nodes /\ ht[X] <= i /\ Splits(b, X, Fore(b, n, P, x), Aft(b, n, Q, x)) /\ X = Y
            BY <4>1, <4>4, <4>5, <4>7 DEF X, Y
          <6> HIDE DEF X, Y
          <6> QED BY <1>3, <6>1
        <5>2. X = Y BY <4>7 DEF X, Y
        <5> HIDE DEF Y
        <5> QED BY <4>1, <4>2, <5>1, <5>2
      <4>8. CASE x # y
        <5>1. x \in Nat /\ y \in Nat /\ x < y /\ y <= Len(sons[n])
          <6>1. Len(sons[n]) \in Nat BY <4>1, LenProperties DEF Still
          <6> QED BY <4>1, <4>2, <4>3, <4>8, <6>1
        <5>2. SonsApart(b, n, P, x, y) BY <2>2, <4>1, <5>1, ForeApart
        <5>3. Rank(d[X]) \in Int /\ Rank(d[X]) <= Weight(Fore(b, n, P, x)) + Weight(b[X])
              /\ Rank(e[Y]) \in Int /\ Weight(Fore(b, n, P, y)) <= Rank(e[Y])
          BY <4>6 DEF Within
        <5>4. Weight(Fore(b, n, P, x)) + Weight(b[X]) <= Weight(Fore(b, n, P, y))
          BY <5>2 DEF SonsApart
        <5>5. Weight(b[X]) \in Nat BY <4>1, HeavierAll
        <5>6. Weight(Fore(b, n, P, x)) \in Nat /\ Weight(Fore(b, n, P, y)) \in Nat
          <6>1. x \in 0 .. Len(sons[n]) /\ y \in 0 .. Len(sons[n]) BY <5>1
          <6>2. Weight(Fore(b, n, P, x)) = Weight(P) + Weight(Flat(b, Slice(sons[n], 0, x))) /\ Weight(P) \in Nat
                /\ Weight(Fore(b, n, P, y)) = Weight(P) + Weight(Flat(b, Slice(sons[n], 0, y)))
            BY <2>2, <4>1, <6>1, ForeWeight
          <6>3. Weight(Flat(b, Slice(sons[n], 0, x))) \in Nat /\ Weight(Flat(b, Slice(sons[n], 0, y))) \in Nat
            BY <4>1, <4>2, HeavierAll
          <6> QED BY <6>2, <6>3
        <5> HIDE DEF X, Y
        <5>7. Rank(d[X]) <= Rank(e[Y]) BY <5>3, <5>4, <5>5, <5>6
        <5> QED BY <4>1, <4>2, <5>7
      <4> QED BY <4>7, <4>8
    <3> QED BY <3>1, <3>2
  <2> QED BY <2>1, <2>2
<1> HIDE DEF S
<1>4. 0 .. m \subseteq S BY <1>1, <1>2, <1>3, Climb
<1>5. m \in S BY <1>1, <1>4
<1> QED BY <1>1, <1>5 DEF S

LEMMA SearchBounds ==
  ASSUME TreeInv, work.pc \in {"idle", "range"}, NEW k
  PROVE  Rank(Search(k, FALSE)) <= Rank(Search(k, TRUE))
<1>1. CASE root = NULL
  <2> DEFINE s == KeysOf(base)
             n == Len(base)
  <2>1. base \in Seq(Elems) BY DEF TreeInv, Filled
  <2>2. n \in Nat /\ DOMAIN s = 1 .. n BY <2>1, LenProperties DEF KeysOf
  <2>3. Search(k, FALSE) = Iter(NULL, FirstAfter(s, k, FALSE)) /\ Search(k, TRUE) = Iter(NULL, FirstAfter(s, k, TRUE))
    BY <1>1 DEF Search
  <2> HIDE DEF s, n
  <2>4. FirstAfter(s, k, FALSE) <= FirstAfter(s, k, TRUE) BY <2>2, FirstAfterUp
  <2> DEFINE x == FirstAfter(s, k, FALSE)
             y == FirstAfter(s, k, TRUE)
  <2>5. Search(k, FALSE) = Iter(NULL, x) /\ Search(k, TRUE) = Iter(NULL, y) /\ x <= y
    BY <2>3, <2>4
  <2> HIDE DEF x, y
  <2>6. Rank(Iter(NULL, x)) = x /\ Rank(Iter(NULL, y)) = y
    BY <1>1 DEF Rank, Iter
  <2> QED BY <2>5, <2>6
<1>2. CASE root # NULL
  <2>1. PICK m, ht : Still(m, ht, LeavesBelow) BY <1>2, StillIs
  <2>2. PICK d : Descends(d, k, FALSE) /\ Search(k, FALSE) = d[root]
    BY <1>2, SearchIs
  <2>3. PICK e : Descends(e, k, TRUE) /\ Search(k, TRUE) = e[root]
    BY <1>2, SearchIs
  <2>4. Splits(LeavesBelow, root, <<>>, <<>>) BY <2>1, SplitsAll
  <2>5. root \in Nodes BY <2>1 DEF Still
  <2>6. Rank(d[root]) <= Rank(e[root])
    <3> DEFINE lo == FALSE
               up == TRUE
    <3>1. \A s : \A n \in Nat : DOMAIN s = 1 .. n => FirstAfter(s, k, lo) <= FirstAfter(s, k, up)
      BY FirstAfterUp
    <3>2. Descends(d, k, lo) /\ Descends(e, k, up) BY <2>2, <2>3
    <3> HIDE DEF lo, up
    <3> QED BY <2>1, <2>4, <2>5, <3>1, <3>2, BoundsMeet
  <2> QED BY <2>2, <2>3, <2>6
<1> QED BY <1>1, <1>2

(* The elements in front of a place of the list of leaves. *)
Upto(v, ch, i) == Len(Flat(v, Slice(ch, 0, i)))

PlaceOf(v, ch, l, r) ==
  /\ r \in 1 .. Len(ch) /\ ch[r] = l /\ RankOf(ch, l) = r /\ Len(Front(v, ch, l)) = Upto(v, ch, r - 1) /\ Len(ch) \in Nat

LEMMA PlacesOf ==
  ASSUME NEW v, NEW ch, Listed(v, ch), NEW l \in DOMAIN v
  PROVE  PlaceOf(v, ch, l, RankOf(ch, l))
<1>1. ch \in Seq(DOMAIN v) /\ l \in Members(ch) BY DEF Listed
<1>2. RankOf(ch, l) \in 1 .. Len(ch) /\ ch[RankOf(ch, l)] = l BY <1>1, RankIs
<1>3. Len(ch) \in Nat BY <1>1, LenProperties
<1> QED BY <1>2, <1>3 DEF PlaceOf, Front, Upto

LEMMA PlaceAt ==
  ASSUME NEW v, NEW ch, Listed(v, ch), NEW r \in 1 .. Len(ch)
  PROVE  ch[r] \in DOMAIN v /\ PlaceOf(v, ch, ch[r], r)
<1>1. ch \in Seq(DOMAIN v) /\ Unique(ch) BY DEF Listed
<1>2. ch[r] \in DOMAIN v /\ RankOf(ch, ch[r]) = r
  BY <1>1, RankWhere, ElementOfSeq
<1> QED BY <1>2, PlacesOf

UptoStep(v, ch, r) ==
  /\ Upto(v, ch, r) = Upto(v, ch, r - 1) + Len(v[ch[r]]) /\ Upto(v, ch, r - 1) \in Nat /\ Len(v[ch[r]]) \in Nat /\ Len(v[ch[r]]) # 0

LEMMA UptoSteps ==
  ASSUME NEW v, NEW ch, Listed(v, ch), NEW r \in 1 .. Len(ch)
  PROVE  UptoStep(v, ch, r)
<1> DEFINE D == DOMAIN v
           q == r - 1
           nil == 0
<1>1. ch \in Seq(D) /\ Gives(v, D, Elems) BY ListedGives DEF Listed
<1>2. q \in 0 .. Len(ch) - 1 /\ nil \in 0 .. q /\ q \in 0 .. r /\ r \in 0 .. Len(ch) /\ r = q + 1 /\ q \in 0 .. Len(ch)
  <2>1. Len(ch) \in Nat BY <1>1, LenProperties
  <2> QED BY <2>1
<1>3. At(ch, q) = ch[r] /\ ch[r] \in D BY <1>1, <1>2, ElementOfSeq DEF At
<1> HIDE DEF q, nil, D
<1>4. Slice(ch, q, q + 1) = <<At(ch, q)>> BY <1>1, <1>2, SliceOne
<1>5. Slice(ch, nil, r) = Slice(ch, nil, q) \o Slice(ch, q, r)
  BY <1>1, <1>2, SliceSplit
<1>6. Slice(ch, nil, q) \in Seq(D) BY <1>1, <1>2, SliceIs
<1> DEFINE A == Slice(ch, nil, q)
           x == ch[r]
           one == <<x>>
<1>7. Slice(ch, nil, r) = A \o one /\ A \in Seq(D) /\ one \in Seq(D)
  <2>1. one \in Seq(D)
    <3>1. x \in D BY <1>3
    <3> HIDE DEF x
    <3> QED BY <3>1
  <2>2. Slice(ch, q, r) = one BY <1>2, <1>3, <1>4
  <2> HIDE DEF one
  <2> QED BY <1>5, <1>6, <2>1, <2>2
<1>8. Flat(v, one) = v[x] /\ v[x] \in Seq(Elems)
  BY <1>1, <1>3, FlatOne DEF Gives
<1> HIDE DEF A, one, x
<1>9. FlatLens(v, A, one, Elems) BY <1>1, <1>7, FlatLen
<1>10. Len(v[x]) # 0 BY <1>3 DEF Listed, x, D
<1> QED BY <1>7, <1>8, <1>9, <1>10 DEF FlatLens, UptoStep, Upto, A, x, q, nil

(* Those of a place do not exceed those of a later one. *)
LEMMA UptoUp ==
  ASSUME NEW v, NEW ch, Listed(v, ch), NEW i \in Nat, NEW j \in Nat, i <= j, j <= Len(ch)
  PROVE  /\ Upto(v, ch, i) \in Nat /\ Upto(v, ch, j) \in Nat
         /\ Upto(v, ch, j) = Upto(v, ch, i) + Len(Flat(v, Slice(ch, i, j))) /\ Len(Flat(v, Slice(ch, i, j))) \in Nat
         /\ Slice(ch, i, j) \in Seq(DOMAIN v)
<1> DEFINE D == DOMAIN v
           nil == 0
<1>1. ch \in Seq(D) /\ Gives(v, D, Elems) BY ListedGives DEF Listed
<1>2. nil \in 0 .. i /\ i \in 0 .. j /\ j \in 0 .. Len(ch) /\ i \in 0 .. Len(ch)
  BY <1>1, LenProperties
<1> HIDE DEF D, nil
<1>3. Slice(ch, nil, j) = Slice(ch, nil, i) \o Slice(ch, i, j)
  BY <1>1, <1>2, SliceSplit
<1>4. Slice(ch, nil, i) \in Seq(D) /\ Slice(ch, i, j) \in Seq(D)
  BY <1>1, <1>2, SliceIs
<1> DEFINE A == Slice(ch, nil, i)
           B == Slice(ch, i, j)
<1>5. A \in Seq(D) /\ B \in Seq(D) /\ Slice(ch, nil, j) = A \o B BY <1>3, <1>4
<1> HIDE DEF A, B
<1>6. FlatLens(v, A, B, Elems) BY <1>1, <1>5, FlatLen
<1>7. Upto(v, ch, i) = Len(Flat(v, A)) /\ Upto(v, ch, j) = Len(Flat(v, A \o B)) /\ Slice(ch, i, j) = B
  BY <1>5 DEF Upto, A, B, nil
<1> QED BY <1>5, <1>6, <1>7 DEF FlatLens, D

LEMMA UptoAll ==
  ASSUME NEW v, NEW ch, Listed(v, ch)
  PROVE  Upto(v, ch, Len(ch)) = Len(Flat(v, ch)) /\ Upto(v, ch, 0) = 0
<1>1. ch \in Seq(DOMAIN v) BY DEF Listed
<1>2. Slice(ch, 0, Len(ch)) = ch /\ Slice(ch, 0, 0) = <<>>
  <2>1. 0 \in 0 .. Len(ch) BY <1>1, LenProperties
  <2> QED BY <1>1, <2>1, SliceAll
<1>3. Flat(v, <<>>) = <<>> BY FlatNil
<1>4. Len(<<>>) = 0 OBVIOUS
<1> QED BY <1>2, <1>3, <1>4 DEF Upto

(* Positions of different leaves. *)
FrontsApart(v, ch, x, y) ==
  Len(Front(v, ch, x)) + Len(v[x]) <= Len(Front(v, ch, y))

LEMMA FrontOrder ==
  ASSUME NEW v, NEW ch, Listed(v, ch), NEW x \in DOMAIN v, NEW y \in DOMAIN v, RankOf(ch, x) < RankOf(ch, y)
  PROVE  FrontsApart(v, ch, x, y)
<1> DEFINE r == RankOf(ch, x)
           q == RankOf(ch, y) - 1
<1>1. PlaceOf(v, ch, x, r) /\ PlaceOf(v, ch, y, RankOf(ch, y)) BY PlacesOf
<1>2. r \in 1 .. Len(ch) /\ ch[r] = x /\ Len(Front(v, ch, x)) = Upto(v, ch, r - 1) /\ Len(Front(v, ch, y)) = Upto(v, ch, q)
      /\ RankOf(ch, y) \in 1 .. Len(ch) /\ Len(ch) \in Nat
  BY <1>1 DEF PlaceOf
<1>3. r \in Nat /\ q \in Nat /\ r <= q /\ q <= Len(ch) BY <1>2
<1> HIDE DEF r, q
<1>4. UptoStep(v, ch, r) BY <1>2, UptoSteps
<1>5. Upto(v, ch, r) \in Nat /\ Upto(v, ch, q) = Upto(v, ch, r) + Len(Flat(v, Slice(ch, r, q))) /\ Len(Flat(v, Slice(ch, r, q))) \in Nat
  BY <1>3, UptoUp
<1>6. Upto(v, ch, r) <= Upto(v, ch, q) BY <1>5
<1> QED BY <1>2, <1>4, <1>6 DEF UptoStep, FrontsApart

(* Iterators and ranks. *)
LEMMA EndIs ==
  ASSUME TreeInv
  PROVE  Held(End) /\ Rank(End) = Len(Contents) /\ Len(Contents) \in Nat
<1>1. CASE root = NULL
  <2>1. base \in Seq(Elems) BY DEF TreeInv, Filled
  <2>2. Len(base) \in Nat /\ End = Iter(NULL, Len(base)) /\ Contents = base
    BY <1>1, <2>1, LenProperties DEF End, Contents
  <2>3. Rank(End) = Len(base) BY <1>1, <2>2 DEF Rank, Iter
  <2> QED BY <1>1, <2>2, <2>3 DEF Held
<1>2. CASE root # NULL
  <2>1. End = Iter(NULL, 0) /\ Contents = Flat(vals, chain)
    BY <1>2 DEF End, Contents
  <2>2. Listed(vals, chain) BY <1>2, ChainListed
  <2>3. Flat(vals, chain) \in Seq(Elems) BY <2>2, ListedGives
  <2>4. Len(Contents) \in Nat BY <2>1, <2>3, LenProperties
  <2>5. Rank(End) = Len(Contents) + 0 BY <1>2, <2>1 DEF Rank, Iter
  <2> QED BY <1>2, <2>1, <2>4, <2>5 DEF Held
<1> QED BY <1>1, <1>2

Pointed(it) ==
  /\ root = NULL => it.leaf = NULL /\ it = Iter(NULL, it.pos) /\ it.pos \in 0 .. Len(base) - 1 /\ Rank(it) = it.pos
  /\ root # NULL => LeafAt(it, it.leaf, it.pos)

LEMMA PointedIs ==
  ASSUME TreeInv, NEW it, Pointing(it)
  PROVE  Pointed(it)
<1>1. CASE root = NULL
  <2>1. PICK i \in 0 .. Len(base) - 1 : it = Iter(NULL, i) BY <1>1 DEF Pointing
  <2>2. it.leaf = NULL /\ it.pos = i BY <2>1 DEF Iter
  <2> QED BY <1>1, <2>1, <2>2 DEF Pointed, Rank
<1>2. CASE root # NULL BY <1>2, LeafsAt DEF Pointed
<1> QED BY <1>1, <1>2

(* An iterator that points to an element: the number of those in front. *)
RankedAt(it) ==
  /\ Rank(it) \in 0 .. Len(Contents) - 1 /\ Len(Contents) \in Nat /\ it # End

LEMMA PointingRank2 ==
  ASSUME TreeInv, NEW it, Pointing(it)
  PROVE  RankedAt(it)
<1>1. Pointed(it) BY PointedIs
<1>2. CASE root = NULL
  <2>1. base \in Seq(Elems) BY DEF TreeInv, Filled
  <2>2. Len(base) \in Nat /\ End = Iter(NULL, Len(base)) /\ Contents = base
    BY <1>2, <2>1, LenProperties DEF End, Contents
  <2>3. it.pos \in 0 .. Len(base) - 1 /\ Rank(it) = it.pos
    BY <1>1, <1>2 DEF Pointed
  <2>4. it # End BY <2>2, <2>3 DEF Iter
  <2> QED BY <2>2, <2>3, <2>4 DEF RankedAt
<1>3. CASE root # NULL
  <2> DEFINE l == it.leaf
             i == it.pos
  <2>1. LeafAt(it, l, i) BY <1>1, <1>3 DEF Pointed
  <2> HIDE DEF l, i
  <2>2. Listed(vals, chain) /\ l \in DOMAIN vals /\ i \in 0 .. Len(vals[l]) - 1 /\ Rank(it) = Len(Front(vals, chain, l)) + i
        /\ Contents = Flat(vals, chain) /\ it = Iter(l, i)
    BY <2>1 DEF LeafAt
  <2>3. PICK A, B : Placing(vals, chain, A, l, B) BY <2>2, PlacingIs
  <2>4. FlatAt(vals, chain, A, l, B) BY <2>2, <2>3, FlatsAt
  <2>5. Len(Flat(vals, A)) \in Nat /\ Len(vals[l]) \in Nat /\ Len(Flat(vals, B)) \in Nat
    BY <2>4, LenProperties DEF FlatAt
  <2>6. Rank(it) = Len(Flat(vals, A)) + i /\ Len(Contents) = Len(Flat(vals, A)) + Len(vals[l]) + Len(Flat(vals, B))
    BY <2>2, <2>4 DEF FlatAt
  <2>7. it # End
    <3>1. l # NULL BY <2>2 DEF Listed
    <3>2. End.leaf = NULL /\ it.leaf = l BY <1>3, <2>2 DEF End, Iter
    <3> QED BY <3>1, <3>2
  <2>8. Rank(it) \in 0 .. Len(Contents) - 1 /\ Len(Contents) \in Nat
    BY <2>2, <2>5, <2>6
  <2> QED BY <2>7, <2>8 DEF RankedAt
<1> QED BY <1>2, <1>3

LEMMA HeldEither ==
  ASSUME TreeInv, NEW it, Held(it)
  PROVE  it = End \/ Pointing(it)
<1>1. base \in Seq(Elems) BY DEF TreeInv, Filled
<1>2. Len(base) \in Nat BY <1>1, LenProperties
<1>3. CASE root = NULL
  <2>1. PICK i \in 0 .. Len(base) : it = Iter(NULL, i) BY <1>3 DEF Held
  <2>2. i = Len(base) \/ i \in 0 .. Len(base) - 1 BY <1>2
  <2>3. End = Iter(NULL, Len(base)) BY <1>3 DEF End
  <2> QED BY <1>3, <2>1, <2>2, <2>3 DEF Pointing
<1>4. CASE root # NULL BY <1>4 DEF Held, Pointing, End
<1> QED BY <1>3, <1>4

LEMMA HeldRank ==
  ASSUME TreeInv, NEW it, Held(it)
  PROVE  Rank(it) \in 0 .. Len(Contents) /\ Len(Contents) \in Nat /\ (it # End <=> Rank(it) # Len(Contents)) /\ (it # End => Pointing(it))
<1>1. Rank(End) = Len(Contents) /\ Len(Contents) \in Nat BY EndIs
<1>2. CASE it = End BY <1>1, <1>2
<1>3. CASE it # End
  <2>1. Pointing(it) BY <1>3, HeldEither
  <2>2. RankedAt(it) BY <2>1, PointingRank2
  <2> QED BY <1>3, <2>1, <2>2 DEF RankedAt
<1> QED BY <1>2, <1>3

(* The iterators on both sides. *)
LEMMA FollowingIs ==
  ASSUME TreeInv, NEW it, Pointing(it)
  PROVE  Held(Following(it)) /\ Rank(Following(it)) = Rank(it) + 1
<1>1. Pointed(it) BY PointedIs
<1>2. CASE root = NULL
  <2>1. base \in Seq(Elems) BY DEF TreeInv, Filled
  <2>2. Len(base) \in Nat BY <2>1, LenProperties
  <2>3. it.leaf = NULL /\ it.pos \in 0 .. Len(base) - 1 /\ Rank(it) = it.pos
    BY <1>1, <1>2 DEF Pointed
  <2>4. Following(it) = Iter(NULL, it.pos + 1)
    BY <2>3 DEF Following, Adjust, Iter
  <2>5. Rank(Following(it)) = it.pos + 1 BY <1>2, <2>4 DEF Rank, Iter
  <2>6. it.pos + 1 \in 0 .. Len(base) BY <2>2, <2>3
  <2> QED BY <1>2, <2>3, <2>4, <2>5, <2>6 DEF Held
<1>3. CASE root # NULL
  <2> DEFINE l == it.leaf
             i == it.pos
             j == i + 1
             f == Following(it)
  <2>1. LeafAt(it, l, i) BY <1>1, <1>3 DEF Pointed
  <2>2. f = Adjust(Iter(l, j), vals, chain) BY DEF Following
  <2> HIDE DEF l, i, f
  <2>3. Listed(vals, chain) /\ l \in DOMAIN vals /\ i \in 0 .. Len(vals[l]) - 1 /\ Rank(it) = Len(Front(vals, chain, l)) + i
        /\ vals[l] \in Seq(Elems) /\ Front(vals, chain, l) = Front(vals, chain, l)
    BY <2>1 DEF LeafAt
  <2>4. Len(vals[l]) \in Nat BY <2>3, LenProperties
  <2>5. j \in 0 .. Len(vals[l]) BY <2>3, <2>4
  <2> HIDE DEF j
  <2>6. Held(f) /\ Rank(f) = Len(Front(vals, chain, l)) + j
    BY <1>3, <2>2, <2>3, <2>5, HeldTo
  <2>7. Len(Front(vals, chain, l)) \in Nat
    <3>1. PlaceOf(vals, chain, l, RankOf(chain, l)) BY <2>3, PlacesOf
    <3> DEFINE q == RankOf(chain, l) - 1
    <3>2. q \in Nat /\ q <= Len(chain) /\ Len(Front(vals, chain, l)) = Upto(vals, chain, q)
      BY <3>1 DEF PlaceOf
    <3> HIDE DEF q
    <3>3. q <= q BY <3>2
    <3> QED BY <2>3, <3>2, <3>3, UptoUp
  <2>8. Rank(f) = Rank(it) + 1 BY <2>3, <2>6, <2>7 DEF j
  <2> QED BY <2>6, <2>8 DEF f
<1> QED BY <1>2, <1>3

(* A tree has a leaf. *)
LEMMA ChainFull ==
  ASSUME TreeInv, root # NULL, work.pc \in {"idle", "range"}
  PROVE  Len(chain) \in Nat /\ Len(chain) >= 1 /\ Listed(vals, chain) /\ chain[1] \in DOMAIN vals /\ chain[Len(chain)] \in DOMAIN vals
<1>1. Listed(vals, chain) BY ChainListed
<1>2. chain \in Seq(DOMAIN vals) /\ Members(chain) = DOMAIN vals
  BY <1>1 DEF Listed
<1>3. Gap(Search(0, TRUE)) BY SearchGap
<1>4. PICK l \in DOMAIN vals : TRUE BY <1>3 DEF Gap
<1>5. Len(chain) \in Nat BY <1>2, LenProperties
<1>6. Len(chain) >= 1
  <2>1. PICK i \in 1 .. Len(chain) : chain[i] = l BY <1>2, <1>4 DEF Members
  <2> QED BY <1>5, <2>1
<1>7. chain[1] \in DOMAIN vals /\ chain[Len(chain)] \in DOMAIN vals
  <2>1. 1 \in 1 .. Len(chain) /\ Len(chain) \in 1 .. Len(chain) BY <1>5, <1>6
  <2> QED BY <1>2, <2>1, ElementOfSeq
<1> QED BY <1>1, <1>5, <1>6, <1>7

LEMMA BeginIs ==
  ASSUME TreeInv, work.pc \in {"idle", "range"}
  PROVE  Held(Begin) /\ Gap(Begin) /\ Rank(Begin) = 0 /\ (root # NULL => Begin.leaf # NULL)
<1>1. CASE root = NULL
  <2>1. base \in Seq(Elems) BY DEF TreeInv, Filled
  <2>2. Len(base) \in Nat BY <2>1, LenProperties
  <2>3. Begin = Iter(NULL, 0) /\ 0 \in 0 .. Len(base) BY <1>1, <2>2 DEF Begin
  <2>4. Rank(Begin) = 0 BY <1>1, <2>3 DEF Rank, Iter
  <2> QED BY <1>1, <2>3, <2>4 DEF Held, Gap
<1>2. CASE root # NULL
  <2> DEFINE l == chain[1]
             one == 1
  <2>1. Listed(vals, chain) /\ l \in DOMAIN vals /\ one \in 1 .. Len(chain) /\ chain[one] = l
    BY <1>2, ChainFull
  <2>2. Begin = Iter(l, 0) BY <1>2 DEF Begin
  <2> HIDE DEF l, one
  <2>3. PlaceOf(vals, chain, chain[one], one) BY <2>1, PlaceAt
  <2>4. Len(Front(vals, chain, l)) = Upto(vals, chain, 0)
    BY <2>1, <2>3 DEF PlaceOf, one
  <2>5. Upto(vals, chain, 0) = 0 BY <2>1, UptoAll
  <2>6. RankAt(l, 0, Begin) BY <1>2, <2>1, RanksAt
  <2>7. Rank(Begin) = 0 BY <2>2, <2>4, <2>5, <2>6 DEF RankAt
  <2>8. vals[l] \in Seq(Elems) /\ Len(vals[l]) # 0 /\ NULL \notin DOMAIN vals
    BY <2>1 DEF Listed
  <2>9. 0 \in 0 .. Len(vals[l]) - 1 /\ 0 \in 0 .. Len(vals[l])
    <3>1. Len(vals[l]) \in Nat BY <2>8, LenProperties
    <3> QED BY <2>8, <3>1
  <2>10. Points(vals, Begin) BY <2>1, <2>2, <2>9 DEF Points
  <2>11. Begin.leaf = l BY <2>2 DEF Iter
  <2>12. Gap(Begin) BY <1>2, <2>1, <2>2, <2>9 DEF Gap
  <2> QED BY <1>2, <2>1, <2>7, <2>8, <2>10, <2>11, <2>12 DEF Held
<1> QED BY <1>1, <1>2

(* The last position of the leaf at place r. *)
LEMMA LastOf ==
  ASSUME TreeInv, root # NULL, work.pc \in {"idle", "range"}, NEW r \in 1 .. Len(chain), NEW l, l = chain[r],
         NEW it, it = Iter(l, Len(vals[l]) - 1)
  PROVE  Pointing(it) /\ Rank(it) = Upto(vals, chain, r) - 1
<1>1. Listed(vals, chain) BY ChainFull
<1>2. l \in DOMAIN vals /\ PlaceOf(vals, chain, l, r) BY <1>1, PlaceAt
<1>3. UptoStep(vals, chain, r) BY <1>1, UptoSteps
<1> DEFINE i == Len(vals[l]) - 1
<1>4. Upto(vals, chain, r) = Upto(vals, chain, r - 1) + Len(vals[l]) /\ Upto(vals, chain, r - 1) \in Nat /\ Len(vals[l]) \in Nat /\ Len(vals[l]) # 0
  BY <1>3 DEF UptoStep
<1>5. i \in 0 .. Len(vals[l]) - 1 /\ it = Iter(l, i) BY <1>4
<1> HIDE DEF i
<1>6. RankAt(l, i, it) BY <1>2, RanksAt
<1>7. Rank(it) = Upto(vals, chain, r - 1) + i
  BY <1>2, <1>5, <1>6 DEF RankAt, PlaceOf
<1>8. Pointing(it) BY <1>2, <1>5 DEF Pointing, Points
<1> QED BY <1>4, <1>7, <1>8 DEF i

LEMMA PrecedingIs ==
  ASSUME TreeInv, work.pc \in {"idle", "range"}, NEW it, Held(it), Rank(it) # 0
  PROVE  Pointing(Preceding(it)) /\ Rank(Preceding(it)) = Rank(it) - 1
<1> DEFINE p == Preceding(it)
<1>1. CASE root = NULL
  <2>1. PICK i \in 0 .. Len(base) : it = Iter(NULL, i) BY <1>1 DEF Held
  <2>2. base \in Seq(Elems) BY DEF TreeInv, Filled
  <2>3. Len(base) \in Nat BY <2>2, LenProperties
  <2>4. Rank(it) = i /\ it.leaf = NULL /\ it.pos = i
    BY <1>1, <2>1 DEF Rank, Iter
  <2>5. p = Iter(NULL, i - 1) BY <2>4 DEF Preceding
  <2>6. i - 1 \in 0 .. Len(base) - 1 BY <2>3, <2>4
  <2>7. Rank(p) = i - 1 BY <1>1, <2>5 DEF Rank, Iter
  <2> QED BY <1>1, <2>4, <2>5, <2>6, <2>7 DEF Pointing
<1>2. CASE root # NULL
  <2>1. Listed(vals, chain) /\ Len(chain) \in Nat /\ Len(chain) >= 1
    BY <1>2, ChainFull
  <2>2. CASE it = End
    <3> DEFINE r == Len(chain)
               l == chain[r]
    <3>1. it.pos = 0 /\ it.leaf = NULL BY <1>2, <2>2 DEF End, Iter
    <3>2. p = Iter(l, Len(vals[l]) - 1) BY <3>1 DEF Preceding, PrevLeaf
    <3>3. r \in 1 .. Len(chain) BY <2>1
    <3> HIDE DEF p, l
    <3>4. Pointing(p) /\ Rank(p) = Upto(vals, chain, r) - 1
      <4>1. l = chain[r] BY DEF l
      <4> HIDE DEF r
      <4> QED BY <1>2, <3>2, <3>3, <4>1, LastOf
    <3>5. Upto(vals, chain, r) = Len(Flat(vals, chain)) BY <2>1, UptoAll
    <3>6. Rank(it) = Len(Contents) /\ Contents = Flat(vals, chain)
      BY <1>2, <2>2, EndIs DEF Contents
    <3> QED BY <3>4, <3>5, <3>6 DEF p
  <2>3. CASE it # End
    <3> DEFINE l == it.leaf
               i == it.pos
    <3>1. Pointing(it) BY <2>3, HeldEither
    <3>2. Pointed(it) BY <3>1, PointedIs
    <3>3. LeafAt(it, l, i) BY <1>2, <3>2 DEF Pointed
    <3>4. l \in DOMAIN vals /\ i \in 0 .. Len(vals[l]) - 1 /\ Rank(it) = Len(Front(vals, chain, l)) + i /\ vals[l] \in Seq(Elems)
      BY <3>3 DEF LeafAt
    <3>5. Len(vals[l]) \in Nat BY <3>4, LenProperties
    <3>6. PlaceOf(vals, chain, l, RankOf(chain, l)) BY <2>1, <3>4, PlacesOf
    <3> DEFINE r == RankOf(chain, l)
    <3>7. r \in 1 .. Len(chain) /\ chain[r] = l /\ Rank(it) = Upto(vals, chain, r - 1) + i
      BY <3>4, <3>6 DEF PlaceOf
    <3>8. CASE i # 0
      <4> DEFINE j == i - 1
      <4>1. p = Iter(l, j) BY <3>8 DEF Preceding
      <4>2. j \in 0 .. Len(vals[l]) - 1 BY <3>4, <3>5, <3>8
      <4> HIDE DEF p, l, i, j, r
      <4>3. RankAt(l, j, p) BY <1>2, <3>4, RanksAt
      <4>4. Rank(p) = Len(Front(vals, chain, l)) + j BY <4>1, <4>3 DEF RankAt
      <4>5. Pointing(p) BY <1>2, <3>4, <4>1, <4>2 DEF Pointing, Points
      <4>6. Len(Front(vals, chain, l)) \in Nat
        <5>1. UptoStep(vals, chain, r) BY <2>1, <3>7, UptoSteps
        <5>2. Len(Front(vals, chain, l)) = Upto(vals, chain, r - 1)
          BY <3>6 DEF PlaceOf, r
        <5> QED BY <5>1, <5>2 DEF UptoStep
      <4>7. Rank(p) = Rank(it) - 1 BY <3>4, <4>4, <4>6 DEF j
      <4> QED BY <4>5, <4>7 DEF p
    <3>9. CASE i = 0
      <4> DEFINE q == r - 1
                 x == chain[q]
      <4> HIDE DEF r
      <4>1. UptoStep(vals, chain, r) BY <2>1, <3>7, UptoSteps
      <4>2. Rank(it) = Upto(vals, chain, q) BY <3>7, <3>9, <4>1 DEF UptoStep
      <4>3. r # 1
        <5>1. Upto(vals, chain, 0) = 0 BY <2>1, UptoAll
        <5> QED BY <4>2, <5>1
      <4>4. q \in 1 .. Len(chain) BY <2>1, <3>7, <4>3
      <4>5. l # NULL BY <2>1, <3>4 DEF Listed
      <4>6. PrevLeaf(chain, l) = x BY <4>5 DEF PrevLeaf, r
      <4>7. p = Iter(x, Len(vals[x]) - 1) BY <3>9, <4>6 DEF Preceding
      <4>8. x = chain[q] OBVIOUS
      <4> HIDE DEF p, x, q
      <4>9. Pointing(p) /\ Rank(p) = Upto(vals, chain, q) - 1
        BY <1>2, <4>4, <4>7, <4>8, LastOf
      <4> QED BY <4>2, <4>9 DEF p
    <3> QED BY <3>8, <3>9
  <2> QED BY <2>2, <2>3
<1> QED BY <1>1, <1>2

(* Iterators that point to elements of different leaves. *)
LEMMA LeafBefore ==
  ASSUME TreeInv, root # NULL, NEW x, NEW i, NEW y, NEW j, NEW a, NEW b, LeafAt(a, x, i), LeafAt(b, y, j),
         RankOf(chain, x) < RankOf(chain, y)
  PROVE  Rank(a) < Rank(b)
<1>1. Listed(vals, chain) /\ x \in DOMAIN vals /\ y \in DOMAIN vals /\ i \in 0 .. Len(vals[x]) - 1 /\ j \in 0 .. Len(vals[y]) - 1
      /\ Rank(a) = Len(Front(vals, chain, x)) + i /\ Rank(b) = Len(Front(vals, chain, y)) + j
      /\ vals[x] \in Seq(Elems) /\ vals[y] \in Seq(Elems)
  BY DEF LeafAt
<1>2. FrontsApart(vals, chain, x, y) BY <1>1, FrontOrder
<1>3. Len(vals[x]) \in Nat /\ Len(vals[y]) \in Nat BY <1>1, LenProperties
<1>4. PlaceOf(vals, chain, x, RankOf(chain, x)) /\ PlaceOf(vals, chain, y, RankOf(chain, y))
  BY <1>1, PlacesOf
<1>5. Len(Front(vals, chain, x)) \in Nat /\ Len(Front(vals, chain, y)) \in Nat
  <2> DEFINE r == RankOf(chain, x)
             q == RankOf(chain, y)
  <2>1. r \in 1 .. Len(chain) /\ q \in 1 .. Len(chain) /\ Len(Front(vals, chain, x)) = Upto(vals, chain, r - 1)
        /\ Len(Front(vals, chain, y)) = Upto(vals, chain, q - 1)
    BY <1>4 DEF PlaceOf
  <2> HIDE DEF r, q
  <2>2. UptoStep(vals, chain, r) /\ UptoStep(vals, chain, q)
    BY <1>1, <2>1, UptoSteps
  <2> QED BY <2>1, <2>2 DEF UptoStep
<1>6. Len(Front(vals, chain, x)) + Len(vals[x]) <= Len(Front(vals, chain, y))
  BY <1>2 DEF FrontsApart
<1> DEFINE fx == Len(Front(vals, chain, x))
           fy == Len(Front(vals, chain, y))
           lx == Len(vals[x])
<1>7. fx \in Nat /\ fy \in Nat /\ lx \in Nat /\ fx + lx <= fy /\ i \in 0 .. lx - 1 /\ j \in Nat /\ Rank(a) = fx + i /\ Rank(b) = fy + j
  BY <1>1, <1>3, <1>5, <1>6
<1> HIDE DEF fx, fy, lx
<1> QED BY <1>7

LEMMA RankOnly ==
  ASSUME TreeInv, NEW a, Held(a), NEW b, Held(b), Rank(a) = Rank(b)
  PROVE  a = b
<1>1. (a # End <=> Rank(a) # Len(Contents)) /\ (b # End <=> Rank(b) # Len(Contents))
      /\ (a # End => Pointing(a)) /\ (b # End => Pointing(b))
  BY HeldRank
<1>2. CASE a = End \/ b = End BY <1>1, <1>2
<1>3. CASE a # End /\ b # End
  <2>1. Pointed(a) /\ Pointed(b) BY <1>1, <1>3, PointedIs
  <2>2. CASE root = NULL BY <2>1, <2>2 DEF Pointed
  <2>3. CASE root # NULL
    <3> DEFINE x == a.leaf
               i == a.pos
               y == b.leaf
               j == b.pos
    <3>1. LeafAt(a, x, i) /\ LeafAt(b, y, j) BY <2>1, <2>3 DEF Pointed
    <3> HIDE DEF x, i, y, j
    <3>2. a = Iter(x, i) /\ b = Iter(y, j) /\ Listed(vals, chain) /\ x \in DOMAIN vals /\ y \in DOMAIN vals
          /\ Rank(a) = Len(Front(vals, chain, x)) + i /\ Rank(b) = Len(Front(vals, chain, y)) + j
          /\ i \in Int /\ j \in Int
      <4>1. a = Iter(x, i) /\ Listed(vals, chain) /\ x \in DOMAIN vals /\ Rank(a) = Len(Front(vals, chain, x)) + i
            /\ i \in 0 .. Len(vals[x]) - 1
        BY <3>1 DEF LeafAt
      <4>2. b = Iter(y, j) /\ y \in DOMAIN vals /\ Rank(b) = Len(Front(vals, chain, y)) + j /\ j \in 0 .. Len(vals[y]) - 1
        BY <3>1 DEF LeafAt
      <4>3. i \in Int /\ j \in Int BY <4>1, <4>2
      <4> QED BY <4>1, <4>2, <4>3
    <3> DEFINE r == RankOf(chain, x)
               q == RankOf(chain, y)
    <3>3. PlaceOf(vals, chain, x, r) /\ PlaceOf(vals, chain, y, q)
      BY <3>2, PlacesOf
    <3>4. r \in 1 .. Len(chain) /\ q \in 1 .. Len(chain) /\ chain[r] = x /\ chain[q] = y
          /\ Len(Front(vals, chain, x)) = Upto(vals, chain, r - 1)
      BY <3>3 DEF PlaceOf
    <3>5. RankedAt(a) /\ RankedAt(b) BY <1>1, <1>3, PointingRank2
    <3>6. Rank(a) \in Int /\ Rank(b) \in Int BY <3>5 DEF RankedAt
    <3>7. ~(r < q) BY <2>3, <3>1, <3>6, LeafBefore
    <3>8. ~(q < r) BY <2>3, <3>1, <3>6, LeafBefore
    <3>9. r = q
      <4> HIDE DEF r, q
      <4> QED BY <3>4, <3>7, <3>8
    <3>10. x = y BY <3>4, <3>9
    <3>11. UptoStep(vals, chain, r)
      <4> HIDE DEF r
      <4> QED BY <3>2, <3>4, UptoSteps
    <3>12. Len(Front(vals, chain, x)) \in Nat BY <3>4, <3>11 DEF UptoStep
    <3>13. i = j BY <3>2, <3>10, <3>12
    <3> QED BY <3>2, <3>10, <3>13
  <2> QED BY <2>2, <2>3
<1> QED BY <1>2, <1>3

LEMMA NotBegin ==
  ASSUME TreeInv, work.pc \in {"idle", "range"}, NEW it, Held(it)
  PROVE  it # Begin <=> Rank(it) # 0
<1>1. Held(Begin) /\ Rank(Begin) = 0 BY BeginIs
<1> QED BY <1>1, RankOnly

(* The element an iterator points to. *)
LEMMA ElemIs ==
  ASSUME TreeInv, NEW it, Pointing(it)
  PROVE  ElemAt(it) = Contents[Rank(it) + 1] /\ ElemAt(it) \in Elems
<1>1. Pointed(it) BY PointedIs
<1>2. CASE root = NULL
  <2>1. base \in Seq(Elems) BY DEF TreeInv, Filled
  <2>2. it.leaf = NULL /\ it.pos \in 0 .. Len(base) - 1 /\ Rank(it) = it.pos /\ Contents = base
    BY <1>1, <1>2 DEF Pointed, Contents
  <2>3. ElemAt(it) = base[it.pos + 1] BY <2>2 DEF ElemAt, At
  <2>4. it.pos + 1 \in 1 .. Len(base)
    <3>1. Len(base) \in Nat BY <2>1, LenProperties
    <3> QED BY <2>2, <3>1
  <2>5. base[it.pos + 1] \in Elems BY <2>1, <2>4, ElementOfSeq
  <2> QED BY <2>2, <2>3, <2>5
<1>3. CASE root # NULL
  <2> DEFINE l == it.leaf
             i == it.pos
  <2>1. LeafAt(it, l, i) BY <1>1, <1>3 DEF Pointed
  <2>2. Listed(vals, chain) /\ l \in DOMAIN vals /\ i \in 0 .. Len(vals[l]) - 1 /\ Rank(it) = Len(Front(vals, chain, l)) + i
        /\ vals[l] \in Seq(Elems) /\ Contents = Flat(vals, chain)
    BY <2>1 DEF LeafAt
  <2>3. ElemAt(it) = vals[l][i + 1]
    <3>1. l # NULL BY <2>2 DEF Listed
    <3> QED BY <3>1 DEF ElemAt, At
  <2> HIDE DEF l, i
  <2>4. PICK A, B : Placing(vals, chain, A, l, B) BY <2>2, PlacingIs
  <2>5. FlatAt(vals, chain, A, l, B) BY <2>2, <2>4, FlatsAt
  <2> DEFINE U == Flat(vals, A)
             S == vals[l]
             V == Flat(vals, B)
             h == i + 1
  <2>6. U \in Seq(Elems) /\ S \in Seq(Elems) /\ V \in Seq(Elems) /\ Contents = (U \o S) \o V /\ Rank(it) = Len(U) + i
    BY <2>2, <2>5 DEF FlatAt
  <2>7. h \in 1 .. Len(S) /\ Len(U) \in Nat
    <3>1. Len(S) \in Nat /\ Len(U) \in Nat BY <2>6, LenProperties
    <3> QED BY <2>2, <3>1
  <2>8. Rank(it) + 1 = Len(U) + h
    <3>1. i \in Int BY <2>2
    <3> DEFINE x == Rank(it)
               n == Len(U)
    <3>2. x = n + i /\ n \in Nat BY <2>6, <2>7
    <3> HIDE DEF x, n
    <3>3. x + 1 = n + (i + 1) BY <3>1, <3>2
    <3> QED BY <3>3 DEF x, n
  <2>9. ElemAt(it) = S[h] BY <2>3
  <2> HIDE DEF U, S, V, h
  <2>10. ((U \o S) \o V)[Len(U) + h] = S[h] BY <2>6, <2>7, PartOf
  <2>11. S[h] \in Elems BY <2>6, <2>7, ElementOfSeq
  <2> QED BY <2>6, <2>8, <2>9, <2>10, <2>11
<1> QED BY <1>2, <1>3

(* Positions next to an element. *)
LEMMA PointingGap ==
  ASSUME TreeInv, NEW p, Pointing(p)
  PROVE  Gap(p)
<1>1. Pointed(p) BY PointedIs
<1>2. CASE root = NULL
  <2>1. base \in Seq(Elems) BY DEF TreeInv, Filled
  <2>2. p = Iter(NULL, p.pos) /\ p.pos \in 0 .. Len(base) - 1
    BY <1>1, <1>2 DEF Pointed
  <2>3. p.pos \in 0 .. Len(base)
    <3>1. Len(base) \in Nat BY <2>1, LenProperties
    <3> QED BY <2>2, <3>1
  <2> QED BY <1>2, <2>2, <2>3 DEF Gap
<1>3. CASE root # NULL
  <2> DEFINE l == p.leaf
             i == p.pos
  <2>1. LeafAt(p, l, i) BY <1>1, <1>3 DEF Pointed
  <2> HIDE DEF l, i
  <2>2. p = Iter(l, i) /\ l \in DOMAIN vals /\ i \in 0 .. Len(vals[l]) - 1 /\ vals[l] \in Seq(Elems)
    BY <2>1 DEF LeafAt
  <2>3. i \in 0 .. Len(vals[l])
    <3>1. Len(vals[l]) \in Nat BY <2>2, LenProperties
    <3> QED BY <2>2, <3>1
  <2> QED BY <1>3, <2>2, <2>3 DEF Gap
<1> QED BY <1>2, <1>3

LEMMA GapBehind ==
  ASSUME TreeInv, NEW p, Pointing(p), NEW q, q = Iter(p.leaf, p.pos + 1)
  PROVE  Gap(q) /\ Rank(q) = Rank(p) + 1
<1>1. Pointed(p) BY PointedIs
<1>2. CASE root = NULL
  <2>1. base \in Seq(Elems) BY DEF TreeInv, Filled
  <2>2. p.leaf = NULL /\ p.pos \in 0 .. Len(base) - 1 /\ Rank(p) = p.pos
    BY <1>1, <1>2 DEF Pointed
  <2>3. p.pos + 1 \in 0 .. Len(base)
    <3>1. Len(base) \in Nat BY <2>1, LenProperties
    <3> QED BY <2>2, <3>1
  <2>4. Gap(q) BY <1>2, <2>2, <2>3 DEF Gap
  <2>5. Rank(q) = p.pos + 1 BY <1>2 DEF Rank, Iter
  <2> QED BY <2>2, <2>4, <2>5
<1>3. CASE root # NULL
  <2> DEFINE l == p.leaf
             i == p.pos
             j == i + 1
  <2>1. LeafAt(p, l, i) /\ q = Iter(l, j) BY <1>1, <1>3 DEF Pointed
  <2> HIDE DEF l, i
  <2>2. l \in DOMAIN vals /\ i \in 0 .. Len(vals[l]) - 1 /\ vals[l] \in Seq(Elems) /\ Listed(vals, chain)
        /\ Rank(p) = Len(Front(vals, chain, l)) + i
    BY <2>1 DEF LeafAt
  <2>3. j \in 0 .. Len(vals[l]) /\ i \in Nat
    <3>1. Len(vals[l]) \in Nat BY <2>2, LenProperties
    <3> QED BY <2>2, <3>1
  <2> HIDE DEF j
  <2>4. RankAt(l, j, q) BY <1>3, <2>2, RanksAt
  <2>5. Rank(q) = Len(Front(vals, chain, l)) + j BY <2>1, <2>4 DEF RankAt
  <2>6. PlaceOf(vals, chain, l, RankOf(chain, l)) BY <2>2, PlacesOf
  <2>7. Len(Front(vals, chain, l)) \in Nat
    <3> DEFINE r == RankOf(chain, l)
    <3>1. r \in 1 .. Len(chain) /\ Len(Front(vals, chain, l)) = Upto(vals, chain, r - 1)
      BY <2>6 DEF PlaceOf
    <3> HIDE DEF r
    <3>2. UptoStep(vals, chain, r) BY <2>2, <3>1, UptoSteps
    <3> QED BY <3>1, <3>2 DEF UptoStep
  <2>8. Rank(q) = Rank(p) + 1 BY <2>2, <2>3, <2>5, <2>7 DEF j
  <2> QED BY <1>3, <2>1, <2>2, <2>3, <2>8 DEF Gap
<1> QED BY <1>2, <1>3

LEMMA BeforeHintIs ==
  ASSUME TreeInv, work.pc \in {"idle", "range"}, NEW it, Held(it)
  PROVE  Gap(BeforeHint(it)) /\ Rank(BeforeHint(it)) = Rank(it)
<1>1. CASE it.pos = 0 /\ it # Begin
  <2> DEFINE p == Preceding(it)
  <2>1. Rank(it) # 0 BY <1>1, NotBegin
  <2>2. Pointing(p) /\ Rank(p) = Rank(it) - 1 BY <2>1, PrecedingIs
  <2>3. BeforeHint(it) = Iter(p.leaf, p.pos + 1) BY <1>1 DEF BeforeHint
  <2> HIDE DEF p
  <2>4. Gap(BeforeHint(it)) /\ Rank(BeforeHint(it)) = Rank(p) + 1
    BY <2>2, <2>3, GapBehind
  <2>5. Rank(it) \in 0 .. Len(Contents) /\ Len(Contents) \in Nat BY HeldRank
  <2> QED BY <2>2, <2>4, <2>5
<1>2. CASE ~(it.pos = 0 /\ it # Begin)
  <2>1. BeforeHint(it) = it BY <1>2 DEF BeforeHint
  <2>2. Gap(it)
    <3>1. CASE it = Begin BY <3>1, BeginIs
    <3>2. CASE it.pos # 0
      <4>1. CASE root = NULL BY <4>1 DEF Held, Gap
      <4>2. CASE root # NULL
        <5>1. it # End BY <3>2, <4>2 DEF End, Iter
        <5> QED BY <5>1, HeldEither, PointingGap
      <4> QED BY <4>1, <4>2
    <3> QED BY <1>2, <3>1, <3>2
  <2> QED BY <2>1, <2>2
<1> QED BY <1>1, <1>2

(* The position in front of a gap that is not the first of its leaf. *)
LEMMA BackOne ==
  ASSUME TreeInv, NEW at, Gap(at), at.pos # 0, NEW p, p = Iter(at.leaf, at.pos - 1)
  PROVE  Pointing(p) /\ Rank(p) = Rank(at) - 1
<1>1. CASE root = NULL
  <2>1. PICK i \in 0 .. Len(base) : at = Iter(NULL, i) BY <1>1 DEF Gap
  <2>2. base \in Seq(Elems) BY DEF TreeInv, Filled
  <2>3. at.pos = i /\ at.leaf = NULL /\ Rank(at) = i
    BY <1>1, <2>1 DEF Iter, Rank
  <2>4. i - 1 \in 0 .. Len(base) - 1
    <3>1. Len(base) \in Nat BY <2>2, LenProperties
    <3> QED BY <2>3, <3>1
  <2>5. p = Iter(NULL, i - 1) BY <2>3
  <2>6. Rank(p) = i - 1 BY <1>1, <2>5 DEF Rank, Iter
  <2> QED BY <1>1, <2>3, <2>4, <2>5, <2>6 DEF Pointing
<1>2. CASE root # NULL
  <2> DEFINE l == at.leaf
             i == at.pos
             j == i - 1
  <2>1. GapAt(at, l, i) /\ p = Iter(l, j) BY <1>2, GapsAt
  <2>2. l \in DOMAIN vals /\ i \in 0 .. Len(vals[l]) /\ vals[l] \in Seq(Elems) /\ Listed(vals, chain)
        /\ Rank(at) = Len(Front(vals, chain, l)) + i
    BY <2>1 DEF GapAt
  <2>3. j \in 0 .. Len(vals[l]) - 1 /\ i \in Nat
    <3>1. Len(vals[l]) \in Nat BY <2>2, LenProperties
    <3> QED BY <2>2, <3>1
  <2> HIDE DEF j, l, i
  <2>4. RankAt(l, j, p) BY <1>2, <2>2, RanksAt
  <2>5. Rank(p) = Len(Front(vals, chain, l)) + j BY <2>1, <2>4 DEF RankAt
  <2>6. PlaceOf(vals, chain, l, RankOf(chain, l)) BY <2>2, PlacesOf
  <2>7. Len(Front(vals, chain, l)) \in Nat
    <3> DEFINE r == RankOf(chain, l)
    <3>1. r \in 1 .. Len(chain) /\ Len(Front(vals, chain, l)) = Upto(vals, chain, r - 1)
      BY <2>6 DEF PlaceOf
    <3> HIDE DEF r
    <3>2. UptoStep(vals, chain, r) BY <2>2, <3>1, UptoSteps
    <3> QED BY <3>1, <3>2 DEF UptoStep
  <2>8. Rank(p) = Rank(at) - 1 BY <2>2, <2>3, <2>5, <2>7 DEF j
  <2>9. Points(vals, p) BY <2>1, <2>2, <2>3 DEF Points
  <2> QED BY <1>2, <2>8, <2>9 DEF Pointing
<1> QED BY <1>1, <1>2

(* Where a call inserts, or finds its key. *)
Suits(loc) == IF loc.dup THEN Pointing(loc.at) ELSE Gap(loc.at)

LEMMA PlaceSuits ==
  ASSUME NEW it, Gap(it)
  PROVE  Suits(Place(it))
BY DEF Suits, Place

LEMMA SameSuits ==
  ASSUME NEW it, Pointing(it)
  PROVE  Suits(Same(it))
BY DEF Suits, Same

LEMMA SearchedIs ==
  ASSUME TreeInv, work.pc \in {"idle", "range"}, NEW k
  PROVE  Suits(Searched(k))
<1> DEFINE at == Search(k, TRUE)
           p == Iter(at.leaf, at.pos - 1)
<1>1. Gap(at) BY SearchGap
<1>2. Searched(k) = IF ~Multi /\ SameKey(at, k) THEN Same(p) ELSE Place(at)
  BY DEF Searched
<1> HIDE DEF at
<1>3. CASE ~Multi /\ SameKey(at, k)
  <2>1. at.pos # 0 BY <1>3 DEF SameKey
  <2>2. Pointing(p) BY <1>1, <2>1, BackOne
  <2> HIDE DEF p
  <2> QED BY <1>2, <1>3, <2>2, SameSuits
<1>4. CASE ~(~Multi /\ SameKey(at, k)) BY <1>1, <1>2, <1>4, PlaceSuits
<1> QED BY <1>3, <1>4

LEMMA NoneYet ==
  ASSUME TreeInv, work.pc \in {"idle", "range"}, Len(Contents) = 0
  PROVE  root = NULL
<1> SUFFICES ASSUME root # NULL PROVE FALSE OBVIOUS
<1>1. Held(Begin) /\ Rank(Begin) = 0 /\ Begin.leaf # NULL BY BeginIs
<1>2. Begin # End BY <1>1 DEF End, Iter
<1>3. Rank(Begin) # Len(Contents) BY <1>1, <1>2, HeldRank
<1> QED BY <1>1, <1>3

LEMMA LocatedIs ==
  ASSUME TreeInv, work.pc \in {"idle", "range"}, size = Len(Contents), NEW hint, Held(hint), NEW k
  PROVE  Suits(Located(hint, k))
<1> DEFINE before == Preceding(hint)
           behind == IF k < KeyOf(ElemAt(before)) THEN Searched(k)
                     ELSE IF ~Multi /\ KeyOf(ElemAt(before)) >= k THEN Same(before)
                     ELSE Place(BeforeHint(hint))
           next == Following(hint)
           loc == Located(hint, k)
<1>1. loc = IF size = 0 THEN Place(hint)
            ELSE IF hint = End THEN behind
            ELSE IF KeyOf(ElemAt(hint)) >= k THEN
                   IF ~Multi /\ KeyOf(ElemAt(hint)) <= k THEN Same(hint)
                   ELSE IF hint = Begin THEN Place(hint)
                   ELSE behind
            ELSE IF next = End THEN Place(BeforeHint(next))
            ELSE IF KeyOf(ElemAt(next)) >= k THEN
                   IF ~Multi /\ KeyOf(ElemAt(next)) <= k THEN Same(next)
                   ELSE Place(BeforeHint(next))
            ELSE IF Multi THEN Place(BeforeHint(Search(k, FALSE)))
            ELSE Searched(k)
  BY DEF Located
<1>2. Suits(Searched(k)) BY SearchedIs
<1>3. Suits(Place(BeforeHint(hint))) BY BeforeHintIs, PlaceSuits
<1>4. ASSUME Rank(hint) # 0 PROVE Suits(behind)
  <2>1. Pointing(before) BY <1>4, PrecedingIs
  <2>2. Suits(Same(before)) BY <2>1, SameSuits
  <2> HIDE DEF before
  <2> QED BY <1>2, <1>3, <2>2
<1>5. CASE size = 0
  <2>1. root = NULL BY <1>5, NoneYet
  <2>2. Gap(hint) BY <2>1 DEF Gap, Held
  <2> QED BY <1>1, <1>5, <2>2, PlaceSuits
<1>6. CASE size # 0
  <2>1. CASE hint = End
    <3>1. Rank(hint) # 0 BY <1>6, <2>1, EndIs
    <3> HIDE DEF behind
    <3> QED BY <1>1, <1>4, <1>6, <2>1, <3>1
  <2>2. CASE hint # End
    <3>1. Pointing(hint) BY <2>2, HeldEither
    <3>2. Held(next) BY <3>1, FollowingIs
    <3>3. next # End => Pointing(next) BY <3>2, HeldEither
    <3>4. Suits(Place(BeforeHint(next))) BY <3>2, BeforeHintIs, PlaceSuits
    <3>5. Suits(Same(hint)) BY <3>1, SameSuits
    <3>6. next # End => Suits(Same(next)) BY <3>3, SameSuits
    <3>7. hint = Begin => Suits(Place(hint)) BY BeginIs, PlaceSuits
    <3>8. hint # Begin => Suits(behind) BY <1>4, NotBegin
    <3>9. Suits(Place(BeforeHint(Search(k, FALSE))))
      <4> DEFINE at == Search(k, FALSE)
      <4>1. Gap(at) BY SearchGap
      <4> HIDE DEF at
      <4>2. Gap(BeforeHint(at))
        <5>1. CASE Held(at) BY <5>1, BeforeHintIs
        <5>2. CASE ~Held(at)
          <6>1. ~(at.pos = 0)
            <7>1. root # NULL BY <4>1, <5>2 DEF Gap, Held
            <7>2. PICK l \in DOMAIN vals : \E i \in 0 .. Len(vals[l]) : at = Iter(l, i)
              BY <4>1, <7>1 DEF Gap
            <7> PICK i \in 0 .. Len(vals[l]) : at = Iter(l, i) BY <7>2
            <7>3. Listed(vals, chain) BY <7>1, ChainListed
            <7>4. vals[l] \in Seq(Elems) /\ Len(vals[l]) # 0 BY <7>3 DEF Listed
            <7>5. Len(vals[l]) \in Nat BY <7>4, LenProperties
            <7>6. i = 0 => Points(vals, at)
              <8>1. 0 \in 0 .. Len(vals[l]) - 1 BY <7>4, <7>5
              <8> QED BY <8>1 DEF Points
            <7>7. i # 0 BY <5>2, <7>1, <7>6 DEF Held
            <7> QED BY <7>7 DEF Iter
          <6>2. BeforeHint(at) = at BY <6>1 DEF BeforeHint
          <6> QED BY <4>1, <6>2
        <5> QED BY <5>1, <5>2
      <4> QED BY <4>2, PlaceSuits DEF at
    <3> HIDE DEF behind, next
    <3> QED BY <1>1, <1>2, <1>6, <2>2, <3>4, <3>5, <3>6, <3>7, <3>8, <3>9
  <2> QED BY <2>1, <2>2
<1> QED BY <1>5, <1>6

LEMMA LocatedNextIs ==
  ASSUME TreeInv, work.pc \in {"idle", "range"}, size = Len(Contents), NEW hint, Held(hint), NEW k
  PROVE  Suits(LocatedNext(hint, k))
<1> DEFINE here == KeyOf(ElemAt(hint))
           next == Following(hint)
           spot == Iter(hint.leaf, hint.pos + 1)
           loc == LocatedNext(hint, k)
<1>1. loc = IF hint = End THEN Located(hint, k)
            ELSE IF here = k THEN IF Multi THEN Place(spot) ELSE Same(hint)
            ELSE IF here > k THEN Searched(k)
            ELSE IF next = End THEN Place(spot)
            ELSE IF KeyOf(ElemAt(next)) < k THEN Searched(k)
            ELSE IF KeyOf(ElemAt(next)) > k THEN Place(spot)
            ELSE IF Multi THEN Place(Search(k, TRUE))
            ELSE Same(next)
  BY DEF LocatedNext
<1>2. Suits(Located(hint, k)) BY LocatedIs
<1>3. CASE hint = End BY <1>1, <1>2, <1>3
<1>4. CASE hint # End
  <2>1. Pointing(hint) BY <1>4, HeldEither
  <2>2. Held(next) BY <2>1, FollowingIs
  <2>3. next # End => Suits(Same(next)) BY <2>2, HeldEither, SameSuits
  <2>4. Suits(Same(hint)) BY <2>1, SameSuits
  <2>5. Gap(spot) BY <2>1, GapBehind
  <2>6. Suits(Place(spot)) BY <2>5, PlaceSuits
  <2>7. Suits(Searched(k)) BY SearchedIs
  <2>8. Suits(Place(Search(k, TRUE))) BY SearchGap, PlaceSuits
  <2> HIDE DEF here, next, spot
  <2> QED BY <1>1, <1>4, <2>3, <2>4, <2>6, <2>7, <2>8
<1> QED BY <1>3, <1>4

(* lower_bound and upper_bound. *)
LEMMA BoundIs ==
  ASSUME TreeInv, work.pc \in {"idle", "range"}, NEW k, NEW upper
  PROVE  Held(Bound(k, upper)) /\ Rank(Bound(k, upper)) = Rank(Search(k, upper))
<1> DEFINE at == Search(k, upper)
           it == Bound(k, upper)
<1>1. Gap(at) BY SearchGap
<1>2. it = Adjust(at, vals, chain) BY DEF Bound
<1> HIDE DEF at, it
<1>3. CASE root = NULL
  <2>1. PICK i \in 0 .. Len(base) : at = Iter(NULL, i) BY <1>1, <1>3 DEF Gap
  <2>2. it = at BY <1>2, <2>1 DEF Adjust, Iter
  <2> QED BY <1>3, <2>1, <2>2 DEF Held, at, it
<1>4. CASE root # NULL
  <2> DEFINE l == at.leaf
             i == at.pos
  <2>1. GapAt(at, l, i) BY <1>1, <1>4, GapsAt
  <2> HIDE DEF l, i
  <2>2. Listed(vals, chain) /\ l \in DOMAIN vals /\ i \in 0 .. Len(vals[l]) /\ at = Iter(l, i) /\ Rank(at) = Len(Front(vals, chain, l)) + i
    BY <2>1 DEF GapAt
  <2>3. it = Adjust(Iter(l, i), vals, chain) BY <1>2, <2>2
  <2>4. Held(it) /\ Rank(it) = Len(Front(vals, chain, l)) + i
    BY <1>4, <2>2, <2>3, HeldTo
  <2> QED BY <2>2, <2>4 DEF at, it
<1> QED BY <1>3, <1>4

(* Adding up the sizes of leaves. *)
Adds(c, v, s) == c = [i \in 0 .. Len(s) |-> IF i = 0 THEN 0 ELSE c[i - 1] + Len(v[s[i]])]

LEMMA AddsExist ==
  ASSUME NEW E, NEW D, NEW v, Gives(v, D, E), NEW s \in Seq(D)
  PROVE  (\E c : Adds(c, v, s)) /\ \A c : Adds(c, v, s) => c[Len(s)] = Len(Flat(v, s))
<1>1. PICK g \in [0 .. Len(s) -> Seq(E)] : Gathers(g, v, s) /\ Flat(v, s) = g[Len(s)]
  BY FlatIs
<1>2. Len(s) \in Nat BY LenProperties
<1>3. \A i \in 1 .. Len(s) : Len(g[i]) = Len(g[i - 1]) + Len(v[s[i]])
  <2> TAKE i \in 1 .. Len(s)
  <2> DEFINE a == g[i - 1]
             x == v[s[i]]
  <2>1. g[i] = a \o x BY <1>1 DEF Gathers
  <2>2. i - 1 \in 0 .. Len(s) BY <1>2
  <2>3. a \in Seq(E) BY <2>2
  <2>4. s[i] \in D BY ElementOfSeq
  <2>5. x \in Seq(E) BY <2>4 DEF Gives
  <2> HIDE DEF a, x
  <2>6. Len(a \o x) = Len(a) + Len(x) BY <2>3, <2>5, ConcatProperties
  <2> QED BY <2>1, <2>6 DEF a, x
<1>4. Len(g[0]) = 0
  <2>1. g[0] = <<>> BY <1>1 DEF Gathers
  <2> QED BY <2>1
<1>5. \E c : Adds(c, v, s)
  <2> DEFINE h == [i \in 0 .. Len(s) |-> Len(g[i])]
  <2>1. \A i \in 0 .. Len(s) : h[i] = IF i = 0 THEN 0 ELSE h[i - 1] + Len(v[s[i]])
    <3> TAKE i \in 0 .. Len(s)
    <3>1. CASE i = 0 BY <1>4, <3>1
    <3>2. CASE i # 0
      <4>1. i \in 1 .. Len(s) /\ i - 1 \in 0 .. Len(s) BY <1>2, <3>2
      <4> QED BY <1>3, <3>2, <4>1
    <3> QED BY <3>1, <3>2
  <2>2. h = [i \in 0 .. Len(s) |-> h[i]] OBVIOUS
  <2> HIDE DEF h
  <2>3. h = [i \in 0 .. Len(s) |-> IF i = 0 THEN 0 ELSE h[i - 1] + Len(v[s[i]])]
    BY <2>1, <2>2
  <2>4. Adds(h, v, s) BY <2>3 DEF Adds
  <2> QED BY <2>4
<1>6. ASSUME NEW c, Adds(c, v, s) PROVE c[Len(s)] = Len(Flat(v, s))
  <2> DEFINE S == {i \in 0 .. Len(s) : c[i] = Len(g[i])}
             m == Len(s)
  <2>1. \A i \in 0 .. m : c[i] = IF i = 0 THEN 0 ELSE c[i - 1] + Len(v[s[i]])
    BY <1>6 DEF Adds
  <2>2. 0 \in S BY <1>2, <1>4, <2>1
  <2>3. \A i \in 0 .. m - 1 : i \in S => i + 1 \in S
    <3> TAKE i \in 0 .. m - 1
    <3> HAVE i \in S
    <3> DEFINE j == i + 1
    <3>1. j \in 1 .. m /\ j \in 0 .. m /\ j # 0 /\ j - 1 = i BY <1>2
    <3>2. c[i] = Len(g[i]) OBVIOUS
    <3> HIDE DEF j
    <3>3. c[j] = c[i] + Len(v[s[j]]) BY <2>1, <3>1
    <3>4. Len(g[j]) = Len(g[i]) + Len(v[s[j]]) BY <1>3, <3>1
    <3>5. j \in S BY <3>1, <3>2, <3>3, <3>4
    <3> QED BY <3>5 DEF j
  <2>4. m \in Nat BY <1>2
  <2> HIDE DEF S, m
  <2>5. 0 .. m \subseteq S BY <2>2, <2>3, <2>4, Climb
  <2>6. m \in S BY <2>4, <2>5
  <2> QED BY <1>1, <2>6 DEF S, m
<1> QED BY <1>5, <1>6

CountOf(first, last) ==
  /\ first.leaf = last.leaf => CountBetween(first, last) = last.pos - first.pos
  /\ first.leaf # last.leaf => CountBetween(first, last) = Len(Flat(vals, LeavesFrom(first, last))) - first.pos + last.pos

LEMMA CountsOf ==
  ASSUME NEW first, NEW last, first.leaf # last.leaf => Gives(vals, DOMAIN vals, Elems) /\ LeavesFrom(first, last) \in Seq(DOMAIN vals)
  PROVE  CountOf(first, last)
<1> DEFINE ls == LeavesFrom(first, last)
           count[i \in 0 .. Len(ls)] == IF i = 0 THEN 0 ELSE count[i - 1] + Len(vals[ls[i]])
<1>1. CountBetween(first, last) = IF first.leaf = last.leaf THEN last.pos - first.pos ELSE count[Len(ls)] - first.pos + last.pos
  BY DEF CountBetween
<1>2. ASSUME first.leaf # last.leaf PROVE count[Len(ls)] = Len(Flat(vals, ls))
  <2>1. \E c : Adds(c, vals, ls) BY <1>2, AddsExist
  <2>2. \E c : c = [i \in 0 .. Len(ls) |-> IF i = 0 THEN 0 ELSE c[i - 1] + Len(vals[ls[i]])]
    BY <2>1 DEF Adds
  <2>3. count = [i \in 0 .. Len(ls) |-> IF i = 0 THEN 0 ELSE count[i - 1] + Len(vals[ls[i]])]
    BY <2>2
  <2> HIDE DEF count
  <2>4. Adds(count, vals, ls) BY <2>3 DEF Adds
  <2> QED BY <1>2, <2>4, AddsExist
<1> HIDE DEF count
<1> QED BY <1>1, <1>2 DEF CountOf

LEMMA CountBetweenIs ==
  ASSUME TreeInv, work.pc \in {"idle", "range"}, NEW first, Pointing(first), NEW last, Held(last), Rank(first) <= Rank(last)
  PROVE  CountBetween(first, last) = Rank(last) - Rank(first)
<1>1. Pointed(first) /\ RankedAt(first) BY PointedIs, PointingRank2
<1>2. CASE root = NULL
  <2>1. first.leaf = NULL /\ Rank(first) = first.pos BY <1>1, <1>2 DEF Pointed
  <2>2. PICK j \in 0 .. Len(base) : last = Iter(NULL, j) BY <1>2 DEF Held
  <2>3. last.leaf = NULL /\ last.pos = j /\ Rank(last) = j
    BY <1>2, <2>2 DEF Iter, Rank
  <2>4. CountOf(first, last) BY <2>1, <2>3, CountsOf
  <2> QED BY <2>1, <2>3, <2>4 DEF CountOf
<1>3. CASE root # NULL
  <2> DEFINE x == first.leaf
             i == first.pos
             r == RankOf(chain, x)
             p == r - 1
  <2>1. LeafAt(first, x, i) BY <1>1, <1>3 DEF Pointed
  <2>2. Listed(vals, chain) /\ x \in DOMAIN vals /\ i \in 0 .. Len(vals[x]) - 1 /\ Rank(first) = Len(Front(vals, chain, x)) + i
        /\ Contents = Flat(vals, chain)
    BY <2>1 DEF LeafAt
  <2>3. Gives(vals, DOMAIN vals, Elems) BY <2>2, ListedGives
  <2>4. PlaceOf(vals, chain, x, r) BY <2>2, PlacesOf
  <2>5. r \in 1 .. Len(chain) /\ chain[r] = x /\ Rank(first) = Upto(vals, chain, p) + i /\ Len(chain) \in Nat
    BY <2>2, <2>4 DEF PlaceOf
  <2>6. p \in Nat /\ p <= Len(chain) /\ i \in Int BY <2>2, <2>5
  <2>7. CASE last = End
    <3> DEFINE ls == LeavesFrom(first, last)
               n == Len(chain)
    <3>1. last.leaf = NULL /\ last.pos = 0 /\ x # NULL
      BY <1>3, <2>2, <2>7 DEF End, Iter, Listed
    <3>2. ls = Slice(chain, p, n) BY <3>1 DEF LeavesFrom
    <3>3. n \in Nat /\ p <= n /\ n <= Len(chain) BY <2>5, <2>6
    <3> HIDE DEF p, n, ls
    <3>4. Upto(vals, chain, p) \in Nat /\ Upto(vals, chain, n) = Upto(vals, chain, p) + Len(Flat(vals, ls))
          /\ ls \in Seq(DOMAIN vals) /\ Len(Flat(vals, ls)) \in Nat
      BY <2>2, <2>6, <3>2, <3>3, UptoUp
    <3>5. CountOf(first, last) BY <2>3, <3>4, CountsOf DEF ls
    <3>6. CountBetween(first, last) = Len(Flat(vals, ls)) - i + 0
      BY <3>1, <3>5 DEF CountOf, ls
    <3>7. Rank(last) = Upto(vals, chain, n)
      <4>1. Upto(vals, chain, n) = Len(Flat(vals, chain)) BY <2>2, UptoAll DEF n
      <4> QED BY <2>2, <2>7, <4>1, EndIs
    <3> HIDE DEF i
    <3> QED BY <2>5, <2>6, <3>4, <3>6, <3>7
  <2>8. CASE last # End
    <3>1. Pointing(last) BY <2>8, HeldEither
    <3>2. Pointed(last) /\ RankedAt(last) BY <3>1, PointedIs, PointingRank2
    <3> DEFINE y == last.leaf
               j == last.pos
               q == RankOf(chain, y)
               o == q - 1
               ls == LeavesFrom(first, last)
    <3>3. LeafAt(last, y, j) BY <1>3, <3>2 DEF Pointed
    <3>4. y \in DOMAIN vals /\ j \in 0 .. Len(vals[y]) - 1 /\ Rank(last) = Len(Front(vals, chain, y)) + j
      BY <3>3 DEF LeafAt
    <3>5. PlaceOf(vals, chain, y, q) BY <2>2, <3>4, PlacesOf
    <3>6. q \in 1 .. Len(chain) /\ chain[q] = y /\ Rank(last) = Upto(vals, chain, o) + j
      BY <3>4, <3>5 DEF PlaceOf
    <3>7. CASE x = y
      <4>1. CountOf(first, last) BY <3>7, CountsOf
      <4>2. CountBetween(first, last) = j - i BY <3>7, <4>1 DEF CountOf
      <4>3. o = p BY <3>7
      <4>4. Upto(vals, chain, p) \in Nat
        <5>1. p <= p BY <2>6
        <5> HIDE DEF p
        <5> QED BY <2>2, <2>6, <5>1, UptoUp
      <4>5. j \in Int BY <3>4
      <4> DEFINE u == Upto(vals, chain, p)
      <4>6. Rank(first) = u + i /\ Rank(last) = u + j /\ u \in Nat
        BY <2>5, <3>6, <4>3, <4>4
      <4> HIDE DEF u, i, j
      <4> QED BY <2>6, <4>2, <4>5, <4>6
    <3>8. CASE x # y
      <4>1. ~(q < r)
        <5> SUFFICES ASSUME q < r PROVE FALSE OBVIOUS
        <5>1. Rank(last) < Rank(first)
          <6> HIDE DEF x, i, y, j
          <6> QED BY <1>3, <2>1, <3>3, LeafBefore DEF r, q
        <5> QED BY <1>1, <3>2, <5>1 DEF RankedAt
      <4>2. r # q BY <2>5, <3>6, <3>8
      <4>3. r < q
        <5> HIDE DEF r, q
        <5> QED BY <2>5, <3>6, <4>1, <4>2
      <4>4. o \in Nat /\ p <= o /\ o <= Len(chain)
        <5> HIDE DEF r, q
        <5> QED BY <2>5, <3>6, <4>3
      <4>5. y # NULL BY <2>2, <3>4 DEF Listed
      <4>6. ls = Slice(chain, p, o) BY <4>5 DEF LeavesFrom
      <4> HIDE DEF p, o, ls
      <4>7. Upto(vals, chain, p) \in Nat /\ Upto(vals, chain, o) = Upto(vals, chain, p) + Len(Flat(vals, ls))
            /\ ls \in Seq(DOMAIN vals) /\ Len(Flat(vals, ls)) \in Nat
        BY <2>2, <2>6, <4>4, <4>6, UptoUp
      <4>8. CountOf(first, last) BY <2>3, <4>7, CountsOf DEF ls
      <4>9. CountBetween(first, last) = Len(Flat(vals, ls)) - i + j
        BY <3>8, <4>8 DEF CountOf, ls
      <4>10. j \in Int BY <3>4
      <4> HIDE DEF i, j
      <4> QED BY <2>5, <2>6, <3>6, <4>7, <4>9, <4>10
    <3> QED BY <3>7, <3>8
  <2> QED BY <2>7, <2>8
<1> QED BY <1>2, <1>3

(* The calls. *)
LEMMA EmptyElements ==
  ASSUME TreeInv, NEW it
  PROVE  (it \in Elements <=> Pointing(it)) /\ (it \in Elements \cup {End} <=> Held(it))
<1>1. base \in Seq(Elems) BY DEF TreeInv, Filled
<1> QED BY <1>1, HeldIs

LEMMA ErasingInv ==
  ASSUME IInv, work.pc = "idle", use' = use, use \in Uses, NEW first, Pointing(first), NEW last, Held(last),
         Rank(first) < Rank(last), Erasing(first, last)
  PROVE  IInv'
<1>1. TreeInv /\ work.pc \in {"idle", "range"} BY DEF IInv
<1>2. CASE first = Begin /\ last = End
  <2>1. Emptied BY <1>2 DEF Erasing
  <2> QED BY <2>1, EmptiedInv
<1>3. CASE ~(first = Begin /\ last = End)
  <2> DEFINE c == CountBetween(first, last)
             want == Rank(first)
  <2>1. work' = Erased(first, c, want) /\ UNCHANGED <<root, size, base, nodes>>
    BY <1>3 DEF Erasing
  <2>2. Rank(last) \in 0 .. Len(Contents) /\ Len(Contents) \in Nat
    BY <1>1, HeldRank
  <2>3. RankedAt(first) BY <1>1, PointingRank2
  <2>4. want \in 0 .. Len(Contents) - 1 BY <2>3 DEF RankedAt
  <2>5. Rank(first) <= Rank(last) BY <2>2, <2>4
  <2>6. c = Rank(last) - want BY <1>1, <2>5, CountBetweenIs
  <2>7. c \in Nat /\ want \in Nat /\ want + c <= Len(Contents)
    <3> HIDE DEF c, want
    <3> QED BY <2>2, <2>4, <2>6 DEF want
  <2> HIDE DEF c
  <2>8. WorkDone(c, want) /\ work'.it = first /\ work'.pc \in {"idle", "range"}
    <3> HIDE DEF want
    <3> QED BY <2>1, <2>7, ErasedWork
  <2>9. Working' /\ work'.left = c /\ work'.want = want BY <2>8 DEF WorkDone
  <2>10. Held(first) BY <1>1, PointingHeld
  <2> QED BY <1>1, <2>1, <2>7, <2>8, <2>9, <2>10, SameTreeInv
<1> QED BY <1>2, <1>3

LEMMA EraseKeyInv ==
  ASSUME IInv, use \in Uses, NEW k, EraseKey(k)
  PROVE  IInv'
<1> DEFINE first == Bound(k, FALSE)
           last == Bound(k, TRUE)
<1>1. work.pc = "idle" /\ use' = use BY DEF EraseKey, Calling
<1>2. TreeInv /\ work.pc \in {"idle", "range"} BY <1>1 DEF IInv
<1>3. Held(first) /\ Held(last) /\ Rank(first) = Rank(Search(k, FALSE)) /\ Rank(last) = Rank(Search(k, TRUE))
  BY <1>2, BoundIs
<1>4. Rank(first) <= Rank(last) BY <1>2, <1>3, SearchBounds
<1>5. Rank(first) \in 0 .. Len(Contents) /\ Rank(last) \in 0 .. Len(Contents) /\ Len(Contents) \in Nat
      /\ (first # End <=> Rank(first) # Len(Contents)) /\ (first # End => Pointing(first))
  BY <1>2, <1>3, HeldRank
<1>6. IF Multi THEN first # last /\ Erasing(first, last)
      ELSE first # End /\ EraseAt(first, 0, Rank(first))
  BY DEF EraseKey
<1>7. CASE Multi
  <2>1. first # last /\ Erasing(first, last) BY <1>6, <1>7
  <2>2. Rank(first) # Rank(last) BY <1>2, <1>3, <2>1, RankOnly
  <2>3. Rank(first) < Rank(last) /\ Rank(first) # Len(Contents)
    <3> HIDE DEF first, last
    <3> QED BY <1>4, <1>5, <2>2
  <2>4. Pointing(first) BY <1>5, <2>3
  <2> HIDE DEF first, last
  <2> QED BY <1>1, <1>3, <2>1, <2>3, <2>4, ErasingInv
<1>8. CASE ~Multi
  <2>1. Pointing(first) /\ EraseAt(first, 0, Rank(first)) BY <1>5, <1>6, <1>8
  <2> HIDE DEF first
  <2> QED BY <1>1, <2>1, EraseIterInv
<1> QED BY <1>7, <1>8

LEMMA InsertsInv ==
  ASSUME IInv, NEW e \in Elems, Insert(e) \/ Import(e)
  PROVE  IInv'
<1>1. work.pc = "idle" /\ use' = use BY DEF Insert, Import, Calling
<1>2. TreeInv /\ work.pc \in {"idle", "range"} /\ size = Len(Contents) /\ Held(work.it)
  BY <1>1 DEF IInv, Ranks
<1>3. CASE Insert(e)
  <2> DEFINE loc == Searched(KeyOf(e))
             want == UpTo(KeyOf(e))
             no == FALSE
  <2>1. InsertLocated(loc, e, want, no) BY <1>3 DEF Insert
  <2>2. Suits(loc) BY <1>2, SearchedIs
  <2> HIDE DEF loc, want, no
  <2>3. IF loc.dup THEN Pointing(loc.at) ELSE Gap(loc.at) BY <2>2 DEF Suits
  <2> QED BY <1>1, <2>1, <2>3, InsertLocatedInv
<1>4. CASE Import(e)
  <2> DEFINE hint == IF work.import THEN work.it ELSE End
             loc == LocatedNext(hint, KeyOf(e))
             want == UpTo(KeyOf(e))
             yes == TRUE
  <2>1. InsertLocated(loc, e, want, yes) BY <1>4 DEF Import
  <2>2. Held(hint) BY <1>2, EndIs
  <2> HIDE DEF hint
  <2>3. Suits(loc) BY <1>2, <2>2, LocatedNextIs
  <2> HIDE DEF loc, want, yes
  <2>4. IF loc.dup THEN Pointing(loc.at) ELSE Gap(loc.at) BY <2>3 DEF Suits
  <2> QED BY <1>1, <2>1, <2>4, InsertLocatedInv
<1> QED BY <1>3, <1>4

LEMMA InsertHintInv ==
  ASSUME IInv, NEW e \in Elems, NEW hint \in Elements \cup {End}, InsertHint(hint, e)
  PROVE  IInv'
<1>1. work.pc = "idle" /\ use' = use BY DEF InsertHint, Calling
<1>2. TreeInv /\ work.pc \in {"idle", "range"} /\ size = Len(Contents)
  BY <1>1 DEF IInv, Ranks
<1>3. Held(hint) BY <1>2, EmptyElements
<1> DEFINE k == KeyOf(e)
           loc == Located(hint, k)
           want == IF Rank(hint) < Below(k) THEN Below(k) ELSE Least(Rank(hint), UpTo(k))
           no == FALSE
<1>4. InsertLocated(loc, e, want, no) BY DEF InsertHint
<1>5. Suits(loc) BY <1>2, <1>3, LocatedIs
<1> HIDE DEF loc, want, no
<1>6. IF loc.dup THEN Pointing(loc.at) ELSE Gap(loc.at) BY <1>5 DEF Suits
<1> QED BY <1>1, <1>4, <1>6, InsertLocatedInv

LEMMA CallInv ==
  ASSUME IInv, use \in Uses, Call
  PROVE  IInv'
<1>1. ASSUME NEW p \in Elements, EraseIter(p) PROVE IInv'
  <2>1. work.pc = "idle" /\ use' = use /\ EraseAt(p, 0, Rank(p))
    BY <1>1 DEF EraseIter, Calling
  <2>2. Pointing(p) BY EmptyElements DEF IInv
  <2> QED BY <2>1, <2>2, EraseIterInv
<1>2. ASSUME NEW first \in Elements, NEW last \in Elements \cup {End}, EraseRange(first, last) PROVE IInv'
  <2>1. work.pc = "idle" /\ use' = use /\ Rank(first) < Rank(last) /\ Erasing(first, last)
    BY <1>2 DEF EraseRange, Calling
  <2>2. Pointing(first) /\ Held(last) BY EmptyElements DEF IInv
  <2> QED BY <2>1, <2>2, ErasingInv
<1>3. CASE Clear
  <2>1. use' = use /\ Emptied BY <1>3 DEF Clear, Calling
  <2> QED BY <2>1, EmptiedInv
<1> QED BY <1>1, <1>2, <1>3, InsertsInv, InsertHintInv, EraseKeyInv DEF Call

(* The sons of inner nodes. *)
LEMMA KidsNodes ==
  ASSUME ShapeInv, root # NULL, NEW n \in Inners
  PROVE  Kids[n] \in Seq(Nodes)
<1>1. Tree(Nodes, DOMAIN vals, Kids, Tops, chain) /\ Typed
  BY DEF ShapeInv, Shape
<1>2. n \in DOMAIN Kids BY <1>1, KidsAre
<1> QED BY <1>1, <1>2, SonsOf

LEMMA SonsNodes ==
  ASSUME ShapeInv, work.pc \in Pcs, NEW n \in Inners, NEW i \in DOMAIN sons[n]
  PROVE  sons[n][i] \in Nodes \/ (work.pc = "rebalance" /\ n = work.cur /\ i = work.at + 1)
<1>1. Typed BY DEF ShapeInv
<1>2. root # NULL BY <1>1 DEF ShapeInv, NoTree, Typed
<1>3. sons[n] \in Seq(Nat) /\ n \in Nodes /\ NULL \notin Nodes
  BY <1>1, KidsAre DEF Typed
<1>4. ASSUME sons[n] \in Seq(Nodes) PROVE sons[n][i] \in Nodes
  <2>1. i \in 1 .. Len(sons[n]) BY <1>4, LenProperties
  <2> QED BY <1>4, <2>1, ElementOfSeq
<1>5. Kids[n] \in Seq(Nodes) BY <1>2, KidsNodes
<1>6. CASE work.pc \in {"idle", "range"} \/ (work.pc = "rebalance" /\ n # work.cur)
  <2>1. Kids[n] = sons[n] BY <1>1, <1>6, KidsAre
  <2> QED BY <1>4, <1>5, <2>1
<1>7. CASE work.pc = "ascend"
  <2>1. CASE parent[work.cur] = NULL
    <3>1. n # parent[work.cur] BY <1>3, <2>1
    <3>2. n \in DOMAIN sons BY <1>1 DEF Typed
    <3>3. Kids[n] = sons[n] BY <1>7, <3>1, <3>2 DEF Kids
    <3> QED BY <1>4, <1>5, <3>3
  <2>2. CASE parent[work.cur] # NULL
    <3>1. Waiting(work.cur, work.inst, parent[work.cur])
      BY <1>7, <2>2, WaitingIs
    <3>2. sons[n] \in Seq(Nodes) BY <1>5, <3>1 DEF Waiting
    <3> QED BY <1>4, <3>2
  <2> QED BY <2>1, <2>2
<1>8. CASE work.pc = "rebalance" /\ n = work.cur
  <2> DEFINE s == Cut(sons[n], work.at)
  <2>1. Losing(n, s) BY <1>8, LosingIs
  <2> SUFFICES ASSUME i # work.at + 1 PROVE sons[n][i] \in Nodes BY <1>8
  <2>2. work.at \in 1 .. Len(sons[n]) - 1 /\ Len(sons[n]) \in Nat /\ s \in Seq(Nodes) /\ Len(s) = Len(sons[n]) - 1
        /\ (\A j \in 0 .. work.at - 1 : At(s, j) = At(sons[n], j))
        /\ (\A j \in work.at .. Len(s) - 1 : At(s, j) = At(sons[n], j + 1))
    BY <2>1 DEF Losing
  <2>3. i \in 1 .. Len(sons[n]) BY <1>3, LenProperties
  <2> HIDE DEF s
  <2>4. CASE i <= work.at
    <3> DEFINE j == i - 1
    <3>1. j \in 0 .. work.at - 1 /\ j + 1 = i /\ i \in 1 .. Len(s)
      BY <2>2, <2>3, <2>4
    <3> HIDE DEF j
    <3>2. At(s, j) = At(sons[n], j) BY <2>2, <3>1
    <3>3. s[i] = sons[n][i] BY <3>1, <3>2 DEF At
    <3> QED BY <2>2, <3>1, <3>3, ElementOfSeq
  <2>5. CASE ~(i <= work.at)
    <3> DEFINE j == i - 2
               h == i - 1
    <3>1. j \in work.at .. Len(s) - 1 /\ j + 1 = h /\ h + 1 = i /\ h \in 1 .. Len(s)
      BY <2>2, <2>3, <2>5, SMTT(60)
    <3> HIDE DEF j, h
    <3>2. At(s, j) = At(sons[n], j + 1) BY <2>2, <3>1
    <3>3. s[h] = sons[n][i] BY <3>1, <3>2 DEF At
    <3> QED BY <2>2, <3>1, <3>3, ElementOfSeq
  <2> QED BY <2>4, <2>5
<1> QED BY <1>6, <1>7, <1>8 DEF Pcs

LEMMA TypeIs ==
  ASSUME IInv
  PROVE  TypeOK
<1>1. TreeInv /\ Working /\ Ranks /\ ShapeInv /\ Filled /\ Typed
  BY DEF IInv, TreeInv, ShapeInv
<1>2. size \in Nat BY <1>1, ContentsIs DEF Ranks
<1>3. base \in Seq(Elems) /\ Len(base) <= 2 /\ (root # NULL => base = <<>>) /\ (\A l \in DOMAIN vals : vals[l] \in Seq(Elems))
      /\ (\A n \in Inners : keys[n] \in Seq(Keys))
  BY <1>1 DEF Filled
<1>4. root \in Nodes \cup {NULL} /\ DOMAIN sons = Inners /\ DOMAIN pos = Nodes /\ Nodes = DOMAIN vals \cup Inners
      /\ DOMAIN vals \cap Inners = {} /\ (\A n \in Nodes : parent[n] \in Inners \cup {NULL} /\ pos[n] \in 0 .. N)
  BY <1>1 DEF Typed
<1>5. \A n \in Inners : \A i \in DOMAIN sons[n] : sons[n][i] \in Nodes \/ (work.pc = "rebalance" /\ n = work.cur /\ i = work.at + 1)
  BY <1>1, SonsNodes DEF Working
<1>6. chain \in Seq(DOMAIN vals)
  <2>1. CASE root = NULL BY <1>1, <2>1 DEF ShapeInv, NoTree
  <2>2. CASE root # NULL BY <1>1, <2>2, ChainListed DEF Listed
  <2> QED BY <2>1, <2>2
<1>7. work.pc \in {"idle", "ascend", "rebalance", "range"} /\ work.at \in Nat /\ work.left \in Nat /\ work.key \in Keys \cup {NULL}
  BY <1>1 DEF Working, Pcs
<1>8. work.cur \in Nodes \cup {NULL} /\ work.inst \in Nodes \cup {NULL}
  <2>1. work.pc \in {"idle", "range"} => work.cur = NULL BY <1>1 DEF Working
  <2>2. work.pc # "ascend" => work.inst = NULL BY <1>1 DEF Working
  <2>3. work.pc = "ascend" => work.cur \in Nodes /\ work.inst \in Nodes
    BY <1>1 DEF ShapeInv, Ascending
  <2>4. work.pc = "rebalance" => work.cur \in Nodes
    BY <1>1, <1>4 DEF ShapeInv, Rebalancing
  <2> QED BY <1>7, <2>1, <2>2, <2>3, <2>4
<1> QED BY <1>2, <1>3, <1>4, <1>5, <1>6, <1>7, <1>8 DEF TypeOK

LEMMA HalfIs ==
  ASSUME IInv
  PROVE  HalfFull
<1> SUFFICES ASSUME Idle PROVE HalfFull BY DEF HalfFull
<1>1. ShapeInv /\ Filled /\ Sized /\ Typed BY DEF IInv, TreeInv, ShapeInv
<1>2. N \in Nat /\ FloorHalf \in Nat BY <1>1, Halves DEF Typed
<1>3. \A n \in Nodes \ {root} : SizeOf(n) \in FloorHalf .. N
  BY <1>1, <1>2 DEF Sized
<1>4. \A n \in Inners : Len(sons[n]) = Len(keys[n]) + 1 BY <1>1 DEF Filled
<1>5. root \in Inners => Len(keys[root]) \in 1 .. N BY <1>1, SonsMany
<1>6. root \in DOMAIN vals => Len(vals[root]) \in 1 .. N BY <1>1, LeafHolds
<1> QED BY <1>3, <1>4, <1>5, <1>6 DEF HalfFull

LEMMA LinksAre ==
  ASSUME IInv
  PROVE  LinksExact
<1> SUFFICES ASSUME Idle PROVE LinksExact BY DEF LinksExact
<1>1. TreeInv /\ ShapeInv /\ Typed /\ Placed /\ work.pc = "idle" /\ work.pc \in Pcs
  BY DEF IInv, TreeInv, ShapeInv, Idle, Pcs
<1>2. root # NULL => parent[root] = NULL BY <1>1, RootHas
<1>3. Inners # {} => root # NULL BY <1>1 DEF ShapeInv, NoTree, Typed
<1>4. ASSUME NEW n \in Nodes \ {root}
      PROVE  parent[n] # NULL /\ pos[n] < Len(sons[parent[n]]) /\ At(sons[parent[n]], pos[n]) = n
  <2>1. root # NULL BY <1>1 DEF ShapeInv, NoTree
  <2>2. parent[n] # NULL BY <1>1, <2>1, RootHome
  <2>3. IsSon(n, parent[n]) BY <1>1, <2>1, <2>2, SonHome
  <2>4. Len(sons[parent[n]]) \in Nat /\ pos[n] \in 0 .. Len(sons[parent[n]]) - 1 /\ At(sons[parent[n]], pos[n]) = n
    BY <2>3, LenProperties DEF IsSon
  <2> QED BY <2>2, <2>4
<1>5. ASSUME NEW n \in Inners, NEW i \in 0 .. Len(sons[n]) - 1
      PROVE  parent[At(sons[n], i)] = n /\ pos[At(sons[n], i)] = i
  <2>1. root # NULL BY <1>3
  <2>2. Tree(Nodes, DOMAIN vals, sons, <<root>>, chain) /\ Parents(sons, <<root>>, parent) /\ DOMAIN sons = Inners
    BY <1>1, <2>1, StillTree
  <2>3. sons[n] \in Seq(Nat) BY <1>1 DEF Typed
  <2>4. At(sons[n], i) \in Members(sons[n]) BY <2>3, AtMember
  <2>5. parent[At(sons[n], i)] = n BY <2>2, <2>4 DEF Parents
  <2>6. pos[sons[n][i + 1]] = i
    <3> DEFINE j == i + 1
    <3>1. Len(sons[n]) \in Nat BY <2>3, LenProperties
    <3>2. j \in 1 .. Len(sons[n]) /\ j - 1 = i BY <3>1
    <3> HIDE DEF j
    <3>3. pos[sons[n][j]] = j - 1 BY <1>1, <3>2 DEF Placed
    <3> QED BY <3>2, <3>3 DEF j
  <2> QED BY <2>5, <2>6 DEF At
<1> QED BY <1>2, <1>4, <1>5 DEF LinksExact

LEMMA ChainIs ==
  ASSUME IInv
  PROVE  ChainFollowsTree
<1> SUFFICES ASSUME Idle PROVE ChainFollowsTree BY DEF ChainFollowsTree
<1>1. TreeInv /\ work.pc = "idle" BY DEF IInv, Idle
<1>2. root = NULL => chain = <<>> BY <1>1 DEF TreeInv, ShapeInv, NoTree
<1>3. root # NULL => chain = LeavesBelow[root] BY <1>1, StillIs DEF Still
<1> QED BY <1>2, <1>3 DEF ChainFollowsTree

LEMMA CountsAre ==
  ASSUME IInv
  PROVE  CountsExact
<1>1. TreeInv /\ size = Len(Contents) BY DEF IInv, Ranks
<1> DEFINE rank == [it \in Elements \cup {End} |-> Rank(it)]
<1>2. ASSUME Idle, NEW first \in Elements \cup {End}, NEW last \in Elements \cup {End}, rank[first] < rank[last]
      PROVE  CountBetween(first, last) = rank[last] - rank[first]
  <2>1. work.pc \in {"idle", "range"} BY <1>2 DEF Idle
  <2>2. Held(first) /\ Held(last) BY <1>1, EmptyElements
  <2>3. Rank(first) \in 0 .. Len(Contents) /\ Rank(last) \in 0 .. Len(Contents) /\ Len(Contents) \in Nat
        /\ (first # End <=> Rank(first) # Len(Contents)) /\ (first # End => Pointing(first))
    BY <1>1, <2>2, HeldRank
  <2>4. rank[first] = Rank(first) /\ rank[last] = Rank(last) OBVIOUS
  <2>5. Rank(first) <= Rank(last) /\ Rank(first) # Len(Contents)
    BY <1>2, <2>3, <2>4
  <2>6. Pointing(first) BY <2>3, <2>5
  <2>7. CountBetween(first, last) = Rank(last) - Rank(first)
    BY <1>1, <2>1, <2>2, <2>5, <2>6, CountBetweenIs
  <2> QED BY <2>4, <2>7
<1> HIDE DEF rank
<1>3. Idle => \A first, last \in Elements \cup {End} :
        (first = Begin \/ last = End \/ first.leaf = last.leaf) /\ rank[first] < rank[last]
        => CountBetween(first, last) = rank[last] - rank[first]
  BY <1>2
<1> QED BY <1>1, <1>3 DEF CountsExact, rank

LEMMA InitInv ==
  ASSUME Init
  PROVE  IInv
<1> DEFINE it0 == Iter(NULL, 0)
<1>1. /\ root = NULL /\ size = 0 /\ base = <<>> /\ vals = <<>> /\ keys = <<>> /\ sons = <<>> /\ parent = <<>>
      /\ pos = <<>> /\ chain = <<>> /\ work = Returned(it0, 0, FALSE) /\ use \in Uses
  BY DEF Init
<1>2. DOMAIN vals = {} /\ DOMAIN keys = {} /\ DOMAIN sons = {} /\ DOMAIN parent = {} /\ DOMAIN pos = {}
  BY <1>1
<1>3. /\ work.pc = "idle" /\ work.left = 0 /\ work.it = it0
      /\ work.cur = NULL /\ work.inst = NULL /\ work.key = NULL /\ work.at = 0
  BY <1>1 DEF Returned
<1> HIDE DEF it0
<1>4. Working BY <1>3 DEF Working, Pcs
<1>5. Typed BY <1>1, <1>2, FS_EmptySet DEF Typed, Nodes, Inners
<1>6. ShapeInv
  BY <1>1, <1>2, <1>3, <1>5 DEF ShapeInv, NoTree, Shape, Placed, Ascending, Rebalancing, Nodes, Inners
<1>7. base \in Seq(Elems) /\ Len(base) = 0 BY <1>1
<1>8. Filled BY <1>1, <1>2, <1>7 DEF Filled, Inners
<1>9. Sized BY <1>2, <1>3 DEF Sized, Nodes
<1>10. Contents = base /\ size = Len(Contents) BY <1>1, <1>7 DEF Contents
<1>11. Held(work.it)
  <2>1. 0 \in 0 .. Len(base) BY <1>7
  <2> QED BY <1>1, <1>3, <2>1 DEF Held, it0
<1>12. Ranks BY <1>3, <1>10, <1>11 DEF Ranks
<1> QED BY <1>4, <1>6, <1>8, <1>9, <1>12 DEF IInv, TreeInv

(* Nothing changes. *)
LEMMA SameInv ==
  ASSUME IInv, UNCHANGED vars
  PROVE  IInv'
<1>1. /\ root' = root /\ size' = size /\ base' = base /\ vals' = vals /\ keys' = keys /\ sons' = sons
      /\ parent' = parent /\ pos' = pos /\ chain' = chain /\ work' = work /\ use' = use
  BY DEF vars, nodes
<1>2. ShapeInv /\ Filled /\ Sized /\ Working /\ Ranks BY DEF IInv, TreeInv
<1>3. ShapeInv'
  <2>1. Kids' = Kids BY <1>1 DEF Kids
  <2>2. Tops' = Tops BY <1>1 DEF Tops
  <2>3. Up' = Up BY <1>1 DEF Up
  <2>4. Typed' BY <1>1, <1>2 DEF ShapeInv, Typed, Nodes, Inners, N
  <2>5. Shape' BY <1>1, <1>2, <2>1, <2>2, <2>3 DEF ShapeInv, Shape, Nodes
  <2>6. NoTree' /\ Ascending' /\ Rebalancing'
    BY <1>1, <1>2 DEF ShapeInv, NoTree, Ascending, Rebalancing, Nodes, Inners
  <2>7. Placed' BY <1>1, <1>2 DEF ShapeInv, Placed, Inners
  <2> QED BY <2>4, <2>5, <2>6, <2>7 DEF ShapeInv
<1>4. Filled' BY <1>1, <1>2 DEF Filled, Elems, Keys, Inners
<1>5. Sized' BY <1>1, <1>2 DEF Sized, SizeOf, IsLeaf, N, FloorHalf, Nodes
<1>6. Working' BY <1>1, <1>2 DEF Working, Keys, Elems
<1>7. Ranks' BY <1>1, <1>2 DEF Ranks, Contents, Held, Points, Rank
<1> QED BY <1>3, <1>4, <1>5, <1>6, <1>7 DEF IInv, TreeInv

LEMMA NextInv ==
  ASSUME IInv, [Next]_vars
  PROVE  IInv'
<1>1. CASE UNCHANGED vars BY <1>1, SameInv
<1>2. CASE RangeLoop
  <2>1. work.pc = "range"
    BY <1>2 DEF RangeLoop, EraseWholeLeaf, ErasePart, EraseOne, In
  <2>2. InRange BY <2>1 DEF InRange
  <2> QED BY <1>2, <2>2, RangeInv, SMTT(60)
<1>3. CASE Call
  <2>1. use \in Uses BY DEF IInv, TreeInv, ShapeInv, Typed
  <2> QED BY <1>3, <2>1, CallInv
<1> QED BY <1>1, <1>2, <1>3, AscendInv, RebalanceInv DEF Next, Continue

(* IInv is an inductive invariant of the tree, with nodes of any size, as a *)
(* set and as a multiset, for any elements, limits and plans of calls. *)
THEOREM Invariant == Spec => []IInv
<1>1. Init => IInv BY InitInv
<1>2. IInv /\ [Next]_vars => IInv' BY NextInv
<1> QED BY <1>1, <1>2, PTL DEF Spec

(* Every node has its links and its content, cursors point to nodes, and the *)
(* locals of the running loop have their types, in the middle of calls too. *)
THEOREM TypeCorrect == Spec => []TypeOK
<1>1. IInv => TypeOK BY TypeIs
<1> QED BY <1>1, Invariant, PTL

(* Between two calls no node but the root has less than half of its places in *)
(* use, and none more than all: every split, loan and merge keeps to that. *)
THEOREM HalfFullAlways == Spec => []HalfFull
<1>1. IInv => HalfFull BY HalfIs
<1> QED BY <1>1, Invariant, PTL

(* Between two calls every node but the root is listed exactly once, by its *)
(* parent at its position: splits, loans and merges renumber what they move. *)
THEOREM LinksExactAlways == Spec => []LinksExact
<1>1. IInv => LinksExact BY LinksAre
<1> QED BY <1>1, Invariant, PTL

(* Between two calls the linked list of leaves is the leaves of the tree from *)
(* left to right, though splits and merges relink it before the levels above *)
(* are brought up to date. *)
THEOREM ChainFollowsTreeAlways == Spec => []ChainFollowsTree
<1>1. IInv => ChainFollowsTree BY ChainIs
<1> QED BY <1>1, Invariant, PTL

(* The size counter is the number of elements in the leaves, whatever was *)
(* inserted or erased, one by one or in ranges, and the distance of two *)
(* iterators in a leaf, from the first element or to the end is exact. *)
THEOREM CountsExactAlways == Spec => []CountsExact
<1>1. IInv => CountsExact BY CountsAre
<1> QED BY <1>1, Invariant, PTL

(* The rank a call that is linking a new node promises for its element. *)
Wanted == work.pc = "ascend" => work.want \in 0 .. Len(Contents)

Count(T) == Cardinality(T) \in 0 .. Len(Contents)

LEMMA CountIs ==
  ASSUME TreeInv, NEW T, T \subseteq DOMAIN Contents
  PROVE  Count(T)
<1>1. Contents \in Seq(Elems) /\ Len(Contents) \in Nat BY ContentsIs
<1>2. DOMAIN Contents = 1 .. Len(Contents) BY <1>1, LenProperties
<1>3. IsFiniteSet(1 .. Len(Contents)) /\ Cardinality(1 .. Len(Contents)) = Len(Contents)
  <2> DEFINE one == 1
             n == Len(Contents)
  <2>1. one \in Int /\ n \in Int /\ one = 1 /\ n \in Nat BY <1>1
  <2> HIDE DEF one, n
  <2>2. IsFiniteSet(one .. n) /\ Cardinality(one .. n) = IF one > n THEN 0 ELSE n - one + 1
    BY <2>1, FS_Interval
  <2>3. Cardinality(one .. n) = n BY <2>1, <2>2
  <2> QED BY <2>1, <2>2, <2>3 DEF one, n
<1>4. IsFiniteSet(T) /\ Cardinality(T) <= Cardinality(1 .. Len(Contents))
  BY <1>2, <1>3, FS_Subset
<1>5. Cardinality(T) \in Nat BY <1>4, FS_CardinalityType
<1> QED BY <1>1, <1>3, <1>4, <1>5 DEF Count

LEMMA UpToIs ==
  ASSUME TreeInv, NEW k
  PROVE  UpTo(k) \in 0 .. Len(Contents) /\ Below(k) \in 0 .. Len(Contents)
<1> DEFINE T == {i \in DOMAIN Contents : KeyOf(Contents[i]) <= k}
           B == {i \in DOMAIN Contents : KeyOf(Contents[i]) < k}
<1>1. T \subseteq DOMAIN Contents /\ B \subseteq DOMAIN Contents OBVIOUS
<1>2. UpTo(k) = Cardinality(T) /\ Below(k) = Cardinality(B) BY DEF UpTo, Below
<1> HIDE DEF T, B
<1>3. Count(T) /\ Count(B) BY <1>1, CountIs
<1> QED BY <1>2, <1>3 DEF Count

LEMMA InsertWanted ==
  ASSUME IInv, IInv', NEW p, NEW e, NEW want \in 0 .. Len(Contents), NEW import, InsertIn(p, e, want, import)
  PROVE  Wanted'
<1>1. CASE InsertSplit(p, e, want, import)
  <2>1. work'.want = want /\ size' = size + 1 BY <1>1 DEF InsertSplit, Returned
  <2>2. size = Len(Contents) /\ size' = Len(Contents') /\ Len(Contents) \in Nat
    BY ContentsIs DEF IInv, Ranks
  <2> QED BY <2>1, <2>2 DEF Wanted
<1>2. CASE InsertSmall(p, e, want, import) \/ InsertThird(p, e, want, import) \/ InsertRoom(p, e, want, import)
  <2>1. work'.pc = "idle"
    BY <1>2 DEF InsertSmall, InsertThird, InsertRoom, Returned
  <2> QED BY <2>1 DEF Wanted
<1> QED BY <1>1, <1>2 DEF InsertIn

LEMMA LocatedWanted ==
  ASSUME IInv, IInv', NEW loc, NEW e, NEW want \in 0 .. Len(Contents), NEW import, InsertLocated(loc, e, want, import)
  PROVE  Wanted'
<1>1. CASE loc.dup
  <2>1. work'.pc = "idle" BY <1>1 DEF InsertLocated, Returned
  <2> QED BY <2>1 DEF Wanted
<1>2. CASE ~loc.dup BY <1>2, InsertWanted DEF InsertLocated
<1> QED BY <1>1, <1>2

LEMMA EraseNotAscend ==
  ASSUME NEW p, NEW left, NEW want, EraseAt(p, left, want)
  PROVE  work'.pc # "ascend"
<1>1. \A it : Erased(it, left, want).pc # "ascend" BY DEF Erased, Returned
<1>2. \A it, lhs, v, r, par, i : LeafMerged(lhs, v, r, par, i, it, left, want) => work'.pc = "rebalance"
  BY DEF LeafMerged, Erased, Returned
<1>3. CASE EraseSmall(p, left, want) BY <1>1, <1>3 DEF EraseSmall
<1>4. CASE EraseRoom(p, left, want) BY <1>1, <1>4 DEF EraseRoom
<1>5. CASE EraseRootLeaf(p, left, want)
  BY <1>1, <1>5, SMTT(60) DEF EraseRootLeaf
<1>6. CASE LeafFromLeft(p, left, want)
  BY <1>1, <1>6, ZenonT(60) DEF LeafFromLeft
<1>7. CASE LeafFromRight(p, left, want) BY <1>1, <1>7 DEF LeafFromRight
<1>8. CASE LeafIntoLeft(p, left, want) BY <1>2, <1>8 DEF LeafIntoLeft
<1>9. CASE LeafIntoRight(p, left, want) BY <1>2, <1>9 DEF LeafIntoRight
<1> QED BY <1>3, <1>4, <1>5, <1>6, <1>7, <1>8, <1>9 DEF EraseAt

LEMMA HintWanted ==
  ASSUME IInv, IInv', NEW e, NEW hint \in Elements \cup {End}, InsertHint(hint, e)
  PROVE  Wanted'
<1> DEFINE k == KeyOf(e)
           want == IF Rank(hint) < Below(k) THEN Below(k) ELSE Least(Rank(hint), UpTo(k))
<1>1. InsertLocated(Located(hint, k), e, want, FALSE) BY DEF InsertHint
<1>2. TreeInv /\ Len(Contents) \in Nat BY ContentsIs DEF IInv
<1>3. UpTo(k) \in 0 .. Len(Contents) /\ Below(k) \in 0 .. Len(Contents)
  BY <1>2, UpToIs
<1>4. Rank(hint) \in 0 .. Len(Contents)
  <2>1. Held(hint) BY <1>2, EmptyElements
  <2> QED BY <1>2, <2>1, HeldRank
<1>5. want \in 0 .. Len(Contents)
  <2> DEFINE r == Rank(hint)
             b == Below(k)
             u == UpTo(k)
             l == Len(Contents)
  <2>1. r \in 0 .. l /\ b \in 0 .. l /\ u \in 0 .. l /\ l \in Nat
    BY <1>2, <1>3, <1>4
  <2> HIDE DEF r, b, u, l
  <2>2. (IF r < b THEN b ELSE Least(r, u)) \in 0 .. l BY <2>1 DEF Least
  <2> QED BY <2>2 DEF r, b, u, l
<1> HIDE DEF want
<1> QED BY <1>1, <1>5, LocatedWanted

LEMMA CallWanted ==
  ASSUME IInv, IInv', Call
  PROVE  Wanted'
<1>1. TreeInv BY DEF IInv
<1>2. ASSUME NEW e \in Elems, Insert(e) \/ Import(e) PROVE Wanted'
  <2>1. UpTo(KeyOf(e)) \in 0 .. Len(Contents) BY <1>1, UpToIs
  <2>2. \E loc, import : InsertLocated(loc, e, UpTo(KeyOf(e)), import)
    BY <1>2 DEF Insert, Import
  <2> QED BY <2>1, <2>2, LocatedWanted
<1>3. ASSUME NEW p, EraseIter(p) PROVE Wanted'
  BY <1>3, EraseNotAscend DEF EraseIter, Wanted
<1>4. ASSUME NEW first, NEW last, Erasing(first, last) PROVE work'.pc # "ascend"
  <2>1. \A it, want, import : Returned(it, want, import).pc # "ascend"
    BY DEF Returned
  <2>2. \A it, left, want : Erased(it, left, want).pc # "ascend"
    BY DEF Erased, Returned
  <2>3. CASE Emptied BY <2>1, <2>3 DEF Emptied
  <2>4. CASE work' = Erased(first, CountBetween(first, last), Rank(first))
    BY <2>2, <2>4
  <2> QED BY <1>4, <2>3, <2>4 DEF Erasing
<1>5. ASSUME NEW first, NEW last, EraseRange(first, last) PROVE Wanted'
  BY <1>4, <1>5 DEF EraseRange, Wanted
<1>6. ASSUME NEW k, EraseKey(k) PROVE Wanted'
  BY <1>4, <1>6, EraseNotAscend DEF EraseKey, Wanted
<1>7. CASE Clear BY <1>7 DEF Clear, Emptied, Returned, Wanted
<1> QED BY <1>2, <1>3, <1>5, <1>6, <1>7, HintWanted DEF Call

(* The loops that restructure the tree. *)
Restructured == Contents' = Contents /\ work'.left = work.left /\ work'.want = work.want

LEMMA AscendLeaves ==
  ASSUME IInv, Ascend
  PROVE  Restructured
<1>1. work.left = 0 /\ Contents' = Contents
  <2>1. work.pc = "ascend"
    BY DEF Ascend, AscendRoom, AscendSplit, AscendRoot, In
  <2> QED BY <2>1, AscendInv DEF IInv, Working
<1>2. work'.want = work.want /\ (work'.left = 0 \/ work'.left = work.left)
  <2>1. \A it, want, import : Returned(it, want, import).left = 0 /\ Returned(it, want, import).want = want
    BY DEF Returned
  <2>2. CASE AscendRoom \/ AscendRoot
    <3>1. work' = Returned(work.it, work.want, work.import)
      BY <2>2 DEF AscendRoom, AscendRoot
    <3> QED BY <2>1, <3>1
  <2>3. CASE AscendSplit
    <3>1. \E c, i, k : work' = [work EXCEPT !.cur = c, !.inst = i, !.key = k]
      BY <2>3 DEF AscendSplit
    <3> QED BY <3>1, SMTT(60)
  <2> QED BY <2>2, <2>3 DEF Ascend
<1> QED BY <1>1, <1>2 DEF Restructured

LEMMA RebalanceLeaves ==
  ASSUME IInv, Rebalance
  PROVE  Restructured /\ work'.pc # "ascend"
<1>1. Contents' = Contents BY RebalanceInv
<1>2. CASE work' = Resume
  BY <1>1, <1>2 DEF Resume, Erased, Returned, Restructured
<1>3. ASSUME NEW par, NEW i, work' = [work EXCEPT !.cur = par, !.at = i], work.pc = "rebalance"
      PROVE  Restructured /\ work'.pc # "ascend"
  BY <1>1, <1>3 DEF Restructured
<1>4. CASE InnerIntoLeft \/ InnerIntoRight
  <2>1. work.pc = "rebalance" /\ \E par, i : work' = [work EXCEPT !.cur = par, !.at = i]
    BY <1>4, ZenonT(60) DEF InnerIntoLeft, InnerIntoRight, InnerMerged, In
  <2> QED BY <1>3, <2>1, ZenonT(60)
<1>5. CASE RebalanceRoom \/ RebalanceRoot \/ InnerFromLeft \/ InnerFromRight
  BY <1>2, <1>5 DEF RebalanceRoom, RebalanceRoot, InnerFromLeft, InnerFromRight
<1> QED BY <1>4, <1>5 DEF Rebalance

LEMMA WantedNext ==
  ASSUME IInv, IInv', Wanted, [Next]_vars
  PROVE  Wanted'
<1>1. CASE UNCHANGED vars BY <1>1 DEF Wanted, vars, nodes, Contents
<1>2. CASE Ascend
  <2>1. work.pc = "ascend"
    BY <1>2 DEF Ascend, AscendRoom, AscendSplit, AscendRoot, In
  <2> QED BY <1>2, <2>1, AscendLeaves DEF Wanted, Restructured
<1>3. CASE Rebalance BY <1>3, RebalanceLeaves DEF Wanted
<1>4. CASE RangeLoop
  <2>1. ASSUME EraseWholeLeaf PROVE work'.pc # "ascend"
    <3>1. \E it, left, par, at : work' = [Erased(it, left, work.want) EXCEPT !.pc = "rebalance", !.cur = par, !.at = at]
      BY <2>1, ZenonT(60) DEF EraseWholeLeaf
    <3> QED BY <3>1, SMTT(60) DEF Erased, Returned
  <2>2. ASSUME ErasePart PROVE work'.pc # "ascend"
    <3>1. \E it, left : work' = Erased(it, left, work.want)
      BY <2>2 DEF ErasePart
    <3> QED BY <3>1 DEF Erased, Returned
  <2> QED BY <1>4, <2>1, <2>2, EraseNotAscend DEF RangeLoop, EraseOne, Wanted
<1> QED BY <1>1, <1>2, <1>3, <1>4, CallWanted DEF Next, Continue

(* What one step of a running call takes away, if anything. *)
Piece ==
  LET gone == work.left - work'.left
  IN  /\ gone \in 0 .. work.left
      /\ Contents' = SubSeq(Contents, 1, work.want) \o SubSeq(Contents, work.want + gone + 1, Len(Contents))

LEMMA NoPiece ==
  ASSUME IInv, Restructured, work.want \in 0 .. Len(Contents)
  PROVE  Piece
<1>1. Contents \in Seq(Elems) /\ Len(Contents) \in Nat /\ work.left \in Nat
  BY ContentsIs DEF IInv, Working
<1>2. Contents' = Contents /\ work'.left = work.left BY DEF Restructured
<1> DEFINE c == Contents
           w == work.want
<1>3. c \in Seq(Elems) /\ w \in 0 .. Len(c) /\ Len(c) \in Nat BY <1>1
<1> HIDE DEF c, w
<1>4. SubSeq(c, 1, w) \o SubSeq(c, w + 1, Len(c)) = c
  <2>1. InThree(c, w, 0, Elems) /\ CutOut(c, w, 0) = SubSeq(c, 1, w) \o SubSeq(c, w + 1, Len(c))
    <3> DEFINE none == 0
    <3>1. none \in Nat /\ none = 0 /\ w \in Nat /\ w + none <= Len(c) BY <1>3
    <3> HIDE DEF none
    <3>2. InThree(c, w, none, Elems) BY <1>3, <3>1, ThreeParts
    <3>3. CutOut(c, w, 0) = SubSeq(c, 1, w) \o SubSeq(c, w + 1, Len(c))
      <4>1. 0 + 1 = 1 /\ w + 0 + 1 = w + 1 BY <1>3
      <4> QED BY <4>1 DEF CutOut, Slice
    <3> QED BY <3>1, <3>2, <3>3
  <2> DEFINE P == Slice(c, 0, w)
             M == Slice(c, w, w + 0)
             Q == Slice(c, w + 0, Len(c))
  <2>2. /\ P \in Seq(Elems) /\ M \in Seq(Elems) /\ Q \in Seq(Elems) /\ c = (P \o M) \o Q
        /\ Len(M) = 0 /\ P \o Q = CutOut(c, w, 0)
    BY <2>1 DEF InThree
  <2> HIDE DEF P, M, Q
  <2>3. M = <<>> BY <2>2, EmptySeq
  <2>4. P \o M = P BY <2>2, <2>3, ConcatEmptySeq
  <2> QED BY <2>1, <2>2, <2>4
<1>5. work.left - work'.left = 0 /\ 0 \in 0 .. work.left /\ w + 0 + 1 = w + 1
  BY <1>1, <1>2, <1>3, SMTT(60)
<1> QED BY <1>2, <1>4, <1>5 DEF Piece, c, w

LEMMA RangePiece ==
  ASSUME InRange, RangeLoop
  PROVE  Piece
<1>1. PICK g \in Nat : g <= work.left /\ PieceDone(g) BY RangeStep
<1>2. work.left \in Nat /\ work.want \in Nat BY RangesAt DEF RangeAt
<1>3. Contents' = CutOut(Contents, work.want, g) /\ work'.left = work.left - g
  BY <1>1 DEF PieceDone, EraseDone, WorkDone
<1>4. work.left - work'.left = g /\ g \in 0 .. work.left BY <1>1, <1>2, <1>3
<1>5. CutOut(Contents, work.want, g) = SubSeq(Contents, 1, work.want) \o SubSeq(Contents, work.want + g + 1, Len(Contents))
  <2>1. 0 + 1 = 1 OBVIOUS
  <2> QED BY <2>1 DEF CutOut, Slice
<1> QED BY <1>3, <1>4, <1>5 DEF Piece

LEMMA PieceStep ==
  ASSUME IInv, Wanted, Next, ~Idle
  PROVE  Piece
<1>1. work.pc # "idle" BY DEF Idle
<1>2. CASE Ascend
  <2>1. work.pc = "ascend"
    BY <1>2 DEF Ascend, AscendRoom, AscendSplit, AscendRoot, In
  <2> QED BY <1>2, <2>1, AscendLeaves, NoPiece, SMTT(60) DEF Wanted
<1>3. CASE Rebalance
  <2>1. work.pc = "rebalance"
    BY <1>3 DEF Rebalance, RebalanceRoom, RebalanceRoot, InnerFromLeft, InnerFromRight, InnerIntoLeft, InnerIntoRight, In
  <2>2. work.want \in Nat /\ work.want + work.left <= Len(Contents) /\ work.left \in Nat /\ Len(Contents) \in Nat
    BY <2>1, ContentsIs DEF IInv, Ranks, Working
  <2>3. work.want \in 0 .. Len(Contents) BY <2>2
  <2> QED BY <1>3, <2>3, RebalanceLeaves, NoPiece, SMTT(60)
<1>4. CASE RangeLoop
  <2>1. work.pc = "range"
    BY <1>4 DEF RangeLoop, EraseWholeLeaf, ErasePart, EraseOne, In
  <2> QED BY <1>4, <2>1, RangePiece, SMTT(60) DEF InRange
<1>5. ~Call
  BY <1>1 DEF Call, Insert, Import, InsertHint, EraseIter, EraseRange, EraseKey, Clear, Calling
<1> QED BY <1>2, <1>3, <1>4, <1>5 DEF Next, Continue

(* Each step of the loop of a range erasure removes the next elements of the *)
(* range and no others, and a step of the loops that restructure the tree *)
(* leaves the sequence of the elements alone. *)
THEOREM PiecesExactAlways == Spec => PiecesExact
<1>1. Init => IInv /\ Wanted BY InitInv DEF Init, Returned, Wanted
<1>2. IInv /\ Wanted /\ [Next]_vars => (IInv /\ Wanted)' BY NextInv, WantedNext
<1>3. IInv /\ Wanted /\ [Next]_vars => [~Idle => Piece]_vars BY PieceStep
<1> QED BY <1>1, <1>2, <1>3, PTL DEF Spec, PiecesExact, Piece

(* How the nodes stand to each other while no loop restructures the tree. *)
Footing(m, ht) ==
  /\ m \in Nat /\ (\A n \in Nodes : ht[n] \in 1 .. m)
  /\ Nodes = DOMAIN vals \cup Inners /\ DOMAIN vals \cap Inners = {} /\ NULL \notin Nodes
  /\ \A n \in Nodes : parent[n] # NULL =>
        /\ parent[n] \in Inners /\ ht[parent[n]] = ht[n] + 1
        /\ pos[n] \in 0 .. Len(sons[parent[n]]) - 1 /\ sons[parent[n]][pos[n] + 1] = n
  /\ \A q \in Inners : \A j \in 1 .. Len(sons[q]) :
        /\ sons[q][j] \in Nodes /\ parent[sons[q][j]] = q /\ pos[sons[q][j]] = j - 1
        /\ ht[sons[q][j]] = ht[q] - 1
  /\ \A q \in Inners : Len(keys[q]) \in 1 .. N /\ Len(sons[q]) = Len(keys[q]) + 1 /\ keys[q] \in Seq(Keys)
  /\ \A n \in Nodes : parent[n] = NULL <=> n = root

LEMMA FootingIs ==
  ASSUME TreeInv, root # NULL, work.pc \in {"idle", "range"}
  PROVE  \E m, ht : Footing(m, ht)
<1>1. PICK m, ht : Still(m, ht, LeavesBelow) BY StillIs
<1>2. /\ m \in Nat /\ (\A n \in Nodes : ht[n] \in 1 .. m)
      /\ Nodes = DOMAIN vals \cup Inners /\ DOMAIN vals \cap Inners = {} /\ DOMAIN sons = Inners
      /\ (\A n \in Inners : sons[n] \in Seq(Nodes))
      /\ (\A n \in Inners : \A z \in Members(sons[n]) : z \in Nodes /\ ht[z] = ht[n] - 1 /\ ht[n] \in 2 .. m)
  BY <1>1 DEF Still
<1>3. ShapeInv /\ Filled /\ Sized /\ Typed /\ Placed BY DEF TreeInv, ShapeInv
<1>4. Tree(Nodes, DOMAIN vals, sons, <<root>>, chain) /\ Parents(sons, <<root>>, parent)
  BY StillTree
<1>5. NULL \notin Nodes BY <1>3, NullAssumption DEF Typed
<1>6. ASSUME NEW q \in Inners PROVE Len(keys[q]) \in 1 .. N /\ Len(sons[q]) = Len(keys[q]) + 1 /\ keys[q] \in Seq(Keys)
  BY <1>3, SonsMany
<1>7. ASSUME NEW q \in Inners, NEW j \in 1 .. Len(sons[q])
      PROVE  /\ sons[q][j] \in Nodes /\ parent[sons[q][j]] = q /\ pos[sons[q][j]] = j - 1
             /\ ht[sons[q][j]] = ht[q] - 1
  <2>1. sons[q][j] \in Members(sons[q]) BY DEF Members
  <2>2. parent[sons[q][j]] = q BY <1>2, <1>4, <2>1 DEF Parents
  <2>3. pos[sons[q][j]] = j - 1 BY <1>3 DEF Placed
  <2> QED BY <1>2, <2>1, <2>2, <2>3
<1>8. ASSUME NEW n \in Nodes, parent[n] # NULL
      PROVE  /\ parent[n] \in Inners /\ ht[parent[n]] = ht[n] + 1
             /\ pos[n] \in 0 .. Len(sons[parent[n]]) - 1 /\ sons[parent[n]][pos[n] + 1] = n
  <2>1. work.pc \in Pcs /\ work.pc # "ascend" /\ work.pc # "rebalance"
    BY DEF Pcs
  <2>2. IsSon(n, parent[n]) BY <1>3, <1>8, <2>1, SonHome
  <2>3. parent[n] \in Inners /\ n \in Members(sons[parent[n]]) /\ pos[n] \in 0 .. Len(sons[parent[n]]) - 1
        /\ At(sons[parent[n]], pos[n]) = n
    BY <2>2 DEF IsSon
  <2>4. ht[n] = ht[parent[n]] - 1 /\ ht[parent[n]] \in 2 .. m BY <1>2, <2>3
  <2> QED BY <2>3, <2>4 DEF At
<1>9. ASSUME NEW n \in Nodes PROVE parent[n] = NULL <=> n = root
  <2>1. work.pc \in Pcs /\ work.pc # "ascend" BY DEF Pcs
  <2>2. parent[n] = NULL => n = root BY <1>3, <2>1, RootHome
  <2>3. parent[root] = NULL BY <1>3, <2>1, RootHas
  <2> QED BY <2>2, <2>3
<1>10. Footing(m, ht) BY <1>2, <1>5, <1>6, <1>7, <1>8, <1>9 DEF Footing
<1> QED BY <1>10

-----------------------------------------------------------------------------
(* The highest node whose subtree starts with that of a node, and what a *)
(* separator update has to do with it. *)
Topping(T) ==
  /\ \A n \in Nodes : T[n] = IF parent[n] = NULL \/ pos[n] # 0 THEN n ELSE T[parent[n]]
  /\ \A n \in Nodes : \A k, key :
        Reseparated(k, n, key) = IF parent[T[n]] = NULL THEN k ELSE [k EXCEPT ![parent[T[n]]][pos[T[n]]] = key]

LEMMA ToppingIs ==
  ASSUME NEW m, NEW ht, Footing(m, ht)
  PROVE  \E T : Topping(T)
<1> DEFINE O == DOMAIN parent
           L == {n \in O : parent[n] = NULL \/ pos[n] # 0}
           up == [n \in O |-> m + 1 - ht[n]]
           own == [n \in O |-> n]
<1>1. m \in Nat /\ (\A n \in O : ht[n] \in 1 .. m) /\ Inners \subseteq O
      /\ \A n \in O : parent[n] # NULL => parent[n] \in Inners /\ ht[parent[n]] = ht[n] + 1
  BY DEF Footing, Nodes
<1>2. \A n \in O : up[n] \in 1 .. m BY <1>1
<1>3. ASSUME NEW n \in O \ L PROVE parent[n] \in O /\ up[n] # 1 /\ up[parent[n]] = up[n] - 1
  <2>1. parent[n] \in O /\ ht[parent[n]] = ht[n] + 1 /\ ht[parent[n]] \in 1 .. m /\ ht[n] \in 1 .. m
    BY <1>1
  <2>2. up[n] = m + 1 - ht[n] /\ up[parent[n]] = m + 1 - ht[parent[n]] BY <2>1
  <2> QED BY <1>1, <2>1, <2>2
<1> HIDE DEF up
<1>4. Descent(O, m, up, L, parent, own) BY <1>1, <1>2, <1>3, DescentExists
<1>5. PICK g : g = [n \in O |-> IF n \in L THEN own[n] ELSE g[parent[n]]]
  BY <1>4 DEF Descent
<1>6. g = [x \in O |-> IF parent[x] = NULL \/ pos[x] # 0 THEN x ELSE g[parent[x]]]
  BY <1>5
<1> DEFINE top[x \in O] == IF parent[x] = NULL \/ pos[x] # 0 THEN x ELSE top[parent[x]]
<1>7. top = [x \in O |-> IF parent[x] = NULL \/ pos[x] # 0 THEN x ELSE top[parent[x]]]
  BY <1>6
<1>8. \A n \in O : \A k, key :
        Reseparated(k, n, key) = IF parent[top[n]] = NULL THEN k ELSE [k EXCEPT ![parent[top[n]]][pos[top[n]]] = key]
  BY DEF Reseparated
<1> HIDE DEF top
<1>9. \A n \in O : top[n] = IF parent[n] = NULL \/ pos[n] # 0 THEN n ELSE top[parent[n]]
  BY <1>7
<1>10. Topping(top) BY <1>8, <1>9 DEF Topping, Nodes
<1> QED BY <1>10

(* F is the first leaf below every node. *)
Leads(F) ==
  /\ \A n \in Nodes : F[n] \in DOMAIN vals
  /\ \A l \in DOMAIN vals : F[l] = l
  /\ \A q \in Inners : F[q] = F[sons[q][1]]

(* The separators are the first keys behind them; a loop that removes a son *)
(* still has to remove the one in front of it. *)
FirstKey(F, n) == KeyOf(vals[F[n]][1])

Separates(F) ==
  \A q \in Inners : \A i \in 1 .. Len(keys[q]) :
     (work.pc = "rebalance" /\ q = work.cur /\ i = work.at) \/ keys[q][i] = FirstKey(F, sons[q][i + 1])

Carries(F) == work.pc = "ascend" => work.key = FirstKey(F, work.inst)

Separated == root # NULL => \E F : Leads(F) /\ Separates(F) /\ Carries(F)

(* What a top is, and that it starts where the node starts. *)
Topped(F, T, n) ==
  /\ T[n] \in Nodes /\ (parent[T[n]] = NULL \/ pos[T[n]] # 0) /\ F[T[n]] = F[n]
                    /\ (n \in Inners => T[n] \in Inners)
  /\ F[n] \in Nodes /\ T[F[n]] = T[n] /\ (n \in Inners => T[n] \in Inners)

LEMMA ToppedAll ==
  ASSUME NEW m, NEW ht, Footing(m, ht), NEW F, Leads(F), NEW T, Topping(T)
  PROVE  \A n \in Nodes : Topped(F, T, n)
<1>1. /\ m \in Nat /\ (\A n \in Nodes : ht[n] \in 1 .. m) /\ Nodes = DOMAIN vals \cup Inners
      /\ \A n \in Nodes : parent[n] # NULL =>
           /\ parent[n] \in Inners /\ ht[parent[n]] = ht[n] + 1
           /\ pos[n] \in 0 .. Len(sons[parent[n]]) - 1 /\ sons[parent[n]][pos[n] + 1] = n
      /\ \A q \in Inners : \A j \in 1 .. Len(sons[q]) :
           /\ sons[q][j] \in Nodes /\ parent[sons[q][j]] = q /\ pos[sons[q][j]] = j - 1
           /\ ht[sons[q][j]] = ht[q] - 1
      /\ \A q \in Inners : Len(keys[q]) \in 1 .. N /\ Len(sons[q]) = Len(keys[q]) + 1
      /\ NULL \notin Nodes
  BY DEF Footing
<1>2. \A n \in Nodes : T[n] = IF parent[n] = NULL \/ pos[n] # 0 THEN n ELSE T[parent[n]]
  BY DEF Topping
<1>3. /\ \A n \in Nodes : F[n] \in DOMAIN vals
      /\ \A l \in DOMAIN vals : F[l] = l
      /\ \A q \in Inners : F[q] = F[sons[q][1]]
  BY DEF Leads
<1>4. \A n \in Nodes : parent[n] # NULL /\ pos[n] = 0 => parent[n] \in Nodes /\ F[parent[n]] = F[n] /\ parent[n] \in Inners
  <2> TAKE n \in Nodes
  <2> HAVE parent[n] # NULL /\ pos[n] = 0
  <2>1. parent[n] \in Inners /\ sons[parent[n]][0 + 1] = n BY <1>1
  <2> QED BY <1>1, <1>3, <2>1
<1> DEFINE S == {i \in 0 .. m : \A n \in Nodes : ht[n] > m - i =>
                    T[n] \in Nodes /\ (parent[T[n]] = NULL \/ pos[T[n]] # 0) /\ F[T[n]] = F[n]
                    /\ (n \in Inners => T[n] \in Inners)}
           R == {i \in 0 .. m : \A n \in Nodes : ht[n] <= i => T[F[n]] = T[n]}
<1>5. 0 \in S BY <1>1
<1>6. ASSUME NEW i \in 0 .. m - 1, i \in S PROVE i + 1 \in S
  <2>1. i + 1 \in 0 .. m BY <1>1
  <2>2. ASSUME NEW n \in Nodes, ht[n] > m - (i + 1)
        PROVE  T[n] \in Nodes /\ (parent[T[n]] = NULL \/ pos[T[n]] # 0) /\ F[T[n]] = F[n]
                    /\ (n \in Inners => T[n] \in Inners)
    <3>1. CASE parent[n] = NULL \/ pos[n] # 0
      <4>1. T[n] = n BY <1>2, <3>1
      <4> QED BY <3>1, <4>1
    <3>2. CASE parent[n] # NULL /\ pos[n] = 0
      <4>1. T[n] = T[parent[n]] BY <1>2, <3>2
      <4>2. parent[n] \in Nodes /\ F[parent[n]] = F[n] /\ parent[n] \in Inners
        BY <1>4, <3>2
      <4>3. ht[parent[n]] = ht[n] + 1 /\ ht[n] \in 1 .. m BY <1>1, <3>2
      <4>4. ht[parent[n]] > m - i BY <1>1, <2>2, <4>3
      <4> QED BY <1>6, <4>1, <4>2, <4>4
    <3> QED BY <3>1, <3>2
  <2> QED BY <2>1, <2>2
<1>7. 0 \in R BY <1>1
<1>8. ASSUME NEW i \in 0 .. m - 1, i \in R PROVE i + 1 \in R
  <2>1. i + 1 \in 0 .. m BY <1>1
  <2>2. ASSUME NEW n \in Nodes, ht[n] <= i + 1 PROVE T[F[n]] = T[n]
    <3>1. CASE n \in DOMAIN vals BY <1>3, <3>1
    <3>2. CASE n \in Inners
      <4> DEFINE z == sons[n][1]
      <4>1. 1 \in 1 .. Len(sons[n]) BY <1>1, <3>2
      <4>2. z \in Nodes /\ parent[z] = n /\ pos[z] = 0 /\ ht[z] = ht[n] - 1
        BY <1>1, <3>2, <4>1
      <4>3. F[n] = F[z] BY <1>3, <3>2
      <4> HIDE DEF z
      <4>4. T[z] = T[n] BY <1>1, <1>2, <4>2
      <4>5. ht[z] <= i BY <1>1, <2>2, <4>2
      <4>6. T[F[z]] = T[z] BY <1>8, <4>2, <4>5
      <4> QED BY <4>3, <4>4, <4>6
    <3> QED BY <1>1, <3>1, <3>2
  <2> QED BY <2>1, <2>2
<1> HIDE DEF S, R
<1>9. m \in S /\ m \in R
  <2>1. 0 .. m \subseteq S BY <1>1, <1>5, <1>6, Climb
  <2>2. 0 .. m \subseteq R BY <1>1, <1>7, <1>8, Climb
  <2> QED BY <1>1, <2>1, <2>2
<1>10. \A n \in Nodes : ht[n] > m - m /\ ht[n] <= m BY <1>1
<1>11. ASSUME NEW n \in Nodes PROVE T[n] \in Nodes /\ (parent[T[n]] = NULL \/ pos[T[n]] # 0) /\ F[T[n]] = F[n]
                    /\ (n \in Inners => T[n] \in Inners)
  BY <1>9, <1>10 DEF S
<1>12. ASSUME NEW n \in Nodes PROVE T[F[n]] = T[n] BY <1>9, <1>10 DEF R
<1>13. \A n \in Nodes : F[n] \in Nodes BY <1>1, <1>3
<1> QED BY <1>11, <1>12, <1>13 DEF Topped

(* The only separator that is the first key of a leaf is that of its top. *)
LEMMA OnlyTop ==
  ASSUME NEW m, NEW ht, Footing(m, ht), NEW F, Leads(F), NEW T, Topping(T), NEW q \in Inners, NEW i \in 1 .. Len(keys[q])
  PROVE  LET z == sons[q][i + 1]
         IN  z \in Nodes /\ F[z] \in DOMAIN vals /\ parent[z] = q /\ pos[z] = i /\ z # root /\ T[F[z]] = z
<1> DEFINE z == sons[q][i + 1]
<1>1. Len(keys[q]) \in 1 .. N /\ Len(sons[q]) = Len(keys[q]) + 1 BY DEF Footing
<1>2. i + 1 \in 1 .. Len(sons[q]) /\ (i + 1) - 1 = i /\ i # 0 BY <1>1
<1>3. z \in Nodes /\ parent[z] = q /\ pos[z] = i BY <1>2 DEF Footing
<1>4. q \in Nodes /\ NULL \notin Nodes BY DEF Footing
<1>5. z # root BY <1>3, <1>4 DEF Footing
<1>6. T[z] = z BY <1>2, <1>3 DEF Topping
<1>7. T[F[z]] = T[z] BY <1>3, ToppedAll DEF Topped
<1>8. F[z] \in DOMAIN vals BY <1>3 DEF Leads
<1> QED BY <1>3, <1>5, <1>6, <1>7, <1>8

(* The first leaf is below no son but the first ones. *)
LEMMA RootLeads ==
  ASSUME TreeInv, root # NULL, work.pc \in {"idle", "range"}, NEW F, Leads(F)
  PROVE  F[root] = chain[1]
<1>1. PICK m, ht : Still(m, ht, LeavesBelow) BY StillIs
<1> DEFINE b == LeavesBelow
<1>2. /\ m \in Nat /\ (\A n \in Nodes : ht[n] \in 1 .. m) /\ root \in Nodes
      /\ Nodes = DOMAIN vals \cup Inners /\ DOMAIN vals \cap Inners = {}
      /\ (\A n \in Inners : sons[n] \in Seq(Nodes))
      /\ (\A n \in Inners : \A z \in Members(sons[n]) : z \in Nodes /\ ht[z] = ht[n] - 1 /\ ht[n] \in 2 .. m)
      /\ Gives(b, Nodes, DOMAIN vals)
      /\ (\A l \in DOMAIN vals : b[l] = <<l>>) /\ (\A n \in Inners : b[n] = Flat(b, sons[n]))
      /\ chain = b[root]
  BY <1>1 DEF Still
<1> HIDE DEF b
<1>3. ShapeInv /\ Filled /\ Sized BY DEF TreeInv, ShapeInv
<1>4. \A q \in Inners : Len(sons[q]) \in Nat /\ Len(sons[q]) >= 2
  <2> TAKE q \in Inners
  <2>1. Len(keys[q]) \in 1 .. N /\ Len(sons[q]) = Len(keys[q]) + 1
    BY <1>3, SonsMany
  <2> QED BY <2>1
<1> DEFINE S == {i \in 0 .. m : \A n \in Nodes : ht[n] <= i => Len(b[n]) # 0 /\ b[n][1] = F[n]}
<1>5. 0 \in S BY <1>2
<1>6. ASSUME NEW i \in 0 .. m - 1, i \in S PROVE i + 1 \in S
  <2>1. i + 1 \in 0 .. m BY <1>2
  <2>2. ASSUME NEW n \in Nodes, ht[n] <= i + 1 PROVE Len(b[n]) # 0 /\ b[n][1] = F[n]
    <3>1. CASE n \in DOMAIN vals
      <4>1. b[n] = <<n>> /\ F[n] = n BY <1>2, <3>1 DEF Leads
      <4> QED BY <4>1
    <3>2. CASE n \in Inners
      <4> DEFINE s == sons[n]
                 z == s[1]
                 t == Slice(s, 1, Len(s))
      <4>1. s \in Seq(Nodes) /\ Len(s) \in Nat /\ Len(s) >= 2 /\ b[n] = Flat(b, s)
        BY <1>2, <1>4, <3>2
      <4>2. 1 \in 1 .. Len(s) BY <4>1
      <4>3. z \in Members(s) BY <4>2 DEF Members
      <4>4. z \in Nodes /\ ht[z] = ht[n] - 1 /\ ht[n] \in 2 .. m
        BY <1>2, <3>2, <4>3
      <4>5. F[n] = F[z] BY <3>2 DEF Leads
      <4>6. s = <<z>> \o t /\ t \in Seq(Nodes)
        <5> HIDE DEF s
        <5> USE DEF Slice
        <5> HIDE DEF z
        <5>1. t \in Seq(Nodes) /\ Len(t) = Len(s) - 1 /\ \A j \in 1 .. Len(t) : t[j] = s[j + 1]
          BY <4>1
        <5>2. z \in Nodes /\ z = s[1] BY <4>4 DEF z
        <5> HIDE DEF t
        <5> DEFINE u == <<z>> \o t
        <5>3. Len(u) = Len(s) /\ \A j \in 1 .. Len(s) : u[j] = s[j]
          BY <4>1, <5>1, <5>2
        <5>4. u \in Seq(Nodes) BY <5>1, <5>2
        <5> HIDE DEF u
        <5>5. u = s BY <4>1, <5>3, <5>4
        <5> QED BY <5>1, <5>5 DEF u
      <4> HIDE DEF z, t, s
      <4>7. Len(b[z]) # 0 /\ b[z][1] = F[z]
        <5>1. ht[z] <= i BY <2>2, <4>4
        <5> QED BY <1>6, <4>4, <5>1
      <4>8. b[z] \in Seq(DOMAIN vals) BY <1>2, <4>4 DEF Gives
      <4> DEFINE one == <<z>>
      <4>9. one \in Seq(Nodes) BY <4>4
      <4>10. Flat(b, one) = b[z] BY <1>2, <4>4, FlatOne
      <4> HIDE DEF one
      <4>11. Flat(b, one \o t) = Flat(b, one) \o Flat(b, t)
        BY <1>2, <4>6, <4>9, FlatConcat
      <4>12. Flat(b, t) \in Seq(DOMAIN vals) BY <1>2, <4>6, FlatType
      <4>13. b[n] = b[z] \o Flat(b, t) BY <4>1, <4>6, <4>10, <4>11 DEF one
      <4> DEFINE u == Flat(b, t)
                 w == b[z]
      <4>14. w \in Seq(DOMAIN vals) /\ u \in Seq(DOMAIN vals) /\ Len(w) # 0 /\ b[n] = w \o u
        BY <4>7, <4>8, <4>12, <4>13
      <4> HIDE DEF u, w
      <4>15. Len(b[n]) # 0 /\ b[n][1] = w[1] BY <4>14
      <4> QED BY <4>5, <4>7, <4>15 DEF w
    <3> QED BY <1>2, <3>1, <3>2
  <2> QED BY <2>1, <2>2
<1> HIDE DEF S
<1>7. m \in S
  <2>1. 0 .. m \subseteq S BY <1>2, <1>5, <1>6, Climb
  <2> QED BY <1>2, <2>1
<1>8. ht[root] <= m BY <1>2
<1> QED BY <1>2, <1>7, <1>8 DEF S

LEMMA NotFirst ==
  ASSUME TreeInv, root # NULL, work.pc \in {"idle", "range"}, NEW F, Leads(F), NEW q \in Inners, NEW i \in 1 .. Len(keys[q])
  PROVE  F[sons[q][i + 1]] # chain[1]
<1> DEFINE z == sons[q][i + 1]
<1>1. PICK m, ht : Footing(m, ht) BY FootingIs
<1>2. PICK T : Topping(T) BY <1>1, ToppingIs
<1>3. z # root /\ T[F[z]] = z BY <1>1, <1>2, OnlyTop
<1>4. F[root] = chain[1] BY RootLeads
<1>5. root \in Nodes
  <2>1. Typed BY DEF TreeInv, ShapeInv
  <2> QED BY <2>1 DEF Typed
<1>6. T[F[root]] = T[root] BY <1>1, <1>2, <1>5, ToppedAll DEF Topped
<1>7. parent[root] = NULL BY <1>1, <1>5 DEF Footing
<1>8. T[root] = root BY <1>2, <1>5, <1>7 DEF Topping
<1> HIDE DEF z
<1>9. F[z] # chain[1] BY <1>3, <1>4, <1>6, <1>8
<1> QED BY <1>9 DEF z

(* A node below which a leaf is the first one, unless the leaf itself, has *)
(* the leaf as its first son's first leaf: such a leaf is a first son. *)
LEMMA FirstAlone ==
  ASSUME NEW m, NEW ht, Footing(m, ht), NEW F, Leads(F), NEW l \in DOMAIN vals, pos[l] # 0 \/ parent[l] = NULL,
         NEW n \in Nodes, F[n] = l
  PROVE  n = l
<1>1. PICK T : Topping(T) BY ToppingIs
<1>2. Nodes = DOMAIN vals \cup Inners /\ DOMAIN vals \cap Inners = {}
  BY DEF Footing
<1>3. T[l] = l BY <1>1, <1>2 DEF Topping
<1>4. T[n] = l /\ (n \in Inners => T[n] \in Inners)
  BY <1>1, <1>3, ToppedAll DEF Topped
<1>5. n \in DOMAIN vals BY <1>2, <1>4
<1> QED BY <1>5 DEF Leads

(* The separators that follow the first key below n, and those alone, are *)
(* renewed with it. *)
Alike(k) == DOMAIN k = Inners /\ \A q \in Inners : k[q] \in Seq(Keys) /\ Len(k[q]) = Len(keys[q])

Renews(F, n, k, r, key) ==
  /\ Alike(r)
  /\ \A q \in Inners : \A i \in 1 .. Len(keys[q]) :
        r[q][i] = IF F[sons[q][i + 1]] = F[n] THEN key ELSE k[q][i]

LEMMA Renewal ==
  ASSUME NEW m, NEW ht, Footing(m, ht), NEW F, Leads(F), NEW n \in Nodes, NEW k, Alike(k), NEW key \in Keys
  PROVE  Renews(F, n, k, Reseparated(k, n, key), key)
<1>1. PICK T : Topping(T) BY ToppingIs
<1> DEFINE r == Reseparated(k, n, key)
           t == T[n]
<1>2. \A x \in DOMAIN k : k[x] \in Seq(Keys) BY DEF Alike
<1>3. KeysKept(k, r) BY <1>2, ReseparatedKept
<1>4. Alike(r) BY <1>3 DEF KeysKept, Kept, Alike
<1>5. r = IF parent[t] = NULL THEN k ELSE [k EXCEPT ![parent[t]][pos[t]] = key]
  BY <1>1 DEF Topping
<1>6. t \in Nodes /\ (parent[t] = NULL \/ pos[t] # 0) /\ F[t] = F[n] /\ T[F[n]] = t
  BY <1>1, ToppedAll DEF Topped
<1> HIDE DEF r, t
<1>7. ASSUME NEW q \in Inners, NEW i \in 1 .. Len(keys[q])
      PROVE  r[q][i] = IF F[sons[q][i + 1]] = F[n] THEN key ELSE k[q][i]
  <2> DEFINE z == sons[q][i + 1]
  <2>1. z \in Nodes /\ parent[z] = q /\ pos[z] = i /\ z # root /\ T[F[z]] = z
    BY <1>1, OnlyTop
  <2>2. F[z] = F[n] <=> z = t BY <1>6, <2>1
  <2>3. i \in DOMAIN k[q] /\ q \in DOMAIN k BY LenProperties DEF Alike
  <2> HIDE DEF z
  <2>4. CASE parent[t] = NULL
    <3>1. t = root BY <1>6, <2>4 DEF Footing
    <3> QED BY <1>5, <2>1, <2>2, <2>4, <3>1 DEF z
  <2>5. CASE parent[t] # NULL
    <3>1. r = [k EXCEPT ![parent[t]] = [@ EXCEPT ![pos[t]] = key]] BY <1>5, <2>5
    <3>2. parent[t] \in Inners /\ sons[parent[t]][pos[t] + 1] = t
      BY <1>6, <2>5 DEF Footing
    <3>3. z = t <=> q = parent[t] /\ i = pos[t] BY <2>1, <3>2 DEF z
    <3>4. CASE z = t
      <4>1. r[q][i] = key BY <2>3, <3>1, <3>3, <3>4
      <4> QED BY <2>2, <3>4, <4>1 DEF z
    <3>5. CASE z # t
      <4>1. r[q][i] = k[q][i] BY <2>3, <3>1, <3>3, <3>5
      <4> QED BY <2>2, <3>5, <4>1 DEF z
    <3> QED BY <3>4, <3>5
  <2> QED BY <2>4, <2>5
<1> QED BY <1>4, <1>7 DEF Renews, r

(* The separator in front of a node that is no first son. *)
LEMMA OwnSeparator ==
  ASSUME NEW m, NEW ht, Footing(m, ht), NEW n \in Nodes, parent[n] # NULL, pos[n] # 0, NEW k, NEW key
  PROVE  Reseparated(k, n, key) = [k EXCEPT ![parent[n]] = [@ EXCEPT ![pos[n]] = key]]
<1>1. PICK T : Topping(T) BY ToppingIs
<1>2. T[n] = n BY <1>1 DEF Topping
<1> QED BY <1>1, <1>2 DEF Topping

(* A step on the leaves, of which those of Gone go. *)
LeavesGo(F, Gone) ==
  /\ DOMAIN vals' = DOMAIN vals \ Gone /\ DOMAIN parent' = DOMAIN parent \ Gone
  /\ \A n \in Nodes \ Gone : F[n] \notin Gone
  /\ sons' = sons /\ DOMAIN keys' = DOMAIN keys /\ work'.pc # "ascend"
  /\ \A q \in Inners : \A i \in 1 .. Len(keys'[q]) :
        (work'.pc = "rebalance" /\ q = work'.cur /\ i = work'.at) \/ keys'[q][i] = KeyOf(vals'[F[sons[q][i + 1]]][1])

LEMMA LeavesStep ==
  ASSUME NEW F, Leads(F), NEW Gone, LeavesGo(F, Gone)
  PROVE  Separated'
<1>1. Leads(F)' BY DEF Leads, Nodes, Inners, LeavesGo
<1>2. Separates(F)' BY DEF Separates, FirstKey, Inners, LeavesGo
<1>3. Carries(F)' BY DEF Carries, LeavesGo
<1> QED BY <1>1, <1>2, <1>3 DEF Separated

=============================================================================
