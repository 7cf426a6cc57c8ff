------------------------- MODULE BTreeOrder_proof ---------------------------
(***************************************************************************)
(* The order of the keys in BTree.  With the invariant of BTree_proof go four *)
(* facts (Ordering): separators are the first keys behind them, except those *)
(* a running loop has yet to remove or to put in (Separated); the sequence of *)
(* the elements is in key order (Sorted); the iterator of the call is where it *)
(* should be (Promised); and the element an import inserted last has none of *)
(* its key behind it (ImportLast).  First the separators, call by call;    *)
(* then searches, which these make right; then the places hints and searches *)
(* find for an element (Fits), and what calls return.                      *)
(***************************************************************************)
EXTENDS BTree_proof

(* The state between the loops' restructuring of the tree. *)
Resting == TreeInv /\ work.pc \in {"idle", "range"} /\ Separated

(* The separators know the first key of the leaf l, whose elements are v. *)
Follows(l, v) ==
  \/ keys' = Reseparated(keys, l, KeyOf(v[1]))
  \/ keys' = keys /\ (v[1] = vals[l][1] \/ l = chain[1])

Placed1(F) == \A q \in Inners : \A i \in 1 .. Len(keys[q]) : keys[q][i] = FirstKey(F, sons[q][i + 1])

LEMMA RestingHas ==
  ASSUME Resting, root # NULL
  PROVE  \E m, ht, F : Footing(m, ht) /\ Leads(F) /\ Placed1(F)
<1>1. PICK m, ht : Footing(m, ht) BY FootingIs DEF Resting
<1>2. PICK F : Leads(F) /\ Separates(F) BY DEF Resting, Separated
<1>3. Placed1(F) BY <1>2 DEF Separates, Placed1, Resting
<1> QED BY <1>1, <1>2, <1>3

LEMMA AlikeKeys ==
  ASSUME NEW m, NEW ht, Footing(m, ht)
  PROVE  Alike(keys)
BY DEF Alike, Footing, Inners

LEMMA ChangedLeaf ==
  ASSUME Resting, root # NULL, sons' = sons, parent' = parent, work'.pc \in {"idle", "range"},
         NEW l \in DOMAIN vals, NEW v \in Seq(Elems), Len(v) # 0, vals' = [vals EXCEPT ![l] = v], Follows(l, v)
  PROVE  Separated'
<1>1. PICK m, ht, F : Footing(m, ht) /\ Leads(F) /\ Placed1(F) BY RestingHas
<1> DEFINE key == KeyOf(v[1])
           r == Reseparated(keys, l, key)
           none == {}
<1>2. Alike(keys) /\ l \in Nodes /\ F[l] = l
  BY <1>1, AlikeKeys DEF Footing, Leads
<1>3. key \in Keys BY ElemKey
<1>4. DOMAIN vals' = DOMAIN vals /\ vals'[l] = v /\ \A f \in DOMAIN vals : f # l => vals'[f] = vals[f]
  OBVIOUS
<1>5. ASSUME NEW q \in Inners, NEW i \in 1 .. Len(keys[q])
      PROVE  F[sons[q][i + 1]] \in DOMAIN vals /\ F[sons[q][i + 1]] # chain[1] /\ keys[q][i] = KeyOf(vals[F[sons[q][i + 1]]][1])
  <2>1. PICK T : Topping(T) BY <1>1, ToppingIs
  <2>2. F[sons[q][i + 1]] \in DOMAIN vals BY <1>1, <2>1, OnlyTop
  <2>3. F[sons[q][i + 1]] # chain[1] BY <1>1, NotFirst DEF Resting
  <2>4. keys[q][i] = KeyOf(vals[F[sons[q][i + 1]]][1])
    BY <1>1 DEF Placed1, FirstKey
  <2> QED BY <2>2, <2>3, <2>4
<1> HIDE DEF key
<1>6. Renews(F, l, keys, r, key) BY <1>1, <1>2, <1>3, Renewal
<1> HIDE DEF r
<1>7. CASE keys' = r
  <2>1. Alike(r) /\ \A q \in Inners : \A i \in 1 .. Len(keys[q]) :
           r[q][i] = IF F[sons[q][i + 1]] = l THEN key ELSE keys[q][i]
    BY <1>2, <1>6 DEF Renews
  <2>2. DOMAIN keys' = Inners /\ \A q \in Inners : Len(keys'[q]) = Len(keys[q])
    BY <1>7, <2>1 DEF Alike
  <2>3. \A q \in Inners : \A i \in 1 .. Len(keys[q]) : keys'[q][i] = KeyOf(vals'[F[sons[q][i + 1]]][1])
    BY <1>4, <1>5, <1>7, <2>1 DEF key
  <2>4. /\ DOMAIN vals' = DOMAIN vals \ none /\ DOMAIN parent' = DOMAIN parent \ none
        /\ \A n \in Nodes \ none : F[n] \notin none
    BY <1>4
  <2>5. DOMAIN keys' = DOMAIN keys /\ work'.pc # "ascend" BY <2>2 DEF Inners
  <2>6. \A q \in Inners : \A i \in 1 .. Len(keys'[q]) :
          (work'.pc = "rebalance" /\ q = work'.cur /\ i = work'.at) \/ keys'[q][i] = KeyOf(vals'[F[sons[q][i + 1]]][1])
    BY <2>2, <2>3
  <2> HIDE DEF none
  <2>7. LeavesGo(F, none) BY <2>4, <2>5, <2>6 DEF LeavesGo
  <2> QED BY <1>1, <2>7, LeavesStep
<1>8. CASE keys' = keys /\ (v[1] = vals[l][1] \/ l = chain[1])
  <2>1. \A q \in Inners : \A i \in 1 .. Len(keys[q]) : keys'[q][i] = KeyOf(vals'[F[sons[q][i + 1]]][1])
    BY <1>4, <1>5, <1>8
  <2>2. /\ DOMAIN vals' = DOMAIN vals \ none /\ DOMAIN parent' = DOMAIN parent \ none
        /\ \A n \in Nodes \ none : F[n] \notin none
    BY <1>4
  <2>3. DOMAIN keys' = DOMAIN keys /\ work'.pc # "ascend" BY <1>8
  <2>4. \A q \in Inners : \A i \in 1 .. Len(keys'[q]) :
          (work'.pc = "rebalance" /\ q = work'.cur /\ i = work'.at) \/ keys'[q][i] = KeyOf(vals'[F[sons[q][i + 1]]][1])
    BY <1>8, <2>1
  <2> HIDE DEF none
  <2>5. LeavesGo(F, none) BY <2>2, <2>3, <2>4 DEF LeavesGo
  <2> QED BY <1>1, <2>5, LeavesStep
<1> QED BY <1>7, <1>8 DEF Follows, r, key

(* What is cut out behind the first element leaves that where it is. *)
LEMMA CutFirst ==
  ASSUME NEW E, NEW s \in Seq(E), NEW i \in Nat, i # 0, NEW g \in Nat, i + g <= Len(s)
  PROVE  CutOut(s, i, g)[1] = s[1]
<1> DEFINE a == Slice(s, 0, i)
           b == Slice(s, i + g, Len(s))
<1>1. Len(s) \in Nat BY LenProperties
<1>2. a \in Seq(E) /\ Len(a) = i /\ a[1] = s[1] BY <1>1 DEF Slice
<1>3. b \in Seq(E) BY <1>1 DEF Slice
<1> HIDE DEF a, b
<1>4. (a \o b)[1] = a[1] BY <1>2, <1>3
<1> QED BY <1>2, <1>4 DEF CutOut, a, b

(* With the first leaf empty of ancestors there is no separator to renew. *)
LEMMA RootIsFirst ==
  ASSUME Resting, root # NULL, NEW l \in DOMAIN vals, parent[l] = NULL
  PROVE  l = chain[1] /\ Inners = {}
<1>1. chain = <<l>> /\ Inners = {} BY LoneLeaf DEF Resting, TreeInv, Pcs
<1> QED BY <1>1

LEMMA EraseRoomSep ==
  ASSUME Resting, NEW p, Pointing(p), NEW left \in Nat, NEW want, EraseRoom(p, left, want)
  PROVE  Separated'
<1> DEFINE l == p.leaf
           v == Cut(vals[l], p.pos)
<1>1. /\ root # NULL /\ Len(vals[l]) > FloorHalf /\ vals' = [vals EXCEPT ![l] = v]
      /\ keys' = IF p.pos = 0 /\ parent[l] # NULL /\ l # chain[1] THEN Reseparated(keys, l, KeyOf(v[1])) ELSE keys
      /\ work' = Erased(Adjust(p, vals', chain), left, want) /\ sons' = sons /\ parent' = parent
  BY DEF EraseRoom
<1> HIDE DEF v
<1>2. LeafAt(p, l, p.pos) BY <1>1, LeafsAt DEF Resting
<1>3. l \in DOMAIN vals /\ p.pos \in 0 .. Len(vals[l]) - 1 /\ vals[l] \in Seq(Elems) /\ FloorHalf \in Nat /\ FloorHalf >= 2
  BY <1>2 DEF LeafAt
<1> DEFINE n == Len(vals[l])
<1>4. n \in Nat /\ n > FloorHalf /\ p.pos \in 0 .. n - 1
  BY <1>1, <1>3, LenProperties
<1>5. v \in Seq(Elems) /\ Len(v) = n - 1 BY <1>3, CutIs DEF v
<1> HIDE DEF n
<1>6. p.pos \in Nat /\ p.pos + 1 <= n /\ Len(v) # 0 BY <1>3, <1>4, <1>5
<1>7. v = CutOut(vals[l], p.pos, 1) BY <1>6, CutIsOut DEF v
<1>8. p.pos # 0 => v[1] = vals[l][1] BY <1>3, <1>6, <1>7, CutFirst DEF n
<1>9. work'.pc \in {"idle", "range"} BY <1>1, ErasedWork
<1>10. parent[l] = NULL => l = chain[1] BY <1>1, <1>3, RootIsFirst
<1> HIDE DEF l
<1>11. Follows(l, v) BY <1>1, <1>8, <1>10 DEF Follows
<1> QED BY <1>1, <1>3, <1>5, <1>6, <1>9, <1>11, ChangedLeaf

(* A tree without nodes has no separators. *)
LEMMA NoInners ==
  ASSUME NEW F, Leads(F), \A n \in Nodes' : n \in DOMAIN vals', DOMAIN vals' \subseteq DOMAIN vals, DOMAIN keys' = {}, work'.pc # "ascend"
  PROVE  Separated'
<1>1. Leads(F)' BY DEF Leads, Nodes, Inners
<1>2. Separates(F)' /\ Carries(F)' BY DEF Separates, Carries, Inners
<1> QED BY <1>1, <1>2 DEF Separated

LEMMA EraseRootLeafSep ==
  ASSUME Resting, NEW p, Pointing(p), NEW left \in Nat, NEW want, EraseRootLeaf(p, left, want)
  PROVE  Separated'
<1> DEFINE l == p.leaf
<1>1. /\ root # NULL /\ parent[l] = NULL /\ keys' = keys /\ sons' = sons
      /\ IF Len(vals[l]) = 1 THEN root' = NULL
         ELSE /\ vals' = [vals EXCEPT ![l] = Cut(@, p.pos)] /\ work' = Erased(Adjust(p, vals', chain), left, want)
              /\ parent' = parent
  BY DEF EraseRootLeaf
<1>2. LeafAt(p, l, p.pos) BY <1>1, LeafsAt DEF Resting
<1>3. l \in DOMAIN vals BY <1>2 DEF LeafAt
<1>4. Inners = {} BY <1>1, <1>3, RootIsFirst
<1>5. CASE Len(vals[l]) = 1 BY <1>1, <1>5 DEF Separated
<1>6. CASE Len(vals[l]) # 1
  <2>1. PICK m, ht, F : Footing(m, ht) /\ Leads(F) /\ Placed1(F)
    BY <1>1, RestingHas
  <2>2. Nodes = DOMAIN vals BY <1>4, <2>1 DEF Footing
  <2>3. DOMAIN vals' = DOMAIN vals /\ parent' = parent /\ work' = Erased(Adjust(p, vals', chain), left, want)
    BY <1>1, <1>6
  <2>4. work'.pc # "ascend" BY <2>3, ErasedWork
  <2>5. \A n \in Nodes' : n \in DOMAIN vals' BY <2>2, <2>3 DEF Nodes
  <2>6. DOMAIN keys' = {} /\ DOMAIN vals' \subseteq DOMAIN vals
    BY <1>1, <1>4, <2>3 DEF Inners
  <2> QED BY <2>1, <2>4, <2>5, <2>6, NoInners
<1> QED BY <1>5, <1>6

LEMMA ErasePartSep ==
  ASSUME Resting, InRange, ErasePart
  PROVE  Separated'
<1> DEFINE p == work.it
           l == p.leaf
           i == p.pos
           g == Amount
           v == CutOut(vals[l], i, g)
<1>1. RangeAt(p) BY RangesAt, SMTT(60)
<1>2. /\ root # NULL /\ sons' = sons /\ PartDue
      /\ v = <<>> => root' = NULL
      /\ v # <<>> => /\ vals' = [vals EXCEPT ![l] = v]
                     /\ keys' = IF i = 0 THEN Reseparated(keys, l, KeyOf(v[1])) ELSE keys
                     /\ work' = Erased(Adjust(work.it, vals', chain), work.left - g, work.want)
                     /\ parent' = parent
  BY DEF ErasePart, PartDue, CutOut
<1>3. LeafAt(p, l, i) BY <1>1, <1>2, LeafsAt DEF RangeAt
<1>4. l \in DOMAIN vals /\ i \in 0 .. Len(vals[l]) - 1 /\ vals[l] \in Seq(Elems)
  BY <1>3 DEF LeafAt
<1>5. AmountIs(l, i, g) BY <1>1, <1>2, <1>3, AmountsTo DEF RangeAt
<1>6. g \in Nat /\ i + g <= Len(vals[l]) /\ g <= work.left /\ work.left \in Nat /\ i \in Nat
  BY <1>1, <1>4, <1>5, LenProperties DEF AmountIs, RangeAt
<1> HIDE DEF g
<1>7. CutOutIs(vals[l], i, g, Elems) BY <1>4, <1>6, CutsOutIs
<1>8. v \in Seq(Elems) BY <1>7 DEF CutOutIs
<1>9. CASE v = <<>> BY <1>2, <1>9 DEF Separated
<1>10. CASE v # <<>>
  <2> DEFINE d == work.left - g
  <2>1. d \in Nat BY <1>6
  <2>2. work' = Erased(Adjust(work.it, vals', chain), d, work.want)
    BY <1>2, <1>10
  <2> HIDE DEF d
  <2>3. work'.pc \in {"idle", "range"} BY <2>1, <2>2, ErasedWork
  <2>4. i # 0 => v[1] = vals[l][1] BY <1>4, <1>6, CutFirst
  <2> HIDE DEF v
  <2>5. Len(v) # 0 BY <1>8, <1>10, EmptySeq
  <2> HIDE DEF l, i
  <2>6. Follows(l, v) BY <1>2, <1>10, <2>4 DEF Follows
  <2> QED BY <1>2, <1>4, <1>8, <1>10, <2>3, <2>5, <2>6, ChangedLeaf
<1> QED BY <1>9, <1>10

(* Separators k are the first keys of the leaves that F has for the sons, *)
(* when leaves have the elements v. *)
Matches(F, v, k) ==
  /\ Alike(k)
  /\ \A q \in Inners : \A i \in 1 .. Len(keys[q]) : k[q][i] = KeyOf(v[F[sons[q][i + 1]]][1])

LEMMA RestingMatches ==
  ASSUME Resting, root # NULL
  PROVE  \E m, ht, F : Footing(m, ht) /\ Leads(F) /\ Matches(F, vals, keys)
<1>1. PICK m, ht, F : Footing(m, ht) /\ Leads(F) /\ Placed1(F) BY RestingHas
<1>2. Alike(keys) BY <1>1, AlikeKeys
<1>3. Matches(F, vals, keys) BY <1>1, <1>2 DEF Matches, Placed1, FirstKey
<1> QED BY <1>1, <1>3

Changed(v, l, w) == [v EXCEPT ![l] = w]

(* Separators r follow k when leaf l's elements become w. *)
Tracks(v, k, l, w, r) ==
  /\ KeyOf(w[1]) \in Keys
  /\ r = Reseparated(k, l, KeyOf(w[1])) \/ (r = k /\ (w[1] = v[l][1] \/ l = chain[1]))

LEMMA MatchesOn ==
  ASSUME Resting, root # NULL, NEW m, NEW ht, Footing(m, ht), NEW F, Leads(F), NEW v, NEW k, Matches(F, v, k),
         DOMAIN v = DOMAIN vals, NEW l \in DOMAIN vals, NEW w, NEW r, Tracks(v, k, l, w, r)
  PROVE  Matches(F, Changed(v, l, w), r)
<1> DEFINE key == KeyOf(w[1])
           u == Changed(v, l, w)
<1>1. u[l] = w /\ \A f \in DOMAIN vals : f # l => u[f] = v[f] BY DEF Changed
<1> HIDE DEF u
<1>2. Alike(k) /\ l \in Nodes /\ F[l] = l BY DEF Matches, Footing, Leads
<1>3. ASSUME NEW q \in Inners, NEW i \in 1 .. Len(keys[q])
      PROVE  F[sons[q][i + 1]] \in DOMAIN vals /\ F[sons[q][i + 1]] # chain[1] /\ k[q][i] = KeyOf(v[F[sons[q][i + 1]]][1])
  <2>1. PICK T : Topping(T) BY ToppingIs
  <2>2. F[sons[q][i + 1]] \in DOMAIN vals BY <2>1, OnlyTop
  <2>3. F[sons[q][i + 1]] # chain[1] BY NotFirst DEF Resting
  <2> QED BY <2>2, <2>3 DEF Matches
<1>4. CASE r = Reseparated(k, l, key)
  <2>1. key \in Keys BY DEF Tracks
  <2> HIDE DEF key
  <2>2. Renews(F, l, k, r, key) BY <1>2, <1>4, <2>1, Renewal
  <2>3. Alike(r) /\ \A q \in Inners : \A i \in 1 .. Len(keys[q]) : r[q][i] = IF F[sons[q][i + 1]] = l THEN key ELSE k[q][i]
    BY <1>2, <2>2 DEF Renews
  <2>4. \A q \in Inners : \A i \in 1 .. Len(keys[q]) : r[q][i] = KeyOf(u[F[sons[q][i + 1]]][1])
    BY <1>1, <1>3, <2>3 DEF key
  <2> QED BY <2>3, <2>4 DEF Matches, u
<1>5. CASE r = k /\ (w[1] = v[l][1] \/ l = chain[1])
  <2>1. \A q \in Inners : \A i \in 1 .. Len(keys[q]) : r[q][i] = KeyOf(u[F[sons[q][i + 1]]][1])
    BY <1>1, <1>3, <1>5
  <2> QED BY <1>2, <1>5, <2>1 DEF Matches, u
<1> QED BY <1>4, <1>5 DEF Tracks

LEMMA MatchesStep ==
  ASSUME NEW F, Leads(F), Matches(F, vals', keys'), DOMAIN vals' = DOMAIN vals, parent' = parent, sons' = sons,
         work'.pc # "ascend"
  PROVE  Separated'
<1> DEFINE none == {}
<1>1. /\ DOMAIN vals' = DOMAIN vals \ none /\ DOMAIN parent' = DOMAIN parent \ none
      /\ \A n \in Nodes \ none : F[n] \notin none
  OBVIOUS
<1>2. DOMAIN keys' = DOMAIN keys /\ \A q \in Inners : Len(keys'[q]) = Len(keys[q])
  BY DEF Matches, Alike, Inners
<1>3. \A q \in Inners : \A i \in 1 .. Len(keys'[q]) :
        (work'.pc = "rebalance" /\ q = work'.cur /\ i = work'.at) \/ keys'[q][i] = KeyOf(vals'[F[sons[q][i + 1]]][1])
  BY <1>2 DEF Matches
<1> HIDE DEF none
<1>4. LeavesGo(F, none) BY <1>1, <1>2, <1>3 DEF LeavesGo
<1> QED BY <1>4, LeavesStep

LEMMA GoneStep ==
  ASSUME NEW m, NEW ht, Footing(m, ht), NEW F, Leads(F), NEW r \in DOMAIN vals, parent[r] # NULL, pos[r] # 0,
         NEW u, DOMAIN u = DOMAIN vals, Matches(F, u, keys'), vals' = Without(u, r), parent' = Without(parent, r),
         sons' = sons, work'.pc = "rebalance", work'.cur = parent[r], work'.at = pos[r]
  PROVE  Separated'
<1> DEFINE gone == {r}
<1>1. \A n \in Nodes : F[n] = r => n = r BY FirstAlone
<1>2. /\ DOMAIN vals' = DOMAIN vals \ gone /\ DOMAIN parent' = DOMAIN parent \ gone
      /\ \A f \in DOMAIN vals : f # r => vals'[f] = u[f]
  BY DEF Without
<1>3. \A n \in Nodes \ gone : F[n] \notin gone BY <1>1
<1>4. DOMAIN keys' = DOMAIN keys /\ \A q \in Inners : Len(keys'[q]) = Len(keys[q])
  BY DEF Matches, Alike, Inners
<1>5. ASSUME NEW q \in Inners, NEW i \in 1 .. Len(keys[q]), ~(q = work'.cur /\ i = work'.at)
      PROVE  keys'[q][i] = KeyOf(vals'[F[sons[q][i + 1]]][1])
  <2> DEFINE z == sons[q][i + 1]
  <2>1. PICK T : Topping(T) BY ToppingIs
  <2>2. z \in Nodes /\ F[z] \in DOMAIN vals /\ parent[z] = q /\ pos[z] = i
    BY <2>1, OnlyTop
  <2>3. keys'[q][i] = KeyOf(u[F[z]][1]) BY DEF Matches
  <2> HIDE DEF z
  <2>4. z # r BY <1>5, <2>2
  <2>5. F[z] # r BY <1>1, <2>2, <2>4
  <2>6. vals'[F[z]] = u[F[z]] BY <1>2, <2>2, <2>5
  <2> QED BY <2>3, <2>6 DEF z
<1>6. \A q \in Inners : \A i \in 1 .. Len(keys'[q]) :
        (work'.pc = "rebalance" /\ q = work'.cur /\ i = work'.at) \/ keys'[q][i] = KeyOf(vals'[F[sons[q][i + 1]]][1])
  BY <1>4, <1>5
<1> HIDE DEF gone
<1>7. LeavesGo(F, gone) BY <1>2, <1>3, <1>4, <1>6 DEF LeavesGo
<1> QED BY <1>7, LeavesStep

FirstOf(s, t, r) == s # <<>> => r[1] = s[1]

(* The first of two sequences put together is the first of the first. *)
LEMMA FirstStays ==
  ASSUME NEW E, NEW s \in Seq(E), NEW t \in Seq(E), Len(s) # 0
  PROVE  (s \o t)[1] = s[1]
<1>1. Len(s) \in Nat /\ Len(t) \in Nat BY LenProperties
<1> QED BY <1>1

LEMMA TwoChanged ==
  ASSUME NEW v, NEW x \in DOMAIN v, NEW y \in DOMAIN v, x # y, NEW a, NEW b
  PROVE  With(v, Two(x, a, y, b)) = Changed(Changed(v, x, a), y, b)
<1> DEFINE f == With(v, Two(x, a, y, b))
           g == Changed(Changed(v, x, a), y, b)
<1>1. DOMAIN f = DOMAIN v /\ \A z \in DOMAIN v : f[z] = IF z = x THEN a ELSE IF z = y THEN b ELSE v[z]
  BY DEF With, Two
<1>2. DOMAIN g = DOMAIN v /\ \A z \in DOMAIN v : g[z] = IF z = x THEN a ELSE IF z = y THEN b ELSE v[z]
  BY DEF Changed
<1>3. f = [z \in DOMAIN f |-> f[z]] /\ g = [z \in DOMAIN g |-> g[z]]
  BY DEF With, Changed
<1> HIDE DEF f, g
<1> QED BY <1>1, <1>2, <1>3 DEF f, g

LEMMA LeafFromRightSep ==
  ASSUME Resting, NEW p, Pointing(p), NEW left \in Nat, NEW want, LeafFromRight(p, left, want)
  PROVE  Separated'
<1> DEFINE l    == p.leaf
           q    == p.pos
           par  == parent[l]
           i    == pos[l]
           rhs  == At(sons[par], i + 1)
           S    == vals[rhs]
           next == Len(S)
           n    == Moved(next)
           V    == vals[l]
           c    == Cut(V, q)
           C    == q = 0
           k    == IF C THEN Reseparated(keys, l, KeyOf(c[1])) ELSE keys
           a    == c \o Slice(S, 0, n)
           b    == Slice(S, n, next)
           key  == KeyOf(b[1])
<1>1. /\ root # NULL /\ Len(V) = FloorHalf /\ par # NULL /\ ~UsesLeft(par, i) /\ next # FloorHalf
      /\ vals' = With(vals, Two(l, a, rhs, b))
      /\ keys' = [k EXCEPT ![par] = [@ EXCEPT ![i + 1] = key]]
      /\ work' = Erased(Adjust(p, vals', chain), left, want)
      /\ sons' = sons /\ parent' = parent
  BY ZenonT(60) DEF LeafFromRight
<1>2. Repaired(p, l, q) BY <1>1, RepairedIs, ZenonT(60) DEF Resting
<1>3. LeafAt(p, l, q) /\ TwoLeaves(l, rhs, par, i) BY <1>1, <1>2 DEF Repaired
<1> HIDE DEF rhs
<1>4. /\ rhs \in DOMAIN vals /\ l \in DOMAIN vals /\ rhs # l /\ S \in Seq(Elems) /\ V \in Seq(Elems)
      /\ next \in FloorHalf .. N /\ N \in Nat /\ FloorHalf \in Nat /\ FloorHalf >= 2
  BY <1>3 DEF TwoLeaves
<1>5. q \in 0 .. Len(V) - 1 BY <1>3 DEF LeafAt
<1>6. parent[rhs] = par /\ pos[rhs] = i + 1 /\ i \in Nat
  BY <1>3 DEF TwoLeaves, Beside
<1> HIDE DEF S, V, c
<1>7. use \in Uses BY DEF Resting, TreeInv, ShapeInv, Typed
<1>8. next \in Nat /\ next > FloorHalf /\ next <= N
  <2> HIDE DEF next
  <2> QED BY <1>1, <1>4
<1> HIDE DEF next
<1>9. n \in 1 .. next - FloorHalf BY <1>7, <1>8, MovedIs
<1> HIDE DEF n
<1>10. CutOfTwo(S, V, q, Elems) BY <1>4, <1>5, CutsOfTwo
<1>11. c \in Seq(Elems) /\ Len(c) = Len(V) - 1 BY <1>10 DEF CutOfTwo, c
<1>12. n \in 0 .. Len(S)
  <2>1. n \in 0 .. next BY <1>4, <1>8, <1>9
  <2> QED BY <2>1 DEF next
<1>13. HighBorrow(c, S, n, Elems) BY <1>4, <1>11, <1>12, BorrowsHigh
<1>14. b = Slice(S, n, Len(S)) BY DEF next
<1> DEFINE t == Slice(S, 0, n)
<1>15. t \in Seq(Elems) /\ b \in Seq(Elems) /\ Len(b) = next - n /\ a = c \o t
  BY <1>13, <1>14 DEF HighBorrow, next
<1> HIDE DEF t, b
<1>16. Len(c) # 0 /\ Len(b) # 0
  BY <1>1, <1>4, <1>8, <1>9, <1>11, <1>15, SMTT(60)
<1>17. a[1] = c[1] BY <1>11, <1>15, <1>16, FirstStays
<1>18. KeyOf(a[1]) \in Keys /\ key \in Keys
  BY <1>11, <1>15, <1>16, <1>17, ElemKey
<1>19. ~C => c[1] = V[1]
  <2>1. 1 \in 1 .. q \/ C BY <1>5
  <2>2. \A j \in 1 .. q : Cut(V, q)[j] = V[j] BY <1>4, <1>5, CutIs
  <2> HIDE DEF C
  <2> QED BY <2>1, <2>2 DEF c
<1> HIDE DEF a, key
<1>20. PICK m, ht, F : Footing(m, ht) /\ Leads(F) /\ Matches(F, vals, keys)
  BY <1>1, RestingMatches
<1>21. Tracks(vals, keys, l, a, k) BY <1>17, <1>18, <1>19 DEF V, Tracks
<1> HIDE DEF k, l
<1> DEFINE u == Changed(vals, l, a)
<1>22. DOMAIN u = DOMAIN vals BY DEF Changed
<1>23. Matches(F, u, k) BY <1>1, <1>4, <1>20, <1>21, MatchesOn
<1>24. vals' = Changed(u, rhs, b) BY <1>1, <1>4, TwoChanged
<1> HIDE DEF u
<1>25. keys' = Reseparated(k, rhs, key)
  <2> DEFINE j == i + 1
  <2>1. j # 0 /\ pos[rhs] = j /\ rhs \in Nodes /\ parent[rhs] = par
    BY <1>4, <1>6, <1>20 DEF Footing
  <2>2. keys' = [k EXCEPT ![par] = [@ EXCEPT ![j] = key]] BY <1>1
  <2> HIDE DEF j, par
  <2>3. Reseparated(k, rhs, key) = [k EXCEPT ![parent[rhs]] = [@ EXCEPT ![pos[rhs]] = key]]
    <3>1. parent[rhs] # NULL /\ pos[rhs] # 0 BY <1>1, <2>1 DEF par
    <3> QED BY <1>20, <2>1, <3>1, OwnSeparator, ZenonT(60)
  <2> QED BY <2>1, <2>2, <2>3
<1>26. Tracks(u, k, rhs, b, keys') BY <1>18, <1>25 DEF key, Tracks
<1>27. Matches(F, vals', keys')
  <2>1. Matches(F, Changed(u, rhs, b), keys')
    BY <1>1, <1>4, <1>20, <1>22, <1>23, <1>26, MatchesOn
  <2> QED BY <1>24, <2>1
<1>28. DOMAIN vals' = DOMAIN vals BY <1>22, <1>24 DEF Changed
<1>29. work'.pc # "ascend" BY <1>1, ErasedWork
<1> QED BY <1>1, <1>20, <1>27, <1>28, <1>29, MatchesStep

LEMMA LeafFromLeftSep ==
  ASSUME Resting, NEW p, Pointing(p), NEW left \in Nat, NEW want, LeafFromLeft(p, left, want)
  PROVE  Separated'
<1> DEFINE l    == p.leaf
           q    == p.pos
           par  == parent[l]
           i    == pos[l]
           lhs  == At(sons[par], i - 1)
           S    == vals[lhs]
           next == Len(S)
           n    == Moved(next)
           V    == vals[l]
           c    == Cut(V, q)
           b    == Slice(S, next - n, next) \o c
           a    == Slice(S, 0, next - n)
           key  == KeyOf(b[1])
<1>1. /\ root # NULL /\ Len(V) = FloorHalf /\ par # NULL /\ UsesLeft(par, i) /\ next # FloorHalf
      /\ vals' = With(vals, Two(l, b, lhs, a))
      /\ keys' = [keys EXCEPT ![par] = [@ EXCEPT ![i] = key]]
      /\ work' = Erased(Adjust(Iter(l, q + n), vals', chain), left, want)
      /\ sons' = sons /\ parent' = parent
  BY ZenonT(60) DEF LeafFromLeft
<1>2. Repaired(p, l, q) BY <1>1, RepairedIs, ZenonT(60) DEF Resting
<1>3. LeafAt(p, l, q) /\ TwoLeaves(lhs, l, par, i - 1)
  BY <1>1, <1>2 DEF Repaired
<1> HIDE DEF lhs
<1>4. /\ lhs \in DOMAIN vals /\ l \in DOMAIN vals /\ lhs # l /\ S \in Seq(Elems) /\ V \in Seq(Elems)
      /\ next \in FloorHalf .. N /\ N \in Nat /\ FloorHalf \in Nat /\ FloorHalf >= 2
  BY <1>3 DEF TwoLeaves
<1>5. q \in 0 .. Len(V) - 1 BY <1>3 DEF LeafAt
<1>6. i - 1 \in 0 .. Len(sons[par]) - 2 /\ i = (i - 1) + 1
  BY <1>3 DEF TwoLeaves, Beside
<1>7. i # 0 BY <1>6
<1> HIDE DEF S, V, c, i
<1>8. use \in Uses BY DEF Resting, TreeInv, ShapeInv, Typed
<1>9. next \in Nat /\ next > FloorHalf /\ next <= N
  <2> HIDE DEF next
  <2> QED BY <1>1, <1>4
<1> HIDE DEF next
<1>10. n \in 1 .. next - FloorHalf BY <1>8, <1>9, MovedIs
<1> HIDE DEF n
<1>11. CutOfTwo(S, V, q, Elems) BY <1>4, <1>5, CutsOfTwo
<1>12. c \in Seq(Elems) /\ Len(c) = Len(V) - 1 BY <1>11 DEF CutOfTwo, c
<1> DEFINE d == next - n
<1>13. d \in 0 .. next /\ d >= FloorHalf /\ d # 0 /\ d # next
  BY <1>4, <1>9, <1>10
<1> HIDE DEF d
<1>14. d \in 0 .. Len(S) BY <1>13 DEF next
<1>15. LowBorrow(S, c, d, Elems) BY <1>4, <1>12, <1>14, BorrowsLow
<1>16. a = Slice(S, 0, d) /\ b = Slice(S, d, Len(S)) \o c BY DEF d, next
<1> HIDE DEF a, b
<1>17. a \in Seq(Elems) /\ b \in Seq(Elems) /\ Len(a) = d /\ Len(b) = (Len(S) - d) + Len(c) /\ \A j \in 0 .. d - 1 : At(a, j) = At(S, j)
  BY <1>15, <1>16 DEF LowBorrow
<1>18. Len(a) # 0 /\ Len(b) # 0
  BY <1>1, <1>4, <1>9, <1>12, <1>13, <1>17 DEF next
<1>19. a[1] = S[1]
  <2>1. 0 \in 0 .. d - 1 BY <1>9, <1>13
  <2> QED BY <1>17, <2>1 DEF At
<1>20. KeyOf(a[1]) \in Keys /\ key \in Keys BY <1>17, <1>18, ElemKey
<1> HIDE DEF key
<1>21. PICK m, ht, F : Footing(m, ht) /\ Leads(F) /\ Matches(F, vals, keys)
  BY <1>1, RestingMatches
<1>22. keys' = Reseparated(keys, l, key)
  <2>1. parent[l] # NULL /\ pos[l] # 0 /\ l \in Nodes
    BY <1>1, <1>4, <1>7, <1>21 DEF i, Footing
  <2> HIDE DEF l
  <2>2. Reseparated(keys, l, key) = [keys EXCEPT ![parent[l]] = [@ EXCEPT ![pos[l]] = key]]
    BY <1>21, <2>1, OwnSeparator
  <2> QED BY <1>1, <2>2 DEF i
<1> HIDE DEF l
<1>23. Tracks(vals, keys, l, b, keys') BY <1>20, <1>22 DEF Tracks, key
<1> DEFINE u == Changed(vals, l, b)
<1>24. DOMAIN u = DOMAIN vals /\ u[lhs] = S BY <1>4 DEF Changed, S
<1>25. Matches(F, u, keys') BY <1>1, <1>4, <1>21, <1>23, MatchesOn
<1>26. vals' = Changed(u, lhs, a) BY <1>1, <1>4, TwoChanged
<1> HIDE DEF u
<1>27. Tracks(u, keys', lhs, a, keys') BY <1>19, <1>20, <1>24 DEF Tracks
<1>28. Matches(F, vals', keys')
  <2> DEFINE k == keys'
  <2>1. Matches(F, u, k) /\ Tracks(u, k, lhs, a, k) BY <1>25, <1>27
  <2> HIDE DEF k
  <2>2. Matches(F, Changed(u, lhs, a), k)
    BY <1>1, <1>4, <1>21, <1>24, <2>1, MatchesOn
  <2> QED BY <1>26, <2>2 DEF k
<1>29. DOMAIN vals' = DOMAIN vals BY <1>24, <1>26 DEF Changed
<1>30. work'.pc # "ascend" BY <1>1, ErasedWork
<1> QED BY <1>1, <1>21, <1>28, <1>29, <1>30, MatchesStep

LEMMA LeafIntoLeftSep ==
  ASSUME Resting, NEW p, Pointing(p), NEW left \in Nat, NEW want, LeafIntoLeft(p, left, want)
  PROVE  Separated'
<1> DEFINE l    == p.leaf
           q    == p.pos
           par  == parent[l]
           i    == pos[l] - 1
           lhs  == At(sons[par], pos[l] - 1)
           S    == vals[lhs]
           V    == vals[l]
           v    == S \o Cut(V, q)
           it   == Iter(lhs, q + FloorHalf)
<1>1. /\ root # NULL /\ Len(V) = FloorHalf /\ par # NULL /\ UsesLeft(par, pos[l]) /\ Len(S) = FloorHalf
      /\ LeafMerged(lhs, v, l, par, pos[l], it, left, want) /\ keys' = keys
  BY DEF LeafIntoLeft
<1>2. Repaired(p, l, q) BY <1>1, RepairedIs DEF Resting
<1>3. LeafAt(p, l, q) /\ TwoLeaves(lhs, l, par, i) BY <1>1, <1>2 DEF Repaired
<1> HIDE DEF lhs
<1>4. /\ lhs \in DOMAIN vals /\ l \in DOMAIN vals /\ lhs # l /\ S \in Seq(Elems) /\ V \in Seq(Elems)
      /\ FloorHalf \in Nat /\ FloorHalf >= 2
  BY <1>3 DEF TwoLeaves
<1>5. q \in 0 .. Len(V) - 1 BY <1>3 DEF LeafAt
<1>6. i \in 0 .. Len(sons[par]) - 2 /\ pos[l] = i + 1
  BY <1>3 DEF TwoLeaves, Beside
<1>7. pos[l] # 0 /\ pos[l] \in Nat
  <2> HIDE DEF i
  <2> QED BY <1>6
<1> HIDE DEF S, V, i
<1>8. CutOfTwo(S, V, q, Elems) BY <1>4, <1>5, CutsOfTwo
<1>9. Cut(V, q) \in Seq(Elems) BY <1>8 DEF CutOfTwo
<1>10. Len(S) # 0 BY <1>1, <1>4
<1>11. v[1] = S[1] /\ KeyOf(S[1]) \in Keys
  BY <1>4, <1>9, <1>10, FirstStays, ElemKey
<1> HIDE DEF v, it
<1>12. Tracks(vals, keys, lhs, v, keys') BY <1>1, <1>11 DEF S, Tracks
<1> DEFINE u == Changed(vals, lhs, v)
<1>13. /\ vals' = Without(u, l) /\ parent' = Without(parent, l) /\ sons' = sons
       /\ work' = [Erased(Adjust(it, Without(u, l), Unlinked(chain, l)), left, want)
                     EXCEPT !.pc = "rebalance", !.cur = par, !.at = pos[l]]
  BY <1>1 DEF LeafMerged, Changed
<1>14. DOMAIN u = DOMAIN vals BY DEF Changed
<1>15. PICK m, ht, F : Footing(m, ht) /\ Leads(F) /\ Matches(F, vals, keys)
  BY <1>1, RestingMatches
<1>16. Matches(F, u, keys') BY <1>1, <1>4, <1>12, <1>15, MatchesOn
<1> HIDE DEF u
<1>17. work'.pc = "rebalance" /\ work'.cur = par /\ work'.at = pos[l]
  <2> DEFINE to == Adjust(it, Without(u, l), Unlinked(chain, l))
             at == pos[l]
  <2>1. work' = [Erased(to, left, want) EXCEPT !.pc = "rebalance", !.cur = par, !.at = at] /\ at \in Nat
    BY <1>7, <1>13
  <2> HIDE DEF to, at, par
  <2>2. work'.pc = "rebalance" /\ work'.cur = par /\ work'.at = at
    BY <2>1, MergedWork, ZenonT(60)
  <2> QED BY <2>2 DEF at
<1> QED BY <1>1, <1>4, <1>7, <1>13, <1>14, <1>15, <1>16, <1>17, GoneStep

LEMMA LeafIntoRightSep ==
  ASSUME Resting, NEW p, Pointing(p), NEW left \in Nat, NEW want, LeafIntoRight(p, left, want)
  PROVE  Separated'
<1> DEFINE l    == p.leaf
           q    == p.pos
           par  == parent[l]
           i    == pos[l]
           rhs  == At(sons[par], pos[l] + 1)
           S    == vals[rhs]
           V    == vals[l]
           c    == Cut(V, q)
           C    == q = 0
           v    == c \o S
           at   == i + 1
<1>1. /\ root # NULL /\ Len(V) = FloorHalf /\ par # NULL /\ ~UsesLeft(par, pos[l]) /\ Len(S) = FloorHalf
      /\ keys' = IF C THEN Reseparated(keys, l, KeyOf(c[1])) ELSE keys
      /\ LeafMerged(l, v, rhs, par, at, p, left, want)
  BY DEF LeafIntoRight
<1>2. Repaired(p, l, q) BY <1>1, RepairedIs DEF Resting
<1>3. LeafAt(p, l, q) /\ TwoLeaves(l, rhs, par, i) BY <1>1, <1>2 DEF Repaired
<1> HIDE DEF rhs
<1>4. /\ rhs \in DOMAIN vals /\ l \in DOMAIN vals /\ rhs # l /\ S \in Seq(Elems) /\ V \in Seq(Elems)
      /\ FloorHalf \in Nat /\ FloorHalf >= 2
  BY <1>3 DEF TwoLeaves
<1>5. q \in 0 .. Len(V) - 1 BY <1>3 DEF LeafAt
<1>6. i \in 0 .. Len(sons[par]) - 2 /\ pos[rhs] = i + 1 /\ parent[rhs] = par
  BY <1>3 DEF TwoLeaves, Beside
<1>7. at # 0 /\ at \in Nat /\ pos[rhs] = at
  <2> HIDE DEF i
  <2> QED BY <1>6
<1> HIDE DEF S, V, i
<1>8. CutOfTwo(S, V, q, Elems) BY <1>4, <1>5, CutsOfTwo
<1>9. c \in Seq(Elems) /\ Len(c) = Len(V) - 1 BY <1>8 DEF CutOfTwo
<1>10. ~C => c[1] = V[1]
  <2>1. 1 \in 1 .. q \/ C BY <1>5
  <2>2. \A j \in 1 .. q : Cut(V, q)[j] = V[j] BY <1>4, <1>5, CutIs
  <2> HIDE DEF C
  <2> QED BY <2>1, <2>2 DEF c
<1> HIDE DEF c
<1>11. Len(c) # 0 BY <1>1, <1>4, <1>9
<1>12. v[1] = c[1] /\ KeyOf(c[1]) \in Keys
  BY <1>4, <1>9, <1>11, FirstStays, ElemKey
<1> HIDE DEF v, at, C
<1>13. Tracks(vals, keys, l, v, keys') BY <1>1, <1>10, <1>12 DEF V, Tracks
<1> DEFINE u == Changed(vals, l, v)
<1>14. /\ vals' = Without(u, rhs) /\ parent' = Without(parent, rhs) /\ sons' = sons
       /\ work' = [Erased(Adjust(p, Without(u, rhs), Unlinked(chain, rhs)), left, want)
                     EXCEPT !.pc = "rebalance", !.cur = par, !.at = at]
  BY <1>1 DEF LeafMerged, Changed
<1>15. DOMAIN u = DOMAIN vals BY DEF Changed
<1>16. PICK m, ht, F : Footing(m, ht) /\ Leads(F) /\ Matches(F, vals, keys)
  BY <1>1, RestingMatches
<1>17. Matches(F, u, keys')
  <2> HIDE DEF l
  <2> QED BY <1>1, <1>4, <1>13, <1>16, MatchesOn
<1> HIDE DEF u
<1>18. work'.pc = "rebalance" /\ work'.cur = par /\ work'.at = at
  <2> DEFINE to == Adjust(p, Without(u, rhs), Unlinked(chain, rhs))
  <2>1. work' = [Erased(to, left, want) EXCEPT !.pc = "rebalance", !.cur = par, !.at = at] /\ at \in Nat
    BY <1>7, <1>14
  <2> HIDE DEF to, par
  <2> QED BY <2>1, MergedWork, ZenonT(60)
<1>19. parent[rhs] # NULL /\ pos[rhs] # 0 /\ work'.cur = parent[rhs] /\ work'.at = pos[rhs]
  BY <1>1, <1>6, <1>7, <1>18
<1> QED BY <1>4, <1>14, <1>15, <1>16, <1>17, <1>18, <1>19, GoneStep

(* A parent's first leaf goes, and the second takes its place. *)
FirstGoes(l, par, succ) ==
  /\ l \in DOMAIN vals /\ succ \in DOMAIN vals /\ succ # l /\ par \in Inners
  /\ sons[par][1] = l /\ sons[par][2] = succ /\ Len(keys[par]) \in Nat /\ Len(keys[par]) >= 1
  /\ keys' = Reseparated(keys, par, KeyOf(vals[succ][1])) /\ KeyOf(vals[succ][1]) \in Keys
  /\ sons' = [sons EXCEPT ![par] = [@ EXCEPT ![1] = succ]]
  /\ vals' = Without(vals, l) /\ parent' = Without(parent, l)
  /\ work'.pc = "rebalance"

LEMMA FirstGoesSep ==
  ASSUME Resting, root # NULL, NEW l, NEW par, NEW succ, FirstGoes(l, par, succ)
  PROVE  Separated'
<1> DEFINE key == KeyOf(vals[succ][1])
<1>1. /\ l \in DOMAIN vals /\ succ \in DOMAIN vals /\ succ # l /\ par \in Inners
      /\ sons[par][1] = l /\ sons[par][2] = succ /\ Len(keys[par]) \in Nat /\ Len(keys[par]) >= 1
      /\ keys' = Reseparated(keys, par, key) /\ key \in Keys
      /\ sons' = [sons EXCEPT ![par] = [@ EXCEPT ![1] = succ]]
      /\ vals' = Without(vals, l) /\ parent' = Without(parent, l)
      /\ work'.pc = "rebalance"
  BY DEF FirstGoes
<1>2. PICK m, ht, F : Footing(m, ht) /\ Leads(F) /\ Matches(F, vals, keys)
  BY <1>1, RestingMatches
<1>3. /\ Nodes = DOMAIN vals \cup Inners /\ DOMAIN vals \cap Inners = {}
      /\ \A q \in Inners : Len(keys[q]) \in 1 .. N /\ Len(sons[q]) = Len(keys[q]) + 1
      /\ \A q \in Inners : \A j \in 1 .. Len(sons[q]) : sons[q][j] \in Nodes
  BY <1>2 DEF Footing
<1>4. /\ \A n \in Nodes : F[n] \in DOMAIN vals
      /\ \A f \in DOMAIN vals : F[f] = f
      /\ \A q \in Inners : F[q] = F[sons[q][1]]
  BY <1>2 DEF Leads
<1>5. DOMAIN sons = Inners /\ \A q \in Inners : sons[q] \in Seq(Nat)
  BY DEF Resting, TreeInv, ShapeInv, Typed
<1>6. F[par] = l /\ par \in Nodes BY <1>1, <1>3, <1>4
<1> HIDE DEF key
<1>7. Alike(keys) BY <1>2 DEF Matches
<1>8. Renews(F, par, keys, keys', key)
  <2> DEFINE r == Reseparated(keys, par, key)
  <2>1. Renews(F, par, keys, r, key) BY <1>1, <1>2, <1>6, <1>7, Renewal
  <2> QED BY <1>1, <2>1
<1>9. DOMAIN keys' = Inners /\ \A q \in Inners : Len(keys'[q]) = Len(keys[q])
  BY <1>8 DEF Renews, Alike
<1>10. \A q \in Inners : \A i \in 1 .. Len(keys[q]) :
         keys'[q][i] = IF F[sons[q][i + 1]] = l THEN key ELSE KeyOf(vals[F[sons[q][i + 1]]][1])
  BY <1>2, <1>6, <1>8 DEF Renews, Matches
<1>11. /\ DOMAIN vals' = DOMAIN vals \ {l} /\ DOMAIN parent' = DOMAIN parent \ {l}
       /\ \A f \in DOMAIN vals \ {l} : vals'[f] = vals[f]
  BY <1>1 DEF Without
<1>12. /\ sons'[par][1] = succ /\ \A q \in Inners \ {par} : sons'[q] = sons[q]
       /\ \A j \in 2 .. Len(sons[par]) : sons'[par][j] = sons[par][j]
  <2>1. sons'[par] = [sons[par] EXCEPT ![1] = succ] /\ \A q \in Inners \ {par} : sons'[q] = sons[q]
    BY <1>1, <1>5
  <2>2. sons[par] \in Seq(Nat) /\ Len(sons[par]) >= 1 BY <1>1, <1>3, <1>5
  <2>3. DOMAIN sons[par] = 1 .. Len(sons[par]) BY <2>2
  <2> QED BY <2>1, <2>2, <2>3
<1>13. PICK G : G = [n \in Nodes |-> IF F[n] = l THEN succ ELSE F[n]] OBVIOUS
<1>14. \A n \in Nodes : G[n] = IF F[n] = l THEN succ ELSE F[n] BY <1>13
<1>15. Leads(G)'
  <2>1. \A n \in Nodes' : G[n] \in DOMAIN vals'
    BY <1>1, <1>4, <1>11, <1>14 DEF Nodes
  <2>2. \A f \in DOMAIN vals' : G[f] = f BY <1>3, <1>4, <1>11, <1>14
  <2>3. ASSUME NEW q \in Inners PROVE G[q] = G[sons'[q][1]]
    <3>1. CASE q = par BY <1>1, <1>3, <1>4, <1>6, <1>12, <1>14, <3>1
    <3>2. CASE q # par
      <4>1. 1 \in 1 .. Len(sons[q]) BY <1>3
      <4> QED BY <1>3, <1>4, <1>12, <1>14, <3>2, <4>1
    <3> QED BY <3>1, <3>2
  <2>4. Inners' = Inners BY <1>9 DEF Inners
  <2> QED BY <2>1, <2>2, <2>3, <2>4 DEF Leads
<1>16. Separates(G)'
  <2>1. ASSUME NEW q \in Inners, NEW i \in 1 .. Len(keys[q])
        PROVE  keys'[q][i] = KeyOf(vals'[G[sons'[q][i + 1]]][1])
    <3> DEFINE z == sons[q][i + 1]
    <3>1. i + 1 \in 2 .. Len(sons[q]) BY <1>3
    <3>2. sons'[q][i + 1] = z BY <1>12, <3>1
    <3>3. z \in Nodes BY <1>3, <3>1
    <3>4. keys'[q][i] = IF F[z] = l THEN key ELSE KeyOf(vals[F[z]][1]) BY <1>10
    <3>5. G[z] = IF F[z] = l THEN succ ELSE F[z] BY <1>14, <3>3
    <3> HIDE DEF z
    <3>6. G[z] \in DOMAIN vals \ {l} BY <1>1, <1>4, <3>3, <3>5
    <3> QED BY <1>11, <3>2, <3>4, <3>5, <3>6 DEF key
  <2>2. Inners' = Inners BY <1>9 DEF Inners
  <2>3. \A q \in Inners' : \A i \in 1 .. Len(keys'[q]) : keys'[q][i] = FirstKey(G, sons[q][i + 1])'
    BY <1>9, <2>1, <2>2 DEF FirstKey
  <2> QED BY <2>3 DEF Separates
<1>17. Carries(G)' BY <1>1 DEF Carries
<1> QED BY <1>15, <1>16, <1>17 DEF Separated

LEMMA EraseWholeLeafSep ==
  ASSUME Resting, InRange, EraseWholeLeaf
  PROVE  Separated'
<1> DEFINE p    == work.it
           l    == p.leaf
           par  == parent[l]
           succ == At(sons[par], 1)
           it   == Iter(NextLeaf(chain, l), 0)
           left == work.left - Len(vals[l])
           a    == IF pos[l] = 0 THEN 1 ELSE pos[l]
<1>1. /\ root # NULL /\ p.pos = 0 /\ par # NULL
      /\ vals' = Without(vals, l) /\ parent' = Without(parent, l)
      /\ work' = [Erased(it, left, work.want) EXCEPT !.pc = "rebalance", !.cur = par, !.at = a]
  BY DEF EraseWholeLeaf, WholeLeafDue, In
<1>2. Pointing(p) /\ TreeInv /\ work.pc \in {"idle", "range"}
  BY RangesAt DEF RangeAt
<1>3. LeafAt(p, l, 0) BY <1>1, <1>2, LeafsAt
<1>4. l \in DOMAIN vals BY <1>3 DEF LeafAt
<1>5. work'.pc = "rebalance" /\ work'.cur = par /\ work'.at = a
  <2> DEFINE e == Erased(it, left, work.want)
  <2>1. work' = [e EXCEPT !.pc = "rebalance", !.cur = par, !.at = a] BY <1>1
  <2>2. DOMAIN e = {"pc", "cur", "inst", "key", "at", "it", "left", "want", "import"}
    BY DEF Erased, Returned
  <2> HIDE DEF e, a, par
  <2> QED BY <2>1, <2>2
<1>6. PICK m, ht, F : Footing(m, ht) /\ Leads(F) /\ Matches(F, vals, keys)
  BY <1>1, RestingMatches
<1>7. CASE pos[l] = 0
  <2>1. keys' = Reseparated(keys, par, KeyOf(vals[succ][1])) /\ sons' = [sons EXCEPT ![par] = [@ EXCEPT ![1] = succ]]
    BY <1>7 DEF EraseWholeLeaf
  <2>2. /\ l \in Nodes /\ par \in Inners /\ sons[par][pos[l] + 1] = l /\ ht[par] = ht[l] + 1 /\ ht[l] \in Nat
        /\ Len(keys[par]) \in 1 .. N /\ Len(sons[par]) = Len(keys[par]) + 1
    <3>1. l \in Nodes BY <1>4, <1>6 DEF Footing
    <3>2. par \in Inners /\ sons[par][pos[l] + 1] = l /\ ht[par] = ht[l] + 1 /\ ht[l] \in Nat
      BY <1>1, <1>6, <3>1, SMTT(60) DEF Footing
    <3> QED BY <1>6, <3>1, <3>2 DEF Footing
  <2>3. sons[par][1] = l /\ Len(keys[par]) \in Nat /\ Len(keys[par]) >= 1 /\ sons[par][2] = succ /\ 2 \in 1 .. Len(sons[par])
    BY <1>7, <2>2 DEF At
  <2>4. succ \in Nodes /\ parent[succ] = par /\ pos[succ] = 1
    BY <1>6, <2>2, <2>3, SMTT(60) DEF Footing
  <2>5. succ \in DOMAIN vals /\ vals[succ] \in Seq(Elems) /\ Len(vals[succ]) # 0
    <3>1. succ \notin Inners
      <4>1. ShapeInv /\ Shape /\ Typed BY <1>1, <1>2 DEF TreeInv, ShapeInv
      <4>2. Beside(l, succ, par, 0)
        <5>1. root # NULL /\ work.pc # "ascend" /\ work.pc \in Pcs /\ ~(work.pc = "rebalance" /\ parent[l] = work.cur)
          BY <1>1, <1>2 DEF Pcs
        <5> DEFINE z == 0
        <5>2. z \in 0 .. Len(sons[parent[l]]) - 2 /\ z = pos[l]
          BY <1>7, <2>2, <2>3, SMTT(60)
        <5> HIDE DEF z
        <5>3. Beside(At(sons[par], z), At(sons[par], z + 1), par, z)
          BY <1>1, <2>2, <4>1, <5>1, <5>2, BesideIs
        <5>4. At(sons[par], 0) = l /\ 0 + 1 = 1 BY <2>3 DEF At
        <5> QED BY <5>3, <5>4 DEF z
      <4>3. l \in Inners <=> succ \in Inners
        <5>1. work.pc # "ascend" /\ work.pc \in Pcs BY <1>2 DEF Pcs
        <5> QED BY <1>1, <4>1, <4>2, <5>1, SameKind
      <4> QED BY <1>4, <1>6, <4>3 DEF Footing
    <3>2. succ \in DOMAIN vals BY <1>6, <2>4, <3>1 DEF Footing
    <3>3. Listed(vals, chain) BY <1>3 DEF LeafAt
    <3> QED BY <3>2, <3>3 DEF Listed
  <2>6. KeyOf(vals[succ][1]) \in Keys BY <2>5, ElemKey
  <2>7. succ # l BY <1>7, <2>4
  <2> HIDE DEF l, par, succ
  <2>8. FirstGoes(l, par, succ)
    BY <1>1, <1>4, <1>5, <2>1, <2>2, <2>3, <2>5, <2>6, <2>7 DEF FirstGoes
  <2> QED BY <1>1, <2>8, FirstGoesSep, SMTT(60)
<1>8. CASE pos[l] # 0
  <2>1. keys' = keys /\ sons' = sons BY <1>8 DEF EraseWholeLeaf
  <2>2. Matches(F, vals, keys') BY <1>6, <2>1
  <2>3. work'.cur = parent[l] /\ work'.at = pos[l] /\ parent[l] # NULL
    BY <1>1, <1>5, <1>8
  <2> DEFINE u == vals
  <2>4. DOMAIN u = DOMAIN vals /\ vals' = Without(u, l) /\ Matches(F, u, keys')
    BY <1>1, <2>2
  <2> HIDE DEF l, u
  <2> QED BY <1>1, <1>4, <1>5, <1>6, <1>8, <2>1, <2>3, <2>4, GoneStep
<1> QED BY <1>7, <1>8, SMTT(60)

LEMMA EraseAtSep ==
  ASSUME Resting, NEW p, Pointing(p), NEW left \in Nat, NEW want, EraseAt(p, left, want)
  PROVE  Separated'
<1>1. CASE EraseSmall(p, left, want) BY <1>1 DEF EraseSmall, Separated
<1> QED
  BY <1>1, EraseRoomSep, EraseRootLeafSep, LeafFromLeftSep, LeafFromRightSep, LeafIntoLeftSep, LeafIntoRightSep DEF EraseAt

LEMMA RangeSep ==
  ASSUME IInv, Separated, RangeLoop
  PROVE  Separated'
<1>1. work.pc = "range"
  BY DEF RangeLoop, EraseWholeLeaf, ErasePart, EraseOne, In
<1>2. InRange /\ Resting BY <1>1 DEF InRange, Resting, IInv
<1>3. ASSUME EraseOne PROVE Separated'
  <2> DEFINE p == work.it
             left == work.left - 1
             want == work.want
  <2>1. EraseAt(p, left, want) BY <1>3 DEF EraseOne
  <2>2. RangeAt(p) BY <1>2, RangesAt
  <2>3. Pointing(p) /\ left \in Nat BY <2>2 DEF RangeAt
  <2> HIDE DEF p, left, want
  <2> QED BY <1>2, <2>1, <2>3, EraseAtSep
<1> QED BY <1>2, <1>3, EraseWholeLeafSep, ErasePartSep, SMTT(60) DEF RangeLoop

(* An insertion in front of a leaf's first element, whose key a separator *)
(* may be, happens in the first leaf only. *)
AtFront(p) == root # NULL /\ p.pos = 0 => p.leaf = chain[1]

PutFirstIs(s, i, x, E) == Put(s, i, x) \in Seq(E) /\ Len(Put(s, i, x)) = Len(s) + 1 /\ (i # 0 => Put(s, i, x)[1] = s[1])

LEMMA PutFirst ==
  ASSUME NEW E, NEW s \in Seq(E), NEW i \in 0 .. Len(s), NEW x \in E
  PROVE  PutFirstIs(s, i, x, E)
<1>1. Put(s, i, x) \in Seq(E) /\ Len(Put(s, i, x)) = Len(s) + 1 /\ (\A j \in 1 .. i : Put(s, i, x)[j] = s[j])
  BY PutIs
<1>2. i # 0 => 1 \in 1 .. i OBVIOUS
<1> QED BY <1>1, <1>2 DEF PutFirstIs

LEMMA InsertThirdSep ==
  ASSUME Resting, NEW p, NEW e, NEW want, NEW import, InsertThird(p, e, want, import)
  PROVE  Separated'
<1> DEFINE l == Fresh
<1>1. /\ root = NULL /\ keys' = keys /\ sons' = sons /\ DOMAIN vals' = {l} /\ DOMAIN parent' = {l}
      /\ work' = Returned(Iter(l, p.pos), want, import)
  BY DEF InsertThird, Only
<1> HIDE DEF l
<1>2. Inners = {} BY <1>1 DEF Resting, TreeInv, ShapeInv, NoTree, Typed
<1>3. work'.pc = "idle" BY <1>1, ReturnedWork
<1>4. PICK F : F = [n \in {l} |-> l] OBVIOUS
<1>5. Leads(F)' BY <1>1, <1>2, <1>4 DEF Leads, Nodes, Inners
<1>6. Separates(F)' /\ Carries(F)'
  BY <1>1, <1>2, <1>3 DEF Separates, Carries, Inners
<1> QED BY <1>5, <1>6 DEF Separated

LEMMA InsertRoomSep ==
  ASSUME Resting, NEW p, Gap(p), AtFront(p), NEW e \in Elems, NEW want, NEW import, InsertRoom(p, e, want, import)
  PROVE  Separated'
<1> DEFINE l == p.leaf
           i == p.pos
           v == Put(vals[l], i, e)
<1>1. /\ root # NULL /\ vals' = [vals EXCEPT ![l] = v] /\ work' = Returned(p, want, import)
      /\ keys' = keys /\ sons' = sons /\ parent' = parent
  BY DEF InsertRoom
<1>2. GapAt(p, l, i) BY <1>1, GapsAt DEF Resting
<1>3. l \in DOMAIN vals /\ i \in 0 .. Len(vals[l]) /\ vals[l] \in Seq(Elems)
  BY <1>2 DEF GapAt
<1>4. PutFirstIs(vals[l], i, e, Elems) BY <1>3, PutFirst
<1>5. v \in Seq(Elems) /\ Len(v) # 0 /\ (i # 0 => v[1] = vals[l][1])
  BY <1>3, <1>4 DEF PutFirstIs
<1>6. i = 0 => l = chain[1] BY <1>1 DEF AtFront
<1>7. work'.pc \in {"idle", "range"} BY <1>1, ReturnedWork
<1> HIDE DEF v, i
<1>8. Follows(l, v) BY <1>1, <1>5, <1>6 DEF Follows
<1> HIDE DEF l
<1> QED BY <1>1, <1>3, <1>5, <1>7, <1>8, ChangedLeaf

LEMMA InsertSplitSep ==
  ASSUME Resting, work.pc = "idle", use' = use, NEW p, Gap(p), AtFront(p), NEW e \in Elems, NEW want, NEW import,
         InsertSplit(p, e, want, import)
  PROVE  Separated'
<1> DEFINE l    == p.leaf
           i    == p.pos
           inst == Fresh
           V    == vals[l]
           here == i <= FloorHalf
           rpos == i - FloorHalf - 1
           low  == IF here THEN Put(Slice(V, 0, FloorHalf), i, e) ELSE Slice(V, 0, FloorHalf + 1)
           high == IF here THEN Slice(V, FloorHalf, N)
                   ELSE Slice(V, FloorHalf + 1, i) \o <<e>> \o Slice(V, i, N)
           it   == IF here THEN p ELSE Iter(inst, rpos)
           key  == KeyOf(high[1])
<1>1. /\ root # NULL /\ Len(V) = N /\ keys' = keys /\ sons' = sons
      /\ vals' = With(vals, Two(l, low, inst, high)) /\ parent' = With(parent, Only(inst, NULL))
      /\ work' = [Returned(it, want, import) EXCEPT !.pc = "ascend", !.cur = l, !.inst = inst, !.key = key]
  BY DEF InsertSplit
<1>2. GapAt(p, l, i) BY <1>1, GapsAt DEF Resting
<1>3. V \in Seq(Elems) /\ i \in 0 .. N /\ use \in Uses /\ l \in DOMAIN vals
  BY <1>1, <1>2 DEF GapAt, Resting, TreeInv, ShapeInv, Typed
<1>4. LeafHalved(V, i, e, low, high)
  <2>1. CASE here BY <1>1, <1>3, <2>1, LeafHalvesLow
  <2>2. CASE ~here BY <1>1, <1>3, <2>2, LeafHalvesHigh
  <2> QED BY <2>1, <2>2
<1>5. inst \notin Nodes BY FreshIs DEF Resting, TreeInv, ShapeInv, Typed
<1>6. i = 0 => l = chain[1] BY <1>1 DEF AtFront
<1> HIDE DEF l, i, inst, low, high, it
<1>7. low[1] = V[1] \/ l = chain[1]
  <2>1. low \in Seq(Elems) /\ high \in Seq(Elems) /\ Len(low) # 0 /\ low \o high = Put(V, i, e)
    <3>1. FloorHalf \in Nat BY <1>3, Halves
    <3> QED BY <1>4, <3>1 DEF LeafHalved
  <2>2. (low \o high)[1] = low[1] BY <2>1, FirstStays
  <2>3. PutFirstIs(V, i, e, Elems) BY <1>1, <1>3, PutFirst
  <2> QED BY <1>6, <2>1, <2>2, <2>3 DEF PutFirstIs
<1>8. PICK m, ht, F : Footing(m, ht) /\ Leads(F) /\ Matches(F, vals, keys)
  BY <1>1, RestingMatches
<1>9. /\ Nodes = DOMAIN vals \cup Inners /\ DOMAIN vals \cap Inners = {}
      /\ \A q \in Inners : Len(sons[q]) = Len(keys[q]) + 1 /\ Len(keys[q]) \in 1 .. N
      /\ \A q \in Inners : \A j \in 1 .. Len(sons[q]) : sons[q][j] \in Nodes
  BY <1>8 DEF Footing
<1>10. /\ DOMAIN vals' = DOMAIN vals \cup {inst} /\ DOMAIN parent' = DOMAIN parent \cup {inst}
       /\ vals'[inst] = high /\ vals'[l] = low /\ \A f \in DOMAIN vals \ {l} : vals'[f] = vals[f]
  BY <1>1, <1>3, <1>5, <1>9 DEF With, Two, Only
<1>11. PICK G : G = [n \in Nodes \cup {inst} |-> IF n = inst THEN inst ELSE F[n]]
  OBVIOUS
<1>12. G[inst] = inst /\ \A n \in Nodes : G[n] = F[n] BY <1>5, <1>11
<1>13. Leads(G)'
  <2>1. \A n \in Nodes' : G[n] \in DOMAIN vals'
    BY <1>8, <1>10, <1>12 DEF Nodes, Leads
  <2>2. \A f \in DOMAIN vals' : G[f] = f BY <1>8, <1>9, <1>10, <1>12 DEF Leads
  <2>3. ASSUME NEW q \in Inners PROVE G[q] = G[sons'[q][1]]
    <3>1. 1 \in 1 .. Len(sons[q]) BY <1>9
    <3> QED BY <1>1, <1>8, <1>9, <1>12, <3>1 DEF Leads
  <2>4. Inners' = Inners BY <1>1 DEF Inners
  <2> QED BY <2>1, <2>2, <2>3, <2>4 DEF Leads
<1>14. Separates(G)'
  <2>1. ASSUME NEW q \in Inners, NEW j \in 1 .. Len(keys[q])
        PROVE  keys'[q][j] = KeyOf(vals'[G[sons'[q][j + 1]]][1])
    <3> DEFINE z == sons[q][j + 1]
    <3>1. z \in Nodes
      <4>1. j + 1 \in 1 .. Len(sons[q]) BY <1>9
      <4> QED BY <1>9, <4>1
    <3>2. keys'[q][j] = KeyOf(vals[F[z]][1]) BY <1>1, <1>8 DEF Matches
    <3>3. F[z] # chain[1] BY <1>1, <1>8, NotFirst DEF Resting
    <3> HIDE DEF z
    <3>4. G[z] = F[z] /\ F[z] \in DOMAIN vals BY <1>8, <1>12, <3>1 DEF Leads
    <3>5. vals'[F[z]][1] = vals[F[z]][1] BY <1>7, <1>10, <3>3, <3>4
    <3> QED BY <1>1, <3>2, <3>4, <3>5 DEF z
  <2>2. Inners' = Inners BY <1>1 DEF Inners
  <2>3. \A q \in Inners' : \A j \in 1 .. Len(keys'[q]) : keys'[q][j] = FirstKey(G, sons[q][j + 1])'
    BY <1>1, <2>1, <2>2 DEF FirstKey
  <2> QED BY <2>3 DEF Separates
<1>15. work'.inst = inst /\ work'.key = key
  <2> HIDE DEF key
  <2> QED BY <1>1 DEF Returned
<1>16. Carries(G)' BY <1>10, <1>12, <1>15 DEF Carries, FirstKey, key
<1> QED BY <1>13, <1>14, <1>16 DEF Separated

LEMMA InsertInSep ==
  ASSUME Resting, work.pc = "idle", use' = use, NEW p, Gap(p), AtFront(p), NEW e \in Elems, NEW want, NEW import,
         InsertIn(p, e, want, import)
  PROVE  Separated'
<1>1. CASE InsertSmall(p, e, want, import) BY <1>1 DEF InsertSmall, Separated
<1> QED BY <1>1, InsertThirdSep, InsertRoomSep, InsertSplitSep DEF InsertIn

-----------------------------------------------------------------------------
(* Keys and sons of one inner node.  F leads to the first leaf below a node. *)
Head1(v, F, n) == KeyOf(v[F[n]][1])

FanOf(v, F, k, s) == Len(s) = Len(k) + 1 /\ \A i \in 1 .. Len(k) : k[i] = Head1(v, F, s[i + 1])

FanBut(v, F, k, s, at) == Len(s) = Len(k) + 1 /\ \A i \in 1 .. Len(k) : i = at \/ k[i] = Head1(v, F, s[i + 1])

FanPutIs(v, F, k, s, i, key, inst) ==
  FanOf(v, F, Put(k, i - 1, key), Put(s, i, inst)) /\ Put(s, i, inst)[1] = s[1]

LEMMA FanPut ==
  ASSUME NEW K, NEW E, NEW v, NEW F, NEW k \in Seq(K), NEW s \in Seq(E), FanOf(v, F, k, s), NEW i \in 1 .. Len(s),
         NEW inst \in E, NEW key \in K, key = Head1(v, F, inst)
  PROVE  FanPutIs(v, F, k, s, i, key, inst)
<1> DEFINE p == Put(k, i - 1, key)
           q == Put(s, i, inst)
           b == i - 1
<1>1. Len(k) \in Nat /\ Len(s) = Len(k) + 1 /\ i \in Nat /\ i \in 0 .. Len(s) /\ b \in 0 .. Len(k) /\ b + 1 = i /\ 1 \in 1 .. i
  BY LenProperties DEF FanOf
<1> HIDE DEF b
<1>2. PutIn(k, b, key, K) BY <1>1, PutInto
<1>3. PutIn(s, i, inst, E) BY <1>1, PutInto
<1>4. p = Put(k, b, key) BY DEF b
<1>5. Len(p) = Len(k) + 1 /\ (\A j \in 1 .. b : p[j] = k[j]) /\ p[b + 1] = key /\ \A j \in b + 1 .. Len(k) : p[j + 1] = k[j]
  BY <1>2, <1>4 DEF PutIn
<1>6. Len(q) = Len(s) + 1 /\ (\A j \in 1 .. i : q[j] = s[j]) /\ q[i + 1] = inst /\ \A j \in i + 1 .. Len(s) : q[j + 1] = s[j]
  BY <1>3 DEF PutIn
<1> HIDE DEF p, q
<1>7. ASSUME NEW j \in 1 .. Len(p) PROVE p[j] = Head1(v, F, q[j + 1])
  <2>1. CASE j <= b
    <3>1. j \in 1 .. b /\ j \in 1 .. Len(k) /\ j + 1 \in 1 .. i BY <1>1, <2>1
    <3> QED BY <1>5, <1>6, <3>1 DEF FanOf
  <2>2. CASE j = i BY <1>1, <1>5, <1>6, <2>2
  <2>3. CASE j > i
    <3> DEFINE h == j - 1
    <3>1. h \in b + 1 .. Len(k) /\ h + 1 = j /\ h \in 1 .. Len(k) /\ j \in i + 1 .. Len(s)
      BY <1>1, <1>5, <2>3
    <3> HIDE DEF h
    <3>2. p[j] = k[h] BY <1>5, <3>1
    <3>3. q[j + 1] = s[j] BY <1>6, <3>1
    <3>4. k[h] = Head1(v, F, s[h + 1]) BY <3>1 DEF FanOf
    <3> QED BY <3>1, <3>2, <3>3, <3>4
  <2>4. j \in Int /\ (j <= b \/ j = i \/ j > i) BY <1>1, <1>5
  <2> QED BY <2>1, <2>2, <2>3, <2>4
<1>8. Len(q) = Len(p) + 1 /\ q[1] = s[1] BY <1>1, <1>5, <1>6
<1> QED BY <1>7, <1>8 DEF FanPutIs, FanOf, p, q

FanCutIs(v, F, k, s, at) ==
  FanOf(v, F, Cut(k, at - 1), Cut(s, at)) /\ Cut(s, at)[1] = s[1]

LEMMA FanCut ==
  ASSUME NEW K, NEW E, NEW v, NEW F, NEW k \in Seq(K), NEW s \in Seq(E), NEW at \in 1 .. Len(k), FanBut(v, F, k, s, at)
  PROVE  FanCutIs(v, F, k, s, at)
<1> DEFINE p == Cut(k, at - 1)
           q == Cut(s, at)
           b == at - 1
<1>1. Len(k) \in Nat /\ Len(s) = Len(k) + 1 /\ at \in Nat /\ at \in 0 .. Len(s) - 1 /\ b \in 0 .. Len(k) - 1 /\ b + 1 = at /\ 1 \in 1 .. at
  BY LenProperties DEF FanBut
<1> HIDE DEF b
<1>2. CutFrom(k, b, K) BY <1>1, CutOff
<1>3. CutFrom(s, at, E) BY <1>1, CutOff
<1>4. p = Cut(k, b) BY DEF b
<1>5. Len(p) = Len(k) - 1 /\ (\A j \in 1 .. b : p[j] = k[j]) /\ \A j \in b + 1 .. Len(k) - 1 : p[j] = k[j + 1]
  BY <1>2, <1>4 DEF CutFrom
<1>6. Len(q) = Len(s) - 1 /\ (\A j \in 1 .. at : q[j] = s[j]) /\ \A j \in at + 1 .. Len(s) - 1 : q[j] = s[j + 1]
  BY <1>3 DEF CutFrom
<1> HIDE DEF p, q
<1>7. ASSUME NEW j \in 1 .. Len(p) PROVE p[j] = Head1(v, F, q[j + 1])
  <2>1. CASE j <= b
    <3>1. j \in 1 .. b /\ j \in 1 .. Len(k) /\ j + 1 \in 1 .. at /\ j # at
      BY <1>1, <2>1
    <3> QED BY <1>5, <1>6, <3>1 DEF FanBut
  <2>2. CASE j > b
    <3> DEFINE h == j + 1
    <3>1. j \in b + 1 .. Len(k) - 1 /\ h \in at + 1 .. Len(s) - 1 /\ h \in 1 .. Len(k) /\ h # at
      BY <1>1, <1>5, <2>2
    <3>2. p[j] = k[h] BY <1>5, <3>1
    <3> HIDE DEF h
    <3>3. q[h] = s[h + 1] BY <1>6, <3>1
    <3>4. k[h] = Head1(v, F, s[h + 1]) BY <3>1 DEF FanBut
    <3> QED BY <3>2, <3>3, <3>4 DEF h
  <2> QED BY <1>1, <1>5, <2>1, <2>2
<1>8. Len(q) = Len(p) + 1 /\ q[1] = s[1] BY <1>1, <1>5, <1>6
<1> QED BY <1>7, <1>8 DEF FanCutIs, FanOf, p, q

(* Two nodes side by side are one with the separator between them. *)
FanJoins(v, F, k, x, l, s, t) ==
  FanOf(v, F, Joins(k, x, l), s \o t) /\ Len(s) = Len(k) + 1 <=>
  FanOf(v, F, k, s) /\ FanOf(v, F, l, t) /\ x = Head1(v, F, t[1])

LEMMA FanJoin ==
  ASSUME NEW K, NEW E, NEW v, NEW F, NEW k \in Seq(K), NEW l \in Seq(K), NEW x \in K, NEW s \in Seq(E), NEW t \in Seq(E),
         Len(t) = Len(l) + 1
  PROVE  FanJoins(v, F, k, x, l, s, t)
<1>1. Len(k) \in Nat /\ Len(l) \in Nat /\ Len(s) \in Nat /\ Len(t) \in Nat
  BY LenProperties
<1>0. /\ Len(Joins(k, x, l)) = Len(k) + 1 + Len(l) /\ (\A i \in 1 .. Len(k) : Joins(k, x, l)[i] = k[i])
      /\ Joins(k, x, l)[Len(k) + 1] = x /\ \A i \in 1 .. Len(l) : Joins(k, x, l)[Len(k) + 1 + i] = l[i]
  <2>1. Len(Joins(k, x, l)) = Len(k) + 1 + Len(l) /\ Joins(k, x, l)[Len(k) + 1] = x
    BY JoinsIs
  <2>2. \A i \in 1 .. Len(k) : Joins(k, x, l)[i] = k[i] BY JoinsIs
  <2>3. \A i \in 1 .. Len(l) : Joins(k, x, l)[Len(k) + 1 + i] = l[i] BY JoinsIs
  <2> QED BY <2>1, <2>2, <2>3
<1> DEFINE p == Joins(k, x, l)
           q == s \o t
<1>2. Len(p) = Len(k) + 1 + Len(l) /\ (\A i \in 1 .. Len(k) : p[i] = k[i]) /\ p[Len(k) + 1] = x
      /\ \A i \in 1 .. Len(l) : p[Len(k) + 1 + i] = l[i]
  BY <1>0
<1>3. Len(q) = Len(s) + Len(t) /\ \A i \in 1 .. Len(s) + Len(t) : q[i] = IF i <= Len(s) THEN s[i] ELSE t[i - Len(s)]
  BY ConcatProperties
<1> HIDE DEF p, q
<1>4. (\A i \in 1 .. Len(s) : q[i] = s[i]) BY <1>1, <1>3
<1>5. ASSUME NEW i \in 1 .. Len(t) PROVE q[Len(s) + i] = t[i]
  <2>1. Len(s) + i \in 1 .. Len(s) + Len(t) /\ ~(Len(s) + i <= Len(s)) /\ (Len(s) + i) - Len(s) = i
    BY <1>1
  <2> QED BY <1>3, <2>1
<1>6. ASSUME Len(s) = Len(k) + 1, FanOf(v, F, p, q)
      PROVE  FanOf(v, F, k, s) /\ FanOf(v, F, l, t) /\ x = Head1(v, F, t[1])
  <2>1. ASSUME NEW i \in 1 .. Len(k) PROVE k[i] = Head1(v, F, s[i + 1])
    <3>1. i \in 1 .. Len(p) /\ i + 1 \in 1 .. Len(s) BY <1>1, <1>2, <1>6
    <3> QED BY <1>2, <1>4, <1>6, <3>1 DEF FanOf
  <2>2. ASSUME NEW i \in 1 .. Len(l) PROVE l[i] = Head1(v, F, t[i + 1])
    <3> DEFINE h == Len(k) + 1 + i
    <3>1. h \in 1 .. Len(p) /\ h + 1 = Len(s) + (i + 1) /\ i + 1 \in 1 .. Len(t)
      BY <1>1, <1>2, <1>6
    <3>2. p[h] = l[i] BY <1>2
    <3> HIDE DEF h
    <3>3. q[h + 1] = t[i + 1] BY <1>5, <3>1
    <3> QED BY <1>6, <3>1, <3>2, <3>3 DEF FanOf
  <2>3. x = Head1(v, F, t[1])
    <3> DEFINE h == Len(k) + 1
    <3>1. h \in 1 .. Len(p) /\ h + 1 = Len(s) + 1 /\ 1 \in 1 .. Len(t)
      BY <1>1, <1>2, <1>6
    <3>2. p[h] = x /\ q[h + 1] = t[1] BY <1>2, <1>5, <3>1
    <3> HIDE DEF h
    <3> QED BY <1>6, <3>1, <3>2 DEF FanOf
  <2> QED BY <1>6, <2>1, <2>2, <2>3 DEF FanOf
<1>7. ASSUME FanOf(v, F, k, s), FanOf(v, F, l, t), x = Head1(v, F, t[1])
      PROVE  FanOf(v, F, p, q) /\ Len(s) = Len(k) + 1
  <2>1. Len(s) = Len(k) + 1 BY <1>7 DEF FanOf
  <2>2. ASSUME NEW j \in 1 .. Len(p) PROVE p[j] = Head1(v, F, q[j + 1])
    <3>1. CASE j <= Len(k)
      <4>1. j \in 1 .. Len(k) /\ j + 1 \in 1 .. Len(s) BY <1>1, <2>1, <3>1
      <4> QED BY <1>2, <1>4, <1>7, <4>1 DEF FanOf
    <3>2. CASE j = Len(k) + 1
      <4>1. 1 \in 1 .. Len(t) /\ j + 1 = Len(s) + 1 BY <1>1, <2>1, <3>2
      <4>2. q[j + 1] = t[1] BY <1>5, <4>1
      <4> QED BY <1>2, <1>7, <3>2, <4>2
    <3>3. CASE j > Len(k) + 1
      <4> DEFINE i == j - (Len(k) + 1)
      <4>1. i \in 1 .. Len(l) /\ j = Len(k) + 1 + i /\ i + 1 \in 1 .. Len(t) /\ j + 1 = Len(s) + (i + 1)
        BY <1>1, <1>2, <2>1, <3>3
      <4> HIDE DEF i
      <4>2. p[j] = l[i] BY <1>2, <4>1
      <4>3. q[j + 1] = t[i + 1] BY <1>5, <4>1
      <4> QED BY <1>7, <4>1, <4>2, <4>3 DEF FanOf
    <3>4. j <= Len(k) \/ j = Len(k) + 1 \/ j > Len(k) + 1
      <4>1. Len(p) \in Nat BY <1>1, <1>2
      <4>2. j \in Int BY <4>1
      <4> QED BY <1>1, <4>2
    <3> QED BY <3>1, <3>2, <3>3, <3>4
  <2>3. Len(q) = Len(p) + 1 BY <1>1, <1>2, <1>3, <2>1
  <2> QED BY <2>1, <2>2, <2>3 DEF FanOf
<1>8. FanOf(v, F, p, q) /\ Len(s) = Len(k) + 1 <=> FanOf(v, F, k, s) /\ FanOf(v, F, l, t) /\ x = Head1(v, F, t[1])
  BY <1>6, <1>7
<1> QED BY <1>8 DEF FanJoins, p, q

-----------------------------------------------------------------------------
(* The steps of the loops that restructure inner nodes.  A separator is the *)
(* first key below the son behind it, except that of the son that is gone. *)
Fan(F, q) ==
  IF work.pc = "rebalance" /\ q = work.cur THEN FanBut(vals, F, keys[q], sons[q], work.at)
  ELSE FanOf(vals, F, keys[q], sons[q])

Fans(F) == Leads(F) /\ Carries(F) /\ \A q \in Inners : Fan(F, q)

LEMMA FansAre ==
  ASSUME TreeInv, root # NULL, Separated
  PROVE  \E F : Fans(F)
<1>1. PICK F : Leads(F) /\ Separates(F) /\ Carries(F) BY DEF Separated
<1>2. ASSUME NEW q \in Inners PROVE Fan(F, q)
  <2>1. Len(sons[q]) = Len(keys[q]) + 1 BY DEF TreeInv, Filled
  <2>2. \A i \in 1 .. Len(keys[q]) :
           (work.pc = "rebalance" /\ q = work.cur /\ i = work.at) \/ keys[q][i] = KeyOf(vals[F[sons[q][i + 1]]][1])
    BY <1>1 DEF Separates, FirstKey
  <2> QED BY <2>1, <2>2 DEF Fan, FanBut, FanOf, Head1
<1>3. Fans(F) BY <1>1, <1>2 DEF Fans
<1> QED BY <1>3

LoneFan(G, q) ==
  FanOf(vals, G, keys'[q], sons'[q]) \/ (work'.pc = "rebalance" /\ q = work'.cur /\ FanBut(vals, G, keys'[q], sons'[q], work'.at))

LEMMA FansStep ==
  ASSUME NEW G, vals' = vals, \A n \in Nodes' : G[n] \in DOMAIN vals, \A l \in DOMAIN vals : G[l] = l,
         \A q \in Inners' : G[q] = G[sons'[q][1]] /\ LoneFan(G, q),
         work'.pc = "ascend" => work'.key = Head1(vals, G, work'.inst)
  PROVE  Separated'
<1>1. Leads(G)' BY DEF Leads
<1>2. Separates(G)'
  <2>1. ASSUME NEW q \in Inners', NEW i \in 1 .. Len(keys'[q])
        PROVE  (work'.pc = "rebalance" /\ q = work'.cur /\ i = work'.at) \/ keys'[q][i] = KeyOf(vals'[G[sons'[q][i + 1]]][1])
    <3>1. LoneFan(G, q) OBVIOUS
    <3> QED BY <3>1 DEF LoneFan, FanOf, FanBut, Head1
  <2> QED BY <2>1 DEF Separates, FirstKey
<1>3. Carries(G)' BY DEF Carries, FirstKey, Head1
<1> QED BY <1>1, <1>2, <1>3 DEF Separated

LEMMA AscendRoomSep ==
  ASSUME IInv, Separated, AscendRoom
  PROVE  Separated'
<1> DEFINE x == work.cur
           y == work.inst
           par == parent[x]
           i == pos[x] + 1
           s == Put(sons[par], i, y)
           k == Put(keys[par], i - 1, work.key)
<1>1. /\ work.pc = "ascend" /\ par # NULL /\ vals' = vals /\ keys' = [keys EXCEPT ![par] = k]
      /\ sons' = [sons EXCEPT ![par] = s] /\ parent' = [parent EXCEPT ![y] = par] /\ work'.pc = "idle"
  BY DEF AscendRoom, In, Returned
<1>2. TreeInv /\ ShapeInv /\ Filled BY DEF IInv, TreeInv
<1>3. Waiting(x, y, par) /\ root # NULL
  <2>1. Waiting(x, y, par) BY <1>1, <1>2, WaitingIs
  <2> QED BY <2>1 DEF Waiting
<1>4. PICK F : Fans(F) BY <1>2, <1>3, FansAre
<1>5. work.key \in Keys /\ work.key = Head1(vals, F, y)
  <2>1. work.key \in Keys BY <1>1 DEF IInv, Working
  <2>2. work.key = Head1(vals, F, y)
    BY <1>1, <1>4 DEF Fans, Carries, FirstKey, Head1
  <2> QED BY <2>1, <2>2
<1>6. par \in Inners /\ sons[par] \in Seq(Nodes) /\ keys[par] \in Seq(Keys) /\ i \in 1 .. Len(sons[par]) /\ y \in Nodes
      /\ DOMAIN sons = Inners /\ par \notin DOMAIN vals
  <2>1. par \in Inners /\ sons[par] \in Seq(Nodes) /\ i \in 1 .. Len(sons[par]) /\ y \in Nodes
    BY <1>3 DEF Waiting
  <2>2. keys[par] \in Seq(Keys) BY <1>2, <2>1 DEF Filled
  <2>3. DOMAIN sons = Inners /\ par \notin DOMAIN vals
    BY <1>2, <2>1 DEF ShapeInv, Typed
  <2> QED BY <2>1, <2>2, <2>3
<1>7. FanOf(vals, F, keys[par], sons[par]) BY <1>1, <1>4, <1>6 DEF Fans, Fan
<1>8. FanPutIs(vals, F, keys[par], sons[par], i, work.key, y)
  <2> DEFINE kk == keys[par]
             ss == sons[par]
             key == work.key
  <2>1. kk \in Seq(Keys) /\ ss \in Seq(Nodes) /\ FanOf(vals, F, kk, ss) /\ i \in 1 .. Len(ss) /\ y \in Nodes /\ key \in Keys
        /\ key = Head1(vals, F, y)
    BY <1>5, <1>6, <1>7
  <2> HIDE DEF kk, ss, key, i, y
  <2>2. FanPutIs(vals, F, kk, ss, i, key, y) BY <2>1, FanPut
  <2> QED BY <2>2 DEF kk, ss, key
<1>9. FanOf(vals, F, k, s) /\ s[1] = sons[par][1] BY <1>8 DEF FanPutIs
<1> HIDE DEF k, s, x, y, i
<1>10. Leads(F) /\ \A q \in Inners : q # par => FanOf(vals, F, keys[q], sons[q])
  BY <1>1, <1>4 DEF Fans, Fan
<1>11. Nodes' = Nodes /\ Inners' = Inners BY <1>1 DEF Nodes, Inners
<1>12. ASSUME NEW q \in Inners PROVE F[q] = F[sons'[q][1]] /\ LoneFan(F, q)
  <2>1. F[q] = F[sons[q][1]] BY <1>10 DEF Leads
  <2>2. CASE q = par
    <3>1. sons'[q] = s /\ keys'[q] = k BY <1>1, <1>6, <2>2 DEF Inners
    <3> QED BY <1>9, <2>1, <2>2, <3>1 DEF LoneFan
  <2>3. CASE q # par
    <3>1. sons'[q] = sons[q] /\ keys'[q] = keys[q]
      BY <1>1, <1>6, <2>3 DEF Inners
    <3>2. FanOf(vals, F, keys[q], sons[q]) BY <1>10, <2>3
    <3> QED BY <2>1, <3>1, <3>2 DEF LoneFan
  <2> QED BY <2>2, <2>3
<1>13. (\A n \in Nodes' : F[n] \in DOMAIN vals) /\ \A l \in DOMAIN vals : F[l] = l
  BY <1>10, <1>11 DEF Leads
<1> QED BY <1>1, <1>11, <1>12, <1>13, FansStep

-----------------------------------------------------------------------------
(* What a running merge has at its node, and the fan without the son. *)
CutFan(F, n, k, s) ==
  /\ n \in Inners /\ work.at \in 1 .. Len(keys[n]) /\ Len(keys[n]) \in Nat /\ keys[n] \in Seq(Keys) /\ sons[n] \in Seq(Nat)
  /\ k \in Seq(Keys) /\ s \in Seq(Nodes) /\ FanOf(vals, F, k, s) /\ s[1] = sons[n][1] /\ Len(s) >= 1
  /\ F[n] = F[s[1]] /\ \A q \in Inners : q # n => FanOf(vals, F, keys[q], sons[q])

LEMMA CutFanIs ==
  ASSUME TreeInv, root # NULL, work.pc = "rebalance", NEW F, Fans(F), NEW n, n = work.cur
  PROVE  CutFan(F, n, Cut(keys[n], work.at - 1), Cut(sons[n], work.at))
<1> DEFINE kk == keys[n]
           ss == sons[n]
           at == work.at
           k == Cut(kk, at - 1)
           s == Cut(ss, at)
<1>1. ShapeInv /\ Filled BY DEF TreeInv
<1>2. Losing(n, s) BY <1>1, LosingIs
<1>3. n \in Inners /\ ss \in Seq(Nat) /\ at \in 1 .. Len(ss) - 1 /\ Len(ss) \in Nat /\ s \in Seq(Nodes) /\ Len(s) = Len(ss) - 1
  BY <1>2 DEF Losing
<1>4. kk \in Seq(Keys) /\ Len(ss) = Len(kk) + 1 BY <1>1, <1>3 DEF Filled
<1>5. Len(kk) \in Nat BY <1>4, LenProperties
<1>6. at \in 1 .. Len(kk) /\ Len(s) >= 1 BY <1>3, <1>4, <1>5
<1>7. FanBut(vals, F, kk, ss, at) BY <1>3 DEF Fans, Fan
<1>8. at - 1 \in 0 .. Len(kk) - 1 BY <1>5, <1>6
<1>9. k \in Seq(Keys) BY <1>4, <1>8, CutIs
<1>10. F[n] = F[ss[1]] BY <1>3 DEF Fans, Leads
<1>11. \A q \in Inners : q # n => FanOf(vals, F, keys[q], sons[q])
  BY DEF Fans, Fan
<1> HIDE DEF kk, ss, at
<1>12. FanCutIs(vals, F, kk, ss, at) BY <1>3, <1>4, <1>6, <1>7, FanCut
<1>13. FanOf(vals, F, k, s) /\ s[1] = ss[1] BY <1>12 DEF FanCutIs
<1> HIDE DEF k, s
<1>14. F[n] = F[s[1]] BY <1>10, <1>13
<1> QED
  BY <1>3, <1>4, <1>5, <1>6, <1>9, <1>11, <1>13, <1>14 DEF CutFan, kk, ss, at, k, s

LEMMA LosesSep ==
  ASSUME TreeInv, root # NULL, work.pc = "rebalance", NEW F, Fans(F), NEW n, n = work.cur,
         NEW k, k = Cut(keys[n], work.at - 1), NEW s, s = Cut(sons[n], work.at),
         keys' = [keys EXCEPT ![n] = k], sons' = [sons EXCEPT ![n] = s], parent' = parent, vals' = vals, work'.pc # "ascend"
  PROVE  Separated'
<1>1. CutFan(F, n, k, s) BY CutFanIs
<1>2. Nodes' = Nodes /\ Inners' = Inners /\ DOMAIN sons = Inners
  BY DEF Nodes, Inners, TreeInv, ShapeInv, Typed
<1>3. ASSUME NEW q \in Inners PROVE F[q] = F[sons'[q][1]] /\ LoneFan(F, q)
  <2>1. CASE q = n
    <3>1. sons'[q] = s /\ keys'[q] = k BY <1>2, <2>1 DEF Inners
    <3> QED BY <1>1, <2>1, <3>1 DEF LoneFan, CutFan
  <2>2. CASE q # n
    <3>1. sons'[q] = sons[q] /\ keys'[q] = keys[q] BY <1>2, <2>2 DEF Inners
    <3>2. FanOf(vals, F, keys[q], sons[q]) BY <1>1, <2>2 DEF CutFan
    <3>3. F[q] = F[sons[q][1]] BY DEF Fans, Leads
    <3> QED BY <3>1, <3>2, <3>3 DEF LoneFan
  <2> QED BY <2>1, <2>2
<1>4. (\A z \in Nodes' : F[z] \in DOMAIN vals) /\ \A l \in DOMAIN vals : F[l] = l
  BY <1>2 DEF Fans, Leads
<1> QED BY <1>2, <1>3, <1>4, FansStep

LEMMA RebalanceRoomSep ==
  ASSUME IInv, Separated, RebalanceRoom
  PROVE  Separated'
<1> DEFINE n == work.cur
           k == Cut(keys[n], work.at - 1)
           s == Cut(sons[n], work.at)
<1>1. /\ work.pc = "rebalance" /\ vals' = vals /\ keys' = [keys EXCEPT ![n] = k] /\ sons' = [sons EXCEPT ![n] = s]
      /\ parent' = parent /\ work'.pc # "ascend"
  BY DEF RebalanceRoom, In, Resume, Erased, Returned
<1>2. TreeInv /\ root # NULL BY <1>1 DEF IInv, TreeInv, ShapeInv, NoTree
<1>3. PICK F : Fans(F) BY <1>2, FansAre
<1>4. n = work.cur /\ k = Cut(keys[n], work.at - 1) /\ s = Cut(sons[n], work.at)
  OBVIOUS
<1> HIDE DEF n, k, s
<1> QED BY <1>1, <1>2, <1>3, <1>4, LosesSep

LEMMA RebalanceRootSep ==
  ASSUME IInv, Separated, RebalanceRoot
  PROVE  Separated'
<1> DEFINE n == work.cur
           k == Cut(keys[n], work.at - 1)
           s == Cut(sons[n], work.at)
           top == At(sons[n], 0)
<1>1. work.pc = "rebalance" /\ vals' = vals /\ work'.pc # "ascend"
  BY DEF RebalanceRoot, In, Resume, Erased, Returned
<1>2. TreeInv /\ root # NULL BY <1>1 DEF IInv, TreeInv, ShapeInv, NoTree
<1>3. PICK F : Fans(F) BY <1>2, FansAre
<1>4. n = work.cur /\ k = Cut(keys[n], work.at - 1) /\ s = Cut(sons[n], work.at)
  OBVIOUS
<1>5. CASE Len(keys[n]) = 1
  <2>1. keys' = Without(keys, n) /\ sons' = Without(sons, n) /\ parent' = Without([parent EXCEPT ![top] = NULL], n)
    BY <1>5 DEF RebalanceRoot
  <2> HIDE DEF n, k, s, top
  <2>2. Inners' = Inners \ {n} /\ Nodes' = Nodes \ {n} /\ DOMAIN sons = Inners
    BY <1>2, <2>1 DEF Nodes, Inners, Without, TreeInv, ShapeInv, Typed
  <2>3. CutFan(F, n, k, s) BY <1>1, <1>2, <1>3, <1>4, CutFanIs
  <2>4. ASSUME NEW q \in Inners \ {n} PROVE F[q] = F[sons'[q][1]] /\ LoneFan(F, q)
    <3>1. sons'[q] = sons[q] /\ keys'[q] = keys[q]
      BY <2>1, <2>2 DEF Without, Inners
    <3>2. FanOf(vals, F, keys[q], sons[q]) BY <2>3 DEF CutFan
    <3>3. F[q] = F[sons[q][1]] BY <1>3 DEF Fans, Leads
    <3> QED BY <3>1, <3>2, <3>3 DEF LoneFan
  <2>5. (\A z \in Nodes' : F[z] \in DOMAIN vals) /\ \A l \in DOMAIN vals : F[l] = l
    BY <1>3, <2>2 DEF Fans, Leads
  <2> QED BY <1>1, <2>2, <2>4, <2>5, FansStep
<1>6. CASE Len(keys[n]) # 1
  <2>1. keys' = [keys EXCEPT ![n] = k] /\ sons' = [sons EXCEPT ![n] = s] /\ parent' = parent
    BY <1>6 DEF RebalanceRoot
  <2> HIDE DEF n, k, s
  <2> QED BY <1>1, <1>2, <1>3, <1>4, <2>1, LosesSep
<1> QED BY <1>5, <1>6

-----------------------------------------------------------------------------
(* The separator that moves up was between the two halves. *)
KeysRejoin(k, s, i, key, inst) ==
  LET d == Split(k, s, i, key, inst)
  IN  Joins(d.low, UpKey(k, i, key), d.high) = Put(k, i - 1, key)

LEMMA SplitRejoins ==
  ASSUME use \in Uses, NEW k \in Seq(Keys), Len(k) = N, NEW s, NEW i \in 1 .. N + 1, NEW key \in Keys, NEW inst
  PROVE  KeysRejoin(k, s, i, key, inst)
<1> DEFINE d == Split(k, s, i, key, inst)
           C == CeilHalf
           b == C - 1
           a == C + 1
           j == i - 1
           up == UpKey(k, i, key)
           zero == 0
<1>1. N \in Nat /\ C \in Nat /\ C >= 2 /\ C < N BY Halves
<1>2. CASE i <= C
  <2>1. d.low = Put(Slice(k, zero, b), j, key) /\ d.high = Slice(k, C, Len(k)) /\ up = At(k, b)
    BY <1>2 DEF Split, UpKey
  <2>2. b \in 0 .. Len(k) /\ j \in 0 .. b /\ C \in 0 .. Len(k) /\ Len(k) \in 0 .. Len(k) /\ C \in b .. Len(k) /\ b + 1 = C
        /\ b \in 0 .. C /\ C \in 0 .. Len(k) /\ b \in 0 .. Len(k) - 1
    BY <1>1, <1>2
  <2>3. Slice(k, b, Len(k)) = Slice(k, b, C) \o Slice(k, C, Len(k))
    BY <2>2, SliceSplit
  <2>4. Slice(k, b, C) = <<At(k, b)>> /\ At(k, b) \in Keys BY <2>2, SliceOne
  <2>5. d.low = Put(Slice(k, 0, b), j, key) BY <2>1
  <2> HIDE DEF b, j, d, C, up, zero
  <2>6. PutLow(k, b, j, key, Keys) BY <2>2, PutsLow
  <2>7. d.low \in Seq(Keys) /\ d.low \o Slice(k, b, Len(k)) = Put(k, j, key)
    BY <2>5, <2>6 DEF PutLow
  <2>8. Slice(k, C, Len(k)) \in Seq(Keys) BY <2>2, SliceIs
  <2> DEFINE w == <<up>>
  <2>9. w \in Seq(Keys) /\ Slice(k, b, C) = w BY <2>1, <2>4
  <2> DEFINE h == Slice(k, C, Len(k))
             l == d.low
  <2>10. l \in Seq(Keys) /\ h \in Seq(Keys) /\ d.high = h BY <2>1, <2>7, <2>8
  <2>11. l \o (w \o h) = Put(k, j, key) BY <2>3, <2>7, <2>9
  <2> HIDE DEF w, h, l
  <2>12. Associate(l, w, h) BY <2>9, <2>10, Associative
  <2>13. (l \o w) \o h = Put(k, j, key) BY <2>11, <2>12 DEF Associate
  <2> QED BY <2>10, <2>13 DEF KeysRejoin, Joins, l, w, d, up, j
<1>3. CASE i = C + 1
  <2>1. d.low = Slice(k, 0, C) /\ d.high = Slice(k, C, Len(k)) /\ up = key /\ j = C
    BY <1>1, <1>3 DEF Split, UpKey
  <2>2. Put(k, C, key) = Joins(Slice(k, 0, C), key, Slice(k, C, Len(k)))
    BY DEF Put, Joins
  <2> HIDE DEF d, C, up, j
  <2>3. Joins(d.low, up, d.high) = Put(k, j, key) BY <2>1, <2>2
  <2> QED BY <2>3 DEF KeysRejoin, d, up, j
<1>4. CASE i > C + 1
  <2>1. d.low = Slice(k, zero, C) /\ d.high = (Slice(k, a, j) \o <<key>>) \o Slice(k, j, Len(k)) /\ up = At(k, C)
    BY <1>1, <1>4 DEF Split, UpKey
  <2>2. C \in 0 .. a /\ a \in 0 .. Len(k) /\ zero \in 0 .. C /\ j \in 0 .. Len(k) /\ a \in 0 .. j /\ C \in 0 .. Len(k) - 1 /\ C + 1 = a
    BY <1>1, <1>4
  <2>3. Slice(k, zero, a) = Slice(k, zero, C) \o Slice(k, C, a)
    BY <2>2, SliceSplit
  <2>4. Slice(k, C, a) = <<At(k, C)>> BY <2>2, SliceOne
  <2>5. Slice(k, zero, a) = Slice(k, 0, a) OBVIOUS
  <2> HIDE DEF d, C, up, j, a, zero
  <2>6. PutHigh(k, a, j, key, Keys) BY <2>2, PutsHigh
  <2>7. Slice(k, 0, a) \o d.high = Put(k, j, key) BY <2>1, <2>6 DEF PutHigh
  <2>8. Slice(k, 0, a) = d.low \o <<up>> BY <2>1, <2>3, <2>4, <2>5
  <2> QED BY <2>7, <2>8 DEF KeysRejoin, Joins, d, up, j
<1>5. i <= C \/ i = C + 1 \/ i > C + 1 BY <1>1
<1> QED BY <1>2, <1>3, <1>4, <1>5, Zenon

(* Another F that leads the same way from the sons. *)
LEMMA FanAgrees ==
  ASSUME NEW v, NEW F, NEW G, NEW K, NEW k \in Seq(K), NEW s, FanOf(v, F, k, s), \A j \in 1 .. Len(s) : G[s[j]] = F[s[j]]
  PROVE  FanOf(v, G, k, s)
<1>1. Len(k) \in Nat /\ Len(s) = Len(k) + 1 BY LenProperties DEF FanOf
<1>2. ASSUME NEW i \in 1 .. Len(k) PROVE k[i] = Head1(v, G, s[i + 1])
  <2>1. i + 1 \in 1 .. Len(s) BY <1>1
  <2>2. G[s[i + 1]] = F[s[i + 1]] BY <2>1
  <2>3. k[i] = Head1(v, F, s[i + 1]) BY DEF FanOf
  <2> QED BY <2>2, <2>3 DEF Head1
<1> QED BY <1>1, <1>2 DEF FanOf

-----------------------------------------------------------------------------
LEMMA AscendSons ==
  ASSUME TreeInv, work.pc = "ascend", NEW q \in Inners
  PROVE  sons[q] \in Seq(Nodes) /\ \A j \in 1 .. Len(sons[q]) : sons[q][j] \in Nodes
<1>1. ShapeInv /\ root # NULL BY DEF TreeInv, ShapeInv, NoTree
<1>2. sons[q] \in Seq(Nodes)
  <2>1. CASE parent[work.cur] # NULL /\ q = parent[work.cur]
    <3>1. Waiting(work.cur, work.inst, parent[work.cur])
      BY <1>1, <2>1, WaitingIs
    <3> QED BY <2>1, <3>1 DEF Waiting
  <2>2. CASE ~(parent[work.cur] # NULL /\ q = parent[work.cur])
    <3>1. NULL \notin Inners /\ DOMAIN sons = Inners
      BY <1>1, NullAssumption DEF ShapeInv, Typed
    <3>2. Kids[q] = sons[q] BY <2>2, <3>1 DEF Kids
    <3> QED BY <1>1, <3>2, SonsUnique
  <2> QED BY <2>1, <2>2
<1>3. \A j \in 1 .. Len(sons[q]) : sons[q][j] \in Nodes
  <2> TAKE j \in 1 .. Len(sons[q])
  <2> QED BY <1>2, ElementOfSeq
<1> QED BY <1>2, <1>3

(* F with a new node above the leaves below z. *)
Above(F, r, z) == [n \in Nodes \cup {r} |-> IF n = r THEN F[z] ELSE F[n]]

AboveFits(G, F, r, z) ==
  /\ G[r] = F[z] /\ \A n \in Nodes : G[n] = F[n]
  /\ \A n \in Nodes \cup {r} : G[n] \in DOMAIN vals
  /\ \A l \in DOMAIN vals : G[l] = l
  /\ \A q \in Inners : FanOf(vals, G, keys[q], sons[q]) /\ G[q] = G[sons[q][1]]

LEMMA AboveIs ==
  ASSUME TreeInv, work.pc = "ascend", NEW F, Fans(F), NEW r, r \notin Nodes, NEW z \in Nodes
  PROVE  AboveFits(Above(F, r, z), F, r, z)
<1> DEFINE G == Above(F, r, z)
<1>1. ShapeInv /\ Filled BY DEF TreeInv
<1>2. G[r] = F[z] /\ \A n \in Nodes : G[n] = F[n] BY DEF Above
<1> HIDE DEF G
<1>3. Leads(F) /\ \A q \in Inners : FanOf(vals, F, keys[q], sons[q])
  BY DEF Fans, Fan
<1>4. DOMAIN vals \subseteq Nodes /\ Inners \subseteq Nodes
  BY <1>1 DEF ShapeInv, Typed
<1>5. (\A n \in Nodes \cup {r} : G[n] \in DOMAIN vals) /\ \A l \in DOMAIN vals : G[l] = l
  BY <1>2, <1>3, <1>4 DEF Leads
<1>6. ASSUME NEW q \in Inners PROVE FanOf(vals, G, keys[q], sons[q]) /\ G[q] = G[sons[q][1]]
  <2>1. keys[q] \in Seq(Keys) /\ Len(sons[q]) = Len(keys[q]) + 1
    BY <1>1 DEF Filled
  <2>2. \A j \in 1 .. Len(sons[q]) : G[sons[q][j]] = F[sons[q][j]]
    <3>1. \A j \in 1 .. Len(sons[q]) : sons[q][j] \in Nodes BY AscendSons
    <3> QED BY <1>2, <3>1
  <2>3. FanOf(vals, F, keys[q], sons[q]) BY <1>3
  <2>4. FanOf(vals, G, keys[q], sons[q])
    <3> DEFINE k == keys[q]
               s == sons[q]
    <3>1. k \in Seq(Keys) /\ FanOf(vals, F, k, s) /\ \A j \in 1 .. Len(s) : G[s[j]] = F[s[j]]
      BY <2>1, <2>2, <2>3
    <3> HIDE DEF k, s
    <3>2. FanOf(vals, G, k, s) BY <3>1, FanAgrees
    <3> QED BY <3>2 DEF k, s
  <2>5. 1 \in 1 .. Len(sons[q])
    <3>1. Len(keys[q]) \in Nat BY <2>1, LenProperties
    <3> QED BY <2>1, <3>1
  <2>6. F[q] = F[sons[q][1]] BY <1>3 DEF Leads
  <2>7. G[q] = F[q] BY <1>2, <1>4
  <2> QED BY <2>2, <2>4, <2>5, <2>6, <2>7
<1> QED BY <1>2, <1>5, <1>6 DEF AboveFits, G

LEMMA AscendRootSep ==
  ASSUME IInv, Separated, AscendRoot
  PROVE  Separated'
<1> DEFINE r == Fresh
           key == work.key
           x == work.cur
           y == work.inst
<1>1. /\ work.pc = "ascend" /\ keys' = With(keys, Only(r, <<key>>)) /\ sons' = With(sons, Only(r, <<x, y>>))
      /\ parent' = With(With(parent, Two(x, r, y, r)), Only(r, NULL)) /\ work'.pc = "idle" /\ vals' = vals
  BY DEF AscendRoot, In, Returned
<1>2. TreeInv /\ ShapeInv /\ root # NULL
  BY <1>1 DEF IInv, TreeInv, ShapeInv, NoTree
<1>3. PICK F : Fans(F) BY <1>2, FansAre
<1>4. x \in Nodes /\ y \in Nodes BY <1>1, <1>2 DEF ShapeInv, Ascending
<1>5. r \notin Nodes BY <1>2, FreshIs DEF ShapeInv, Typed
<1>6. DOMAIN sons = Inners /\ r \notin Inners /\ Inners \subseteq Nodes
  BY <1>2, <1>5 DEF ShapeInv, Typed
<1>7. key = Head1(vals, F, y) BY <1>1, <1>3 DEF Fans, Carries, FirstKey, Head1
<1> HIDE DEF r, x, y, key
<1>8. keys'[r] = <<key>> /\ sons'[r] = <<x, y>> /\ Inners' = Inners \cup {r}
      /\ \A n \in Inners : keys'[n] = keys[n] /\ sons'[n] = sons[n]
  BY <1>1, <1>6 DEF With, Only, Inners
<1>9. Nodes' = Nodes \cup {r} BY <1>1, <1>4 DEF With, Only, Two, Nodes
<1> DEFINE H == Above(F, r, x)
<1>10. AboveFits(H, F, r, x) BY <1>1, <1>2, <1>3, <1>4, <1>5, AboveIs
<1> HIDE DEF H
<1>11. H[r] = F[x] /\ H[x] = F[x] /\ H[y] = F[y] BY <1>4, <1>10 DEF AboveFits
<1>12. FanOf(vals, H, <<key>>, <<x, y>>)
  <2>1. Len(<<x, y>>) = Len(<<key>>) + 1 /\ <<x, y>>[2] = y /\ <<key>>[1] = key /\ Len(<<key>>) = 1
    OBVIOUS
  <2>2. key = Head1(vals, H, y) BY <1>7, <1>11 DEF Head1
  <2>3. \A i \in 1 .. Len(<<key>>) : i = 1 /\ i + 1 = 2 BY <2>1
  <2> QED BY <2>1, <2>2, <2>3 DEF FanOf
<1>13. ASSUME NEW q \in Inners' PROVE H[q] = H[sons'[q][1]] /\ LoneFan(H, q)
  <2>1. CASE q = r
    <3>1. sons'[q] = <<x, y>> /\ keys'[q] = <<key>> /\ <<x, y>>[1] = x
      BY <1>8, <2>1
    <3> QED BY <1>11, <1>12, <2>1, <3>1 DEF LoneFan
  <2>2. CASE q # r
    <3>1. q \in Inners /\ sons'[q] = sons[q] /\ keys'[q] = keys[q] BY <1>8, <2>2
    <3>2. FanOf(vals, H, keys[q], sons[q]) /\ H[q] = H[sons[q][1]]
      BY <1>10, <3>1 DEF AboveFits
    <3> QED BY <3>1, <3>2 DEF LoneFan
  <2> QED BY <2>1, <2>2
<1>14. (\A n \in Nodes' : H[n] \in DOMAIN vals) /\ \A l \in DOMAIN vals : H[l] = l
  BY <1>9, <1>10 DEF AboveFits
<1> QED BY <1>1, <1>13, <1>14, FansStep

-----------------------------------------------------------------------------
(* Both halves of a split node have their fans, and the key between them *)
(* goes up. *)
SplitFans(F, k, s, i, key, y) ==
  LET d == Split(k, s, i, key, y)
  IN  /\ FanOf(vals, F, d.low, d.lowSons) /\ FanOf(vals, F, d.high, d.highSons)
      /\ UpKey(k, i, key) = Head1(vals, F, d.highSons[1]) /\ d.lowSons[1] = s[1] /\ d.highSons[1] \in Nodes
      /\ d.lowSons \in Seq(Nodes) /\ d.highSons \in Seq(Nodes) /\ Len(d.highSons) >= 1 /\ Len(d.lowSons) >= 1
      /\ d.low \in Seq(Keys) /\ d.high \in Seq(Keys)

LEMMA SplitFansAre ==
  ASSUME use \in Uses, NEW F, NEW k \in Seq(Keys), NEW s \in Seq(Nodes), FanOf(vals, F, k, s), Len(k) = N, NEW i \in 1 .. N + 1,
         NEW y \in Nodes, NEW key \in Keys, key = Head1(vals, F, y)
  PROVE  SplitFans(F, k, s, i, key, y)
<1> DEFINE d == Split(k, s, i, key, y)
           up == UpKey(k, i, key)
           lo == d.low
           hi == d.high
           ls == d.lowSons
           hs == d.highSons
           p == Put(k, i - 1, key)
           q == Put(s, i, y)
<1>1. N \in Nat /\ FloorHalf \in Nat /\ CeilHalf \in Nat BY Halves
<1>2. Len(s) = N + 1 /\ i \in 1 .. Len(s) BY DEF FanOf
<1>3. KeysHalved(k, s, i, key, y) BY SplitKeys
<1>4. KeysRejoin(k, s, i, key, y) BY SplitRejoins
<1>5. Halved(s, i, y, Split(k, s, i, key, y).lowSons, Split(k, s, i, key, y).highSons, Nodes)
  BY <1>2, SplitSons
<1>6. FanPutIs(vals, F, k, s, i, key, y) BY <1>2, FanPut
<1>7. lo \in Seq(Keys) /\ hi \in Seq(Keys) /\ Len(lo) = CeilHalf /\ Len(hi) = FloorHalf /\ up \in Keys
  BY <1>3 DEF KeysHalved
<1>8. Joins(lo, up, hi) = p BY <1>4 DEF KeysRejoin
<1>9. ls \in Seq(Nodes) /\ hs \in Seq(Nodes) /\ Len(ls) = CeilHalf + 1 /\ Len(hs) = FloorHalf + 1 /\ ls \o hs = q
  BY <1>5 DEF Halved
<1>10. FanOf(vals, F, p, q) /\ q[1] = s[1] BY <1>6 DEF FanPutIs
<1> HIDE DEF p, q, lo, hi, ls, hs, up, d
<1>11. Len(hs) = Len(hi) + 1 /\ Len(ls) = Len(lo) + 1 /\ Len(hs) >= 1 /\ Len(ls) >= 1 /\ 1 \in 1 .. Len(hs) /\ 1 \in 1 .. Len(ls)
  BY <1>1, <1>7, <1>9
<1>12. FanJoins(vals, F, lo, up, hi, ls, hs) BY <1>7, <1>9, <1>11, FanJoin
<1>13. FanOf(vals, F, lo, ls) /\ FanOf(vals, F, hi, hs) /\ up = Head1(vals, F, hs[1])
  <2>1. FanOf(vals, F, Joins(lo, up, hi), ls \o hs) /\ Len(ls) = Len(lo) + 1
    BY <1>8, <1>9, <1>10, <1>11
  <2> QED BY <1>12, <2>1 DEF FanJoins
<1>14. hs[1] \in Nodes BY <1>9, <1>11, ElementOfSeq
<1>15. ls[1] = s[1]
  <2>1. Len(ls) # 0 BY <1>11
  <2>2. (ls \o hs)[1] = ls[1] BY <1>9, <2>1, FirstStays
  <2> QED BY <1>9, <1>10, <2>2
<1> QED
  BY <1>7, <1>9, <1>11, <1>13, <1>14, <1>15 DEF SplitFans, d, up, lo, hi, ls, hs

LEMMA AscendSplitSep ==
  ASSUME IInv, Separated, AscendSplit
  PROVE  Separated'
<1> DEFINE x == work.cur
           y == work.inst
           par == parent[x]
           i == pos[x] + 1
           key == work.key
           k == keys[par]
           s == sons[par]
           inst == Fresh
           d == Split(k, s, i, key, y)
           up == UpKey(k, i, key)
           lo == d.low
           hi == d.high
           ls == d.lowSons
           hs == d.highSons
<1>1. /\ work.pc = "ascend" /\ par # NULL /\ vals' = vals /\ Len(k) = N
      /\ keys' = With(keys, Two(par, lo, inst, hi)) /\ sons' = With(sons, Two(par, ls, inst, hs))
      /\ work' = [work EXCEPT !.cur = par, !.inst = inst, !.key = up]
  BY DEF AscendSplit, In
<1>2. TreeInv /\ ShapeInv /\ Filled /\ use \in Uses
  BY SMTT(60) DEF IInv, TreeInv, ShapeInv, Typed
<1>3. Waiting(x, y, par) /\ root # NULL
  <2>1. Waiting(x, y, par) BY <1>1, <1>2, WaitingIs
  <2> QED BY <2>1 DEF Waiting
<1>4. PICK F : Fans(F) BY <1>2, <1>3, FansAre
<1>5. key \in Keys /\ key = Head1(vals, F, y)
  <2>1. key \in Keys BY <1>1, SMTT(60) DEF IInv, Working
  <2>2. key = Head1(vals, F, y)
    BY <1>1, <1>4, SMTT(60) DEF Fans, Carries, FirstKey, Head1
  <2> QED BY <2>1, <2>2, SMTT(60)
<1>6. par \in Inners /\ s \in Seq(Nodes) /\ i \in 1 .. Len(s) /\ y \in Nodes
  BY <1>3 DEF Waiting
<1>7. k \in Seq(Keys) /\ Len(s) = Len(k) + 1 BY <1>2, <1>6, SMTT(60) DEF Filled
<1>8. FanOf(vals, F, k, s) BY <1>1, <1>4, <1>6, SMTT(60) DEF Fans, Fan
<1>9. i \in 1 .. N + 1 BY <1>1, <1>6, <1>7
<1>10. inst \notin Nodes BY <1>2, FreshIs DEF ShapeInv, Typed
<1>11. Nodes' = Nodes \cup {inst}
  <2>1. Len(sons[parent[work.cur]]) = N + 1 BY <1>1, <1>7
  <2>2. Divides(work.cur, work.inst, parent[work.cur], Fresh, Split(keys[parent[work.cur]], sons[parent[work.cur]], pos[work.cur] + 1, work.key, work.inst).lowSons,
                 Split(keys[parent[work.cur]], sons[parent[work.cur]], pos[work.cur] + 1, work.key, work.inst).highSons, pos[work.cur] + 1)
    BY <1>2, <2>1, SplitDivides, SMTT(60)
  <2>3. DOMAIN parent' = Nodes \cup {Fresh} BY <2>2 DEF Divides
  <2> QED BY <2>3, SMTT(60) DEF Nodes
<1>12. DOMAIN sons = Inners /\ inst \notin Inners /\ Inners \subseteq Nodes
  BY <1>2, <1>10 DEF ShapeInv, Typed
<1> HIDE DEF x, y, par, i, key, k, s, inst
<1>13. SplitFans(F, k, s, i, key, y)
  BY <1>1, <1>2, <1>5, <1>6, <1>7, <1>8, <1>9, SplitFansAre
<1>14. /\ FanOf(vals, F, lo, ls) /\ FanOf(vals, F, hi, hs) /\ up = Head1(vals, F, hs[1]) /\ ls[1] = s[1] /\ hs[1] \in Nodes
       /\ ls \in Seq(Nodes) /\ hs \in Seq(Nodes) /\ Len(hs) >= 1 /\ Len(ls) >= 1 /\ lo \in Seq(Keys) /\ hi \in Seq(Keys)
  BY <1>13 DEF SplitFans
<1> HIDE DEF d, up, lo, hi, ls, hs
<1> DEFINE z == hs[1]
           G == Above(F, inst, z)
<1>15. AboveFits(G, F, inst, z)
  <2>1. z \in Nodes BY <1>14
  <2> HIDE DEF z
  <2> QED BY <1>1, <1>2, <1>4, <1>10, <2>1, AboveIs
<1> HIDE DEF G
<1>16. G[inst] = F[z] /\ (\A n \in Nodes : G[n] = F[n]) /\ G[z] = F[z]
  BY <1>14, <1>15 DEF AboveFits
<1>17. FanOf(vals, G, lo, ls)
  <2>1. \A j \in 1 .. Len(ls) : G[ls[j]] = F[ls[j]]
    <3> TAKE j \in 1 .. Len(ls)
    <3>1. ls[j] \in Nodes BY <1>14, ElementOfSeq
    <3> QED BY <1>16, <3>1
  <2> QED BY <1>14, <2>1, FanAgrees
<1>18. FanOf(vals, G, hi, hs)
  <2>1. \A j \in 1 .. Len(hs) : G[hs[j]] = F[hs[j]]
    <3> TAKE j \in 1 .. Len(hs)
    <3>1. hs[j] \in Nodes BY <1>14, ElementOfSeq
    <3> QED BY <1>16, <3>1
  <2> QED BY <1>14, <2>1, FanAgrees
<1>19. /\ keys'[par] = lo /\ keys'[inst] = hi /\ sons'[par] = ls /\ sons'[inst] = hs /\ Inners' = Inners \cup {inst}
       /\ \A n \in Inners \ {par} : keys'[n] = keys[n] /\ sons'[n] = sons[n]
  <2>1. par # inst BY <1>6, <1>12
  <2>2. keys'[par] = lo /\ keys'[inst] = hi /\ DOMAIN keys' = Inners \cup {inst} /\ \A n \in Inners \ {par} : keys'[n] = keys[n]
    BY <1>1, <1>6, <1>12, <2>1 DEF With, Two, Inners
  <2>3. sons'[par] = ls /\ sons'[inst] = hs /\ \A n \in Inners \ {par} : sons'[n] = sons[n]
    BY <1>1, <1>6, <1>12, <2>1 DEF With, Two
  <2> QED BY <2>2, <2>3 DEF Inners
<1>20. \A q \in Inners : FanOf(vals, G, keys[q], sons[q]) /\ G[q] = G[sons[q][1]]
  BY <1>15 DEF AboveFits
<1>21. ASSUME NEW q \in Inners' PROVE G[q] = G[sons'[q][1]] /\ LoneFan(G, q)
  <2>1. CASE q = inst BY <1>16, <1>18, <1>19, <2>1 DEF LoneFan
  <2>2. CASE q = par
    <3>1. G[par] = G[s[1]] BY <1>6, <1>20 DEF s
    <3> QED BY <1>14, <1>17, <1>19, <2>2, <3>1 DEF LoneFan
  <2>3. CASE q # inst /\ q # par
    <3>1. q \in Inners /\ keys'[q] = keys[q] /\ sons'[q] = sons[q]
      BY <1>19, <2>3
    <3> QED BY <1>20, <3>1 DEF LoneFan
  <2> QED BY <2>1, <2>2, <2>3
<1>22. work'.key = Head1(vals, G, work'.inst)
  <2>1. work'.key = up /\ work'.inst = inst
    <3>1. work' = [work EXCEPT !.cur = par, !.inst = inst, !.key = up] BY <1>1
    <3>2. work.pc = "ascend" /\ Working BY <1>1 DEF IInv
    <3> QED BY <3>1, <3>2 DEF Working
  <2> QED BY <1>14, <1>16, <2>1 DEF Head1
<1>23. (\A n \in Nodes' : G[n] \in DOMAIN vals) /\ \A l \in DOMAIN vals : G[l] = l
  BY <1>11, <1>15 DEF AboveFits
<1> QED BY <1>1, <1>21, <1>22, <1>23, FansStep

-----------------------------------------------------------------------------
(* Keys of two neighbours and the separator between them, taken together: *)
(* they stay the same where one of the two borrows. *)
Grouped(a, u, y, c) == ((a \o u) \o y) \o c = a \o ((u \o y) \o c)

LEMMA Groups ==
  ASSUME NEW E, NEW a \in Seq(E), NEW u \in Seq(E), NEW y \in Seq(E), NEW c \in Seq(E)
  PROVE  Grouped(a, u, y, c)
<1> DEFINE uy == u \o y
<1>1. Associate(a, u, y) BY Associative
<1>2. uy \in Seq(E) BY ConcatType
<1> HIDE DEF uy
<1>3. Associate(a, uy, c) BY <1>2, Associative
<1> QED BY <1>1, <1>3 DEF Associate, Grouped, uy

Opened(k, h, E) ==
  /\ k = Joins(Slice(k, 0, h), At(k, h), Slice(k, h + 1, Len(k))) /\ At(k, h) \in E
  /\ Slice(k, 0, h) \in Seq(E) /\ Slice(k, h + 1, Len(k)) \in Seq(E)
  /\ Len(Slice(k, 0, h)) = h /\ Len(Slice(k, h + 1, Len(k))) = Len(k) - (h + 1)

LEMMA Opens ==
  ASSUME NEW E, NEW k \in Seq(E), NEW h \in 0 .. Len(k) - 1
  PROVE  Opened(k, h, E)
<1> DEFINE zero == 0
           g == h + 1
           n == Len(k)
<1>1. n \in Nat BY LenProperties
<1>2. g \in 0 .. n /\ zero \in 0 .. h /\ h \in 0 .. n /\ n \in 0 .. n /\ h \in 0 .. g /\ zero \in 0 .. g /\ g \in 0 .. n
  BY <1>1
<1> HIDE DEF zero, g, n
<1>3. Slice(k, zero, g) = Slice(k, zero, h) \o Slice(k, h, g)
  BY <1>2, SliceSplit DEF n
<1>4. Slice(k, zero, n) = Slice(k, zero, g) \o Slice(k, g, n)
  BY <1>2, SliceSplit DEF n
<1>5. Slice(k, h, g) = <<At(k, h)>> /\ At(k, h) \in E BY SliceOne DEF g
<1>6. Slice(k, zero, n) = k BY SliceAll DEF zero, n
<1>7. Sliced(k, zero, h, E) BY <1>2, Slices DEF n
<1>8. Sliced(k, g, n, E) BY <1>2, Slices DEF n
<1>9. k = Joins(Slice(k, zero, h), At(k, h), Slice(k, g, n))
  BY <1>3, <1>4, <1>5, <1>6 DEF Joins
<1>10. Slice(k, zero, h) \in Seq(E) /\ Len(Slice(k, zero, h)) = h
  <2>1. h - zero = h BY <1>1 DEF zero, n
  <2> QED BY <1>7, <2>1 DEF Sliced
<1>11. Slice(k, g, n) \in Seq(E) /\ Len(Slice(k, g, n)) = n - g
  BY <1>8 DEF Sliced
<1> QED BY <1>5, <1>9, <1>10, <1>11 DEF Opened, zero, g, n

KeysLow(k, c, x, h) ==
  Joins(Slice(k, 0, h), At(k, h), Joins(Slice(k, h + 1, Len(k)), x, c)) = Joins(k, x, c)

LEMMA LowKeys ==
  ASSUME NEW E, NEW k \in Seq(E), NEW h \in 0 .. Len(k) - 1, NEW c \in Seq(E), NEW x \in E
  PROVE  KeysLow(k, c, x, h)
<1> DEFINE A == Slice(k, 0, h)
           U == Slice(k, h + 1, Len(k))
           key == At(k, h)
           y == <<x>>
           w == <<key>>
           a == A \o w
<1>1. Opened(k, h, E) BY Opens
<1>2. k = (A \o w) \o U /\ w \in Seq(E) /\ A \in Seq(E) /\ U \in Seq(E) /\ y \in Seq(E)
  BY <1>1, SMTT(60) DEF Opened, Joins
<1> HIDE DEF A, U, w, y
<1>3. a \in Seq(E) BY <1>2, ConcatType
<1> HIDE DEF a
<1>4. Grouped(a, U, y, c) BY <1>2, <1>3, Groups
<1>5. (k \o y) \o c = a \o ((U \o y) \o c) BY <1>2, <1>4 DEF Grouped, a
<1> QED BY <1>5 DEF KeysLow, Joins, a, A, U, y, w

KeysHigh(c, x, k, h) ==
  Joins(Joins(c, x, Slice(k, 0, h)), At(k, h), Slice(k, h + 1, Len(k))) = Joins(c, x, k)

LEMMA HighKeys ==
  ASSUME NEW E, NEW k \in Seq(E), NEW h \in 0 .. Len(k) - 1, NEW c \in Seq(E), NEW x \in E
  PROVE  KeysHigh(c, x, k, h)
<1> DEFINE A == Slice(k, 0, h)
           U == Slice(k, h + 1, Len(k))
           key == At(k, h)
           y == <<x>>
           w == <<key>>
           a == c \o y
<1>1. Opened(k, h, E) BY Opens
<1>2. k = (A \o w) \o U /\ w \in Seq(E) /\ A \in Seq(E) /\ U \in Seq(E) /\ y \in Seq(E)
  BY <1>1 DEF Opened, Joins
<1> HIDE DEF A, U, w, y
<1>3. a \in Seq(E) BY <1>2, ConcatType
<1> HIDE DEF a
<1>4. Grouped(a, A, w, U) BY <1>2, <1>3, Groups
<1>5. ((a \o A) \o w) \o U = a \o k BY <1>2, <1>4 DEF Grouped
<1> QED BY <1>5 DEF KeysHigh, Joins, a, A, U, y, w

-----------------------------------------------------------------------------
(* Two neighbours below par, of which the running merge has cut one. *)
Cutting(z, k, s) ==
  IF z = work.cur THEN k = Cut(keys[z], work.at - 1) /\ s = Cut(sons[z], work.at) ELSE k = keys[z] /\ s = sons[z]

SonsOut(z, s) == s \in Seq(Nodes) /\ \A j \in 1 .. Len(s) : s[j] \in Nodes /\ parent[s[j]] = z

HalfOf(F, z, k, s) ==
  /\ k \in Seq(Keys) /\ FanOf(vals, F, k, s) /\ Len(s) >= 1 /\ F[z] = F[s[1]]
  /\ SonsOut(z, s)

LEMMA OthersOut ==
  ASSUME TreeInv, root # NULL, work.pc = "rebalance", NEW z \in Inners, z # work.cur
  PROVE  SonsOut(z, sons[z])
<1>1. ShapeInv /\ Typed BY DEF TreeInv, ShapeInv
<1>2. Up = parent /\ Kids[z] = sons[z] BY <1>1, KidsAre
<1>3. sons[z] \in Seq(Nodes) BY <1>1, <1>2, SonsUnique
<1>4. \A w \in Members(sons[z]) : Up[w] = z BY <1>1, <1>2, SonsUnique
<1>5. ASSUME NEW j \in 1 .. Len(sons[z]) PROVE sons[z][j] \in Nodes /\ parent[sons[z][j]] = z
  <2>1. sons[z][j] \in Nodes BY <1>3, ElementOfSeq
  <2>2. sons[z][j] \in Members(sons[z]) BY DEF Members
  <2> QED BY <1>2, <1>4, <2>1, <2>2
<1> QED BY <1>3, <1>5 DEF SonsOut

LEMMA CutOutSons ==
  ASSUME TreeInv, root # NULL, work.pc = "rebalance", NEW s, s = Cut(sons[work.cur], work.at)
  PROVE  SonsOut(work.cur, s)
<1>1. Losing(work.cur, s) BY LosingIs DEF TreeInv
<1>2. s \in Seq(Nodes) /\ \A w \in Members(s) : parent[w] = work.cur
  BY <1>1 DEF Losing
<1>3. ASSUME NEW j \in 1 .. Len(s) PROVE s[j] \in Nodes /\ parent[s[j]] = work.cur
  <2>1. s[j] \in Nodes BY <1>2, ElementOfSeq
  <2>2. s[j] \in Members(s) BY DEF Members
  <2> QED BY <1>2, <2>1, <2>2
<1> QED BY <1>2, <1>3 DEF SonsOut

LEMMA HalfHeld ==
  ASSUME TreeInv, root # NULL, work.pc = "rebalance", NEW F, Fans(F), NEW z \in Inners, NEW k, NEW s, Cutting(z, k, s)
  PROVE  HalfOf(F, z, k, s)
<1>1. CASE z = work.cur
  <2>1. k = Cut(keys[z], work.at - 1) /\ s = Cut(sons[z], work.at)
    BY <1>1 DEF Cutting
  <2>2. CutFan(F, z, Cut(keys[z], work.at - 1), Cut(sons[z], work.at))
    BY <1>1, CutFanIs
  <2>3. CutFan(F, z, k, s) BY <2>1, <2>2
  <2>4. SonsOut(z, s) BY <1>1, <2>1, CutOutSons
  <2> QED BY <2>3, <2>4 DEF CutFan, HalfOf
<1>2. CASE z # work.cur
  <2>1. k = keys[z] /\ s = sons[z] BY <1>2 DEF Cutting
  <2>2. SonsOut(z, s) BY <1>2, <2>1, OthersOut
  <2>3. FanOf(vals, F, k, s) /\ F[z] = F[s[1]]
    BY <1>2, <2>1 DEF Fans, Fan, Leads
  <2>4. k \in Seq(Keys) BY <2>1 DEF TreeInv, Filled
  <2>5. Len(k) \in Nat BY <2>4, LenProperties
  <2>6. Len(s) >= 1 BY <2>3, <2>5 DEF FanOf
  <2> QED BY <2>2, <2>3, <2>4, <2>6 DEF HalfOf
<1> QED BY <1>1, <1>2

Borders(F, x, y, par, i, kx, sx, ky, sy) ==
  /\ x \in Inners /\ y \in Inners /\ par \in Inners /\ x # y /\ par # x /\ par # y /\ y \in Nodes
  /\ HalfOf(F, x, kx, sx) /\ HalfOf(F, y, ky, sy)
  /\ i \in Nat /\ Len(keys[par]) \in Nat /\ i + 1 \in 1 .. Len(keys[par]) /\ keys[par] \in Seq(Keys)
  /\ At(keys[par], i) = Head1(vals, F, sy[1]) /\ At(keys[par], i) \in Keys
  /\ sons[par][i + 2] = y /\ (\A j \in 1 .. Len(sons[par]) : j # i + 2 => sons[par][j] \in Nodes \ {y})
  /\ (\A j \in 1 .. Len(sx) : sx[j] \in Nodes \ {y}) /\ (\A j \in 1 .. Len(sy) : sy[j] \in Nodes \ {y})
  /\ (\A q \in Inners \ {x, y} : FanOf(vals, F, keys[q], sons[q]))
  /\ \A q \in Inners \ {x, y, par} : \A j \in 1 .. Len(sons[q]) : sons[q][j] \in Nodes \ {y}

LEMMA BordersAre ==
  ASSUME TreeInv, root # NULL, work.pc = "rebalance", NEW F, Fans(F), NEW x, NEW y, NEW par, NEW i,
         TwoInners(x, y, par, i), work.cur = x \/ work.cur = y, NEW kx, NEW sx, NEW ky, NEW sy, Cutting(x, kx, sx), Cutting(y, ky, sy)
  PROVE  Borders(F, x, y, par, i, kx, sx, ky, sy)
<1>1. /\ x \in Inners /\ y \in Inners /\ par \in Inners /\ x # y /\ par # x /\ par # y /\ y \in Nodes
      /\ keys[par] \in Seq(Keys) /\ At(keys[par], i) \in Keys
  BY DEF TwoInners, InnerAt
<1>2. i \in Nat /\ Len(keys[par]) \in Nat /\ i + 1 \in 1 .. Len(keys[par])
  <2>1. i \in 0 .. Len(keys[par]) - 1 BY DEF TwoInners
  <2>2. Len(keys[par]) \in Nat BY <1>1, LenProperties
  <2> QED BY <2>1, <2>2
<1>3. HalfOf(F, x, kx, sx) /\ HalfOf(F, y, ky, sy)
  <2>1. HalfOf(F, x, kx, sx) BY <1>1, HalfHeld
  <2>2. HalfOf(F, y, ky, sy) BY <1>1, HalfHeld
  <2> QED BY <2>1, <2>2
<1>4. parent[y] = par /\ At(sons[par], i + 1) = y /\ IsSon(y, par) /\ pos[y] = i + 1
  BY DEF TwoInners, Beside
<1>5. sons[par][i + 2] = y
  <2>1. (i + 1) + 1 = i + 2 BY <1>2
  <2> QED BY <1>4, <2>1 DEF At
<1>6. ASSUME NEW j \in 1 .. Len(sons[par]), j # i + 2 PROVE sons[par][j] \in Nodes \ {y}
  <2>1. sons[par] \in Seq(Nodes) /\ Unique(sons[par]) BY <1>4 DEF IsSon
  <2>2. Len(sons[par]) = Len(keys[par]) + 1 BY <1>1 DEF TreeInv, Filled
  <2>3. i + 2 \in 1 .. Len(sons[par]) BY <1>2, <2>2
  <2>4. sons[par][j] # y BY <1>5, <1>6, <2>1, <2>3 DEF Unique
  <2>5. sons[par][j] \in Nodes BY <2>1, ElementOfSeq
  <2> QED BY <2>4, <2>5
<1>7. (\A j \in 1 .. Len(sx) : sx[j] \in Nodes \ {y}) /\ \A j \in 1 .. Len(sy) : sy[j] \in Nodes \ {y}
  BY <1>1, <1>3, <1>4 DEF HalfOf, SonsOut
<1>8. ASSUME NEW q \in Inners \ {x, y} PROVE FanOf(vals, F, keys[q], sons[q])
  BY DEF Fans, Fan
<1>9. ASSUME NEW q \in Inners \ {x, y, par}, NEW j \in 1 .. Len(sons[q]) PROVE sons[q][j] \in Nodes \ {y}
  <2>1. SonsOut(q, sons[q]) BY OthersOut
  <2> QED BY <1>4, <2>1 DEF SonsOut
<1>10. At(keys[par], i) = Head1(vals, F, sy[1])
  <2>1. keys[par][i + 1] = Head1(vals, F, sons[par][(i + 1) + 1])
    BY <1>1, <1>2, <1>8 DEF FanOf
  <2>2. (i + 1) + 1 = i + 2 BY <1>2
  <2>3. F[y] = F[sy[1]] BY <1>3 DEF HalfOf
  <2>4. keys[par][i + 1] = Head1(vals, F, y) BY <1>5, <2>1, <2>2
  <2> QED BY <2>3, <2>4 DEF Head1, At
<1> QED BY <1>1, <1>2, <1>3, <1>5, <1>6, <1>7, <1>8, <1>9, <1>10 DEF Borders

-----------------------------------------------------------------------------
(* One neighbour takes all of the other. *)
LEMMA MergeNext ==
  ASSUME NEW F, Fans(F), Typed, NEW x, NEW y, NEW par, NEW i, NEW kx, NEW sx, NEW ky, NEW sy,
         Borders(F, x, y, par, i, kx, sx, ky, sy), NEW k, k = Joins(kx, At(keys[par], i), ky), NEW s, s = sx \o sy,
         keys' = Without([keys EXCEPT ![x] = k], y), sons' = Without([sons EXCEPT ![x] = s], y),
         Nodes' = Nodes \ {y}, vals' = vals, work'.pc = "rebalance", work'.cur = par, work'.at = i + 1
  PROVE  Separated'
<1> DEFINE sep == At(keys[par], i)
<1>1. /\ x \in Inners /\ y \in Inners /\ par \in Inners /\ x # y /\ par # x /\ par # y
      /\ kx \in Seq(Keys) /\ ky \in Seq(Keys) /\ sx \in Seq(Nodes) /\ sy \in Seq(Nodes) /\ Len(sx) >= 1
      /\ FanOf(vals, F, kx, sx) /\ FanOf(vals, F, ky, sy) /\ F[x] = F[sx[1]] /\ sep \in Keys /\ sep = Head1(vals, F, sy[1])
      /\ FanOf(vals, F, keys[par], sons[par])
  BY DEF Borders, HalfOf, SonsOut
<1>2. \A q \in Inners \ {x, y} : FanOf(vals, F, keys[q], sons[q]) BY DEF Borders
<1> HIDE DEF sep
<1>3. k = Joins(kx, sep, ky) BY DEF sep
<1>4. FanOf(vals, F, k, s)
  <2>1. Len(sy) = Len(ky) + 1 BY <1>1 DEF FanOf
  <2>2. FanJoins(vals, F, kx, sep, ky, sx, sy) BY <1>1, <2>1, FanJoin
  <2> QED BY <1>1, <1>3, <2>2 DEF FanJoins
<1>5. s[1] = sx[1]
  <2>1. Len(sx) # 0 BY <1>1, LenProperties
  <2> QED BY <1>1, <2>1, FirstStays
<1>6. /\ Inners' = Inners \ {y} /\ keys'[x] = k /\ sons'[x] = s
      /\ \A q \in Inners \ {x, y} : keys'[q] = keys[q] /\ sons'[q] = sons[q]
  BY <1>1 DEF Without, Inners, Typed
<1>7. ASSUME NEW q \in Inners' PROVE F[q] = F[sons'[q][1]] /\ LoneFan(F, q)
  <2>1. CASE q = x BY <1>1, <1>4, <1>5, <1>6, <2>1 DEF LoneFan
  <2>2. CASE q = par
    <3>1. FanBut(vals, F, keys[par], sons[par], i + 1) BY <1>1 DEF FanOf, FanBut
    <3>2. F[par] = F[sons[par][1]] BY <1>1 DEF Fans, Leads
    <3> QED BY <1>1, <1>6, <2>2, <3>1, <3>2 DEF LoneFan
  <2>3. CASE q # x /\ q # par
    <3>1. q \in Inners \ {x, y} /\ keys'[q] = keys[q] /\ sons'[q] = sons[q]
      BY <1>6, <2>3
    <3>2. F[q] = F[sons[q][1]] BY <3>1 DEF Fans, Leads
    <3> QED BY <1>2, <3>1, <3>2 DEF LoneFan
  <2> QED BY <2>1, <2>2, <2>3
<1>8. (\A n \in Nodes' : F[n] \in DOMAIN vals) /\ \A l \in DOMAIN vals : F[l] = l
  BY DEF Fans, Leads
<1> QED BY <1>7, <1>8, FansStep

(* One neighbour gives a part to the other: the second has another first *)
(* leaf then, and its separator is the new one. *)
Shifted(F, x, y, par, i, a, sa, b, sb, key) ==
  /\ FanOf(vals, F, a, sa) /\ FanOf(vals, F, b, sb) /\ key = Head1(vals, F, sb[1])
  /\ F[x] = F[sa[1]] /\ F[sb[1]] \in DOMAIN vals
  /\ (\A j \in 1 .. Len(sa) : sa[j] \in Nodes \ {y}) /\ (\A j \in 1 .. Len(sb) : sb[j] \in Nodes \ {y}) /\ Len(sa) >= 1 /\ Len(sb) >= 1

Stays(s, t, S) ==
  (\A j \in 1 .. Len(s \o t) : (s \o t)[j] \in S) <=> (\A j \in 1 .. Len(s) : s[j] \in S) /\ \A j \in 1 .. Len(t) : t[j] \in S

LEMMA Staying ==
  ASSUME NEW E, NEW s \in Seq(E), NEW t \in Seq(E), NEW S
  PROVE  Stays(s, t, S)
<1>1. ConcatHas(s, t, E) BY MembersConcat
<1>2. Members(s \o t) = Members(s) \cup Members(t) BY <1>1 DEF ConcatHas
<1> QED BY <1>2 DEF Members, Stays

LEMMA Shifts ==
  ASSUME NEW F, Fans(F), NEW x, NEW y, NEW par, NEW i, NEW kx, NEW sx, NEW ky, NEW sy,
         Borders(F, x, y, par, i, kx, sx, ky, sy), NEW a \in Seq(Keys), NEW b \in Seq(Keys), NEW sa \in Seq(Nat), NEW sb \in Seq(Nat),
         Len(sa) = Len(a) + 1, Len(sb) = Len(b) + 1, NEW key \in Keys, Nodes \subseteq Nat,
         Joins(a, key, b) = Joins(kx, At(keys[par], i), ky), sa \o sb = sx \o sy
  PROVE  Shifted(F, x, y, par, i, a, sa, b, sb, key)
<1> DEFINE sep == At(keys[par], i)
<1>1. /\ kx \in Seq(Keys) /\ ky \in Seq(Keys) /\ sx \in Seq(Nodes) /\ sy \in Seq(Nodes) /\ Len(sx) >= 1
      /\ FanOf(vals, F, kx, sx) /\ FanOf(vals, F, ky, sy) /\ F[x] = F[sx[1]] /\ sep \in Keys /\ sep = Head1(vals, F, sy[1])
      /\ (\A j \in 1 .. Len(sx) : sx[j] \in Nodes \ {y}) /\ (\A j \in 1 .. Len(sy) : sy[j] \in Nodes \ {y})
  BY DEF Borders, HalfOf, SonsOut
<1>2. Joins(a, key, b) = Joins(kx, sep, ky) OBVIOUS
<1>3. Len(a) \in Nat /\ Len(b) \in Nat BY LenProperties
<1>4. Len(sa) >= 1 /\ Len(sb) >= 1 /\ Len(sa) # 0 /\ 1 \in 1 .. Len(sb) BY <1>3
<1> HIDE DEF sep
<1>5. FanOf(vals, F, Joins(kx, sep, ky), sx \o sy)
  <2>1. Len(sy) = Len(ky) + 1 BY <1>1 DEF FanOf
  <2>2. FanJoins(vals, F, kx, sep, ky, sx, sy) BY <1>1, <2>1, FanJoin
  <2> QED BY <1>1, <2>2 DEF FanJoins
<1>6. FanOf(vals, F, a, sa) /\ FanOf(vals, F, b, sb) /\ key = Head1(vals, F, sb[1])
  <2>1. FanJoins(vals, F, a, key, b, sa, sb) BY FanJoin
  <2>2. FanOf(vals, F, Joins(a, key, b), sa \o sb) BY <1>2, <1>5
  <2> QED BY <2>1, <2>2 DEF FanJoins
<1>7. F[x] = F[sa[1]]
  <2>1. Len(sx) # 0 BY <1>1, LenProperties
  <2>2. (sx \o sy)[1] = sx[1] BY <1>1, <2>1, FirstStays
  <2>3. (sa \o sb)[1] = sa[1] BY <1>4, FirstStays
  <2> QED BY <1>1, <2>2, <2>3
<1>8. (\A j \in 1 .. Len(sa) : sa[j] \in Nodes \ {y}) /\ (\A j \in 1 .. Len(sb) : sb[j] \in Nodes \ {y})
  <2> DEFINE S == Nodes \ {y}
  <2> HIDE DEF S
  <2>1. Stays(sx, sy, S) BY <1>1, Staying
  <2>2. Stays(sa, sb, S) BY Staying
  <2> QED BY <1>1, <2>1, <2>2 DEF Stays, S
<1>9. sb[1] \in Nodes
  <2>1. sb[1] \in Members(sa \o sb)
    <3>1. ConcatHas(sa, sb, Nat) BY MembersConcat
    <3>2. sb[1] \in Members(sb) BY <1>4 DEF Members
    <3> QED BY <3>1, <3>2 DEF ConcatHas
  <2>2. ConcatHas(sx, sy, Nodes) BY <1>1, MembersConcat
  <2>3. sb[1] \in Members(sx) \cup Members(sy) BY <2>1, <2>2 DEF ConcatHas
  <2> QED BY <1>1, <2>3 DEF Members
<1>10. F[sb[1]] \in DOMAIN vals BY <1>9 DEF Fans, Leads
<1> QED BY <1>4, <1>6, <1>7, <1>8, <1>10 DEF Shifted

LEMMA BorrowNext ==
  ASSUME NEW F, Fans(F), Typed, NEW x, NEW y, NEW par, NEW i, NEW kx, NEW sx, NEW ky, NEW sy,
         Borders(F, x, y, par, i, kx, sx, ky, sy), NEW a, NEW b, NEW sa, NEW sb, NEW key,
         Shifted(F, x, y, par, i, a, sa, b, sb, key), a \in Seq(Keys), b \in Seq(Keys),
         NEW f, NEW g, PairOf(f, x, a, y, b), PairOf(g, x, sa, y, sb), NEW j, j = i + 1,
         \A q \in Inners : keys[q] \in Seq(Keys),
         keys' = [With(keys, f) EXCEPT ![par] = [@ EXCEPT ![j] = key]], sons' = With(sons, g),
         Nodes' = Nodes, vals' = vals, work'.pc # "ascend"
  PROVE  Separated'
<1>1. /\ x \in Inners /\ y \in Inners /\ par \in Inners /\ x # y /\ par # x /\ par # y
      /\ i \in Nat /\ Len(keys[par]) \in Nat /\ j \in 1 .. Len(keys[par]) /\ keys[par] \in Seq(Keys)
      /\ sons[par][i + 2] = y /\ (\A l \in 1 .. Len(sons[par]) : l # i + 2 => sons[par][l] \in Nodes \ {y})
  BY DEF Borders
<1>2. \A q \in Inners \ {x, y} : FanOf(vals, F, keys[q], sons[q]) BY DEF Borders
<1>3. \A q \in Inners \ {x, y, par} : \A l \in 1 .. Len(sons[q]) : sons[q][l] \in Nodes \ {y}
  BY DEF Borders
<1>4. Inners' = Inners /\ keys'[x] = a /\ keys'[y] = b /\ (\A q \in Inners \ {x, y, par} : keys'[q] = keys[q])
      /\ keys'[par] = [keys[par] EXCEPT ![j] = key]
  <2> DEFINE h == With(keys, f)
  <2>1. DOMAIN h = Inners /\ h[x] = a /\ h[y] = b /\ \A n \in Inners \ {x, y} : h[n] = keys[n]
    BY <1>1 DEF With, PairOf, Inners
  <2> HIDE DEF h
  <2>2. keys' = [h EXCEPT ![par] = [h[par] EXCEPT ![j] = key]] BY DEF h
  <2> QED BY <1>1, <2>1, <2>2 DEF Inners
<1>5. sons'[x] = sa /\ sons'[y] = sb /\ \A q \in Inners \ {x, y} : sons'[q] = sons[q]
  BY <1>1 DEF With, PairOf, Typed
<1>6. PICK G : G = [n \in Nodes |-> IF n = y THEN F[sb[1]] ELSE F[n]] OBVIOUS
<1>7. G[y] = F[sb[1]] /\ \A n \in Nodes \ {y} : G[n] = F[n]
  <2>1. y \in Nodes BY DEF Borders
  <2> QED BY <1>6, <2>1
<1>8. /\ FanOf(vals, F, a, sa) /\ FanOf(vals, F, b, sb) /\ key = Head1(vals, F, sb[1])
      /\ F[x] = F[sa[1]] /\ F[sb[1]] \in DOMAIN vals
      /\ (\A l \in 1 .. Len(sa) : sa[l] \in Nodes \ {y}) /\ (\A l \in 1 .. Len(sb) : sb[l] \in Nodes \ {y}) /\ Len(sa) >= 1 /\ Len(sb) >= 1
  BY DEF Shifted
<1>9. FanOf(vals, G, a, sa) /\ FanOf(vals, G, b, sb) /\ G[x] = G[sa[1]] /\ G[y] = G[sb[1]]
  <2>1. (\A l \in 1 .. Len(sa) : G[sa[l]] = F[sa[l]]) /\ (\A l \in 1 .. Len(sb) : G[sb[l]] = F[sb[l]])
    BY <1>7, <1>8
  <2>2. FanOf(vals, G, a, sa) BY <1>8, <2>1, FanAgrees
  <2>3. FanOf(vals, G, b, sb) BY <1>8, <2>1, FanAgrees
  <2>4. Len(sa) \in Nat /\ Len(sb) \in Nat
    <3>1. Len(a) \in Nat /\ Len(b) \in Nat BY LenProperties
    <3> QED BY <1>8, <3>1 DEF FanOf
  <2>5. G[sa[1]] = F[sa[1]] /\ G[sb[1]] = F[sb[1]] BY <1>8, <2>1, <2>4
  <2>6. x \in Nodes \ {y} BY <1>1 DEF Typed
  <2> QED BY <1>7, <1>8, <2>2, <2>3, <2>5, <2>6
<1>10. FanOf(vals, F, keys[par], sons[par]) /\ Len(sons[par]) = Len(keys[par]) + 1
  BY <1>1, <1>2 DEF FanOf
<1>11. FanOf(vals, G, keys'[par], sons[par])
  <2>1. ASSUME NEW l \in 1 .. Len(keys[par]) PROVE keys'[par][l] = Head1(vals, G, sons[par][l + 1])
    <3>1. l + 1 \in 1 .. Len(sons[par]) BY <1>1, <1>10, SMTT(60)
    <3>2. CASE l = j
      <4>1. l + 1 = i + 2 BY <1>1, <3>2
      <4>2. keys'[par][l] = key BY <1>4, <3>2
      <4> QED BY <1>1, <1>7, <1>8, <4>1, <4>2 DEF Head1
    <3>3. CASE l # j
      <4>1. l + 1 # i + 2 BY <1>1, <3>3
      <4>2. sons[par][l + 1] \in Nodes \ {y} BY <1>1, <3>1, <4>1
      <4>3. keys'[par][l] = keys[par][l] BY <1>1, <1>4, <3>3
      <4>4. keys[par][l] = Head1(vals, F, sons[par][l + 1]) BY <1>10 DEF FanOf
      <4> QED BY <1>7, <4>2, <4>3, <4>4 DEF Head1
    <3> QED BY <3>2, <3>3
  <2>2. Len(keys'[par]) = Len(keys[par]) BY <1>1, <1>4
  <2> QED BY <1>10, <2>1, <2>2 DEF FanOf
<1>12. G[par] = G[sons[par][1]]
  <2>1. 1 \in 1 .. Len(sons[par]) /\ 1 # i + 2 BY <1>1, <1>10, SMTT(60)
  <2>2. sons[par][1] \in Nodes \ {y} BY <1>1, <2>1
  <2>3. F[par] = F[sons[par][1]] /\ par \in Nodes \ {y}
    BY <1>1 DEF Fans, Leads, Typed
  <2> QED BY <1>7, <2>2, <2>3
<1>13. ASSUME NEW q \in Inners' PROVE G[q] = G[sons'[q][1]] /\ LoneFan(G, q)
  <2>1. CASE q = x \/ q = y BY <1>4, <1>5, <1>9, <2>1 DEF LoneFan
  <2>2. CASE q = par BY <1>1, <1>5, <1>11, <1>12, <2>2 DEF LoneFan
  <2>3. CASE q \notin {x, y, par}
    <3>1. q \in Inners \ {x, y, par} /\ keys'[q] = keys[q] /\ sons'[q] = sons[q] /\ q \in Nodes \ {y}
      BY <1>4, <1>5, <2>3 DEF Typed
    <3>2. \A l \in 1 .. Len(sons[q]) : G[sons[q][l]] = F[sons[q][l]]
      BY <1>3, <1>7, <3>1
    <3>3. FanOf(vals, F, keys[q], sons[q]) BY <1>2, <3>1
    <3>4. keys[q] \in Seq(Keys) BY <3>1
    <3>5. FanOf(vals, G, keys[q], sons[q]) BY <3>2, <3>3, <3>4, FanAgrees
    <3>6. 1 \in 1 .. Len(sons[q])
      <4>1. Len(keys[q]) \in Nat BY <3>4, LenProperties
      <4> QED BY <3>3, <4>1 DEF FanOf
    <3>7. F[q] = F[sons[q][1]] BY <3>1 DEF Fans, Leads
    <3>8. G[q] = G[sons[q][1]] BY <1>7, <3>1, <3>2, <3>6, <3>7
    <3> QED BY <3>1, <3>5, <3>8 DEF LoneFan
  <2> QED BY <2>1, <2>2, <2>3
<1>14. ASSUME NEW n \in Nodes' PROVE G[n] \in DOMAIN vals
  BY <1>7, <1>8 DEF Fans, Leads
<1>15. ASSUME NEW l \in DOMAIN vals PROVE G[l] = l
  <2>1. l \in Nodes \ {y} BY <1>1 DEF Typed
  <2> QED BY <1>7, <2>1 DEF Fans, Leads
<1> QED BY <1>13, <1>14, <1>15, FansStep

LEMMA MergedSep ==
  ASSUME IInv, Separated, root # NULL, work.pc = "rebalance", NEW x, NEW y, NEW par, NEW i, TwoInners(x, y, par, i),
         work.cur = x \/ work.cur = y, NEW kx, NEW sx, NEW ky, NEW sy, Cutting(x, kx, sx), Cutting(y, ky, sy),
         NEW k, k = Joins(kx, At(keys[par], i), ky), NEW s, s = sx \o sy, NEW told, NEW j, j = i + 1,
         InnerMerged(x, k, s, y, told, par, j)
  PROVE  Separated'
<1>0. TreeInv BY DEF IInv
<1>1. PICK F : Fans(F) BY <1>0, FansAre
<1>2. Borders(F, x, y, par, i, kx, sx, ky, sy) BY <1>0, <1>1, BordersAre
<1>3. keys' = Without([keys EXCEPT ![x] = k], y) /\ sons' = Without([sons EXCEPT ![x] = s], y) /\ vals' = vals
  BY DEF InnerMerged
<1>4. Nodes' = Nodes \ {y}
  <2> DEFINE a == Adopted(parent, s, FloorHalf .. 2 * FloorHalf, x)
  <2>1. DOMAIN a = DOMAIN parent BY DEF Adopted
  <2> HIDE DEF a
  <2>2. parent' = Without(a, y) BY DEF InnerMerged, a
  <2> QED BY <2>1, <2>2 DEF Nodes, Without
<1>5. work' = [work EXCEPT !.cur = par, !.at = j] BY DEF InnerMerged
<1>6. work'.pc = "rebalance" /\ work'.cur = par /\ work'.at = i + 1
  <2>1. Working BY DEF IInv
  <2> QED BY <1>5, <2>1 DEF Working
<1>7. Typed BY <1>0 DEF TreeInv, ShapeInv
<1> QED BY <1>1, <1>2, <1>3, <1>4, <1>6, <1>7, MergeNext, ZenonT(60)

LEMMA InnerIntoLeftSep ==
  ASSUME IInv, Separated, InnerIntoLeft
  PROVE  Separated'
<1> DEFINE n == work.cur
           par == parent[n]
           lhs == At(sons[par], pos[n] - 1)
           i == pos[n] - 1
           j == pos[n]
           told == FloorHalf .. 2 * FloorHalf
           sep == At(keys[par], pos[n] - 1)
           c == Cut(keys[n], work.at - 1)
           d == Cut(sons[n], work.at)
           kl == keys[lhs]
           sl == sons[lhs]
           k == kl \o <<sep>> \o c
           s == sl \o d
<1>1. /\ work.pc = "rebalance" /\ UsesLeft(par, pos[n]) /\ parent[n] # NULL /\ Len(keys[n]) = FloorHalf
      /\ InnerMerged(lhs, k, s, n, told, par, j)
  BY DEF InnerIntoLeft, In
<1>2. UnderTwo(n, work.at - 1) BY <1>1, UnderTwoIs
<1>3. TwoInners(lhs, n, par, i) /\ TreeInv /\ root # NULL
  BY <1>1, <1>2 DEF UnderTwo
<1>4. lhs # n /\ pos[n] \in Nat /\ i \in Nat
  <2>1. pos[n] \in Nat BY <1>3 DEF TwoInners, Beside, IsSon
  <2>2. i \in 0 .. Len(keys[par]) - 1 BY <1>3 DEF TwoInners
  <2> QED BY <1>3, <2>1, <2>2, SMTT(60) DEF TwoInners
<1>5. Cutting(lhs, kl, sl) /\ Cutting(n, c, d) BY <1>4 DEF Cutting
<1>6. k = Joins(kl, At(keys[par], i), c) BY DEF Joins
<1>7. j = i + 1 BY <1>4
<1>8. s = sl \o d /\ work.cur = n OBVIOUS
<1> HIDE DEF n, par, lhs, i, j, told, c, d, k, s, kl, sl
<1> QED BY <1>1, <1>3, <1>5, <1>6, <1>7, <1>8, MergedSep

LEMMA InnerIntoRightSep ==
  ASSUME IInv, Separated, InnerIntoRight
  PROVE  Separated'
<1> DEFINE n == work.cur
           par == parent[n]
           rhs == At(sons[par], pos[n] + 1)
           i == pos[n]
           j == pos[n] + 1
           told == work.at .. 2 * FloorHalf
           sep == At(keys[par], pos[n])
           c == Cut(keys[n], work.at - 1)
           d == Cut(sons[n], work.at)
           kr == keys[rhs]
           sr == sons[rhs]
           k == c \o <<sep>> \o kr
           s == d \o sr
<1>1. /\ work.pc = "rebalance" /\ ~UsesLeft(par, pos[n]) /\ parent[n] # NULL /\ Len(keys[n]) = FloorHalf
      /\ InnerMerged(n, k, s, rhs, told, par, j)
  BY DEF InnerIntoRight, In
<1>2. UnderTwo(n, work.at - 1) BY <1>1, UnderTwoIs
<1>3. TwoInners(n, rhs, par, i) /\ TreeInv /\ root # NULL
  BY <1>1, <1>2 DEF UnderTwo
<1>4. rhs # n BY <1>3 DEF TwoInners
<1>5. Cutting(rhs, kr, sr) /\ Cutting(n, c, d) BY <1>4 DEF Cutting
<1>6. k = Joins(c, At(keys[par], i), kr) BY DEF Joins
<1>7. j = i + 1 /\ s = d \o sr /\ work.cur = n OBVIOUS
<1> HIDE DEF n, par, rhs, i, j, told, c, d, k, s, kr, sr
<1> QED BY <1>1, <1>3, <1>5, <1>6, <1>7, MergedSep

-----------------------------------------------------------------------------
(* Borrowing: what the two have afterwards, put together, is what they had. *)
Reparted(a, key, b, kx, sep, ky, sa, sb, sx, sy) ==
  /\ a \in Seq(Keys) /\ b \in Seq(Keys) /\ sa \in Seq(Nat) /\ sb \in Seq(Nat) /\ key \in Keys
  /\ Len(sa) = Len(a) + 1 /\ Len(sb) = Len(b) + 1
  /\ Joins(a, key, b) = Joins(kx, sep, ky) /\ sa \o sb = sx \o sy

LEMMA RepartsLow ==
  ASSUME NEW kx \in Seq(Keys), NEW sx \in Seq(Nat), Len(sx) = Len(kx) + 1, NEW sep \in Keys, NEW ky \in Seq(Keys),
         NEW sy \in Seq(Nat), Len(sy) = Len(ky) + 1, NEW h \in 0 .. Len(kx) - 1
  PROVE  Reparted(Slice(kx, 0, h), At(kx, h), Joins(Slice(kx, h + 1, Len(kx)), sep, ky), kx, sep, ky,
                  Slice(sx, 0, h + 1), Slice(sx, h + 1, Len(sx)) \o sy, sx, sy)
<1> DEFINE a == Slice(kx, 0, h)
           up == Slice(kx, h + 1, Len(kx))
           key == At(kx, h)
           b == Joins(up, sep, ky)
           d == h + 1
           sa == Slice(sx, 0, d)
           sb == Slice(sx, d, Len(sx)) \o sy
<1>1. Len(kx) \in Nat /\ Len(ky) \in Nat /\ Len(sx) \in Nat /\ Len(sy) \in Nat
  BY LenProperties
<1>2. d \in 0 .. Len(sx) /\ h \in Nat BY <1>1
<1>3. Opened(kx, h, Keys) BY Opens
<1>4. a \in Seq(Keys) /\ up \in Seq(Keys) /\ key \in Keys /\ Len(a) = h /\ Len(up) = Len(kx) - (h + 1)
  BY <1>3 DEF Opened
<1>5. KeysLow(kx, ky, sep, h) BY LowKeys
<1>6. Joins(a, key, b) = Joins(kx, sep, ky) BY <1>5 DEF KeysLow
<1> HIDE DEF a, up, key, d
<1>7. JoinsOf(b, up, sep, ky, Keys) BY <1>4, JoinsAre
<1>8. b \in Seq(Keys) /\ Len(b) = Len(up) + 1 + Len(ky) BY <1>7 DEF JoinsOf
<1>9. LowBorrow(sx, sy, d, Nat) BY <1>2, BorrowsLow
<1>10. sa \in Seq(Nat) /\ sb \in Seq(Nat) /\ sa \o sb = sx \o sy /\ Len(sa) = d /\ Len(sb) = (Len(sx) - d) + Len(sy)
  BY <1>9 DEF LowBorrow
<1> HIDE DEF b, sa, sb
<1>11. Len(sa) = Len(a) + 1 /\ Len(sb) = Len(b) + 1
  BY <1>1, <1>2, <1>4, <1>8, <1>10 DEF d
<1>12. Reparted(a, key, b, kx, sep, ky, sa, sb, sx, sy)
  BY <1>4, <1>6, <1>8, <1>10, <1>11 DEF Reparted
<1> QED BY <1>12 DEF a, up, key, b, d, sa, sb

LEMMA RepartsHigh ==
  ASSUME NEW kx \in Seq(Keys), NEW sx \in Seq(Nat), Len(sx) = Len(kx) + 1, NEW sep \in Keys, NEW ky \in Seq(Keys),
         NEW sy \in Seq(Nat), Len(sy) = Len(ky) + 1, NEW h \in 0 .. Len(ky) - 1
  PROVE  Reparted(Joins(kx, sep, Slice(ky, 0, h)), At(ky, h), Slice(ky, h + 1, Len(ky)), kx, sep, ky,
                  sx \o Slice(sy, 0, h + 1), Slice(sy, h + 1, Len(sy)), sx, sy)
<1> DEFINE up == Slice(ky, 0, h)
           b == Slice(ky, h + 1, Len(ky))
           key == At(ky, h)
           a == Joins(kx, sep, up)
           d == h + 1
           sa == sx \o Slice(sy, 0, d)
           sb == Slice(sy, d, Len(sy))
<1>1. Len(kx) \in Nat /\ Len(ky) \in Nat /\ Len(sx) \in Nat /\ Len(sy) \in Nat
  BY LenProperties
<1>2. d \in 0 .. Len(sy) /\ h \in Nat BY <1>1
<1>3. Opened(ky, h, Keys) BY Opens
<1>4. b \in Seq(Keys) /\ up \in Seq(Keys) /\ key \in Keys /\ Len(up) = h /\ Len(b) = Len(ky) - (h + 1)
  BY <1>3 DEF Opened
<1>5. KeysHigh(kx, sep, ky, h) BY HighKeys
<1>6. Joins(a, key, b) = Joins(kx, sep, ky) BY <1>5 DEF KeysHigh
<1> HIDE DEF b, up, key, d
<1>7. JoinsOf(a, kx, sep, up, Keys) BY <1>4, JoinsAre
<1>8. a \in Seq(Keys) /\ Len(a) = Len(kx) + 1 + Len(up) BY <1>7 DEF JoinsOf
<1>9. HighBorrow(sx, sy, d, Nat) BY <1>2, BorrowsHigh
<1>10. sa \in Seq(Nat) /\ sb \in Seq(Nat) /\ sa \o sb = sx \o sy /\ Len(sa) = Len(sx) + d /\ Len(sb) = Len(sy) - d
  BY <1>9 DEF HighBorrow
<1> HIDE DEF a, sa, sb
<1>11. Len(sa) = Len(a) + 1 /\ Len(sb) = Len(b) + 1
  BY <1>1, <1>2, <1>4, <1>8, <1>10 DEF d
<1>12. Reparted(a, key, b, kx, sep, ky, sa, sb, sx, sy)
  BY <1>4, <1>6, <1>8, <1>10, <1>11 DEF Reparted
<1> QED BY <1>12 DEF a, up, key, b, d, sa, sb

LEMMA BorrowedSep ==
  ASSUME IInv, Separated, root # NULL, work.pc = "rebalance", NEW x, NEW y, NEW par, NEW i, TwoInners(x, y, par, i),
         work.cur = x \/ work.cur = y, NEW kx, NEW sx, NEW ky, NEW sy, Cutting(x, kx, sx), Cutting(y, ky, sy),
         NEW a, NEW b, NEW sa, NEW sb, NEW key, Reparted(a, key, b, kx, At(keys[par], i), ky, sa, sb, sx, sy),
         NEW f, NEW g, PairOf(f, x, a, y, b), PairOf(g, x, sa, y, sb), NEW j, j = i + 1,
         keys' = [With(keys, f) EXCEPT ![par] = [@ EXCEPT ![j] = key]], sons' = With(sons, g),
         Nodes' = Nodes, vals' = vals, work' = Resume
  PROVE  Separated'
<1>1. TreeInv /\ Typed /\ Nodes \subseteq Nat
  BY DEF IInv, TreeInv, ShapeInv, Typed
<1>2. PICK F : Fans(F) BY <1>1, FansAre
<1>3. Borders(F, x, y, par, i, kx, sx, ky, sy) BY <1>1, <1>2, BordersAre
<1>4. /\ a \in Seq(Keys) /\ b \in Seq(Keys) /\ sa \in Seq(Nat) /\ sb \in Seq(Nat) /\ key \in Keys
      /\ Len(sa) = Len(a) + 1 /\ Len(sb) = Len(b) + 1
      /\ Joins(a, key, b) = Joins(kx, At(keys[par], i), ky) /\ sa \o sb = sx \o sy
  BY DEF Reparted
<1>5. Shifted(F, x, y, par, i, a, sa, b, sb, key)
  BY <1>1, <1>2, <1>3, <1>4, Shifts
<1>6. work'.pc # "ascend" BY DEF Resume, Erased, Returned
<1>7. \A q \in Inners : keys[q] \in Seq(Keys) BY <1>1 DEF TreeInv, Filled
<1> QED BY <1>1, <1>2, <1>3, <1>4, <1>5, <1>6, <1>7, BorrowNext

LEMMA InnerFromLeftSep ==
  ASSUME IInv, Separated, InnerFromLeft
  PROVE  Separated'
<1> DEFINE n == work.cur
           par == parent[n]
           j == pos[n]
           i == pos[n] - 1
           lhs == At(sons[par], j - 1)
           next == Len(keys[lhs])
           m == Moved(next)
           h == next - m
           c == Cut(keys[n], work.at - 1)
           d == Cut(sons[n], work.at)
           kl == keys[lhs]
           sl == sons[lhs]
           sep == At(keys[par], j - 1)
           b == Slice(kl, next - m + 1, next) \o <<sep>> \o c
           sb == Slice(sl, next - m + 1, next + 1) \o d
           a == Slice(kl, 0, next - m)
           sa == Slice(sl, 0, next - m + 1)
           key == At(kl, next - m)
           f == Two(n, b, lhs, a)
           g == Two(n, sb, lhs, sa)
<1>1. /\ work.pc = "rebalance" /\ UsesLeft(par, j) /\ next # FloorHalf /\ parent[n] # NULL /\ Len(keys[n]) = FloorHalf
      /\ keys' = [With(keys, f) EXCEPT ![par] = [@ EXCEPT ![j] = key]] /\ sons' = With(sons, g)
      /\ work' = Resume /\ vals' = vals
  BY ZenonT(60) DEF InnerFromLeft, In
<1>2. DOMAIN parent' = DOMAIN parent BY ZenonT(60) DEF InnerFromLeft, Adopted
<1>3. UnderTwo(n, work.at - 1) BY <1>1, UnderTwoIs, ZenonT(60)
<1>4. TwoInners(lhs, n, par, i) /\ TreeInv /\ root # NULL /\ c \in Seq(Keys) /\ Len(c) = FloorHalf - 1
      /\ d \in Seq(Nat) /\ Len(d) = FloorHalf
  BY <1>1, <1>3 DEF UnderTwo
<1>5. /\ lhs # n /\ kl \in Seq(Keys) /\ sl \in Seq(Nat) /\ next \in FloorHalf .. N /\ Len(sl) = next + 1
      /\ N \in Nat /\ FloorHalf \in Nat /\ FloorHalf >= 2 /\ use \in Uses /\ At(keys[par], i) \in Keys
      /\ i \in 0 .. Len(keys[par]) - 1 /\ keys[par] \in Seq(Keys)
  BY <1>4, SMTT(60) DEF TwoInners, InnerAt
<1>6. pos[n] \in Nat BY <1>4 DEF TwoInners, Beside, IsSon
<1>7. j = i + 1 BY <1>6
<1>8. Cutting(lhs, kl, sl) /\ Cutting(n, c, d) BY <1>5 DEF Cutting
<1>9. m \in 1 .. next - FloorHalf
  <2>0. next \in FloorHalf .. N /\ N \in Nat /\ FloorHalf \in Nat /\ next # FloorHalf
    BY <1>1, <1>5
  <2> HIDE DEF next, m
  <2>1. next \in Nat /\ next > FloorHalf /\ next <= N BY <2>0
  <2>2. Moved(next) \in 1 .. next - FloorHalf BY <1>5, <2>1, MovedIs, SMTT(60)
  <2> QED BY <2>2, SMTT(60) DEF m
<1>10. h \in 0 .. Len(kl) - 1 /\ Len(sl) = Len(kl) + 1 /\ Len(d) = Len(c) + 1
  <2>1. next \in Nat /\ next = Len(kl) BY <1>5
  <2> HIDE DEF m, next
  <2>2. next - m \in 0 .. next - 1 BY <1>5, <1>9, <2>1
  <2> QED BY <1>4, <1>5, <2>1, <2>2
<1>11. PairOf(f, lhs, a, n, b) /\ PairOf(g, lhs, sa, n, sb)
  <2> HIDE DEF a, b, sa, sb, lhs, n
  <2> QED BY <1>5, PairsOf
<1>12. /\ b = Joins(Slice(kl, h + 1, Len(kl)), At(keys[par], i), c) /\ a = Slice(kl, 0, h) /\ key = At(kl, h)
       /\ sa = Slice(sl, 0, h + 1) /\ sb = Slice(sl, h + 1, Len(sl)) \o d
  BY <1>5 DEF Joins
<1>13. work.cur = n OBVIOUS
<1> HIDE DEF n, par, j, i, lhs, next, m, h, c, d, kl, sl, sep, b, sb, a, sa, key, f, g
<1>14. Reparted(Slice(kl, 0, h), At(kl, h), Joins(Slice(kl, h + 1, Len(kl)), At(keys[par], i), c), kl, At(keys[par], i), c,
                Slice(sl, 0, h + 1), Slice(sl, h + 1, Len(sl)) \o d, sl, d)
  BY <1>4, <1>5, <1>10, RepartsLow
<1>15. Reparted(a, key, b, kl, At(keys[par], i), c, sa, sb, sl, d)
  BY <1>12, <1>14
<1>16. Nodes' = Nodes BY <1>2 DEF Nodes
<1> QED BY <1>1, <1>4, <1>7, <1>8, <1>11, <1>13, <1>15, <1>16, BorrowedSep

LEMMA InnerFromRightSep ==
  ASSUME IInv, Separated, InnerFromRight
  PROVE  Separated'
<1> DEFINE n == work.cur
           par == parent[n]
           i == pos[n]
           j == i + 1
           rhs == At(sons[par], i + 1)
           next == Len(keys[rhs])
           m == Moved(next)
           h == m - 1
           c == Cut(keys[n], work.at - 1)
           d == Cut(sons[n], work.at)
           kr == keys[rhs]
           sr == sons[rhs]
           sep == At(keys[par], i)
           a == c \o <<sep>> \o Slice(kr, 0, m - 1)
           sa == d \o Slice(sr, 0, m)
           b == Slice(kr, m, next)
           sb == Slice(sr, m, next + 1)
           key == At(kr, m - 1)
           f == Two(n, a, rhs, b)
           g == Two(n, sa, rhs, sb)
<1>1. /\ work.pc = "rebalance" /\ ~UsesLeft(par, i) /\ next # FloorHalf /\ parent[n] # NULL /\ Len(keys[n]) = FloorHalf
      /\ keys' = [With(keys, f) EXCEPT ![par] = [@ EXCEPT ![j] = key]] /\ sons' = With(sons, g)
      /\ work' = Resume /\ vals' = vals
  BY ZenonT(60) DEF InnerFromRight, In
<1>2. DOMAIN parent' = DOMAIN parent BY ZenonT(60) DEF InnerFromRight, Adopted
<1>3. UnderTwo(n, work.at - 1) BY <1>1, UnderTwoIs, ZenonT(60)
<1>4. TwoInners(n, rhs, par, i) /\ TreeInv /\ root # NULL /\ c \in Seq(Keys) /\ Len(c) = FloorHalf - 1
      /\ d \in Seq(Nat) /\ Len(d) = FloorHalf
  BY <1>1, <1>3, ZenonT(60) DEF UnderTwo
<1>5. /\ rhs # n /\ kr \in Seq(Keys) /\ sr \in Seq(Nat) /\ next \in FloorHalf .. N /\ Len(sr) = next + 1
      /\ N \in Nat /\ FloorHalf \in Nat /\ FloorHalf >= 2 /\ use \in Uses /\ At(keys[par], i) \in Keys
  BY <1>4 DEF TwoInners, InnerAt
<1>8. Cutting(rhs, kr, sr) /\ Cutting(n, c, d) BY <1>5, SMTT(60) DEF Cutting
<1>9. m \in 1 .. next - FloorHalf
  <2>0. next \in FloorHalf .. N /\ N \in Nat /\ FloorHalf \in Nat /\ next # FloorHalf
    BY <1>1, <1>5
  <2> HIDE DEF next, m
  <2>1. next \in Nat /\ next > FloorHalf /\ next <= N BY <2>0
  <2>2. Moved(next) \in 1 .. next - FloorHalf BY <1>5, <2>1, MovedIs, SMTT(60)
  <2> QED BY <2>2 DEF m
<1>10. h \in 0 .. Len(kr) - 1 /\ Len(sr) = Len(kr) + 1 /\ Len(d) = Len(c) + 1 /\ h + 1 = m
  <2>1. next \in Nat /\ next = Len(kr) BY <1>5
  <2> HIDE DEF m, next
  <2>2. m - 1 \in 0 .. next - 1 /\ (m - 1) + 1 = m BY <1>5, <1>9, <2>1
  <2> QED BY <1>4, <1>5, <2>1, <2>2
<1>11. PairOf(f, n, a, rhs, b) /\ PairOf(g, n, sa, rhs, sb)
  <2> HIDE DEF a, b, sa, sb, rhs, n
  <2> QED BY <1>5, PairsOf
<1>12. /\ a = Joins(c, At(keys[par], i), Slice(kr, 0, h)) /\ key = At(kr, h)
       /\ b = Slice(kr, m, Len(kr)) /\ sa = d \o Slice(sr, 0, m) /\ sb = Slice(sr, m, Len(sr))
  BY <1>5 DEF Joins
<1>13. work.cur = n /\ j = i + 1 OBVIOUS
<1> HIDE DEF n, par, j, i, rhs, next, m, h, c, d, kr, sr, sep, b, sb, a, sa, key, f, g
<1>14. Reparted(Joins(c, At(keys[par], i), Slice(kr, 0, h)), At(kr, h), Slice(kr, h + 1, Len(kr)), c, At(keys[par], i), kr,
                d \o Slice(sr, 0, h + 1), Slice(sr, h + 1, Len(sr)), d, sr)
  BY <1>4, <1>5, <1>10, RepartsHigh
<1>15. Reparted(a, key, b, c, At(keys[par], i), kr, sa, sb, d, sr)
  BY <1>10, <1>12, <1>14
<1>16. Nodes' = Nodes BY <1>2 DEF Nodes
<1> QED BY <1>1, <1>4, <1>8, <1>11, <1>13, <1>15, <1>16, BorrowedSep

LEMMA AscendSep ==
  ASSUME IInv, Separated, Ascend
  PROVE  Separated'
BY AscendRoomSep, AscendSplitSep, AscendRootSep DEF Ascend

LEMMA RebalanceSep ==
  ASSUME IInv, Separated, Rebalance
  PROVE  Separated'
BY RebalanceRoomSep, RebalanceRootSep, InnerFromLeftSep, InnerIntoLeftSep, InnerFromRightSep, InnerIntoRightSep DEF Rebalance

LEMMA ContinueSep ==
  ASSUME IInv, Separated, Continue
  PROVE  Separated'
BY AscendSep, RebalanceSep, RangeSep DEF Continue

-----------------------------------------------------------------------------
(* Searches in sorted sequences. *)
Before(x, k, upper) == x < k \/ (upper /\ x = k)

Rises(s, n) ==
  /\ n \in Nat /\ DOMAIN s = 1 .. n /\ (\A i \in 1 .. n : s[i] \in Int)
  /\ \A i, j \in 1 .. n : i < j => s[i] <= s[j]

Prefix(S, n) == Cardinality(S) \in 0 .. n /\ S = 1 .. Cardinality(S)

LEMMA PrefixIs ==
  ASSUME NEW n \in Nat, NEW S, S \subseteq 1 .. n, \A i, j \in 1 .. n : i < j /\ j \in S => i \in S
  PROVE  Prefix(S, n)
<1>1. ASSUME NEW c \in 0 .. n, S = 1 .. c PROVE Prefix(S, n)
  <2>1. Cardinality(1 .. c) = c
    <3>1. 1 \in Int /\ c \in Int BY <1>1
    <3>2. Cardinality(1 .. c) = IF 1 > c THEN 0 ELSE c - 1 + 1
      BY <3>1, FS_Interval
    <3> QED BY <1>1, <3>2
  <2> QED BY <1>1, <2>1 DEF Prefix
<1>2. ASSUME \A c \in 0 .. n : S # 1 .. c PROVE FALSE
  <2> DEFINE T == {c \in 0 .. n : 1 .. c \subseteq S}
  <2>1. 0 \in T OBVIOUS
  <2>2. ASSUME NEW c \in 0 .. n - 1, c \in T PROVE c + 1 \in T
    <3>1. c \in 0 .. n /\ c + 1 \in 0 .. n /\ 1 .. c \subseteq S BY <2>2
    <3>2. PICK x \in S : x \notin 1 .. c BY <1>2, <3>1
    <3>3. c + 1 \in S
      <4>1. x \in 1 .. n /\ x >= c + 1 BY <2>2, <3>2
      <4>2. CASE x = c + 1 BY <3>2, <4>2
      <4>3. CASE x # c + 1
        <5>1. c + 1 \in 1 .. n /\ c + 1 < x BY <2>2, <4>1, <4>3
        <5> QED BY <3>2, <4>1, <5>1
      <4> QED BY <4>2, <4>3
    <3>4. \A i \in 1 .. c + 1 : i \in 1 .. c \/ i = c + 1 BY <2>2
    <3> QED BY <3>1, <3>3, <3>4
  <2> HIDE DEF T
  <2>3. 0 .. n \subseteq T BY <2>1, <2>2, Climb
  <2>4. n \in T /\ n \in 0 .. n BY <2>3
  <2>5. S = 1 .. n BY <2>4 DEF T
  <2> QED BY <1>2, <2>4, <2>5
<1> QED BY <1>1, <1>2

Parted(s, n, k, upper) ==
  /\ FirstAfter(s, k, upper) \in 0 .. n
  /\ \A i \in 1 .. n : i <= FirstAfter(s, k, upper) <=> Before(s[i], k, upper)

LEMMA PartedAt ==
  ASSUME NEW s, NEW n, Rises(s, n), NEW k \in Int, NEW upper
  PROVE  Parted(s, n, k, upper)
<1> DEFINE S == {i \in DOMAIN s : s[i] < k \/ (upper /\ s[i] = k)}
           c == Cardinality(S)
<1>1. n \in Nat /\ DOMAIN s = 1 .. n /\ (\A i \in 1 .. n : s[i] \in Int) /\ \A i, j \in 1 .. n : i < j => s[i] <= s[j]
  BY DEF Rises
<1>2. FirstAfter(s, k, upper) = c BY DEF FirstAfter
<1>3. \A i \in 1 .. n : i \in S <=> Before(s[i], k, upper) BY <1>1 DEF Before
<1>4. S \subseteq 1 .. n BY <1>1
<1> HIDE DEF S
<1>5. ASSUME NEW i \in 1 .. n, NEW j \in 1 .. n, i < j, j \in S PROVE i \in S
  <2>1. s[i] <= s[j] /\ s[i] \in Int /\ s[j] \in Int /\ Before(s[j], k, upper)
    BY <1>1, <1>3, <1>5
  <2>2. s[i] < k \/ (s[i] = k /\ s[j] = k) BY <2>1 DEF Before
  <2>3. Before(s[i], k, upper) BY <2>1, <2>2 DEF Before
  <2> QED BY <1>3, <2>3
<1>6. Prefix(S, n) BY <1>1, <1>4, <1>5, PrefixIs
<1>7. c \in 0 .. n /\ S = 1 .. c BY <1>6 DEF Prefix
<1> HIDE DEF c
<1>8. \A i \in 1 .. n : i <= c <=> i \in S BY <1>1, <1>7
<1> QED BY <1>2, <1>3, <1>7, <1>8 DEF Parted

(* The contents in key order. *)
KeyAt(i) == KeyOf(Contents[i])

Sorted ==
  \A i, j \in 1 .. Len(Contents) : i < j => KeyAt(i) < KeyAt(j) \/ (Multi /\ KeyAt(i) = KeyAt(j))

LEMMA KeysAre ==
  ASSUME use \in Uses
  PROVE  Keys \subseteq Int
BY KeysAssumption DEF Keys, Elems, KeyOf

KeysRise ==
  /\ Len(Contents) \in Nat /\ (\A i \in 1 .. Len(Contents) : KeyAt(i) \in Int)
  /\ \A i, j \in 1 .. Len(Contents) : i < j => KeyAt(i) <= KeyAt(j)

LEMMA KeysRising ==
  ASSUME TreeInv, Sorted
  PROVE  KeysRise
<1>1. Contents \in Seq(Elems) /\ Len(Contents) \in Nat BY ContentsIs
<1>2. Keys \subseteq Int BY KeysAre DEF TreeInv, ShapeInv, Typed
<1>3. ASSUME NEW i \in 1 .. Len(Contents) PROVE KeyAt(i) \in Int
  <2>1. Contents[i] \in Elems BY <1>1, ElementOfSeq
  <2> QED BY <1>2, <2>1 DEF Keys, KeyAt
<1>4. ASSUME NEW i \in 1 .. Len(Contents), NEW j \in 1 .. Len(Contents), i < j PROVE KeyAt(i) <= KeyAt(j)
  <2>1. KeyAt(i) < KeyAt(j) \/ KeyAt(i) = KeyAt(j) BY <1>4 DEF Sorted
  <2> QED BY <1>3, <2>1
<1> QED BY <1>1, <1>3, <1>4 DEF KeysRise

KeyThere(l, P, i) ==
  /\ KeyOf(vals[l][i]) = KeyAt(Weight(P) + i) /\ Weight(P) \in Nat
  /\ Weight(P) + i \in 1 .. Len(Contents)

LEMMA KeysThere ==
  ASSUME NEW m, NEW ht, NEW b, Still(m, ht, b), NEW l \in DOMAIN vals, NEW P, NEW Q, Splits(b, l, P, Q),
         NEW i \in 1 .. Len(vals[l])
  PROVE  KeyThere(l, P, i)
<1> DEFINE h == i - 1
           it == Iter(l, h)
<1>1. TreeInv /\ root # NULL BY DEF Still
<1>2. Listed(vals, chain) BY <1>1, ChainListed
<1>3. vals[l] \in Seq(Elems) /\ l # NULL BY <1>2 DEF Listed
<1>4. Len(vals[l]) \in Nat BY <1>3, LenProperties
<1>5. h \in 0 .. Len(vals[l]) - 1 /\ h \in 0 .. Len(vals[l]) /\ i = h + 1 /\ i \in Nat
  BY <1>4
<1> HIDE DEF h
<1>6. Pointing(it) BY <1>1, <1>5 DEF Pointing, Points
<1>7. ElemAt(it) = vals[l][i] BY <1>3, <1>5 DEF ElemAt, At, Iter
<1> HIDE DEF it
<1>8. Within(b, l, P, it) /\ Rank(it) = Weight(P) + h /\ Weight(P) \in Nat
  BY <1>5, WithinLeaf DEF it
<1>9. ElemAt(it) = Contents[Rank(it) + 1] BY <1>1, <1>6, ElemIs
<1>10. Rank(it) \in Nat /\ Rank(it) + 1 <= Len(Contents)
  BY <1>1, <1>6, PointingRank
<1> DEFINE w == Weight(P)
           r == Rank(it)
<1>11. r = w + h /\ w \in Nat /\ r + 1 <= Len(Contents) /\ Len(Contents) \in Nat
  BY <1>1, <1>8, <1>10, ContentsIs
<1> HIDE DEF w, r
<1>12. r + 1 = w + i /\ w + i \in 1 .. Len(Contents) BY <1>5, <1>11
<1> QED BY <1>7, <1>9, <1>11, <1>12 DEF KeyThere, KeyAt, w, r

-----------------------------------------------------------------------------
(* The first leaf below a node begins where the node does. *)
LeadsAt(b, F, n, P) == \E R : Splits(b, F[n], P, R)

LEMMA LeadsSplit ==
  ASSUME NEW m, NEW ht, NEW b, Still(m, ht, b), NEW F, Leads(F)
  PROVE  \A n \in Nodes : \A P, Q : Splits(b, n, P, Q) => LeadsAt(b, F, n, P)
<1> DEFINE S == {i \in 0 .. m : \A n \in Nodes : ht[n] <= i => \A P, Q : Splits(b, n, P, Q) => LeadsAt(b, F, n, P)}
<1>1. m \in Nat /\ (\A n \in Nodes : ht[n] \in 1 .. m) /\ Nodes = DOMAIN vals \cup Inners
  BY DEF Still
<1>2. 0 \in S
  <2>1. 0 \in 0 .. m /\ \A n \in Nodes : ~(ht[n] <= 0) BY <1>1
  <2> QED BY <2>1
<1>3. ASSUME NEW i \in 0 .. m - 1, i \in S PROVE i + 1 \in S
  <2>1. i + 1 \in 0 .. m /\ i \in Nat BY <1>1
  <2>2. ASSUME NEW n \in Nodes, ht[n] <= i + 1, NEW P, NEW Q, Splits(b, n, P, Q) PROVE LeadsAt(b, F, n, P)
    <3>1. CASE n \in DOMAIN vals BY <2>2, <3>1 DEF LeadsAt, Leads
    <3>2. CASE n \in Inners
      <4> DEFINE z == At(sons[n], 0)
                 first == 0
                 s == sons[n]
      <4>1. s \in Seq(Nodes) /\ Len(s) \in Nat /\ Len(s) # 0
        <5>1. s \in Seq(Nodes) /\ TreeInv /\ root # NULL BY <3>2 DEF Still
        <5>2. Len(keys[n]) \in 1 .. N /\ Len(s) = Len(keys[n]) + 1
          BY <3>2, <5>1, SonsMany DEF TreeInv, Still
        <5> QED BY <5>1, <5>2, LenProperties
      <4>2. first \in 0 .. Len(s) - 1 /\ first = 0 /\ z = s[1] BY <4>1 DEF At
      <4>3. F[n] = F[z] BY <3>2, <4>2 DEF Leads
      <4>4. z \in Nodes /\ ht[z] = ht[n] - 1
        <5>1. z \in Members(s) BY <4>1, <4>2 DEF Members
        <5> QED BY <3>2, <5>1 DEF Still
      <4>5. ht[z] <= i BY <1>1, <2>1, <2>2, <4>4
      <4>6. Splits(b, z, Fore(b, n, P, first), Aft(b, n, Q, first))
        <5> HIDE DEF first
        <5>1. Splits(b, At(sons[n], first), Fore(b, n, P, first), Aft(b, n, Q, first))
          BY <2>2, <3>2, <4>2, SplitSon
        <5> QED BY <4>2, <5>1
      <4>7. Fore(b, n, P, first) = P
        <5>1. Slice(s, 0, 0) = <<>>
          <6>1. 0 \in 0 .. Len(s) BY <4>1
          <6> QED BY <4>1, <6>1, SliceAll
        <5>2. Flat(b, <<>>) = <<>> BY FlatNil
        <5>3. P \in Seq(DOMAIN vals) BY <2>2 DEF Splits
        <5>4. P \o <<>> = P BY <5>3, ConcatEmptySeq
        <5> QED BY <5>1, <5>2, <5>4 DEF Fore
      <4> HIDE DEF z, first, s
      <4>8. LeadsAt(b, F, z, P) BY <1>3, <4>4, <4>5, <4>6, <4>7
      <4> QED BY <4>3, <4>8 DEF LeadsAt
    <3> QED BY <1>1, <3>1, <3>2
  <2> QED BY <2>1, <2>2
<1> HIDE DEF S
<1>4. 0 .. m \subseteq S BY <1>1, <1>2, <1>3, Climb
<1>5. m \in S BY <1>1, <1>4
<1> QED BY <1>1, <1>5 DEF S

HeadThere(F, n, P) ==
  FirstKey(F, n) = KeyAt(Weight(P) + 1) /\ Weight(P) \in Nat /\ Weight(P) + 1 \in 1 .. Len(Contents)

LEMMA HeadsThere ==
  ASSUME NEW m, NEW ht, NEW b, Still(m, ht, b), NEW F, Leads(F), NEW n \in Nodes, NEW P, NEW Q, Splits(b, n, P, Q)
  PROVE  HeadThere(F, n, P)
<1> DEFINE l == F[n]
           one == 1
<1>1. l \in DOMAIN vals BY DEF Leads
<1>2. LeadsAt(b, F, n, P) BY LeadsSplit
<1>3. PICK R : Splits(b, l, P, R) BY <1>2 DEF LeadsAt
<1>4. Listed(vals, chain) BY ChainListed DEF Still
<1>5. one \in 1 .. Len(vals[l]) /\ one = 1
  <2>1. Len(vals[l]) \in Nat /\ Len(vals[l]) # 0
    BY <1>1, <1>4, LenProperties DEF Listed
  <2> QED BY <2>1
<1> HIDE DEF l, one
<1>6. KeyThere(l, P, one) BY <1>1, <1>3, <1>5, KeysThere
<1> QED BY <1>5, <1>6 DEF KeyThere, HeadThere, FirstKey, l

(* The elements below one son end where those below the next begin. *)
ForeNext(b, n, P, j) ==
  /\ Weight(Fore(b, n, P, j)) \in Nat /\ Weight(b[At(sons[n], j)]) \in Nat
  /\ Weight(Fore(b, n, P, j + 1)) = Weight(Fore(b, n, P, j)) + Weight(b[At(sons[n], j)])

LEMMA ForeNexts ==
  ASSUME NEW m, NEW ht, NEW b, Still(m, ht, b), NEW n \in Inners, NEW P, NEW Q, Splits(b, n, P, Q),
         NEW j \in 0 .. Len(sons[n]) - 1
  PROVE  ForeNext(b, n, P, j)
<1> DEFINE L == DOMAIN vals
           O == Nodes
           s == sons[n]
           h == j + 1
           A == Slice(s, 0, j)
           z == At(s, j)
           one == <<z>>
           nil == 0
<1>1. s \in Seq(O) /\ Gives(b, O, L) /\ TreeInv /\ root # NULL BY DEF Still
<1>2. Gives(vals, L, Elems) BY <1>1, ValsGive
<1>3. Len(s) \in Nat BY <1>1, LenProperties
<1>4. j \in 0 .. Len(s) - 1 /\ h \in 0 .. Len(s) /\ j \in 0 .. h /\ nil \in 0 .. j /\ j \in 0 .. Len(s) /\ nil = 0
  BY <1>3
<1> HIDE DEF O, L, s, h, nil
<1>5. Slice(s, nil, h) = Slice(s, nil, j) \o Slice(s, j, h)
  BY <1>1, <1>4, SliceSplit
<1>6. Slice(s, j, h) = one /\ z \in O BY <1>1, <1>4, SliceOne DEF h
<1>7. A \in Seq(O) BY <1>1, <1>4, SliceIs
<1>8. one \in Seq(O) BY <1>6
<1>9. Flat(b, one) = b[z] BY <1>1, <1>6, FlatOne
<1>10. Slice(s, 0, h) = A \o one BY <1>4, <1>5, <1>6
<1> HIDE DEF A, one, z
<1>11. Flat(b, A \o one) = Flat(b, A) \o Flat(b, one)
  BY <1>1, <1>7, <1>8, FlatConcat
<1> DEFINE FA == Flat(b, A)
           x == b[z]
<1>12. FA \in Seq(L) /\ x \in Seq(L) BY <1>1, <1>6, <1>7, FlatType DEF Gives
<1>13. Flat(b, Slice(s, 0, h)) = FA \o x BY <1>9, <1>10, <1>11
<1> HIDE DEF FA, x
<1>14. FlatLens(vals, FA, x, Elems) BY <1>2, <1>12, FlatLen
<1>15. Weight(Flat(b, Slice(s, 0, h))) = Weight(FA) + Weight(x) /\ Weight(FA) \in Nat /\ Weight(x) \in Nat
  BY <1>13, <1>14 DEF FlatLens, Weight
<1>16. Weight(Fore(b, n, P, j)) = Weight(P) + Weight(FA) /\ Weight(P) \in Nat
  BY <1>4, ForeWeight DEF FA, A, s
<1>17. Weight(Fore(b, n, P, h)) = Weight(P) + Weight(Flat(b, Slice(s, 0, h)))
  BY <1>4, ForeWeight DEF s
<1> DEFINE p == Weight(P)
           wa == Weight(FA)
           wx == Weight(x)
           f == Weight(Fore(b, n, P, j))
           g == Weight(Fore(b, n, P, h))
<1>18. p \in Nat /\ wa \in Nat /\ wx \in Nat /\ f = p + wa /\ g = p + (wa + wx)
  BY <1>15, <1>16, <1>17
<1> HIDE DEF p, wa, wx, f, g
<1>19. f \in Nat /\ wx \in Nat /\ g = f + wx BY <1>18
<1> QED BY <1>19 DEF ForeNext, f, g, wx, h, x, z, s

ForeEnds(b, n, P) ==
  /\ Weight(Fore(b, n, P, 0)) = Weight(P) /\ Weight(P) \in Nat /\ Weight(b[n]) \in Nat
  /\ Weight(Fore(b, n, P, Len(sons[n]))) = Weight(P) + Weight(b[n])

LEMMA ForeEnd ==
  ASSUME NEW m, NEW ht, NEW b, Still(m, ht, b), NEW n \in Inners, NEW P, NEW Q, Splits(b, n, P, Q)
  PROVE  ForeEnds(b, n, P)
<1> DEFINE s == sons[n]
           j == Len(s)
           nil == 0
<1>1. s \in Seq(Nodes) /\ b[n] = Flat(b, s) /\ Gives(b, Nodes, DOMAIN vals) /\ TreeInv /\ root # NULL /\ n \in Nodes
  BY DEF Still
<1>2. j \in Nat BY <1>1, LenProperties
<1>3. j \in 0 .. Len(s) /\ nil \in 0 .. Len(s) /\ nil = 0 BY <1>2
<1>4. Slice(s, 0, j) = s /\ Slice(s, nil, nil) = <<>>
  <2> HIDE DEF s, nil
  <2>1. Slice(s, 0, Len(s)) = s BY <1>1, SliceAll
  <2>2. Slice(s, nil, nil) = <<>> BY <1>1, <1>3, SliceAll
  <2> QED BY <2>1, <2>2
<1> HIDE DEF j, nil
<1>5. Weight(Fore(b, n, P, j)) = Weight(P) + Weight(Flat(b, Slice(s, 0, j))) /\ Weight(P) \in Nat
  BY <1>3, ForeWeight
<1>6. Weight(b[n]) \in Nat
  <2>1. Gives(vals, DOMAIN vals, Elems) BY <1>1, ValsGive
  <2>2. b[n] \in Seq(DOMAIN vals) BY <1>1 DEF Gives
  <2> DEFINE c == b[n]
             L == DOMAIN vals
  <2>3. c \in Seq(L) /\ Gives(vals, L, Elems) BY <2>1, <2>2
  <2> HIDE DEF c, L
  <2>4. Flat(vals, c) \in Seq(Elems) BY <2>3, FlatType
  <2>5. Len(Flat(vals, c)) \in Nat BY <2>4, LenProperties
  <2> QED BY <2>5 DEF Weight, c
<1>7. Fore(b, n, P, nil) = P
  <2>1. Flat(b, <<>>) = <<>> BY FlatNil
  <2>2. P \in Seq(DOMAIN vals) BY DEF Splits
  <2>3. P \o <<>> = P BY <2>2, ConcatEmptySeq
  <2> QED BY <1>3, <1>4, <2>1, <2>3 DEF Fore
<1> QED BY <1>1, <1>3, <1>4, <1>5, <1>6, <1>7 DEF ForeEnds, s, j

(* The elements below a node are elements. *)
RangeIn(b, n, P) == Weight(P) \in Nat /\ Weight(b[n]) \in Nat /\ Len(Contents) \in Nat /\ Weight(P) + Weight(b[n]) <= Len(Contents)

LEMMA RangesIn ==
  ASSUME NEW m, NEW ht, NEW b, Still(m, ht, b), NEW n \in Nodes, NEW P, NEW Q, Splits(b, n, P, Q)
  PROVE  RangeIn(b, n, P)
<1> DEFINE L == DOMAIN vals
           x == b[n]
           Px == P \o x
<1>1. Gives(b, Nodes, L) /\ TreeInv /\ root # NULL BY DEF Still
<1>2. Gives(vals, L, Elems) /\ Contents = Flat(vals, chain)
  BY <1>1, ValsGive DEF Contents
<1>3. P \in Seq(L) /\ Q \in Seq(L) /\ x \in Seq(L) /\ chain = Px \o Q
  BY <1>1 DEF Splits, Gives
<1> HIDE DEF L, x
<1>4. Px \in Seq(L) BY <1>3, ConcatType
<1>5. FlatLens(vals, P, x, Elems) BY <1>2, <1>3, FlatLen
<1> HIDE DEF Px
<1>6. FlatLens(vals, Px, Q, Elems) BY <1>2, <1>3, <1>4, FlatLen
<1> DEFINE p == Len(Flat(vals, P))
           w == Len(Flat(vals, x))
           q == Len(Flat(vals, Q))
           pw == Len(Flat(vals, Px))
           c == Len(Contents)
<1>7. p \in Nat /\ w \in Nat /\ q \in Nat /\ pw = p + w /\ c = pw + q
  BY <1>2, <1>3, <1>5, <1>6 DEF FlatLens, Px
<1> HIDE DEF p, w, q, pw, c
<1>8. p \in Nat /\ w \in Nat /\ c \in Nat /\ p + w <= c BY <1>7
<1> QED BY <1>8 DEF RangeIn, Weight, p, w, c, x

(* A tree whose separators and contents are in order, and no loop runs. *)
Laid(m, ht, b, F) == Still(m, ht, b) /\ Leads(F) /\ Separates(F) /\ Sorted

(* Separator i of n is the key of the first element below son i. *)
SepThere(b, n, P, i) ==
  /\ keys[n][i] = KeyAt(Weight(Fore(b, n, P, i)) + 1)
  /\ Weight(Fore(b, n, P, i)) \in Nat /\ Weight(Fore(b, n, P, i)) + 1 \in 1 .. Len(Contents)

InnerHere(n) ==
  /\ keys[n] \in Seq(Keys) /\ Len(keys[n]) \in Nat /\ Len(keys[n]) # 0 /\ DOMAIN keys[n] = 1 .. Len(keys[n])
  /\ Len(sons[n]) = Len(keys[n]) + 1 /\ n \in Nodes /\ n \notin DOMAIN vals

LEMMA InnersHere ==
  ASSUME NEW m, NEW ht, NEW b, Still(m, ht, b), NEW n \in Inners
  PROVE  InnerHere(n)
<1>1. ShapeInv /\ Filled /\ Sized BY DEF Still, TreeInv
<1>2. /\ n \in Nodes /\ keys[n] \in Seq(Keys)
      /\ Len(keys[n]) \in 1 .. N /\ Len(sons[n]) = Len(keys[n]) + 1 /\ n \notin DOMAIN vals
  BY <1>1, SonsMany
<1>3. Len(keys[n]) \in Nat /\ DOMAIN keys[n] = 1 .. Len(keys[n])
  BY <1>2, LenProperties
<1> QED BY <1>2, <1>3 DEF InnerHere

LEMMA SepsThere ==
  ASSUME NEW m, NEW ht, NEW b, NEW F, Laid(m, ht, b, F), NEW n \in Inners, NEW P, NEW Q, Splits(b, n, P, Q),
         NEW i \in 1 .. Len(keys[n])
  PROVE  SepThere(b, n, P, i)
<1>1. Still(m, ht, b) /\ Leads(F) /\ Separates(F) /\ work.pc \in {"idle", "range"}
  BY DEF Laid, Still
<1>2. InnerHere(n) BY <1>1, InnersHere
<1>3. i \in 0 .. Len(sons[n]) - 1 /\ At(sons[n], i) = sons[n][i + 1]
  BY <1>2 DEF InnerHere, At
<1> DEFINE z == At(sons[n], i)
           R == Fore(b, n, P, i)
           T == Aft(b, n, Q, i)
<1>4. Splits(b, z, R, T) BY <1>1, <1>3, SplitSon
<1>5. z \in Nodes
  <2>1. sons[n] \in Seq(Nodes) BY <1>1 DEF Still
  <2>2. z \in Members(sons[n]) BY <1>3, <2>1, AtMember
  <2> QED BY <1>1, <2>2 DEF Still
<1>6. keys[n][i] = FirstKey(F, z) BY <1>1, <1>3 DEF Separates
<1> HIDE DEF z, R, T
<1>7. HeadThere(F, z, R) BY <1>1, <1>4, <1>5, HeadsThere
<1> QED BY <1>6, <1>7 DEF HeadThere, SepThere, R

LEMMA KeysUp ==
  ASSUME KeysRise, NEW i \in 1 .. Len(Contents), NEW j \in 1 .. Len(Contents), i <= j
  PROVE  KeyAt(i) <= KeyAt(j) /\ KeyAt(i) \in Int /\ KeyAt(j) \in Int
<1>1. KeyAt(i) \in Int /\ KeyAt(j) \in Int BY DEF KeysRise
<1>2. CASE i = j BY <1>1, <1>2
<1>3. CASE i # j
  <2>1. i < j BY <1>3 DEF KeysRise
  <2> QED BY <1>1, <2>1 DEF KeysRise
<1> QED BY <1>1, <1>2, <1>3

LEMMA SepsRise ==
  ASSUME NEW m, NEW ht, NEW b, NEW F, Laid(m, ht, b, F), NEW n \in Inners, NEW P, NEW Q, Splits(b, n, P, Q)
  PROVE  Rises(keys[n], Len(keys[n]))
<1>1. Still(m, ht, b) /\ TreeInv /\ Sorted BY DEF Laid, Still
<1>2. InnerHere(n) /\ KeysRise BY <1>1, InnersHere, KeysRising
<1>3. ASSUME NEW i \in 1 .. Len(keys[n]) PROVE keys[n][i] \in Int
  <2>1. SepThere(b, n, P, i) BY SepsThere
  <2> QED BY <1>2, <2>1 DEF SepThere, KeysRise
<1>4. ASSUME NEW i \in 1 .. Len(keys[n]), NEW j \in 1 .. Len(keys[n]), i < j PROVE keys[n][i] <= keys[n][j]
  <2>1. SepThere(b, n, P, i) BY SepsThere
  <2>2. SepThere(b, n, P, j) BY SepsThere
  <2>3. i \in Nat /\ j \in Nat /\ j <= Len(sons[n]) BY <1>2 DEF InnerHere
  <2>4. SonsApart(b, n, P, i, j) BY <1>1, <1>4, <2>3, ForeApart
  <2> DEFINE x == Weight(Fore(b, n, P, i))
             y == Weight(Fore(b, n, P, j))
             w == Weight(b[At(sons[n], i)])
  <2>5. x + w <= y /\ x \in Nat /\ y \in Nat /\ x + 1 \in 1 .. Len(Contents) /\ y + 1 \in 1 .. Len(Contents)
    BY <2>1, <2>2, <2>4 DEF SonsApart, SepThere
  <2>6. w \in Nat
    <3>1. i \in 0 .. Len(sons[n]) - 1 BY <1>2 DEF InnerHere
    <3>2. ForeNext(b, n, P, i) BY <1>1, <3>1, ForeNexts
    <3> QED BY <3>2 DEF ForeNext
  <2>7. keys[n][i] = KeyAt(x + 1) /\ keys[n][j] = KeyAt(y + 1)
    BY <2>1, <2>2 DEF SepThere
  <2> HIDE DEF x, y, w
  <2>8. x + 1 <= y + 1 BY <2>5, <2>6
  <2> DEFINE g == x + 1
             h == y + 1
  <2>9. g <= h /\ g \in 1 .. Len(Contents) /\ h \in 1 .. Len(Contents)
    BY <2>5, <2>8
  <2> HIDE DEF g, h
  <2>10. KeyAt(g) <= KeyAt(h) BY <1>2, <2>9, KeysUp
  <2> QED BY <2>7, <2>10 DEF g, h
<1> QED BY <1>2, <1>3, <1>4 DEF Rises, InnerHere

-----------------------------------------------------------------------------
(* Of the elements below n those in front of it are the ones before k. *)
PartsAt(b, n, P, it, k, upper) ==
  \A i \in Weight(P) + 1 .. Weight(P) + Weight(b[n]) : i <= Rank(it) <=> Before(KeyAt(i), k, upper)

LEMMA LeafRises ==
  ASSUME NEW m, NEW ht, NEW b, NEW F, Laid(m, ht, b, F), NEW l \in DOMAIN vals, NEW P, NEW Q, Splits(b, l, P, Q)
  PROVE  Rises(KeysOf(vals[l]), Len(vals[l]))
<1> DEFINE s == KeysOf(vals[l])
           n == Len(vals[l])
<1>1. Still(m, ht, b) /\ TreeInv /\ Sorted /\ root # NULL BY DEF Laid, Still
<1>2. KeysRise BY <1>1, KeysRising
<1>3. Listed(vals, chain) BY <1>1, ChainListed
<1>4. vals[l] \in Seq(Elems) BY <1>3 DEF Listed
<1>5. n \in Nat /\ DOMAIN s = 1 .. n /\ \A i \in 1 .. n : s[i] = KeyOf(vals[l][i])
  BY <1>4, LenProperties DEF KeysOf
<1>6. ASSUME NEW i \in 1 .. n PROVE KeyThere(l, P, i) BY <1>1, KeysThere
<1> HIDE DEF s, n
<1>7. ASSUME NEW i \in 1 .. n PROVE s[i] \in Int
  <2>1. KeyThere(l, P, i) BY <1>6
  <2> QED BY <1>2, <1>5, <2>1 DEF KeyThere, KeysRise
<1>8. ASSUME NEW i \in 1 .. n, NEW j \in 1 .. n, i < j PROVE s[i] <= s[j]
  <2> DEFINE g == Weight(P) + i
             h == Weight(P) + j
  <2>1. KeyThere(l, P, i) BY <1>6
  <2>2. KeyThere(l, P, j) BY <1>6
  <2>3. s[i] = KeyAt(g) /\ s[j] = KeyAt(h) /\ Weight(P) \in Nat /\ g \in 1 .. Len(Contents) /\ h \in 1 .. Len(Contents)
    BY <1>5, <2>1, <2>2 DEF KeyThere
  <2>4. g <= h
    <3> DEFINE w == Weight(P)
    <3>1. w \in Nat /\ i \in Nat /\ j \in Nat /\ i < j BY <1>8, <2>3
    <3> HIDE DEF w
    <3>2. w + i <= w + j BY <3>1
    <3> QED BY <3>2 DEF w
  <2> HIDE DEF g, h
  <2>5. KeyAt(g) <= KeyAt(h) BY <1>2, <2>3, <2>4, KeysUp
  <2> QED BY <2>3, <2>5
<1>9. Rises(s, n) BY <1>5, <1>7, <1>8 DEF Rises
<1> QED BY <1>9 DEF s, n

LEMMA LeafParts ==
  ASSUME NEW m, NEW ht, NEW b, NEW F, Laid(m, ht, b, F), NEW l \in DOMAIN vals, NEW P, NEW Q, Splits(b, l, P, Q),
         NEW k \in Int, NEW upper, NEW it, it = Iter(l, FirstAfter(KeysOf(vals[l]), k, upper))
  PROVE  PartsAt(b, l, P, it, k, upper)
<1> DEFINE s == KeysOf(vals[l])
           n == Len(vals[l])
           j == FirstAfter(s, k, upper)
           w == Weight(P)
<1>1. Still(m, ht, b) BY DEF Laid
<1>2. Rises(s, n) BY LeafRises
<1> HIDE DEF s, n
<1>3. Parted(s, n, k, upper) BY <1>2, PartedAt
<1>4. j \in 0 .. n /\ n \in Nat /\ \A i \in 1 .. n : i <= j <=> Before(s[i], k, upper)
  BY <1>2, <1>3 DEF Parted, Rises
<1> HIDE DEF j
<1>5. it = Iter(l, j) BY DEF j, s
<1>6. Rank(it) = w + j /\ w \in Nat BY <1>1, <1>4, <1>5, WithinLeaf DEF n
<1>7. Weight(b[l]) = n
  <2>1. b[l] = <<l>> /\ TreeInv /\ root # NULL BY <1>1 DEF Still
  <2>2. Gives(vals, DOMAIN vals, Elems) BY <2>1, ValsGive
  <2>3. Flat(vals, <<l>>) = vals[l] BY <2>2, FlatOne
  <2> QED BY <2>1, <2>3 DEF Weight, n
<1>8. \A i \in 1 .. n : s[i] = KeyAt(w + i)
  <2>1. ASSUME NEW i \in 1 .. n PROVE s[i] = KeyAt(w + i)
    <3>1. KeyThere(l, P, i) BY <1>1, KeysThere DEF n
    <3>2. vals[l] \in Seq(Elems) BY <1>1, ChainListed DEF Still, Listed
    <3>3. i \in DOMAIN vals[l] BY <3>2, LenProperties DEF n
    <3> QED BY <3>1, <3>3 DEF KeyThere, s, KeysOf
  <2> QED BY <2>1
<1>9. ASSUME NEW x \in w + 1 .. w + n PROVE x <= Rank(it) <=> Before(KeyAt(x), k, upper)
  <2> DEFINE i == x - w
             r == Rank(it)
  <2>1. i \in 1 .. n /\ x = w + i /\ i \in Nat /\ r = w + j BY <1>4, <1>6
  <2> HIDE DEF i, r, w
  <2>2. x <= r <=> i <= j BY <1>4, <1>6, <2>1
  <2>3. s[i] = KeyAt(x) BY <1>8, <2>1
  <2> QED BY <1>4, <2>1, <2>2, <2>3 DEF r
<1> QED BY <1>7, <1>9 DEF PartsAt, w

(* The sons of n in front of son j, and those behind it. *)
SonSides(b, n, P, j, k, upper) ==
  /\ Weight(Fore(b, n, P, j)) \in Nat /\ Weight(b[At(sons[n], j)]) \in Nat /\ Weight(P) \in Nat /\ Weight(b[n]) \in Nat
  /\ \A x \in Weight(P) + 1 .. Weight(P) + Weight(b[n]) :
       /\ x <= Weight(Fore(b, n, P, j)) => Before(KeyAt(x), k, upper)
       /\ x > Weight(Fore(b, n, P, j)) + Weight(b[At(sons[n], j)]) => ~Before(KeyAt(x), k, upper)

LEMMA HalvesAre ==
  ASSUME NEW m, NEW ht, NEW b, NEW F, Laid(m, ht, b, F), NEW n \in Inners, NEW P, NEW Q, Splits(b, n, P, Q),
         NEW k \in Int, NEW upper
  PROVE  SonSides(b, n, P, FirstAfter(keys[n], k, upper), k, upper)
<1> DEFINE s == keys[n]
           c == Len(s)
           j == FirstAfter(s, k, upper)
           f == Weight(Fore(b, n, P, j))
           wz == Weight(b[At(sons[n], j)])
           w == Weight(P)
           wn == Weight(b[n])
           T == Len(Contents)
<1>0. j = FirstAfter(keys[n], k, upper) OBVIOUS
<1>1. Still(m, ht, b) /\ TreeInv /\ Sorted BY DEF Laid, Still
<1>2. InnerHere(n) /\ KeysRise BY <1>1, InnersHere, KeysRising
<1>3. Rises(s, c) BY SepsRise
<1>4. Parted(s, c, k, upper)
  <2> HIDE DEF s, c
  <2> QED BY <1>3, PartedAt
<1>5. j \in 0 .. c /\ c \in Nat /\ Len(sons[n]) = c + 1 /\ \A i \in 1 .. c : i <= j <=> Before(s[i], k, upper)
  BY <1>2, <1>4 DEF Parted, InnerHere
<1> HIDE DEF j
<1>6. j \in 0 .. Len(sons[n]) - 1 BY <1>5
<1>7. ForeNext(b, n, P, j) BY <1>1, <1>6, ForeNexts
<1>8. ForeEnds(b, n, P) BY <1>1, ForeEnd
<1>9. RangeIn(b, n, P)
  <2>1. n \in Nodes BY <1>2 DEF InnerHere
  <2> QED BY <1>1, <2>1, RangesIn
<1>10. /\ f \in Nat /\ wz \in Nat /\ w \in Nat /\ wn \in Nat /\ T \in Nat /\ w + wn <= T
       /\ Weight(Fore(b, n, P, j + 1)) = f + wz
  BY <1>7, <1>9 DEF ForeNext, RangeIn
<1>11. ASSUME NEW x \in w + 1 .. w + wn, x <= f PROVE Before(KeyAt(x), k, upper)
  <2>1. j # 0
    <3>1. j = 0 => f = w BY <1>8 DEF ForeEnds
    <3> HIDE DEF f, w, wn
    <3> QED BY <1>10, <1>11, <3>1
  <2>2. j \in 1 .. c BY <1>5, <2>1
  <2>3. SepThere(b, n, P, j) BY <2>2, SepsThere
  <2> DEFINE y == f + 1
  <2>4. s[j] = KeyAt(y) /\ y \in 1 .. T BY <2>3 DEF SepThere
  <2> HIDE DEF s
  <2>5. Before(s[j], k, upper) BY <1>5, <2>2
  <2>6. x \in 1 .. T /\ x <= y
    <3> HIDE DEF f, w, wn, T
    <3> QED BY <1>10, <1>11
  <2> HIDE DEF y, T
  <2>7. KeyAt(x) <= KeyAt(y) /\ KeyAt(x) \in Int /\ KeyAt(y) \in Int
    BY <1>2, <2>4, <2>6, KeysUp DEF T
  <2>8. Before(KeyAt(y), k, upper) BY <2>4, <2>5
  <2>9. KeyAt(x) < k \/ (KeyAt(x) = k /\ KeyAt(y) = k) BY <2>7, <2>8 DEF Before
  <2> QED BY <2>8, <2>9 DEF Before
<1>12. ASSUME NEW x \in w + 1 .. w + wn, x > f + wz PROVE ~Before(KeyAt(x), k, upper)
  <2> DEFINE h == j + 1
             g == f + wz
             y == g + 1
  <2>1. j # c
    <3>1. j = c => h = Len(sons[n]) BY <1>5
    <3>2. j = c => g = w + wn BY <1>8, <1>10, <3>1 DEF ForeEnds
    <3> HIDE DEF f, w, wn, wz
    <3> QED BY <1>10, <1>12, <3>2
  <2>2. h \in 1 .. c /\ ~(h <= j) BY <1>5, <2>1
  <2>3. Weight(Fore(b, n, P, h)) = g BY <1>10
  <2> HIDE DEF h
  <2>4. SepThere(b, n, P, h) BY <2>2, SepsThere
  <2>5. s[h] = KeyAt(y) /\ y \in 1 .. T BY <2>3, <2>4 DEF SepThere
  <2> HIDE DEF s
  <2>6. ~Before(s[h], k, upper) BY <1>5, <2>2
  <2>7. x \in 1 .. T /\ y <= x
    <3> HIDE DEF f, w, wn, T, wz
    <3> QED BY <1>10, <1>12
  <2> HIDE DEF y, T
  <2>8. KeyAt(y) <= KeyAt(x) /\ KeyAt(x) \in Int /\ KeyAt(y) \in Int
    BY <1>2, <2>5, <2>7, KeysUp DEF T
  <2>9. ~Before(KeyAt(y), k, upper) BY <2>5, <2>6
  <2>10. KeyAt(x) < k => KeyAt(y) < k BY <2>8
  <2>11. KeyAt(x) = k => KeyAt(y) < k \/ KeyAt(y) = k BY <2>8
  <2> QED BY <2>9, <2>10, <2>11 DEF Before
<1> HIDE DEF f, w, wn, wz, T
<1>13. f \in Nat /\ f + wz \in Nat BY <1>10
<1>14. SonSides(b, n, P, j, k, upper)
  BY <1>10, <1>11, <1>12, <1>13 DEF SonSides, f, w, wn, wz
<1> QED BY <1>0, <1>14

LEMMA SonParts ==
  ASSUME NEW m, NEW ht, NEW b, NEW F, Laid(m, ht, b, F), NEW n \in Inners, NEW P, NEW Q, Splits(b, n, P, Q),
         NEW k \in Int, NEW upper, NEW j, j = FirstAfter(keys[n], k, upper), NEW z, z = At(sons[n], j), NEW it,
         Within(b, z, Fore(b, n, P, j), it), PartsAt(b, z, Fore(b, n, P, j), it, k, upper)
  PROVE  PartsAt(b, n, P, it, k, upper)
<1> DEFINE f == Weight(Fore(b, n, P, j))
           wz == Weight(b[z])
           w == Weight(P)
           wn == Weight(b[n])
           r == Rank(it)
<1>1. SonSides(b, n, P, j, k, upper) BY HalvesAre
<1>2. /\ f \in Nat /\ wz \in Nat /\ w \in Nat /\ wn \in Nat
      /\ \A x \in w + 1 .. w + wn :
           /\ x <= f => Before(KeyAt(x), k, upper)
           /\ x > f + wz => ~Before(KeyAt(x), k, upper)
  BY <1>1 DEF SonSides
<1>3. r \in Int /\ f <= r /\ r <= f + wz BY DEF Within
<1>4. \A x \in f + 1 .. f + wz : x <= r <=> Before(KeyAt(x), k, upper)
  BY DEF PartsAt
<1> HIDE DEF f, wz, w, wn, r
<1>5. ASSUME NEW x \in w + 1 .. w + wn PROVE x <= r <=> Before(KeyAt(x), k, upper)
  <2>1. CASE x <= f
    <3>1. x <= r BY <1>2, <1>3, <2>1
    <3> QED BY <1>2, <2>1, <3>1
  <2>2. CASE x > f + wz
    <3>1. ~(x <= r) BY <1>2, <1>3, <2>2
    <3> QED BY <1>2, <2>2, <3>1
  <2>3. CASE ~(x <= f) /\ ~(x > f + wz)
    <3>1. x \in f + 1 .. f + wz BY <1>2, <2>3
    <3> QED BY <1>4, <3>1
  <2> QED BY <2>1, <2>2, <2>3
<1> QED BY <1>5 DEF PartsAt, w, wn, r

LEMMA SearchParts ==
  ASSUME NEW m, NEW ht, NEW b, NEW F, Laid(m, ht, b, F), NEW k \in Int, NEW upper, NEW d, Descends(d, k, upper)
  PROVE  \A n \in Nodes : \A P, Q : Splits(b, n, P, Q) => PartsAt(b, n, P, d[n], k, upper)
<1> DEFINE S == {i \in 0 .. m : \A n \in Nodes : ht[n] <= i => \A P, Q : Splits(b, n, P, Q) => PartsAt(b, n, P, d[n], k, upper)}
<1>1. m \in Nat /\ (\A n \in Nodes : ht[n] \in 1 .. m) /\ Still(m, ht, b)
  BY DEF Still, Laid
<1>2. 0 \in S
  <2>1. 0 \in 0 .. m /\ \A n \in Nodes : ~(ht[n] <= 0) BY <1>1
  <2> QED BY <2>1
<1>3. ASSUME NEW i \in 0 .. m - 1, i \in S PROVE i + 1 \in S
  <2>1. i + 1 \in 0 .. m /\ i \in Nat BY <1>1
  <2>2. ASSUME NEW n \in Nodes, ht[n] <= i + 1, NEW P, NEW Q, Splits(b, n, P, Q) PROVE PartsAt(b, n, P, d[n], k, upper)
    <3>1. CASE n \in DOMAIN vals
      <4>1. d[n] = Iter(n, FirstAfter(KeysOf(vals[n]), k, upper))
        BY <3>1 DEF Descends
      <4> HIDE DEF S
      <4> QED BY <2>2, <3>1, <4>1, LeafParts
    <3>2. CASE n \notin DOMAIN vals
      <4> DEFINE j == FirstAfter(keys[n], k, upper)
                 z == At(sons[n], j)
      <4>1. n \in Inners /\ j \in 0 .. Len(sons[n]) - 1 /\ d[n] = d[z] /\ z \in Nodes /\ ht[z] = ht[n] - 1
        BY <1>1, <3>2, DescendsSon
      <4>0. j = FirstAfter(keys[n], k, upper) OBVIOUS
      <4> HIDE DEF j
      <4>2. Splits(b, z, Fore(b, n, P, j), Aft(b, n, Q, j))
        BY <1>1, <2>2, <4>1, SplitSon
      <4>3. ht[z] <= i BY <1>1, <2>1, <2>2, <4>1
      <4>9. z = At(sons[n], j) OBVIOUS
      <4> HIDE DEF z
      <4>4. PartsAt(b, z, Fore(b, n, P, j), d[z], k, upper)
        BY <1>3, <4>1, <4>2, <4>3
      <4> HIDE DEF S
      <4>5. Within(b, z, Fore(b, n, P, j), d[z])
        BY <1>1, <4>1, <4>2, SearchWithin
      <4>6. PartsAt(b, n, P, d[z], k, upper)
        BY <2>2, <4>0, <4>1, <4>4, <4>5, <4>9, SonParts
      <4> QED BY <4>1, <4>6
    <3> QED BY <3>1, <3>2
  <2> QED BY <2>1, <2>2
<1> HIDE DEF S
<1>4. 0 .. m \subseteq S BY <1>1, <1>2, <1>3, Climb
<1>5. m \in S BY <1>1, <1>4
<1> QED BY <1>1, <1>5 DEF S

-----------------------------------------------------------------------------
(* The elements in front of it are the ones before k. *)
PartsAll(it, k, upper) == \A i \in 1 .. Len(Contents) : i <= Rank(it) <=> Before(KeyAt(i), k, upper)

(* A search that ends in front of a leaf, with all that is before k behind *)
(* it, did not turn right on its way to this leaf. *)
LEMMA SearchFront ==
  ASSUME NEW m, NEW ht, NEW b, NEW F, Laid(m, ht, b, F), NEW k \in Int, NEW upper, NEW d, Descends(d, k, upper)
  PROVE  \A n \in Nodes : \A P, Q : Splits(b, n, P, Q) /\ PartsAll(d[n], k, upper) /\ d[n].pos = 0 => d[n].leaf = F[n]
<1> DEFINE S == {i \in 0 .. m : \A n \in Nodes : ht[n] <= i => \A P, Q :
                    Splits(b, n, P, Q) /\ PartsAll(d[n], k, upper) /\ d[n].pos = 0 => d[n].leaf = F[n]}
<1>1. m \in Nat /\ (\A n \in Nodes : ht[n] \in 1 .. m) /\ Still(m, ht, b) /\ Leads(F)
  BY DEF Still, Laid
<1>2. 0 \in S
  <2>1. 0 \in 0 .. m /\ \A n \in Nodes : ~(ht[n] <= 0) BY <1>1
  <2> QED BY <2>1
<1>3. ASSUME NEW i \in 0 .. m - 1, i \in S PROVE i + 1 \in S
  <2>1. i + 1 \in 0 .. m /\ i \in Nat BY <1>1
  <2>2. ASSUME NEW n \in Nodes, ht[n] <= i + 1, NEW P, NEW Q, Splits(b, n, P, Q), PartsAll(d[n], k, upper), d[n].pos = 0
        PROVE  d[n].leaf = F[n]
    <3>1. CASE n \in DOMAIN vals
      <4>1. d[n].leaf = n BY <3>1 DEF Descends, Iter
      <4> QED BY <1>1, <3>1, <4>1 DEF Leads
    <3>2. CASE n \notin DOMAIN vals
      <4> DEFINE j == FirstAfter(keys[n], k, upper)
                 z == At(sons[n], j)
                 R == Fore(b, n, P, j)
      <4>1. n \in Inners /\ j \in 0 .. Len(sons[n]) - 1 /\ d[n] = d[z] /\ z \in Nodes /\ ht[z] = ht[n] - 1
        BY <1>1, <3>2, DescendsSon
      <4>0. j = FirstAfter(keys[n], k, upper) OBVIOUS
      <4> HIDE DEF j
      <4>2. Splits(b, z, R, Aft(b, n, Q, j)) BY <1>1, <2>2, <4>1, SplitSon
      <4>3. ht[z] <= i BY <1>1, <2>1, <2>2, <4>1
      <4>9. z = At(sons[n], j) OBVIOUS
      <4> HIDE DEF z
      <4>4. d[z].leaf = F[z] /\ d[z].pos = 0 BY <1>3, <2>2, <4>1, <4>2, <4>3
      <4> HIDE DEF S
      <4>5. CASE j = 0
        <5>1. z = sons[n][1] BY <4>5, <4>9 DEF At
        <5> QED BY <1>1, <4>1, <4>4, <5>1 DEF Leads
      <4>6. CASE j # 0
        <5>1. InnerHere(n) BY <1>1, <4>1, InnersHere
        <5>2. j \in 1 .. Len(keys[n]) BY <4>1, <4>6, <5>1 DEF InnerHere
        <5>3. SepThere(b, n, P, j) BY <2>2, <4>1, <5>2, SepsThere
        <5> DEFINE f == Weight(R)
                   x == f + 1
        <5>4. keys[n][j] = KeyAt(x) /\ f \in Nat /\ x \in 1 .. Len(Contents)
          BY <5>3 DEF SepThere
        <5>5. Before(keys[n][j], k, upper)
          <6>1. Rises(keys[n], Len(keys[n])) BY <2>2, <4>1, SepsRise
          <6>2. Parted(keys[n], Len(keys[n]), k, upper) BY <6>1, PartedAt
          <6>3. j <= j BY <5>2
          <6> QED BY <4>0, <5>2, <6>2, <6>3 DEF Parted
        <5>6. x <= Rank(d[z])
          <6> HIDE DEF x
          <6> QED BY <2>2, <4>1, <5>4, <5>5 DEF PartsAll
        <5>7. Rank(d[z]) = f
          <6>1. LeadsAt(b, F, z, R) BY <1>1, <4>1, <4>2, LeadsSplit
          <6>2. PICK T : Splits(b, F[z], R, T) BY <6>1 DEF LeadsAt
          <6> DEFINE l == F[z]
                     none == 0
          <6>3. l \in DOMAIN vals BY <1>1, <4>1 DEF Leads
          <6>4. d[z] = Iter(l, none)
            <7>1. Within(b, z, R, d[z]) BY <1>1, <4>1, <4>2, SearchWithin
            <7> QED BY <4>4, <7>1 DEF Within, Iter
          <6>5. none \in 0 .. Len(vals[l]) /\ none = 0
            <7>1. vals[l] \in Seq(Elems)
              BY <1>1, <6>3, ChainListed DEF Still, Listed
            <7>2. Len(vals[l]) \in Nat BY <7>1, LenProperties
            <7> QED BY <7>2
          <6> HIDE DEF l, none
          <6>6. Rank(d[z]) = Weight(R) + none /\ Weight(R) \in Nat
            BY <1>1, <6>2, <6>3, <6>4, <6>5, WithinLeaf DEF l
          <6> QED BY <6>5, <6>6
        <5> HIDE DEF f
        <5> QED BY <5>4, <5>6, <5>7
      <4> QED BY <4>5, <4>6
    <3> QED BY <3>1, <3>2
  <2> QED BY <2>1, <2>2
<1> HIDE DEF S
<1>4. 0 .. m \subseteq S BY <1>1, <1>2, <1>3, Climb
<1>5. m \in S BY <1>1, <1>4
<1> QED BY <1>1, <1>5 DEF S

BaseParts(k, upper) ==
  PartsAll(Search(k, upper), k, upper)

LEMMA BaseSearch ==
  ASSUME TreeInv, root = NULL, Sorted, NEW k \in Int, NEW upper
  PROVE  BaseParts(k, upper)
<1> DEFINE s == KeysOf(base)
           n == Len(base)
           j == FirstAfter(s, k, upper)
<1>1. base \in Seq(Elems) /\ Contents = base BY DEF TreeInv, Filled, Contents
<1>2. KeysRise BY KeysRising
<1>3. n \in Nat /\ DOMAIN s = 1 .. n /\ n = Len(Contents) /\ \A i \in 1 .. n : s[i] = KeyAt(i)
  BY <1>1, LenProperties DEF KeysOf, KeyAt
<1>4. Search(k, upper) = Iter(NULL, j) BY DEF Search
<1> HIDE DEF s, n
<1>5. \A i, h \in 1 .. n : i < h => s[i] <= s[h] BY <1>2, <1>3 DEF KeysRise
<1>6. Rises(s, n) BY <1>2, <1>3, <1>5 DEF Rises, KeysRise
<1>7. Parted(s, n, k, upper) BY <1>6, PartedAt
<1> HIDE DEF j
<1>8. Rank(Search(k, upper)) = j BY <1>4 DEF Rank, Iter
<1> QED BY <1>3, <1>7, <1>8 DEF BaseParts, PartsAll, Parted, j

LEMMA SearchAll ==
  ASSUME Resting, Sorted, NEW k \in Int, NEW upper
  PROVE  PartsAll(Search(k, upper), k, upper) /\ AtFront(Search(k, upper))
<1>1. TreeInv /\ work.pc \in {"idle", "range"} BY DEF Resting
<1>2. CASE root = NULL
  <2>1. BaseParts(k, upper) BY <1>1, <1>2, BaseSearch
  <2> QED BY <1>2, <2>1 DEF BaseParts, AtFront
<1>3. CASE root # NULL
  <2> DEFINE b == LeavesBelow
             nil == <<>>
  <2>1. PICK m, ht : Still(m, ht, b) BY <1>1, <1>3, StillIs
  <2>2. PICK F : Leads(F) /\ Separates(F) BY <1>3 DEF Resting, Separated
  <2>3. PICK d : Descends(d, k, upper) /\ Search(k, upper) = d[root]
    BY <1>1, <1>3, SearchIs
  <2>4. Splits(b, root, <<>>, <<>>) BY <2>1, SplitsAll
  <2>5. root \in Nodes /\ chain = b[root] BY <2>1 DEF Still
  <2>6. Laid(m, ht, b, F) BY <2>1, <2>2 DEF Laid
  <2>7. Weight(nil) = 0 /\ Weight(b[root]) = Len(Contents)
    <3>1. Flat(vals, <<>>) = <<>> BY FlatNil
    <3> QED BY <1>3, <2>5, <3>1 DEF Weight, Contents
  <2>8. nil = <<>> OBVIOUS
  <2> HIDE DEF b, nil
  <2>9. PartsAt(b, root, nil, d[root], k, upper)
    BY <2>3, <2>4, <2>5, <2>6, <2>8, SearchParts
  <2>10. PartsAll(d[root], k, upper)
    <3>1. Len(Contents) \in Nat BY <1>1, ContentsIs
    <3>2. 0 + 1 = 1 /\ 0 + Len(Contents) = Len(Contents) BY <3>1
    <3> QED BY <2>7, <2>9, <3>2 DEF PartsAt, PartsAll
  <2>11. d[root].pos = 0 => d[root].leaf = F[root]
    BY <2>3, <2>4, <2>5, <2>6, <2>10, SearchFront
  <2>12. F[root] = chain[1] BY <1>1, <1>3, <2>2, RootLeads
  <2> QED BY <2>3, <2>10, <2>11, <2>12 DEF AtFront
<1> QED BY <1>2, <1>3

(* Their number is the rank of it. *)
BeforeAll(k, upper) == {i \in DOMAIN Contents : Before(KeyAt(i), k, upper)}

LEMMA PartsCount ==
  ASSUME TreeInv, NEW k, NEW upper, NEW it, Rank(it) \in 0 .. Len(Contents), PartsAll(it, k, upper)
  PROVE  Cardinality(BeforeAll(k, upper)) = Rank(it)
<1> DEFINE r == Rank(it)
           T == Len(Contents)
<1>1. Contents \in Seq(Elems) /\ T \in Nat BY ContentsIs
<1>2. DOMAIN Contents = 1 .. T BY <1>1, LenProperties
<1>3. \A i \in 1 .. T : i <= r <=> Before(KeyAt(i), k, upper) BY DEF PartsAll
<1> HIDE DEF r, T
<1>4. r \in 0 .. T BY DEF r, T
<1>5. BeforeAll(k, upper) = {i \in 1 .. T : i <= r} BY <1>2, <1>3 DEF BeforeAll
<1>6. {i \in 1 .. T : i <= r} = 1 .. r BY <1>1, <1>4
<1>7. Cardinality(1 .. r) = r
  <2>1. 1 \in Int /\ r \in Int BY <1>4
  <2>2. Cardinality(1 .. r) = IF 1 > r THEN 0 ELSE r - 1 + 1
    BY <2>1, FS_Interval
  <2> QED BY <1>4, <2>2
<1> QED BY <1>5, <1>6, <1>7 DEF r

(* Where searches end. *)
Found(k, upper) ==
  /\ Rank(Search(k, upper)) \in 0 .. Len(Contents) /\ Len(Contents) \in Nat
  /\ PartsAll(Search(k, upper), k, upper) /\ AtFront(Search(k, upper)) /\ Gap(Search(k, upper))
  /\ Cardinality(BeforeAll(k, upper)) = Rank(Search(k, upper))

LEMMA SearchFinds ==
  ASSUME Resting, Sorted, NEW k \in Int, NEW upper
  PROVE  Found(k, upper)
<1>1. TreeInv /\ work.pc \in {"idle", "range"} BY DEF Resting
<1>2. Gap(Search(k, upper)) BY <1>1, SearchGap
<1>3. Rank(Search(k, upper)) \in 0 .. Len(Contents) /\ Len(Contents) \in Nat
  BY <1>1, <1>2, GapRank, ContentsIs
<1>4. PartsAll(Search(k, upper), k, upper) /\ AtFront(Search(k, upper))
  BY SearchAll
<1>5. Cardinality(BeforeAll(k, upper)) = Rank(Search(k, upper))
  BY <1>1, <1>3, <1>4, PartsCount
<1> QED BY <1>2, <1>3, <1>4, <1>5 DEF Found

LEMMA SearchesAre ==
  ASSUME IInv, Separated, Sorted
  PROVE  SearchExact
<1> DEFINE all == KeysOf(Contents)
<1>1. ASSUME Idle, NEW k \in Keys, NEW upper \in BOOLEAN
      PROVE  LET want == Cardinality({i \in DOMAIN all : all[i] < k \/ (upper /\ all[i] = k)})
                 at   == Search(k, upper)
             IN  Rank(at) = want /\ Rank(Adjust(at, vals, chain)) = want
  <2>1. Resting /\ TreeInv /\ work.pc \in {"idle", "range"}
    BY <1>1 DEF IInv, Resting, Idle
  <2>2. k \in Int BY <2>1, KeysAre DEF TreeInv, ShapeInv, Typed
  <2>3. Found(k, upper) BY <2>1, <2>2, SearchFinds
  <2>4. {i \in DOMAIN all : all[i] < k \/ (upper /\ all[i] = k)} = BeforeAll(k, upper)
    BY DEF BeforeAll, KeyAt, KeysOf, Before
  <2>5. Rank(Bound(k, upper)) = Rank(Search(k, upper)) BY <2>1, BoundIs
  <2> HIDE DEF all
  <2> QED BY <2>3, <2>4, <2>5 DEF Found, Bound
<1> QED BY <1>1 DEF SearchExact

(* Where the keys below k, and those up to k, end in the sequence of all *)
(* elements. *)
Marks(k) ==
  /\ Below(k) \in 0 .. Len(Contents) /\ UpTo(k) \in 0 .. Len(Contents) /\ Len(Contents) \in Nat
  /\ \A i \in 1 .. Len(Contents) : (i <= Below(k) <=> KeyAt(i) < k) /\ (i <= UpTo(k) <=> KeyAt(i) <= k) /\ KeyAt(i) \in Int

Marked(k) == Marks(k) /\ Below(k) <= UpTo(k) /\ (~Multi => UpTo(k) <= Below(k) + 1)

LEMMA MarksAre ==
  ASSUME Resting, Sorted, NEW k \in Int
  PROVE  Marked(k) /\ Rank(Search(k, FALSE)) = Below(k) /\ Rank(Search(k, TRUE)) = UpTo(k)
<1>1. TreeInv BY DEF Resting
<1>2. KeysRise BY <1>1, KeysRising
<1> DEFINE no == FALSE
           yes == TRUE
<1> HIDE DEF no, yes
<1>3. Found(k, no) /\ Found(k, yes) BY SearchFinds
<1>4. DOMAIN Contents = 1 .. Len(Contents)
  <2>1. Contents \in Seq(Elems) BY <1>1, ContentsIs
  <2> QED BY <2>1, LenProperties
<1>5. \A i \in 1 .. Len(Contents) : KeyAt(i) \in Int BY <1>2 DEF KeysRise
<1>6. \A i \in 1 .. Len(Contents) : (Before(KeyAt(i), k, FALSE) <=> KeyAt(i) < k) /\ (Before(KeyAt(i), k, TRUE) <=> KeyAt(i) <= k)
  BY <1>5 DEF Before
<1>7. BeforeAll(k, FALSE) = {i \in DOMAIN Contents : KeyOf(Contents[i]) < k}
  BY <1>4, <1>6 DEF BeforeAll, KeyAt
<1>8. BeforeAll(k, TRUE) = {i \in DOMAIN Contents : KeyOf(Contents[i]) <= k}
  BY <1>4, <1>6 DEF BeforeAll, KeyAt
<1>9. Rank(Search(k, FALSE)) = Below(k) BY <1>3, <1>7 DEF Found, Below, no
<1>10. Rank(Search(k, TRUE)) = UpTo(k) BY <1>3, <1>8 DEF Found, UpTo, yes
<1>11. Below(k) \in 0 .. Len(Contents) /\ UpTo(k) \in 0 .. Len(Contents) /\ Len(Contents) \in Nat
  BY <1>3, <1>9, <1>10 DEF Found, no, yes
<1>12. \A i \in 1 .. Len(Contents) : i <= Below(k) <=> KeyAt(i) < k
  BY <1>3, <1>6, <1>9 DEF Found, PartsAll, no
<1>13. \A i \in 1 .. Len(Contents) : i <= UpTo(k) <=> KeyAt(i) <= k
  BY <1>3, <1>6, <1>10 DEF Found, PartsAll, yes
<1>14. Marks(k) BY <1>5, <1>11, <1>12, <1>13 DEF Marks
<1>15. Below(k) <= UpTo(k)
  <2> SUFFICES ASSUME Below(k) > UpTo(k) PROVE FALSE BY <1>11
  <2>1. PICK i \in 1 .. Len(Contents) : i = Below(k) BY <1>11
  <2>2. i <= Below(k) /\ ~(i <= UpTo(k)) BY <2>1, <1>11
  <2>3. KeyAt(i) < k /\ ~(KeyAt(i) <= k) /\ KeyAt(i) \in Int
    BY <1>5, <1>12, <1>13, <2>2
  <2> QED BY <2>3
<1>16. ~Multi => UpTo(k) <= Below(k) + 1
  <2> SUFFICES ASSUME ~Multi, UpTo(k) > Below(k) + 1 PROVE FALSE BY <1>11
  <2>1. PICK i \in 1 .. Len(Contents) : i = Below(k) + 1 BY <1>11
  <2>2. PICK j \in 1 .. Len(Contents) : j = Below(k) + 2 BY <1>11
  <2>3. i < j /\ ~(i <= Below(k)) /\ j <= UpTo(k) /\ i \in Int /\ j \in Int
    BY <2>1, <2>2, <1>11, SMTT(60)
  <2>4. ~(KeyAt(i) < k) BY <1>12, <2>3
  <2>5. KeyAt(j) <= k BY <1>13, <2>3
  <2>6. KeyAt(i) < KeyAt(j) BY <2>3 DEF Sorted
  <2>7. KeyAt(i) \in Int /\ KeyAt(j) \in Int BY <1>5
  <2> QED BY <2>4, <2>5, <2>6, <2>7
<1> QED BY <1>9, <1>10, <1>14, <1>15, <1>16 DEF Marked

LEMMA PointingNotEnd ==
  ASSUME TreeInv, NEW it, Pointing(it)
  PROVE  Held(it) /\ it # End
<1>1. CASE root = NULL
  <2>1. base \in Seq(Elems) BY DEF TreeInv, Filled
  <2>2. Len(base) \in Nat BY <2>1, LenProperties
  <2>3. PICK i \in 0 .. Len(base) - 1 : it = Iter(NULL, i) BY <1>1 DEF Pointing
  <2>4. i \in 0 .. Len(base) /\ i # Len(base) BY <2>2
  <2>5. it.pos = i /\ (it = End => it.pos = Len(base))
    BY <1>1, <2>3 DEF Iter, End
  <2> QED BY <1>1, <2>3, <2>4, <2>5 DEF Held
<1>2. CASE root # NULL
  <2>1. Points(vals, it) BY <1>2 DEF Pointing
  <2>2. Held(it) BY <1>2, <2>1 DEF Held
  <2>3. Listed(vals, chain) BY <1>2, ChainListed
  <2>4. it.leaf \in DOMAIN vals BY <2>1 DEF Points, Iter
  <2>5. it.leaf # NULL BY <2>3, <2>4 DEF Listed
  <2>6. it # End BY <2>5 DEF End, Iter
  <2> QED BY <2>2, <2>6
<1> QED BY <1>1, <1>2

(* An element's key is compared with k: its rank with the two marks. *)
Compared(it, k) ==
  /\ Rank(it) \in Nat /\ Rank(it) < Len(Contents) /\ KeyOf(ElemAt(it)) \in Int
  /\ (KeyOf(ElemAt(it)) < k <=> Rank(it) < Below(k)) /\ (KeyOf(ElemAt(it)) <= k <=> Rank(it) < UpTo(k))

LEMMA ComparedIs ==
  ASSUME TreeInv, NEW k, Marked(k), NEW it, Pointing(it)
  PROVE  Compared(it, k)
<1>1. ElemAt(it) = Contents[Rank(it) + 1] BY ElemIs
<1>2. Held(it) /\ it # End BY PointingNotEnd
<1>3. Rank(it) \in 0 .. Len(Contents) /\ Len(Contents) \in Nat /\ Rank(it) # Len(Contents)
  BY <1>2, HeldRank
<1>4. Rank(it) + 1 \in 1 .. Len(Contents) BY <1>3
<1>5. PICK i \in 1 .. Len(Contents) : i = Rank(it) + 1 BY <1>4
<1>6. KeyOf(ElemAt(it)) = KeyAt(i) BY <1>1, <1>5 DEF KeyAt
<1>7. (i <= Below(k) <=> KeyAt(i) < k) /\ (i <= UpTo(k) <=> KeyAt(i) <= k) /\ KeyAt(i) \in Int
  BY DEF Marked, Marks
<1>8. Below(k) \in Int /\ UpTo(k) \in Int BY DEF Marked, Marks
<1>9. (i <= Below(k) <=> Rank(it) < Below(k)) /\ (i <= UpTo(k) <=> Rank(it) < UpTo(k))
  BY <1>3, <1>5, <1>8
<1>10. Rank(it) \in Nat /\ Rank(it) < Len(Contents) BY <1>3
<1> QED BY <1>6, <1>7, <1>9, <1>10 DEF Compared

(* A place for k that keeps the order, and is where the caller wants it; or *)
(* the element that has the key already. *)
FitAt(r, k, want) ==
  /\ r = want /\ want \in 0 .. Len(Contents) /\ Below(k) <= want /\ want <= UpTo(k)
  /\ ~Multi => Below(k) = UpTo(k)

Fits(loc, k, want) ==
  IF loc.dup THEN Pointing(loc.at) /\ ~Multi /\ Rank(loc.at) = Below(k) /\ Below(k) < UpTo(k)
  ELSE Gap(loc.at) /\ AtFront(loc.at) /\ FitAt(Rank(loc.at), k, want)

LEMMA PlaceFits ==
  ASSUME NEW k, NEW want, NEW it, Gap(it), AtFront(it), FitAt(Rank(it), k, want)
  PROVE  Fits(Place(it), k, want)
BY DEF Fits, Place

LEMMA SameFits ==
  ASSUME NEW k, NEW want, NEW it, Pointing(it), ~Multi, Rank(it) = Below(k), Below(k) < UpTo(k)
  PROVE  Fits(Same(it), k, want)
BY DEF Fits, Same

LEMMA FrontBegin ==
  ASSUME TreeInv, NEW at, Gap(at), AtFront(at), at.pos = 0
  PROVE  at = Begin
<1>1. CASE root = NULL
  <2>1. PICK i \in 0 .. Len(base) : at = Iter(NULL, i) BY <1>1 DEF Gap
  <2> QED BY <1>1, <2>1 DEF Begin, Iter
<1>2. CASE root # NULL
  <2>1. PICK l \in DOMAIN vals : \E i \in 0 .. Len(vals[l]) : at = Iter(l, i)
    BY <1>2 DEF Gap
  <2>2. PICK i \in 0 .. Len(vals[l]) : at = Iter(l, i) BY <2>1
  <2>3. at.leaf = chain[1] BY <1>2 DEF AtFront
  <2> QED BY <1>2, <2>2, <2>3 DEF Begin, Iter
<1> QED BY <1>1, <1>2

LEMMA BeginFront ==
  ASSUME TRUE
  PROVE  AtFront(Begin)
BY DEF AtFront, Begin, Iter

(* The gap in front of an iterator, and that of a search. *)
HintAt(it, r) == Gap(BeforeHint(it)) /\ AtFront(BeforeHint(it)) /\ Rank(BeforeHint(it)) = r

LEMMA HintsAre ==
  ASSUME TreeInv, work.pc \in {"idle", "range"}, NEW it, Held(it)
  PROVE  HintAt(it, Rank(it))
<1>1. Gap(BeforeHint(it)) /\ Rank(BeforeHint(it)) = Rank(it) BY BeforeHintIs
<1>2. AtFront(BeforeHint(it))
  <2>1. CASE it.pos = 0 /\ it # Begin
    <3> DEFINE p == Preceding(it)
    <3>1. BeforeHint(it) = Iter(p.leaf, p.pos + 1) BY <2>1 DEF BeforeHint
    <3>2. Rank(it) # 0 BY <2>1, NotBegin
    <3>3. Pointing(p) BY <3>2, PrecedingIs
    <3> HIDE DEF p
    <3>4. Pointed(p) BY <3>3, PointedIs
    <3>5. p.pos + 1 # 0 \/ root = NULL
      <4>1. CASE root # NULL
        <5> DEFINE l == p.leaf
        <5>1. p.pos \in 0 .. Len(vals[l]) - 1 BY <3>4, <4>1 DEF Pointed, LeafAt
        <5> QED BY <5>1
      <4> QED BY <4>1
    <3> QED BY <3>1, <3>5 DEF AtFront, Iter
  <2>2. CASE it.pos # 0
    <3>1. BeforeHint(it) = it BY <2>2 DEF BeforeHint
    <3> QED BY <2>2, <3>1 DEF AtFront
  <2>3. CASE it = Begin
    <3>1. BeforeHint(it) = it BY <2>3 DEF BeforeHint
    <3> QED BY <2>3, <3>1, BeginFront
  <2> QED BY <2>1, <2>2, <2>3
<1> QED BY <1>1, <1>2 DEF HintAt

LEMMA SearchHint ==
  ASSUME TreeInv, NEW at, Gap(at), AtFront(at)
  PROVE  HintAt(at, Rank(at))
<1>1. BeforeHint(at) = at BY FrontBegin DEF BeforeHint
<1> QED BY <1>1 DEF HintAt

(* Of the gap a search finds: its rank and that it is a place to insert at. *)
Landed(at, r) == Gap(at) /\ AtFront(at) /\ Rank(at) = r

LEMMA SearchLands ==
  ASSUME Resting, Sorted, NEW k \in Int
  PROVE  Landed(Search(k, FALSE), Below(k)) /\ Landed(Search(k, TRUE), UpTo(k))
<1> DEFINE no == FALSE
           yes == TRUE
<1> HIDE DEF no, yes
<1>1. Found(k, no) /\ Found(k, yes) BY SearchFinds
<1>2. Rank(Search(k, FALSE)) = Below(k) /\ Rank(Search(k, TRUE)) = UpTo(k)
  BY MarksAre
<1>3. Gap(Search(k, no)) /\ AtFront(Search(k, no)) BY <1>1 DEF Found
<1>4. Gap(Search(k, yes)) /\ AtFront(Search(k, yes)) BY <1>1 DEF Found
<1>5. Landed(Search(k, FALSE), Below(k)) BY <1>2, <1>3 DEF Landed, no
<1>6. Landed(Search(k, TRUE), UpTo(k)) BY <1>2, <1>4 DEF Landed, yes
<1> QED BY <1>5, <1>6

LEMMA SearchedFits ==
  ASSUME Resting, Sorted, NEW k \in Int
  PROVE  Fits(Searched(k), k, UpTo(k))
<1> DEFINE at == Search(k, TRUE)
           p == Iter(at.leaf, at.pos - 1)
           want == UpTo(k)
<1>1. TreeInv /\ work.pc \in {"idle", "range"} BY DEF Resting
<1>2. Marked(k) BY MarksAre
<1>3. Landed(at, want) BY SearchLands
<1>4. Searched(k) = IF ~Multi /\ SameKey(at, k) THEN Same(p) ELSE Place(at)
  BY DEF Searched
<1> HIDE DEF at
<1>5. Gap(at) /\ AtFront(at) /\ Rank(at) = UpTo(k) BY <1>3 DEF Landed
<1>6. /\ Below(k) \in 0 .. Len(Contents) /\ UpTo(k) \in 0 .. Len(Contents) /\ Len(Contents) \in Nat
      /\ Below(k) <= UpTo(k) /\ (~Multi => UpTo(k) <= Below(k) + 1)
  BY <1>2 DEF Marked, Marks
<1>7. ASSUME at.pos # 0
      PROVE  /\ Pointing(p) /\ Rank(p) = UpTo(k) - 1
             /\ KeyOf(ElemAt(p)) \in Int /\ (KeyOf(ElemAt(p)) < k <=> UpTo(k) - 1 < Below(k))
             /\ UpTo(k) # 0
  <2>1. Pointing(p) /\ Rank(p) = Rank(at) - 1 BY <1>1, <1>5, <1>7, BackOne
  <2> HIDE DEF p
  <2>2. Compared(p, k) BY <1>1, <1>2, <2>1, ComparedIs
  <2>3. Rank(p) \in Nat /\ (KeyOf(ElemAt(p)) < k <=> Rank(p) < Below(k)) /\ KeyOf(ElemAt(p)) \in Int
    BY <2>2 DEF Compared
  <2> QED BY <1>5, <1>6, <2>1, <2>3
<1>8. CASE ~Multi /\ SameKey(at, k)
  <2>1. at.pos # 0 /\ KeyOf(ElemAt(p)) >= k BY <1>8 DEF SameKey
  <2>2. Pointing(p) /\ Rank(p) = UpTo(k) - 1 /\ ~(UpTo(k) - 1 < Below(k))
    BY <1>7, <2>1
  <2>3. Rank(p) = Below(k) /\ Below(k) < UpTo(k) BY <1>6, <1>8, <2>2
  <2> HIDE DEF p, want
  <2>4. Fits(Same(p), k, want) BY <1>8, <2>2, <2>3, SameFits
  <2> QED BY <1>4, <1>8, <2>4 DEF want
<1>9. CASE ~(~Multi /\ SameKey(at, k))
  <2>1. ~Multi => Below(k) = UpTo(k)
    <3>1. CASE at.pos = 0
      <4>1. at = Begin BY <1>1, <1>5, <3>1, FrontBegin
      <4>2. Rank(at) = 0 BY <1>1, <4>1, BeginIs
      <4> QED BY <1>5, <1>6, <4>2
    <3>2. CASE at.pos # 0 /\ ~Multi
      <4>1. ~(KeyOf(ElemAt(p)) >= k) BY <1>9, <3>2 DEF SameKey
      <4>2. KeyOf(ElemAt(p)) < k BY <1>7, <3>2, <4>1
      <4>3. UpTo(k) - 1 < Below(k) BY <1>7, <3>2, <4>2
      <4> QED BY <1>6, <4>3
    <3> QED BY <3>1, <3>2
  <2>2. FitAt(Rank(at), k, want) BY <1>5, <1>6, <2>1 DEF FitAt
  <2>3. Fits(Place(at), k, want) BY <1>5, <2>2, PlaceFits
  <2> QED BY <1>4, <1>9, <2>3
<1> QED BY <1>8, <1>9

(* Of the ranks between which k may go, the one closest to h. *)
Nearest(h, k) == IF h < Below(k) THEN Below(k) ELSE Least(h, UpTo(k))

(* A place that suits is the one looked for where there is only one. *)
LEMMA OnlyOne ==
  ASSUME NEW loc, NEW k, NEW want, Fits(loc, k, UpTo(k)), ~Multi, Marked(k), want \in {Below(k), UpTo(k)}
  PROVE  Fits(loc, k, want)
<1>1. CASE loc.dup BY <1>1 DEF Fits
<1>2. CASE ~loc.dup BY <1>2 DEF Fits, FitAt
<1> QED BY <1>1, <1>2

LEMMA BehindFits ==
  ASSUME Resting, Sorted, NEW k \in Int, NEW hint, Held(hint), Rank(hint) # 0, Rank(hint) >= Below(k),
         ~Multi => Rank(hint) >= UpTo(k)
  PROVE  LET before == Preceding(hint)
         IN  Fits(IF k < KeyOf(ElemAt(before)) THEN Searched(k)
                  ELSE IF ~Multi /\ KeyOf(ElemAt(before)) >= k THEN Same(before)
                  ELSE Place(BeforeHint(hint)), k, Nearest(Rank(hint), k))
<1> DEFINE before == Preceding(hint)
           h == Rank(hint)
           want == Nearest(h, k)
<1>1. TreeInv /\ work.pc \in {"idle", "range"} BY DEF Resting
<1>2. Marked(k) BY MarksAre
<1>3. /\ Below(k) \in 0 .. Len(Contents) /\ UpTo(k) \in 0 .. Len(Contents) /\ Len(Contents) \in Nat
      /\ Below(k) <= UpTo(k) /\ (~Multi => UpTo(k) <= Below(k) + 1)
  BY <1>2 DEF Marked, Marks
<1>4. Pointing(before) /\ Rank(before) = h - 1 BY <1>1, PrecedingIs
<1>5. h \in 0 .. Len(Contents) BY <1>1, HeldRank
<1>6. h # 0 /\ h >= Below(k) /\ (~Multi => h >= UpTo(k)) OBVIOUS
<1>7. HintAt(hint, h) BY <1>1, HintsAre
<1> HIDE DEF before, h
<1>8. Compared(before, k) BY <1>1, <1>2, <1>4, ComparedIs
<1>9. /\ KeyOf(ElemAt(before)) \in Int /\ (KeyOf(ElemAt(before)) < k <=> h - 1 < Below(k))
      /\ (KeyOf(ElemAt(before)) <= k <=> h - 1 < UpTo(k))
  BY <1>4, <1>8 DEF Compared
<1>10. want = IF h < UpTo(k) THEN h ELSE UpTo(k)
  BY <1>3, <1>5, <1>6 DEF Nearest, Least
<1> HIDE DEF want
<1>11. CASE k < KeyOf(ElemAt(before))
  <2>1. ~(h - 1 < UpTo(k)) BY <1>9, <1>11
  <2>2. want = UpTo(k) BY <1>3, <1>5, <1>10, <2>1
  <2> QED BY <1>11, <2>2, SearchedFits DEF before, want, h
<1>12. CASE ~(k < KeyOf(ElemAt(before))) /\ (~Multi /\ KeyOf(ElemAt(before)) >= k)
  <2>1. h - 1 < UpTo(k) /\ ~(h - 1 < Below(k)) BY <1>9, <1>12
  <2>2. h - 1 = Below(k) /\ Below(k) < UpTo(k) BY <1>3, <1>5, <1>12, <2>1
  <2>3. Rank(before) = Below(k) BY <1>4, <2>2
  <2>4. Fits(Same(before), k, want) BY <1>4, <1>12, <2>2, <2>3, SameFits
  <2> QED BY <1>12, <2>4 DEF before, want, h
<1>13. CASE ~(k < KeyOf(ElemAt(before))) /\ ~(~Multi /\ KeyOf(ElemAt(before)) >= k)
  <2>1. h - 1 < UpTo(k) /\ (~Multi => h - 1 < Below(k)) BY <1>9, <1>13
  <2>2. want = h /\ (~Multi => h = Below(k) /\ h = UpTo(k)) /\ Below(k) <= h /\ h <= UpTo(k)
    BY <1>3, <1>5, <1>6, <1>10, <2>1
  <2>3. Gap(BeforeHint(hint)) /\ AtFront(BeforeHint(hint)) /\ Rank(BeforeHint(hint)) = h
    BY <1>7 DEF HintAt
  <2>4. FitAt(Rank(BeforeHint(hint)), k, want) BY <1>5, <2>2, <2>3 DEF FitAt
  <2>5. Fits(Place(BeforeHint(hint)), k, want) BY <2>3, <2>4, PlaceFits
  <2> QED BY <1>13, <2>5 DEF before, want, h
<1> QED BY <1>11, <1>12, <1>13

LEMMA LocatedFits ==
  ASSUME Resting, Sorted, size = Len(Contents), NEW k \in Int, NEW hint, Held(hint)
  PROVE  Fits(Located(hint, k), k, Nearest(Rank(hint), k))
<1> DEFINE before == Preceding(hint)
           behind == IF k < KeyOf(ElemAt(before)) THEN Searched(k)
                     ELSE IF ~Multi /\ KeyOf(ElemAt(before)) >= k THEN Same(before)
                     ELSE Place(BeforeHint(hint))
           next == Following(hint)
           loc == Located(hint, k)
           h == Rank(hint)
           want == Nearest(h, k)
<1> SUFFICES Fits(loc, k, want) OBVIOUS
<1>1. loc = IF size = 0 THEN Place(hint)
            ELSE IF hint = End THEN behind
            ELSE IF KeyOf(ElemAt(hint)) >= k THEN
                   IF ~Multi /\ KeyOf(ElemAt(hint)) <= k THEN Same(hint)
                   ELSE IF hint = Begin THEN Place(hint)
                   ELSE behind
            ELSE IF next = End THEN Place(BeforeHint(next))
            ELSE IF KeyOf(ElemAt(next)) >= k THEN
                   IF ~Multi /\ KeyOf(ElemAt(next)) <= k THEN Same(next)
                   ELSE Place(BeforeHint(next))
            ELSE IF Multi THEN Place(BeforeHint(Search(k, FALSE)))
            ELSE Searched(k)
  BY DEF Located
<1>2. TreeInv /\ work.pc \in {"idle", "range"} BY DEF Resting
<1>3. Marked(k) BY MarksAre
<1>4. /\ Below(k) \in 0 .. Len(Contents) /\ UpTo(k) \in 0 .. Len(Contents) /\ Len(Contents) \in Nat
      /\ Below(k) <= UpTo(k) /\ (~Multi => UpTo(k) <= Below(k) + 1)
  BY <1>3 DEF Marked, Marks
<1>5. h \in 0 .. Len(Contents) /\ (hint # End => h # Len(Contents) /\ Pointing(hint)) /\ (hint = End => h = Len(Contents))
  BY <1>2, HeldRank
<1>6. ASSUME h # 0, h >= Below(k), ~Multi => h >= UpTo(k) PROVE Fits(behind, k, want)
  BY <1>6, BehindFits
<1>7. Begin = hint => h = 0 BY <1>2, NotBegin
<1>8. Begin # hint => h # 0 BY <1>2, NotBegin
<1>9. CASE size = 0
  <2>1. root = NULL BY <1>2, <1>9, NoneYet
  <2>2. Gap(hint) BY <2>1 DEF Gap, Held
  <2>3. AtFront(hint) BY <2>1 DEF AtFront
  <2>4. FitAt(h, k, want) BY <1>4, <1>5, <1>9 DEF FitAt, Nearest, Least
  <2>5. Fits(Place(hint), k, want) BY <2>2, <2>3, <2>4, PlaceFits
  <2> QED BY <1>1, <1>9, <2>5
<1>10. CASE size # 0 /\ hint = End
  <2>1. h # 0 /\ h >= Below(k) /\ h >= UpTo(k) BY <1>4, <1>5, <1>10
  <2>2. Fits(behind, k, want) BY <1>6, <2>1
  <2> HIDE DEF behind, next, want
  <2> QED BY <1>1, <1>10, <2>2
<1>11. CASE size # 0 /\ hint # End
  <2>1. Pointing(hint) BY <1>5, <1>11
  <2>2. Compared(hint, k) BY <1>2, <1>3, <2>1, ComparedIs
  <2>3. h \in Nat /\ h < Len(Contents) /\ KeyOf(ElemAt(hint)) \in Int
        /\ (KeyOf(ElemAt(hint)) < k <=> h < Below(k)) /\ (KeyOf(ElemAt(hint)) <= k <=> h < UpTo(k))
    BY <2>2 DEF Compared
  <2>4. CASE KeyOf(ElemAt(hint)) >= k
    <3>1. h >= Below(k) BY <1>4, <2>3, <2>4
    <3>2. CASE ~Multi /\ KeyOf(ElemAt(hint)) <= k
      <4>1. h = Below(k) /\ Below(k) < UpTo(k) BY <1>4, <2>3, <3>1, <3>2
      <4> HIDE DEF want
      <4>2. Fits(Same(hint), k, want) BY <2>1, <3>2, <4>1, SameFits
      <4> HIDE DEF behind, next
      <4> QED BY <1>1, <1>11, <2>4, <3>2, <4>2
    <3>3. CASE ~(~Multi /\ KeyOf(ElemAt(hint)) <= k) /\ hint = Begin
      <4>1. Gap(hint) /\ AtFront(hint) BY <1>2, <3>3, BeginIs, BeginFront
      <4>2. h = 0 BY <1>7, <3>3
      <4>3. ~Multi => h >= UpTo(k) BY <1>4, <2>3, <3>3
      <4>4. FitAt(h, k, want)
        BY <1>4, <3>1, <4>2, <4>3 DEF FitAt, Nearest, Least
      <4>5. Fits(Place(hint), k, want) BY <4>1, <4>4, PlaceFits
      <4> HIDE DEF behind, next, want
      <4> QED BY <1>1, <1>11, <2>4, <3>3, <4>5
    <3>4. CASE ~(~Multi /\ KeyOf(ElemAt(hint)) <= k) /\ hint # Begin
      <4>1. h # 0 BY <1>8, <3>4
      <4>2. ~Multi => h >= UpTo(k) BY <1>4, <2>3, <3>4
      <4>3. Fits(behind, k, want) BY <1>6, <3>1, <4>1, <4>2
      <4> HIDE DEF behind, next, want
      <4> QED BY <1>1, <1>11, <2>4, <3>4, <4>3
    <3> QED BY <3>2, <3>3, <3>4
  <2>5. CASE ~(KeyOf(ElemAt(hint)) >= k)
    <3>1. h < Below(k) BY <1>4, <2>3, <2>5
    <3>2. want = Below(k) BY <3>1 DEF Nearest
    <3>3. Held(next) /\ Rank(next) = h + 1 BY <1>2, <2>1, FollowingIs
    <3>4. HintAt(next, h + 1)
      <4> HIDE DEF next
      <4>1. HintAt(next, Rank(next)) BY <1>2, <3>3, HintsAre
      <4> QED BY <3>3, <4>1
    <3>5. ASSUME h + 1 = Below(k), ~Multi => Below(k) = UpTo(k)
          PROVE  Fits(Place(BeforeHint(next)), k, want)
      <4> HIDE DEF next
      <4>1. Gap(BeforeHint(next)) /\ AtFront(BeforeHint(next)) /\ Rank(BeforeHint(next)) = h + 1
        BY <3>4 DEF HintAt
      <4>2. FitAt(Rank(BeforeHint(next)), k, want)
        BY <1>4, <3>2, <3>5, <4>1 DEF FitAt
      <4> QED BY <4>1, <4>2, PlaceFits
    <3>6. CASE next = End
      <4>1. h + 1 = Len(Contents) BY <1>2, <3>3, <3>6, EndIs
      <4>2. h + 1 = Below(k) /\ Below(k) = UpTo(k) BY <1>4, <2>3, <3>1, <4>1
      <4>3. Fits(Place(BeforeHint(next)), k, want) BY <3>5, <4>2
      <4> HIDE DEF behind, next, want
      <4> QED BY <1>1, <1>11, <2>5, <3>6, <4>3
    <3>7. CASE next # End
      <4>1. Pointing(next) BY <1>2, <3>3, <3>7, HeldRank
      <4>2. Compared(next, k)
        <5> HIDE DEF next
        <5> QED BY <1>2, <1>3, <4>1, ComparedIs
      <4>3. KeyOf(ElemAt(next)) \in Int
            /\ (KeyOf(ElemAt(next)) < k <=> h + 1 < Below(k)) /\ (KeyOf(ElemAt(next)) <= k <=> h + 1 < UpTo(k))
        <5> HIDE DEF next
        <5> QED BY <3>3, <4>2 DEF Compared
      <4> HIDE DEF behind, next, want
      <4>4. CASE KeyOf(ElemAt(next)) >= k
        <5>1. h + 1 = Below(k) BY <1>4, <2>3, <3>1, <4>3, <4>4
        <5>2. CASE ~Multi /\ KeyOf(ElemAt(next)) <= k
          <6>1. Rank(next) = Below(k) /\ Below(k) < UpTo(k)
            BY <3>3, <4>3, <5>1, <5>2
          <6>2. Fits(Same(next), k, want) BY <4>1, <5>2, <6>1, SameFits
          <6> QED BY <1>1, <1>11, <2>5, <3>7, <4>4, <5>2, <6>2
        <5>3. CASE ~(~Multi /\ KeyOf(ElemAt(next)) <= k)
          <6>1. ~Multi => Below(k) = UpTo(k) BY <1>4, <2>3, <4>3, <5>1, <5>3
          <6>2. Fits(Place(BeforeHint(next)), k, want) BY <3>5, <5>1, <6>1
          <6> QED BY <1>1, <1>11, <2>5, <3>7, <4>4, <5>3, <6>2
        <5> QED BY <5>2, <5>3
      <4>5. CASE ~(KeyOf(ElemAt(next)) >= k) /\ Multi
        <5> DEFINE at == Search(k, FALSE)
        <5>1. Landed(at, Below(k)) BY SearchLands
        <5> HIDE DEF at
        <5>2. Gap(at) /\ AtFront(at) /\ Rank(at) = Below(k) BY <5>1 DEF Landed
        <5>3. HintAt(at, Rank(at)) BY <1>2, <5>2, SearchHint
        <5>4. Gap(BeforeHint(at)) /\ AtFront(BeforeHint(at)) /\ Rank(BeforeHint(at)) = Below(k)
          BY <5>2, <5>3 DEF HintAt
        <5>5. FitAt(Rank(BeforeHint(at)), k, want)
          BY <1>4, <3>2, <4>5, <5>4 DEF FitAt
        <5>6. Fits(Place(BeforeHint(at)), k, want) BY <5>4, <5>5, PlaceFits
        <5> QED BY <1>1, <1>11, <2>5, <3>7, <4>5, <5>6 DEF at
      <4>6. CASE ~(KeyOf(ElemAt(next)) >= k) /\ ~Multi
        <5> DEFINE found == Searched(k)
        <5>1. Fits(found, k, UpTo(k)) BY SearchedFits
        <5> HIDE DEF found
        <5>2. want \in {Below(k), UpTo(k)} BY <3>2
        <5>3. Fits(found, k, want) BY <1>3, <4>6, <5>1, <5>2, OnlyOne
        <5> QED BY <1>1, <1>11, <2>5, <3>7, <4>6, <5>3 DEF found
      <4> QED BY <4>4, <4>5, <4>6
    <3> QED BY <3>6, <3>7
  <2> QED BY <2>4, <2>5
<1> QED BY <1>9, <1>10, <1>11

(* The gap behind an element. *)
LEMMA BehindLands ==
  ASSUME TreeInv, NEW p, Pointing(p), NEW q, q = Iter(p.leaf, p.pos + 1)
  PROVE  Landed(q, Rank(p) + 1)
<1>1. Gap(q) /\ Rank(q) = Rank(p) + 1 BY GapBehind
<1>2. AtFront(q)
  <2>1. CASE root # NULL
    <3> DEFINE l == p.leaf
    <3>1. Pointed(p) BY PointedIs
    <3>2. p.pos \in 0 .. Len(vals[l]) - 1 BY <2>1, <3>1 DEF Pointed, LeafAt
    <3>3. p.pos + 1 # 0 BY <3>2
    <3> QED BY <3>3 DEF AtFront, Iter
  <2> QED BY <2>1 DEF AtFront
<1> QED BY <1>1, <1>2 DEF Landed

(* No element behind it has its key. *)
Hindmost(r) == \A i \in 1 .. Len(Contents) : i > r + 1 => KeyAt(i) > KeyAt(r + 1)

LEMMA LocatedNextFits ==
  ASSUME Resting, Sorted, size = Len(Contents), NEW k \in Int, NEW hint, Held(hint), hint # End => Hindmost(Rank(hint))
  PROVE  Fits(LocatedNext(hint, k), k, UpTo(k))
<1> DEFINE here == KeyOf(ElemAt(hint))
           next == Following(hint)
           spot == Iter(hint.leaf, hint.pos + 1)
           loc == LocatedNext(hint, k)
           h == Rank(hint)
           want == UpTo(k)
<1> SUFFICES Fits(loc, k, want) OBVIOUS
<1>1. loc = IF hint = End THEN Located(hint, k)
            ELSE IF here = k THEN IF Multi THEN Place(spot) ELSE Same(hint)
            ELSE IF here > k THEN Searched(k)
            ELSE IF next = End THEN Place(spot)
            ELSE IF KeyOf(ElemAt(next)) < k THEN Searched(k)
            ELSE IF KeyOf(ElemAt(next)) > k THEN Place(spot)
            ELSE IF Multi THEN Place(Search(k, TRUE))
            ELSE Same(next)
  BY DEF LocatedNext
<1>2. TreeInv /\ work.pc \in {"idle", "range"} BY DEF Resting
<1>3. Marked(k) BY MarksAre
<1>4. /\ Below(k) \in 0 .. Len(Contents) /\ UpTo(k) \in 0 .. Len(Contents) /\ Len(Contents) \in Nat
      /\ Below(k) <= UpTo(k) /\ (~Multi => UpTo(k) <= Below(k) + 1)
  BY <1>3 DEF Marked, Marks
<1>5. h \in 0 .. Len(Contents) /\ (hint # End => h # Len(Contents) /\ Pointing(hint)) /\ (hint = End => h = Len(Contents))
  BY <1>2, HeldRank
<1>6. Fits(Searched(k), k, want) BY SearchedFits
<1>7. CASE hint = End
  <2>1. Fits(Located(hint, k), k, Nearest(h, k)) BY LocatedFits
  <2>2. Nearest(h, k) = want BY <1>4, <1>5, <1>7 DEF Nearest, Least
  <2>3. loc = Located(hint, k) BY <1>1, <1>7
  <2> QED BY <2>1, <2>2, <2>3
<1>8. CASE hint # End
  <2>1. Pointing(hint) BY <1>5, <1>8
  <2>2. Compared(hint, k) BY <1>2, <1>3, <2>1, ComparedIs
  <2>3. h \in Nat /\ h < Len(Contents) /\ here \in Int /\ (here < k <=> h < Below(k)) /\ (here <= k <=> h < UpTo(k))
    BY <2>2 DEF Compared
  <2>4. ElemAt(hint) = Contents[h + 1] BY <1>2, <2>1, ElemIs
  <2>5. here = KeyAt(h + 1) BY <2>4 DEF KeyAt
  <2>6. Landed(spot, h + 1) BY <1>2, <2>1, BehindLands
  <2>7. ASSUME want = h + 1, Below(k) <= h + 1, ~Multi => Below(k) = UpTo(k)
        PROVE  Fits(Place(spot), k, want)
    <3> HIDE DEF spot
    <3>1. Gap(spot) /\ AtFront(spot) /\ Rank(spot) = h + 1 BY <2>6 DEF Landed
    <3>2. FitAt(Rank(spot), k, want) BY <1>4, <2>7, <3>1 DEF FitAt
    <3> QED BY <3>1, <3>2, PlaceFits
  <2>8. Held(next) /\ Rank(next) = h + 1 BY <1>2, <2>1, FollowingIs
  <2>9. Hindmost(h) BY <1>8
  <2> HIDE DEF spot, next, loc, h, here
  <2>10. CASE here = k
    <3>1. h < UpTo(k) /\ ~(h < Below(k)) BY <2>3, <2>10
    <3>2. CASE Multi
      <4>1. UpTo(k) = h + 1
        <5> SUFFICES ASSUME UpTo(k) # h + 1 PROVE FALSE OBVIOUS
        <5>1. PICK i \in 1 .. Len(Contents) : i = UpTo(k) BY <1>4, <2>3, <3>1
        <5>2. i > h + 1 /\ i <= UpTo(k) BY <1>4, <2>3, <3>1, <5>1
        <5>3. KeyAt(i) > KeyAt(h + 1) BY <2>9, <5>2 DEF Hindmost
        <5>4. KeyAt(i) <= k /\ KeyAt(i) \in Int BY <1>3, <5>2 DEF Marked, Marks
        <5> QED BY <2>5, <2>10, <5>3, <5>4
      <4>2. Below(k) <= h + 1 BY <1>4, <4>1
      <4>3. Fits(Place(spot), k, want) BY <2>7, <3>2, <4>1, <4>2
      <4> QED BY <1>1, <1>8, <2>10, <3>2, <4>3
    <3>3. CASE ~Multi
      <4>1. h = Below(k) /\ Below(k) < UpTo(k) BY <1>4, <2>3, <3>1, <3>3
      <4>2. Rank(hint) = Below(k) BY <4>1 DEF h
      <4> HIDE DEF want
      <4>3. Fits(Same(hint), k, want) BY <2>1, <3>3, <4>1, <4>2, SameFits
      <4> QED BY <1>1, <1>8, <2>10, <3>3, <4>3
    <3> QED BY <3>2, <3>3
  <2>11. CASE here # k /\ here > k BY <1>1, <1>6, <1>8, <2>11
  <2>12. CASE here # k /\ ~(here > k)
    <3>1. h < Below(k) BY <2>3, <2>12
    <3>2. CASE next = End
      <4>1. h + 1 = Len(Contents) BY <1>2, <2>8, <3>2, EndIs
      <4>2. want = h + 1 /\ Below(k) <= h + 1 /\ Below(k) = UpTo(k)
        BY <1>4, <2>3, <3>1, <4>1
      <4>3. Fits(Place(spot), k, want) BY <2>7, <4>2
      <4> QED BY <1>1, <1>8, <2>12, <3>2, <4>3
    <3>3. CASE next # End
      <4>1. Pointing(next) BY <1>2, <2>8, <3>3, HeldRank
      <4>2. Compared(next, k) BY <1>2, <1>3, <4>1, ComparedIs
      <4> DEFINE there == KeyOf(ElemAt(next))
      <4>3. there \in Int /\ (there < k <=> h + 1 < Below(k)) /\ (there <= k <=> h + 1 < UpTo(k))
        BY <2>8, <4>2 DEF Compared
      <4> HIDE DEF there
      <4>4. loc = IF there < k THEN Searched(k)
                  ELSE IF there > k THEN Place(spot)
                  ELSE IF Multi THEN Place(Search(k, TRUE))
                  ELSE Same(next)
        BY <1>1, <1>8, <2>12, <3>3 DEF there
      <4>5. CASE there < k BY <1>6, <4>4, <4>5
      <4>6. CASE ~(there < k) /\ there > k
        <5>1. ~(h + 1 < UpTo(k)) BY <4>3, <4>6
        <5>2. want = h + 1 /\ Below(k) <= h + 1 /\ Below(k) = UpTo(k)
          BY <1>4, <2>3, <3>1, <5>1
        <5>3. Fits(Place(spot), k, want) BY <2>7, <5>2
        <5> QED BY <4>4, <4>6, <5>3
      <4>7. CASE ~(there < k) /\ ~(there > k) /\ Multi
        <5> DEFINE at == Search(k, TRUE)
        <5>1. Landed(at, UpTo(k)) BY SearchLands
        <5> HIDE DEF at
        <5>2. Gap(at) /\ AtFront(at) /\ Rank(at) = UpTo(k) BY <5>1 DEF Landed
        <5>3. FitAt(Rank(at), k, want) BY <1>4, <4>7, <5>2 DEF FitAt
        <5>4. Fits(Place(at), k, want) BY <5>2, <5>3, PlaceFits
        <5> QED BY <4>4, <4>7, <5>4 DEF at
      <4>8. CASE ~(there < k) /\ ~(there > k) /\ ~Multi
        <5>1. h + 1 < UpTo(k) /\ ~(h + 1 < Below(k)) BY <4>3, <4>8
        <5>2. Rank(next) = Below(k) /\ Below(k) < UpTo(k)
          BY <1>4, <2>3, <2>8, <3>1, <5>1
        <5> HIDE DEF want
        <5>3. Fits(Same(next), k, want) BY <4>1, <4>8, <5>2, SameFits
        <5> QED BY <4>4, <4>8, <5>3
      <4> QED BY <4>5, <4>6, <4>7, <4>8
    <3> QED BY <3>2, <3>3
  <2> QED BY <2>10, <2>11, <2>12
<1> QED BY <1>7, <1>8

(* The order of the elements, of whatever sequence. *)
Precedes(x, y) == KeyOf(x) < KeyOf(y) \/ (Multi /\ KeyOf(x) = KeyOf(y))
Ordered(s) == \A i, j \in 1 .. Len(s) : i < j => Precedes(s[i], s[j])
Between(s, i, x) ==
  /\ \A j \in 1 .. Len(s) : j <= i => Precedes(s[j], x)
  /\ \A j \in 1 .. Len(s) : j > i => Precedes(x, s[j])

LEMMA SortedOrdered ==
  ASSUME TRUE
  PROVE  Sorted <=> Ordered(Contents)
BY DEF Sorted, Ordered, Precedes, KeyAt

LEMMA PutOrdered ==
  ASSUME NEW s \in Seq(Elems), Ordered(s), NEW i \in 0 .. Len(s), NEW x \in Elems, Between(s, i, x)
  PROVE  Ordered(Put(s, i, x))
<1> DEFINE t == Put(s, i, x)
<1>1. PutIn(s, i, x, Elems) BY PutInto
<1>2. Len(s) \in Nat BY LenProperties
<1>3. /\ Len(t) = Len(s) + 1 /\ t[i + 1] = x /\ (\A j \in 1 .. i : t[j] = s[j])
      /\ \A j \in i + 1 .. Len(s) : t[j + 1] = s[j]
  BY <1>1 DEF PutIn
<1> HIDE DEF t
<1>4. ASSUME NEW j \in 1 .. Len(t)
      PROVE  \/ j <= i /\ j \in 1 .. Len(s) /\ t[j] = s[j]
             \/ j = i + 1 /\ t[j] = x
             \/ j > i + 1 /\ j - 1 \in 1 .. Len(s) /\ t[j] = s[j - 1]
  <2>1. CASE j <= i
    <3>1. j \in 1 .. i /\ j \in 1 .. Len(s) BY <1>2, <2>1
    <3> QED BY <1>3, <2>1, <3>1
  <2>2. CASE j = i + 1 BY <1>3, <2>2
  <2>3. CASE j > i + 1
    <3>1. PICK z \in i + 1 .. Len(s) : z = j - 1 BY <1>2, <1>3, <2>3
    <3>2. t[z + 1] = s[z] /\ z + 1 = j /\ z \in 1 .. Len(s) BY <1>2, <1>3, <3>1
    <3> QED BY <2>3, <3>1, <3>2
  <2>4. j <= i \/ j = i + 1 \/ j > i + 1 BY <1>2
  <2> QED BY <2>1, <2>2, <2>3, <2>4
<1>5. ASSUME NEW a \in 1 .. Len(t), NEW b \in 1 .. Len(t), a < b
      PROVE  Precedes(t[a], t[b])
  <2>1. CASE b <= i
    <3>1. a <= i BY <1>2, <1>5, <2>1
    <3>2. a \in 1 .. Len(s) /\ t[a] = s[a] BY <1>2, <1>4, <3>1
    <3>3. b \in 1 .. Len(s) /\ t[b] = s[b] BY <1>2, <1>4, <2>1
    <3> QED BY <1>5, <3>2, <3>3 DEF Ordered
  <2>2. CASE b = i + 1
    <3>1. a <= i BY <1>2, <1>5, <2>2
    <3>2. a \in 1 .. Len(s) /\ t[a] = s[a] BY <1>2, <1>4, <3>1
    <3>3. t[b] = x BY <1>3, <2>2
    <3> QED BY <3>1, <3>2, <3>3 DEF Between
  <2>3. CASE b > i + 1
    <3> DEFINE z == b - 1
    <3>1. z \in 1 .. Len(s) /\ t[b] = s[z] /\ z > i BY <1>2, <1>4, <2>3
    <3>2. CASE a <= i
      <4>1. a \in 1 .. Len(s) /\ t[a] = s[a] BY <1>2, <1>4, <3>2
      <4>2. a < z BY <2>3, <3>2
      <4> HIDE DEF z
      <4> QED BY <3>1, <4>1, <4>2 DEF Ordered
    <3>3. CASE a = i + 1
      <4>1. t[a] = x BY <1>3, <3>3
      <4> HIDE DEF z
      <4> QED BY <3>1, <4>1 DEF Between
    <3>4. CASE a > i + 1
      <4> DEFINE y == a - 1
      <4>1. y \in 1 .. Len(s) /\ t[a] = s[y] BY <1>2, <1>4, <3>4
      <4>2. y < z BY <1>5
      <4> HIDE DEF z, y
      <4> QED BY <3>1, <4>1, <4>2 DEF Ordered
    <3>5. a <= i \/ a = i + 1 \/ a > i + 1 BY <1>2
    <3> QED BY <3>2, <3>3, <3>4, <3>5
  <2>4. b <= i \/ b = i + 1 \/ b > i + 1 BY <1>2
  <2> QED BY <2>1, <2>2, <2>3, <2>4
<1> QED BY <1>5 DEF Ordered, t

LEMMA CutOrdered ==
  ASSUME NEW s \in Seq(Elems), Ordered(s), NEW r \in Nat, NEW g \in Nat, r + g <= Len(s)
  PROVE  Ordered(CutOut(s, r, g))
<1> DEFINE A == Slice(s, 0, r)
           B == Slice(s, r + g, Len(s))
           t == CutOut(s, r, g)
           d == r + g
           n == Len(s)
           zero == 0
<1>1. n \in Nat /\ r \in 0 .. n /\ zero \in 0 .. r /\ n \in 0 .. n /\ d \in 0 .. n /\ d \in Nat
  BY LenProperties
<1>2. t = A \o B BY DEF CutOut
<1>3. A = Slice(s, zero, r) /\ B = Slice(s, d, n) /\ zero = 0 OBVIOUS
<1> HIDE DEF zero, A, B, t
<1>4. A \in Seq(Elems) /\ Len(A) = r - zero /\ \A i \in 1 .. r - zero : A[i] = s[zero + i]
  BY <1>1, <1>3, SliceIs, ZenonT(60) DEF n
<1>5. B \in Seq(Elems) /\ Len(B) = n - d /\ \A i \in 1 .. n - d : B[i] = s[d + i]
  <2> HIDE DEF d
  <2> QED BY <1>1, <1>3, SliceIs, ZenonT(60) DEF n
<1>6. Len(t) = Len(A) + Len(B) /\ \A i \in 1 .. Len(A) + Len(B) : t[i] = IF i <= Len(A) THEN A[i] ELSE B[i - Len(A)]
  BY <1>2, <1>4, <1>5, ConcatProperties
<1>7. Len(A) = r /\ Len(t) = n - g /\ Len(A) + Len(B) = n - g
  <2>1. Len(A) = r - zero /\ Len(B) = n - d /\ Len(t) = Len(A) + Len(B) /\ zero = 0 /\ d = r + g /\ n \in Nat /\ d \in Nat
    BY <1>1, <1>3, <1>4, <1>5, <1>6
  <2> HIDE DEF d, n
  <2> QED BY <2>1
<1>8. ASSUME NEW j \in 1 .. Len(t)
      PROVE  \E z \in 1 .. n : z = (IF j <= r THEN j ELSE j + g) /\ t[j] = s[z]
  <2>1. CASE j <= r
    <3>1. j \in 1 .. n /\ j \in 1 .. r - zero /\ zero + j = j
      BY <1>1, <1>3, <1>7, <2>1
    <3>2. t[j] = A[j] BY <1>6, <1>7, <2>1
    <3>3. A[j] = s[j] BY <1>4, <3>1
    <3> QED BY <2>1, <3>1, <3>2, <3>3
  <2>2. CASE ~(j <= r)
    <3>1. PICK y \in 1 .. n - d : y = j - r BY <1>1, <1>7, <2>2
    <3>2. d + y = j + g /\ j + g \in 1 .. n BY <1>1, <1>7, <2>2, <3>1
    <3>3. t[j] = B[y] BY <1>6, <1>7, <2>2, <3>1
    <3>4. B[y] = s[d + y] BY <1>5, <3>1
    <3> QED BY <2>2, <3>2, <3>3, <3>4
  <2> QED BY <2>1, <2>2
<1>9. ASSUME NEW a \in 1 .. Len(t), NEW b \in 1 .. Len(t), a < b
      PROVE  Precedes(t[a], t[b])
  <2>1. PICK y \in 1 .. n : y = (IF a <= r THEN a ELSE a + g) /\ t[a] = s[y]
    BY <1>8
  <2>2. PICK z \in 1 .. n : z = (IF b <= r THEN b ELSE b + g) /\ t[b] = s[z]
    BY <1>8
  <2>3. y < z BY <1>1, <1>7, <1>9, <2>1, <2>2
  <2> QED BY <2>1, <2>2, <2>3 DEF Ordered
<1> QED BY <1>9 DEF Ordered, t

(* The iterator of the running call, or of the last one, is where it should *)
(* be. *)
Promised == Rank(work.it) = work.want

(* What the next element of insert_with_hint relies on: no element behind *)
(* the one inserted last has its key. *)
ImportLast == work.import => work.want \in Nat /\ work.want < Len(Contents) /\ Hindmost(work.want)

Ordering == Separated /\ Sorted /\ Promised /\ ImportLast

LEMMA SortedThen ==
  ASSUME use' = use, NEW s, Contents' = s, Ordered(s)
  PROVE  Sorted'
<1>1. \A i, j \in 1 .. Len(s) : i < j => s[i][1] < s[j][1] \/ (use.multi /\ s[i][1] = s[j][1])
  BY DEF Ordered, Precedes, KeyOf, Multi
<1>2. \A i, j \in 1 .. Len(Contents') : i < j => Contents'[i][1] < Contents'[j][1] \/ (use'.multi /\ Contents'[i][1] = Contents'[j][1])
  BY <1>1
<1> QED BY <1>2 DEF Sorted, KeyAt, KeyOf, Multi

LEMMA SameSep ==
  ASSUME Separated, UNCHANGED <<root, nodes>>, work'.pc \in {"idle", "range"}, work.pc \in {"idle", "range"}
  PROVE  Separated'
<1>1. CASE root = NULL BY <1>1 DEF Separated
<1>2. CASE root # NULL
  <2>1. PICK F : Leads(F) /\ Separates(F) BY <1>2 DEF Separated
  <2>2. vals' = vals /\ keys' = keys /\ sons' = sons /\ parent' = parent /\ root' = root
    BY DEF nodes
  <2>3. Leads(F)' BY <2>1, <2>2 DEF Leads, Nodes, Inners
  <2>4. Separates(F)' BY <2>1, <2>2 DEF Separates, FirstKey, Inners
  <2>5. Carries(F)' BY DEF Carries
  <2> QED BY <2>3, <2>4, <2>5 DEF Separated
<1> QED BY <1>1, <1>2

(* The keys around a place that fits. *)
LEMMA FitBetween ==
  ASSUME NEW e, NEW r, NEW want, Marked(KeyOf(e)), KeyOf(e) \in Int, FitAt(r, KeyOf(e), want)
  PROVE  Between(Contents, r, e)
<1> DEFINE k == KeyOf(e)
<1> HIDE DEF k
<1>1. /\ Below(k) \in 0 .. Len(Contents) /\ UpTo(k) \in 0 .. Len(Contents) /\ Len(Contents) \in Nat /\ k \in Int
      /\ \A i \in 1 .. Len(Contents) : (i <= Below(k) <=> KeyAt(i) < k) /\ (i <= UpTo(k) <=> KeyAt(i) <= k) /\ KeyAt(i) \in Int
  BY DEF Marked, Marks, k
<1>2. r \in 0 .. Len(Contents) /\ Below(k) <= r /\ r <= UpTo(k) /\ (~Multi => Below(k) = r /\ UpTo(k) = r)
  <2>1. r = want /\ want \in 0 .. Len(Contents) /\ Below(k) <= want /\ want <= UpTo(k) /\ (~Multi => Below(k) = UpTo(k))
    BY DEF FitAt, k
  <2> QED BY <1>1, <2>1
<1>3. ASSUME NEW j \in 1 .. Len(Contents), j <= r
      PROVE  Precedes(Contents[j], e)
  <2>1. j <= UpTo(k) /\ (~Multi => j <= Below(k)) BY <1>1, <1>2, <1>3
  <2>2. KeyAt(j) <= k /\ (~Multi => KeyAt(j) < k) /\ KeyAt(j) \in Int
    BY <1>1, <2>1
  <2>3. KeyAt(j) < k \/ (Multi /\ KeyAt(j) = k) BY <1>1, <2>2
  <2> QED BY <2>3 DEF Precedes, KeyAt, k
<1>4. ASSUME NEW j \in 1 .. Len(Contents), j > r
      PROVE  Precedes(e, Contents[j])
  <2>1. ~(j <= Below(k)) /\ (~Multi => ~(j <= UpTo(k))) BY <1>1, <1>2, <1>4
  <2>2. ~(KeyAt(j) < k) /\ (~Multi => ~(KeyAt(j) <= k)) /\ KeyAt(j) \in Int
    BY <1>1, <2>1
  <2>3. k < KeyAt(j) \/ (Multi /\ k = KeyAt(j)) BY <1>1, <2>2
  <2> QED BY <2>3 DEF Precedes, KeyAt, k
<1> QED BY <1>3, <1>4 DEF Between

(* The element just inserted behind all those of its key is the last one. *)
LEMMA PutLast ==
  ASSUME TreeInv, NEW e \in Elems, KeyOf(e) \in Int, Marked(KeyOf(e)), NEW r, r = UpTo(KeyOf(e)),
         Contents' = Put(Contents, r, e)
  PROVE  r \in Nat /\ r < Len(Contents') /\ Hindmost(r)'
<1> DEFINE k == KeyOf(e)
           s == Contents
<1>1. s \in Seq(Elems) /\ Len(s) \in Nat BY ContentsIs
<1>2. r \in 0 .. Len(s) /\ \A i \in 1 .. Len(s) : (i <= r <=> KeyAt(i) <= k) /\ KeyAt(i) \in Int
  BY DEF Marked, Marks
<1>3. \A i \in 1 .. Len(s) : KeyAt(i) = KeyOf(s[i]) BY DEF KeyAt
<1> HIDE DEF s
<1>4. PICK t : t = Put(s, r, e) OBVIOUS
<1>5. Contents' = t BY <1>4 DEF s
<1>6. PutIn(s, r, e, Elems) BY <1>1, <1>2, PutInto
<1>7. Len(t) = Len(s) + 1 /\ t[r + 1] = e /\ \A j \in r + 1 .. Len(s) : t[j + 1] = s[j]
  BY <1>4, <1>6 DEF PutIn
<1>8. ASSUME NEW i \in 1 .. Len(t), i > r + 1
      PROVE  KeyOf(t[i]) > KeyOf(t[r + 1])
  <2>1. PICK j \in r + 1 .. Len(s) : j + 1 = i
    <3>1. i - 1 \in r + 1 .. Len(s) /\ (i - 1) + 1 = i BY <1>1, <1>2, <1>7, <1>8
    <3> QED BY <3>1
  <2>2. t[i] = s[j] BY <1>7, <2>1
  <2>3. j \in 1 .. Len(s) /\ ~(j <= r) BY <1>1, <1>2
  <2>4. ~(KeyAt(j) <= k) /\ KeyAt(j) \in Int /\ KeyAt(j) = KeyOf(s[j])
    BY <1>2, <1>3, <2>3
  <2>5. KeyOf(s[j]) > k BY <2>4
  <2> QED BY <1>7, <2>2, <2>5
<1>9. r \in Nat /\ r < Len(t) BY <1>1, <1>2, <1>7
<1>10. \A i \in 1 .. Len(Contents') : i > r + 1 => KeyOf(Contents'[i]) > KeyOf(Contents'[r + 1])
  BY <1>5, <1>8
<1>11. Hindmost(r)' BY <1>10 DEF Hindmost, KeyAt
<1> QED BY <1>5, <1>9, <1>11

(* The element that is returned instead of an insertion. *)
LEMMA FoundOrder ==
  ASSUME TreeInv, work.pc = "idle", use' = use, Separated, Sorted, NEW k \in Int, Marked(k), NEW it, Held(it), NEW w, w = Below(k),
         ~Multi, Rank(it) = w, Below(k) < UpTo(k), NEW import, work' = Returned(it, w, import), UNCHANGED <<root, size, base, nodes>>
  PROVE  Ordering'
<1>1. /\ Below(k) \in 0 .. Len(Contents) /\ UpTo(k) \in 0 .. Len(Contents) /\ Len(Contents) \in Nat
      /\ UpTo(k) <= Below(k) + 1
      /\ \A i \in 1 .. Len(Contents) : (i <= Below(k) <=> KeyAt(i) < k) /\ (i <= UpTo(k) <=> KeyAt(i) <= k) /\ KeyAt(i) \in Int
  BY DEF Marked, Marks
<1>2. vals' = vals /\ chain' = chain /\ root' = root /\ base' = base /\ work'.it = it /\ work'.want = w /\ work'.pc = "idle"
  BY ReturnedWork DEF nodes
<1>3. Contents' = Contents BY <1>2 DEF Contents
<1>4. Separated' BY <1>2, SameSep
<1>5. Sorted'
  <2>1. Ordered(Contents) BY SortedOrdered
  <2>2. PICK s : s = Contents OBVIOUS
  <2> QED BY <1>3, <2>1, <2>2, SortedThen
<1>6. Promised'
  <2>1. Rank(it)' = Rank(it) BY <1>2, <1>3 DEF Rank
  <2> QED BY <1>2, <2>1 DEF Promised
<1>7. w \in Nat /\ w < Len(Contents) /\ UpTo(k) = w + 1 BY <1>1
<1>8. Hindmost(w)
  <2>1. PICK j \in 1 .. Len(Contents) : j = w + 1 BY <1>1, <1>7
  <2>2. KeyAt(j) <= k /\ KeyAt(j) \in Int BY <1>1, <1>7, <2>1
  <2>3. ASSUME NEW i \in 1 .. Len(Contents), i > w + 1 PROVE KeyAt(i) > KeyAt(w + 1)
    <3>1. ~(i <= UpTo(k)) BY <1>7, <2>3
    <3>2. KeyAt(i) \in Int /\ ~(KeyAt(i) <= k) BY <1>1, <3>1
    <3>3. KeyAt(i) > KeyAt(j) BY <2>2, <3>2
    <3> QED BY <2>1, <3>3
  <2> QED BY <2>3 DEF Hindmost
<1>9. Hindmost(w)' BY <1>3, <1>8 DEF Hindmost, KeyAt
<1>10. ImportLast' BY <1>2, <1>3, <1>7, <1>9 DEF ImportLast
<1> QED BY <1>4, <1>5, <1>6, <1>10 DEF Ordering

InsertWork(want, import) == work'.want = want /\ work'.import = import

LEMMA InsertWorks ==
  ASSUME NEW p, NEW e, NEW want, NEW import, InsertIn(p, e, want, import)
  PROVE  InsertWork(want, import)
<1>1. ASSUME NEW it PROVE Returned(it, want, import).want = want /\ Returned(it, want, import).import = import
  BY DEF Returned
<1>2. CASE InsertSmall(p, e, want, import)
  <2>1. work' = Returned(p, want, import) BY <1>2 DEF InsertSmall
  <2> QED BY <1>1, <2>1 DEF InsertWork
<1>3. CASE InsertThird(p, e, want, import)
  <2>1. \E it : work' = Returned(it, want, import) BY <1>3 DEF InsertThird
  <2> QED BY <1>1, <2>1 DEF InsertWork
<1>4. CASE InsertRoom(p, e, want, import)
  <2>1. work' = Returned(p, want, import) BY <1>4 DEF InsertRoom
  <2> QED BY <1>1, <2>1 DEF InsertWork
<1>5. CASE InsertSplit(p, e, want, import)
  <2>1. \E it, c, i, k : work' = [Returned(it, want, import) EXCEPT !.pc = "ascend", !.cur = c, !.inst = i, !.key = k]
    BY <1>5 DEF InsertSplit
  <2>2. PICK it, c, i, k : work' = [Returned(it, want, import) EXCEPT !.pc = "ascend", !.cur = c, !.inst = i, !.key = k]
    BY <2>1
  <2> QED BY <2>2 DEF InsertWork, Returned
<1> QED BY <1>2, <1>3, <1>4, <1>5 DEF InsertIn

LEMMA PlacedOrder ==
  ASSUME TreeInv, work.pc = "idle", use' = use, Separated, Sorted, NEW e \in Elems, KeyOf(e) \in Int, Marked(KeyOf(e)),
         NEW p, Gap(p), AtFront(p), NEW want, FitAt(Rank(p), KeyOf(e), want), NEW import,
         import => want = UpTo(KeyOf(e)), InsertIn(p, e, want, import)
  PROVE  Ordering'
<1>1. InsertDone(p, e) /\ InsertWork(want, import) BY InsertInDone, InsertWorks
<1>2. Resting BY DEF Resting
<1>3. Separated' BY <1>2, InsertInSep
<1>4. Rank(p) = want /\ want \in 0 .. Len(Contents) BY DEF FitAt
<1>5. PICK r : r = Rank(p) OBVIOUS
<1>6. Contents' = Put(Contents, r, e) /\ Rank(work.it)' = r
  BY <1>1, <1>5 DEF InsertDone
<1>7. work'.want = want /\ work'.import = import BY <1>1 DEF InsertWork
<1>8. Promised' BY <1>4, <1>5, <1>6, <1>7 DEF Promised
<1>9. Sorted'
  <2>1. Between(Contents, r, e) BY <1>5, FitBetween
  <2>2. Contents \in Seq(Elems) /\ Ordered(Contents)
    BY ContentsIs, SortedOrdered
  <2>3. PICK s : s = Contents OBVIOUS
  <2>4. r \in 0 .. Len(s) /\ s \in Seq(Elems) /\ Ordered(s) /\ Between(s, r, e)
    BY <1>4, <1>5, <2>1, <2>2, <2>3
  <2>5. Ordered(Put(s, r, e)) BY <2>4, PutOrdered
  <2>6. PICK t : t = Put(s, r, e) OBVIOUS
  <2>7. Contents' = t /\ Ordered(t) BY <1>6, <2>3, <2>5, <2>6
  <2> QED BY <2>7, SortedThen
<1>10. ImportLast'
  <2>1. CASE import
    <3>1. r = UpTo(KeyOf(e)) BY <1>4, <1>5, <2>1
    <3>2. r \in Nat /\ r < Len(Contents') /\ Hindmost(r)' BY <1>6, <3>1, PutLast
    <3> QED BY <1>4, <1>5, <1>7, <3>2 DEF ImportLast
  <2>2. CASE ~import BY <1>7, <2>2 DEF ImportLast
  <2> QED BY <2>1, <2>2
<1> QED BY <1>3, <1>8, <1>9, <1>10 DEF Ordering

LEMMA LocatedOrder ==
  ASSUME IInv, work.pc = "idle", use' = use, Separated, Sorted, NEW e \in Elems, NEW loc, NEW want, Fits(loc, KeyOf(e), want),
         NEW import, import => want = UpTo(KeyOf(e)), InsertLocated(loc, e, want, import)
  PROVE  Ordering'
<1>1. TreeInv /\ Resting BY DEF IInv, Resting
<1>2. KeyOf(e) \in Int
  <2>1. use \in Uses BY <1>1 DEF TreeInv, ShapeInv, Typed
  <2>2. Keys \subseteq Int BY <2>1, KeysAre
  <2> QED BY <2>2 DEF Keys
<1>3. Marked(KeyOf(e)) BY <1>1, <1>2, MarksAre
<1>4. CASE loc.dup
  <2> DEFINE it == loc.at
             k == KeyOf(e)
  <2>1. Pointing(it) /\ ~Multi /\ Rank(it) = Below(k) /\ Below(k) < UpTo(k)
    BY <1>4 DEF Fits
  <2>2. Held(it) BY <1>1, <2>1, PointingHeld
  <2>3. work' = Returned(it, Below(k), import) /\ UNCHANGED <<root, size, base, nodes>>
    BY <1>4 DEF InsertLocated
  <2>4. PICK w : w = Below(k) OBVIOUS
  <2>5. work' = Returned(it, w, import) /\ Rank(it) = w BY <2>1, <2>3, <2>4
  <2>6. k \in Int /\ Marked(k) BY <1>2, <1>3
  <2> HIDE DEF it, k
  <2> QED BY <1>1, <2>1, <2>2, <2>3, <2>4, <2>5, <2>6, FoundOrder
<1>5. CASE ~loc.dup
  <2> DEFINE p == loc.at
  <2>1. Gap(p) /\ AtFront(p) /\ FitAt(Rank(p), KeyOf(e), want) BY <1>5 DEF Fits
  <2>2. InsertIn(p, e, want, import) BY <1>5 DEF InsertLocated
  <2> HIDE DEF p
  <2> QED BY <1>1, <1>2, <1>3, <2>1, <2>2, PlacedOrder
<1> QED BY <1>4, <1>5

(* The loops that restructure the tree. *)
LEMMA RankStays ==
  ASSUME IInv, IInv', root # NULL, Contents' = Contents, vals' = vals, chain' = chain, base' = base, NEW it, Held(it)
  PROVE  Rank(it)' = Rank(it)
<1>1. CASE root' # NULL BY <1>1 DEF Rank
<1>2. CASE root' = NULL
  <2>1. Nodes' = {} /\ Nodes' = DOMAIN vals' \cup Inners'
    BY <1>2 DEF IInv, TreeInv, ShapeInv, NoTree, Typed
  <2>2. DOMAIN vals = {} BY <2>1
  <2>3. it = Iter(NULL, 0) BY <2>2 DEF Held, Points
  <2>4. base = <<>> BY DEF IInv, TreeInv, Filled
  <2>5. Contents' = base' BY <1>2 DEF Contents
  <2>6. Contents = <<>> BY <2>4, <2>5
  <2>7. Rank(it) = 0 BY <2>3, <2>6 DEF Rank, Iter
  <2>8. Rank(it)' = 0 BY <1>2, <2>3 DEF Rank, Iter
  <2> QED BY <2>7, <2>8
<1> QED BY <1>1, <1>2

LoopWork ==
  /\ work'.it = work.it /\ work'.want = work.want /\ (work'.import => work.import)
  /\ vals' = vals /\ chain' = chain /\ base' = base /\ use' = use

LEMMA LoopWorks ==
  ASSUME Ascend \/ Rebalance
  PROVE  LoopWork
<1>1. CASE AscendRoom \/ AscendRoot
  <2>1. work' = Returned(work.it, work.want, work.import) /\ vals' = vals /\ chain' = chain /\ base' = base /\ use' = use
    BY <1>1 DEF AscendRoom, AscendRoot, In
  <2> QED BY <2>1 DEF LoopWork, Returned
<1>2. CASE AscendSplit
  <2>1. \E c, i, k : work' = [work EXCEPT !.cur = c, !.inst = i, !.key = k]
    BY <1>2, ZenonT(60) DEF AscendSplit
  <2>2. vals' = vals /\ chain' = chain /\ base' = base /\ use' = use
    BY <1>2 DEF AscendSplit, In
  <2> QED BY <2>1, <2>2, SMTT(60) DEF LoopWork
<1>3. CASE RebalanceRoom \/ RebalanceRoot \/ InnerFromLeft \/ InnerFromRight
  <2>1. work' = Resume
    BY <1>3, ZenonT(60) DEF RebalanceRoom, RebalanceRoot, InnerFromLeft, InnerFromRight
  <2>2. vals' = vals /\ chain' = chain /\ base' = base /\ use' = use
    BY <1>3 DEF RebalanceRoom, RebalanceRoot, InnerFromLeft, InnerFromRight, In
  <2> QED BY <2>1, <2>2, SMTT(60) DEF LoopWork, Resume, Erased, Returned
<1>4. CASE InnerIntoLeft \/ InnerIntoRight
  <2>1. \E par, i : work' = [work EXCEPT !.cur = par, !.at = i]
    BY <1>4, ZenonT(60) DEF InnerIntoLeft, InnerIntoRight, InnerMerged
  <2>2. vals' = vals /\ chain' = chain /\ base' = base /\ use' = use
    BY <1>4 DEF InnerIntoLeft, InnerIntoRight, InnerMerged, In
  <2> QED BY <2>1, <2>2, SMTT(60) DEF LoopWork
<1> QED BY <1>1, <1>2, <1>3, <1>4 DEF Ascend, Rebalance

LEMMA LoopOrder ==
  ASSUME IInv, Ordering, Ascend \/ Rebalance
  PROVE  Ordering'
<1>1. IInv' /\ Contents' = Contents BY AscendInv, RebalanceInv
<1>2. LoopWork BY LoopWorks
<1>3. work.pc \in {"ascend", "rebalance"}
  <2>1. CASE Ascend
    BY <2>1, SMTT(60) DEF Ascend, AscendRoom, AscendSplit, AscendRoot, In
  <2>2. CASE Rebalance
    BY <2>2 DEF Rebalance, RebalanceRoom, RebalanceRoot, InnerFromLeft, InnerFromRight, InnerIntoLeft, InnerIntoRight, In
  <2> QED BY <2>1, <2>2, SMTT(60)
<1>4. root # NULL BY <1>3 DEF IInv, TreeInv, ShapeInv, NoTree
<1>5. Held(work.it) BY DEF IInv, Ranks
<1>6. /\ work'.it = work.it /\ work'.want = work.want /\ (work'.import => work.import)
      /\ vals' = vals /\ chain' = chain /\ base' = base /\ use' = use
  BY <1>2 DEF LoopWork
<1>7. Separated' BY AscendSep, RebalanceSep DEF Ordering
<1>8. Sorted'
  <2>1. Ordered(Contents) BY SortedOrdered DEF Ordering
  <2>2. PICK s : s = Contents OBVIOUS
  <2> QED BY <1>1, <1>6, <2>1, <2>2, SortedThen
<1>9. Promised'
  <2>1. PICK a : a = work.it OBVIOUS
  <2>2. Rank(a)' = Rank(a) BY <1>1, <1>4, <1>5, <1>6, <2>1, RankStays
  <2>3. Rank(a) = work.want BY <2>1 DEF Ordering, Promised
  <2> QED BY <1>6, <2>1, <2>2, <2>3 DEF Promised
<1>10. ImportLast' BY <1>1, <1>6 DEF Ordering, ImportLast, Hindmost, KeyAt
<1> QED BY <1>7, <1>8, <1>9, <1>10 DEF Ordering

(* The calls that insert. *)
LEMMA KeyInt ==
  ASSUME TreeInv, NEW e \in Elems
  PROVE  KeyOf(e) \in Int
<1>1. use \in Uses BY DEF TreeInv, ShapeInv, Typed
<1>2. Keys \subseteq Int BY <1>1, KeysAre
<1> QED BY <1>2 DEF Keys

LEMMA InsertsOrder ==
  ASSUME IInv, Ordering, NEW e \in Elems, Insert(e) \/ Import(e)
  PROVE  Ordering'
<1>1. work.pc = "idle" /\ use' = use BY DEF Insert, Import, Calling
<1>2. TreeInv /\ Resting /\ Sorted /\ Separated /\ size = Len(Contents) /\ Held(work.it)
  BY <1>1 DEF IInv, Ranks, Ordering, Resting
<1>3. KeyOf(e) \in Int BY <1>2, KeyInt
<1>4. CASE Insert(e)
  <2> DEFINE loc == Searched(KeyOf(e))
             want == UpTo(KeyOf(e))
             no == FALSE
  <2>1. InsertLocated(loc, e, want, no) BY <1>4 DEF Insert
  <2>2. Fits(loc, KeyOf(e), want) BY <1>2, <1>3, SearchedFits
  <2>3. no => want = UpTo(KeyOf(e)) OBVIOUS
  <2> HIDE DEF loc, want, no
  <2> QED BY <1>1, <1>2, <2>1, <2>2, <2>3, LocatedOrder
<1>5. CASE Import(e)
  <2> DEFINE hint == IF work.import THEN work.it ELSE End
             loc == LocatedNext(hint, KeyOf(e))
             want == UpTo(KeyOf(e))
             yes == TRUE
  <2>1. InsertLocated(loc, e, want, yes) BY <1>5 DEF Import
  <2>2. Held(hint) BY <1>2, EndIs
  <2>3. hint # End => Hindmost(Rank(hint))
    <3>1. CASE work.import
      <4>1. Hindmost(work.want) BY <3>1 DEF Ordering, ImportLast
      <4>2. Rank(work.it) = work.want BY DEF Ordering, Promised
      <4> QED BY <3>1, <4>1, <4>2
    <3>2. CASE ~work.import BY <3>2
    <3> QED BY <3>1, <3>2
  <2> HIDE DEF hint
  <2>4. Fits(loc, KeyOf(e), want) BY <1>2, <1>3, <2>2, <2>3, LocatedNextFits
  <2>5. yes => want = UpTo(KeyOf(e)) OBVIOUS
  <2> HIDE DEF loc, want, yes
  <2> QED BY <1>1, <1>2, <2>1, <2>4, <2>5, LocatedOrder
<1> QED BY <1>4, <1>5

LEMMA InsertHintOrder ==
  ASSUME IInv, Ordering, NEW e \in Elems, NEW hint \in Elements \cup {End}, InsertHint(hint, e)
  PROVE  Ordering'
<1>1. work.pc = "idle" /\ use' = use BY DEF InsertHint, Calling
<1>2. TreeInv /\ Resting /\ Sorted /\ Separated /\ size = Len(Contents)
  BY <1>1 DEF IInv, Ranks, Ordering, Resting
<1>3. Held(hint) BY <1>2, EmptyElements
<1>4. KeyOf(e) \in Int BY <1>2, KeyInt
<1> DEFINE k == KeyOf(e)
           loc == Located(hint, k)
           want == Nearest(Rank(hint), k)
           no == FALSE
<1>5. InsertLocated(loc, e, want, no) BY DEF InsertHint, Nearest
<1>6. Fits(loc, KeyOf(e), want) BY <1>2, <1>3, <1>4, LocatedFits
<1>7. no => want = UpTo(KeyOf(e)) OBVIOUS
<1> HIDE DEF loc, want, no
<1> QED BY <1>1, <1>2, <1>5, <1>6, <1>7, LocatedOrder

(* The calls that erase. *)
LEMMA EraseNoImport ==
  ASSUME NEW p, NEW left, NEW want, EraseAt(p, left, want)
  PROVE  ~work'.import
<1>1. \A it : ~Erased(it, left, want).import BY DEF Erased, Returned
<1>2. \A it, lhs, v, r, par, i : LeafMerged(lhs, v, r, par, i, it, left, want) => ~work'.import
  BY DEF LeafMerged, Erased, Returned
<1>3. CASE EraseSmall(p, left, want) BY <1>1, <1>3 DEF EraseSmall
<1>4. CASE EraseRoom(p, left, want) BY <1>1, <1>4 DEF EraseRoom
<1>5. CASE EraseRootLeaf(p, left, want)
  BY <1>1, <1>5, SMTT(60) DEF EraseRootLeaf
<1>6. CASE LeafFromLeft(p, left, want)
  BY <1>1, <1>6, ZenonT(60) DEF LeafFromLeft
<1>7. CASE LeafFromRight(p, left, want) BY <1>1, <1>7 DEF LeafFromRight
<1>8. CASE LeafIntoLeft(p, left, want) BY <1>2, <1>8 DEF LeafIntoLeft
<1>9. CASE LeafIntoRight(p, left, want) BY <1>2, <1>9 DEF LeafIntoRight
<1> QED BY <1>3, <1>4, <1>5, <1>6, <1>7, <1>8, <1>9 DEF EraseAt

(* The order after a piece has gone. *)
LEMMA PieceOrder ==
  ASSUME TreeInv, Sorted, use' = use, NEW r \in Nat, NEW g \in Nat, r + g <= Len(Contents), EraseDone(r, g),
         work'.want = r, ~work'.import
  PROVE  Sorted' /\ Promised' /\ ImportLast'
<1>1. Contents' = CutOut(Contents, r, g) /\ Rank(work.it)' = r BY DEF EraseDone
<1>2. Promised' /\ ImportLast' BY <1>1 DEF Promised, ImportLast
<1>3. PICK s : s = Contents OBVIOUS
<1>4. s \in Seq(Elems) /\ Ordered(s) /\ r + g <= Len(s)
  BY <1>3, ContentsIs, SortedOrdered
<1>5. Ordered(CutOut(s, r, g)) BY <1>4, CutOrdered
<1>6. PICK t : t = CutOut(s, r, g) OBVIOUS
<1>7. Contents' = t /\ Ordered(t) BY <1>1, <1>3, <1>5, <1>6
<1>8. Sorted' BY <1>7, SortedThen
<1> QED BY <1>2, <1>8

LEMMA EraseAtOrder ==
  ASSUME Resting, Sorted, use' = use, NEW p, Pointing(p), EraseAt(p, 0, Rank(p))
  PROVE  Ordering'
<1> DEFINE none == 0
<1>1. PICK r : r = Rank(p) OBVIOUS
<1>2. none \in Nat /\ EraseAt(p, none, r) BY <1>1
<1>3. TreeInv /\ work.pc \in {"idle", "range"} BY DEF Resting
<1> HIDE DEF none
<1>4. ErasedAt(p, none, r) BY <1>2, <1>3, EraseAtDone
<1>5. EraseDone(Rank(p), 1) /\ WorkDone(none, r) BY <1>4 DEF ErasedAt
<1>6. work'.want = r BY <1>5 DEF WorkDone
<1>7. ~work'.import BY <1>2, EraseNoImport
<1>8. Separated' BY <1>2, EraseAtSep
<1>9. RankedAt(p) BY <1>3, PointingRank2
<1>10. r \in 0 .. Len(Contents) - 1 /\ Len(Contents) \in Nat
  BY <1>1, <1>9 DEF RankedAt
<1> DEFINE one == 1
<1>11. r \in Nat /\ one \in Nat /\ r + one <= Len(Contents) BY <1>10
<1>12. EraseDone(r, one) BY <1>1, <1>5
<1> HIDE DEF one
<1>13. Sorted' /\ Promised' /\ ImportLast'
  BY <1>3, <1>6, <1>7, <1>11, <1>12, PieceOrder
<1> QED BY <1>8, <1>13 DEF Ordering

LEMMA EmptiedOrder ==
  ASSUME Emptied
  PROVE  Ordering'
<1>1. root' = NULL /\ base' = <<>> /\ work' = Returned(Iter(NULL, 0), 0, FALSE)
  BY DEF Emptied
<1>2. work'.it = Iter(NULL, 0) /\ work'.want = 0 /\ work'.import = FALSE
  BY <1>1 DEF Returned
<1>3. Separated' /\ ImportLast' BY <1>1, <1>2 DEF Separated, ImportLast
<1>4. Promised'
  <2>1. PICK a : a = Iter(NULL, 0) OBVIOUS
  <2>2. Rank(a)' = 0 BY <1>1, <2>1 DEF Rank, Iter
  <2> QED BY <1>2, <2>1, <2>2 DEF Promised
<1>5. Len(Contents') = 0
  <2>1. Contents' = <<>> BY <1>1 DEF Contents
  <2> QED BY <2>1, EmptySeq
<1>6. Sorted' BY <1>5 DEF Sorted
<1> QED BY <1>3, <1>4, <1>6 DEF Ordering

LEMMA ErasingOrder ==
  ASSUME IInv, work.pc = "idle", use' = use, Separated, Sorted, NEW first, NEW last, Erasing(first, last)
  PROVE  Ordering'
<1>1. CASE first = Begin /\ last = End BY <1>1, EmptiedOrder DEF Erasing
<1>2. CASE ~(first = Begin /\ last = End)
  <2>1. PICK c, r : c = CountBetween(first, last) /\ r = Rank(first) OBVIOUS
  <2>2. work' = Erased(first, c, r) /\ UNCHANGED <<root, size, base, nodes>>
    BY <1>2, <2>1 DEF Erasing
  <2>3. work'.it = first /\ work'.want = r /\ work'.import = FALSE /\ work'.pc \in {"idle", "range"}
    BY <2>2 DEF Erased, Returned
  <2>4. vals' = vals /\ chain' = chain /\ root' = root /\ base' = base
    BY <2>2 DEF nodes
  <2>5. Contents' = Contents BY <2>4 DEF Contents
  <2>6. Separated' BY <2>2, <2>3, SameSep
  <2>7. Rank(first)' = Rank(first) BY <2>4, <2>5 DEF Rank
  <2>8. Promised' /\ ImportLast' BY <2>1, <2>3, <2>7 DEF Promised, ImportLast
  <2>9. Sorted'
    <3>1. Ordered(Contents) BY SortedOrdered
    <3>2. PICK s : s = Contents OBVIOUS
    <3> QED BY <2>5, <3>1, <3>2, SortedThen
  <2> QED BY <2>6, <2>8, <2>9 DEF Ordering
<1> QED BY <1>1, <1>2

LEMMA EraseKeyOrder ==
  ASSUME IInv, Ordering, NEW k, EraseKey(k)
  PROVE  Ordering'
<1> DEFINE first == Bound(k, FALSE)
           last == Bound(k, TRUE)
<1>1. work.pc = "idle" /\ use' = use BY DEF EraseKey, Calling
<1>2. Resting /\ Sorted /\ Separated /\ TreeInv /\ work.pc \in {"idle", "range"}
  BY <1>1 DEF IInv, Ordering, Resting
<1>3. IF Multi THEN first # last /\ Erasing(first, last)
      ELSE first # End /\ EraseAt(first, 0, Rank(first))
  BY DEF EraseKey
<1>4. CASE Multi
  <2>1. Erasing(first, last) BY <1>3, <1>4
  <2> HIDE DEF first, last
  <2> QED BY <1>1, <1>2, <2>1, ErasingOrder
<1>5. CASE ~Multi
  <2>1. Held(first) BY <1>2, BoundIs
  <2>2. first # End /\ EraseAt(first, 0, Rank(first)) BY <1>3, <1>5
  <2> HIDE DEF first, last
  <2>3. Pointing(first) BY <1>2, <2>1, <2>2, HeldRank
  <2> QED BY <1>1, <1>2, <2>2, <2>3, EraseAtOrder
<1> QED BY <1>4, <1>5

LEMMA CallOrder ==
  ASSUME IInv, Ordering, Call
  PROVE  Ordering'
<1>1. ASSUME NEW p \in Elements, EraseIter(p) PROVE Ordering'
  <2>1. work.pc = "idle" /\ use' = use /\ EraseAt(p, 0, Rank(p))
    BY <1>1 DEF EraseIter, Calling
  <2>2. Pointing(p) BY EmptyElements DEF IInv
  <2>3. Resting /\ Sorted BY <2>1 DEF IInv, Ordering, Resting
  <2> QED BY <2>1, <2>2, <2>3, EraseAtOrder
<1>2. ASSUME NEW first \in Elements, NEW last \in Elements \cup {End}, EraseRange(first, last) PROVE Ordering'
  <2>1. work.pc = "idle" /\ use' = use /\ Erasing(first, last)
    BY <1>2 DEF EraseRange, Calling
  <2>2. Separated /\ Sorted BY DEF Ordering
  <2> QED BY <2>1, <2>2, ErasingOrder
<1>3. CASE Clear
  <2>1. Emptied BY <1>3 DEF Clear
  <2> QED BY <2>1, EmptiedOrder
<1> QED
  BY <1>1, <1>2, <1>3, InsertsOrder, InsertHintOrder, EraseKeyOrder DEF Call

LEMMA RangeOrder ==
  ASSUME IInv, Ordering, RangeLoop
  PROVE  Ordering'
<1>1. work.pc = "range" /\ use' = use
  BY DEF RangeLoop, EraseWholeLeaf, ErasePart, EraseOne, In
<1>2. InRange BY <1>1 DEF InRange
<1>3. RangeAt(work.it) BY <1>2, RangesAt
<1>4. TreeInv /\ work.left \in Nat /\ work.want \in Nat /\ work.want + work.left <= Len(Contents) /\ Len(Contents) \in Nat
  BY <1>3 DEF RangeAt
<1>5. PICK g \in Nat : g <= work.left /\ PieceDone(g) BY <1>2, RangeStep
<1>6. PICK r \in Nat : r = work.want BY <1>4
<1>7. r + g <= Len(Contents) BY <1>4, <1>5, <1>6
<1>8. EraseDone(r, g) /\ work'.want = r BY <1>5, <1>6 DEF PieceDone, WorkDone
<1>9. ~work'.import
  <2>1. CASE EraseWholeLeaf
    <3>1. \E it, left, par, at : work' = [Erased(it, left, work.want) EXCEPT !.pc = "rebalance", !.cur = par, !.at = at]
      BY <2>1 DEF EraseWholeLeaf
    <3> QED BY <3>1, SMTT(60) DEF Erased, Returned
  <2>2. CASE ErasePart
    <3>1. \E it, left : work' = Erased(it, left, work.want)
      BY <2>2 DEF ErasePart
    <3> QED BY <3>1 DEF Erased, Returned
  <2>3. CASE EraseOne BY <2>3, EraseNoImport DEF EraseOne
  <2> QED BY <2>1, <2>2, <2>3 DEF RangeLoop
<1>10. Sorted' /\ Promised' /\ ImportLast'
  BY <1>1, <1>4, <1>7, <1>8, <1>9, PieceOrder DEF Ordering
<1>11. Separated' BY RangeSep DEF Ordering
<1> QED BY <1>10, <1>11, SMTT(60) DEF Ordering

LEMMA InitOrder ==
  ASSUME Init
  PROVE  Ordering
<1>1. root = NULL /\ base = <<>> /\ work = Returned(Iter(NULL, 0), 0, FALSE)
  BY DEF Init
<1>2. work.it = Iter(NULL, 0) /\ work.want = 0 /\ work.import = FALSE
  BY <1>1 DEF Returned
<1>3. Separated /\ ImportLast BY <1>1, <1>2 DEF Separated, ImportLast
<1>4. Promised
  <2>1. PICK a : a = Iter(NULL, 0) OBVIOUS
  <2>2. Rank(a) = 0 BY <1>1, <2>1 DEF Rank, Iter
  <2> QED BY <1>2, <2>1, <2>2 DEF Promised
<1>5. Len(Contents) = 0
  <2>1. Contents = <<>> BY <1>1 DEF Contents
  <2> QED BY <2>1, EmptySeq
<1>6. Sorted BY <1>5 DEF Sorted
<1> QED BY <1>3, <1>4, <1>6 DEF Ordering

LEMMA SameOrder ==
  ASSUME Ordering, UNCHANGED vars
  PROVE  Ordering'
<1>1. /\ use' = use /\ root' = root /\ base' = base /\ vals' = vals /\ keys' = keys /\ sons' = sons /\ parent' = parent
      /\ chain' = chain /\ work' = work
  BY DEF vars, nodes
<1>2. Contents' = Contents BY <1>1 DEF Contents
<1>3. Sorted' BY <1>1, <1>2 DEF Ordering, Sorted, KeyAt, Multi
<1>4. ImportLast' BY <1>1, <1>2 DEF Ordering, ImportLast, Hindmost, KeyAt
<1>5. Promised'
  <2>1. PICK a : a = work.it OBVIOUS
  <2>2. Rank(a)' = Rank(a) BY <1>1, <1>2 DEF Rank
  <2> QED BY <1>1, <2>1, <2>2 DEF Ordering, Promised
<1>6. Separated'
  BY <1>1 DEF Ordering, Separated, Leads, Separates, Carries, FirstKey, Nodes, Inners
<1> QED BY <1>3, <1>4, <1>5, <1>6 DEF Ordering

LEMMA NextOrder ==
  ASSUME IInv, Ordering, [Next]_vars
  PROVE  Ordering'
BY SameOrder, LoopOrder, RangeOrder, CallOrder DEF Next, Continue

(* The first of the leaves below a node is the one that leads it. *)
Heads(b, F, n) == Len(b[n]) \in Nat \ {0} /\ b[n][1] = F[n]

StartsLike(u, v, E) == Len(u) \in Nat \ {0} => Len(u \o v) \in Nat \ {0} /\ (u \o v)[1] = u[1]

LEMMA ConcatHead ==
  ASSUME NEW E, NEW u \in Seq(E), NEW v \in Seq(E)
  PROVE  StartsLike(u, v, E)
<1>1. Len(u) \in Nat /\ Len(v) \in Nat /\ Len(u \o v) = Len(u) + Len(v)
      /\ \A i \in 1 .. Len(u) : (u \o v)[i] = u[i]
  BY ConcatProperties, LenProperties
<1> QED BY <1>1 DEF StartsLike

LEMMA SonHeads ==
  ASSUME NEW m, NEW ht, NEW b, Still(m, ht, b), NEW F, Leads(F), NEW n \in Inners, Heads(b, F, sons[n][1])
  PROVE  Heads(b, F, n)
<1> DEFINE s == sons[n]
           z == s[1]
           r == 1
           A == Slice(s, 0, r - 1)
           B == Slice(s, r, Len(s))
           L == DOMAIN vals
<1>1. s \in Seq(Nodes) /\ b[n] = Flat(b, s) /\ Gives(b, Nodes, L) BY DEF Still
<1>2. Len(s) \in Nat /\ Len(s) # 0
  <2>1. TreeInv /\ root # NULL BY DEF Still
  <2>2. Len(keys[n]) \in 1 .. N /\ Len(s) = Len(keys[n]) + 1
    BY <2>1, SonsMany DEF TreeInv
  <2> QED BY <1>1, <2>2, LenProperties
<1>3. r \in 1 .. Len(s) /\ r - 1 = 0 /\ z = s[r] BY <1>2
<1> HIDE DEF r
<1>4. s = Joins(A, s[r], B) /\ A \in Seq(Nodes) /\ s[r] \in Nodes /\ B \in Seq(Nodes)
  BY <1>1, <1>3, JoinsWhere
<1>5. A = <<>>
  <2>1. 0 \in 0 .. Len(s) BY <1>2
  <2>2. Slice(s, 0, 0) = <<>> BY <1>1, <2>1, SliceAll
  <2> QED BY <1>3, <2>2
<1>6. F[n] = F[z] BY DEF Leads
<1>7. Heads(b, F, z) OBVIOUS
<1> HIDE DEF A, B, z, s, L
<1>8. z \in Nodes /\ s = Joins(A, z, B) BY <1>3, <1>4
<1>9. FlatOfJoins(b, A, z, B, Nodes, L) BY <1>1, <1>4, <1>8, FlatJoins
<1>10. Flat(b, B) \in Seq(L) /\ b[z] \in Seq(L)
  BY <1>1, <1>4, <1>8, FlatType DEF Gives
<1>11. b[n] = b[z] \o Flat(b, B)
  <2>1. b[n] = (Flat(b, A) \o b[z]) \o Flat(b, B)
    BY <1>1, <1>8, <1>9 DEF FlatOfJoins
  <2>2. Flat(b, A) = <<>> BY <1>5, FlatNil
  <2>3. <<>> \o b[z] = b[z] BY <1>10, ConcatEmptySeq
  <2> QED BY <2>1, <2>2, <2>3
<1>12. StartsLike(b[z], Flat(b, B), L) BY <1>10, ConcatHead
<1> QED BY <1>6, <1>7, <1>11, <1>12 DEF Heads, StartsLike

LEMMA AllHeads ==
  ASSUME NEW m, NEW ht, NEW b, Still(m, ht, b), NEW F, Leads(F)
  PROVE  \A n \in Nodes : Heads(b, F, n)
<1> DEFINE S == {i \in 0 .. m : \A n \in Nodes : ht[n] <= i => Heads(b, F, n)}
<1>1. m \in Nat /\ (\A n \in Nodes : ht[n] \in 1 .. m) /\ Nodes = DOMAIN vals \cup Inners
  BY DEF Still
<1>2. 0 \in S
  <2>1. 0 \in 0 .. m /\ \A n \in Nodes : ~(ht[n] <= 0) BY <1>1
  <2> QED BY <2>1
<1>3. ASSUME NEW i \in 0 .. m - 1, i \in S PROVE i + 1 \in S
  <2>1. i + 1 \in 0 .. m /\ i \in Nat BY <1>1
  <2>2. ASSUME NEW n \in Nodes, ht[n] <= i + 1 PROVE Heads(b, F, n)
    <3>1. CASE n \in DOMAIN vals
      <4>1. b[n] = <<n>> /\ F[n] = n BY <3>1 DEF Still, Leads
      <4> QED BY <4>1 DEF Heads
    <3>2. CASE n \in Inners
      <4> DEFINE z == sons[n][1]
      <4>1. z \in Nodes /\ ht[z] = ht[n] - 1
        <5>1. sons[n] \in Seq(Nodes) /\ TreeInv /\ root # NULL BY <3>2 DEF Still
        <5>2. Len(keys[n]) \in 1 .. N /\ Len(sons[n]) = Len(keys[n]) + 1
          BY <3>2, <5>1, SonsMany DEF TreeInv
        <5>3. 1 \in 1 .. Len(sons[n]) BY <5>2
        <5>4. z \in Members(sons[n]) BY <5>3 DEF Members
        <5> QED BY <3>2, <5>4 DEF Still
      <4> HIDE DEF z
      <4>2. ht[z] <= i BY <1>1, <2>1, <2>2, <4>1
      <4>3. Heads(b, F, z) BY <1>3, <4>1, <4>2
      <4> QED BY <3>2, <4>3, SonHeads DEF z
    <3> QED BY <1>1, <3>1, <3>2
  <2> QED BY <2>1, <2>2
<1> HIDE DEF S
<1>4. 0 .. m \subseteq S BY <1>1, <1>2, <1>3, Climb
<1>5. m \in S BY <1>1, <1>4
<1> QED BY <1>1, <1>5 DEF S

-----------------------------------------------------------------------------
LEMMA SeparatorsAre ==
  ASSUME IInv, Separated
  PROVE  SeparatorsExact
<1>1. ASSUME Idle, NEW n \in Inners, NEW i \in 1 .. Len(keys[n])
      PROVE  keys[n][i] = KeyOf(vals[LeavesBelow[sons[n][i + 1]][1]][1])
  <2> DEFINE b == LeavesBelow
             z == sons[n][i + 1]
  <2>1. TreeInv /\ work.pc \in {"idle", "range"} /\ work.pc # "rebalance"
    BY <1>1 DEF IInv, Idle
  <2>2. root # NULL BY <2>1 DEF TreeInv, ShapeInv, NoTree, Typed, Inners, Nodes
  <2>3. PICK m, ht : Still(m, ht, b) BY <2>1, <2>2, StillIs
  <2>4. PICK F : Leads(F) /\ Separates(F) BY <2>2 DEF Separated
  <2>5. keys[n][i] = FirstKey(F, z) BY <2>1, <2>4 DEF Separates
  <2>6. z \in Nodes
    <3>1. sons[n] \in Seq(Nodes) BY <2>3 DEF Still
    <3>2. Len(keys[n]) \in 1 .. N /\ Len(sons[n]) = Len(keys[n]) + 1
      BY <2>1, <2>2, SonsMany DEF TreeInv
    <3>3. i + 1 \in 1 .. Len(sons[n]) BY <3>2
    <3> QED BY <3>1, <3>3, ElementOfSeq
  <2> HIDE DEF b, z
  <2>7. Heads(b, F, z) BY <2>3, <2>4, <2>6, AllHeads
  <2>8. keys[n][i] = KeyOf(vals[b[z][1]][1]) BY <2>5, <2>7 DEF FirstKey, Heads
  <2> QED BY <2>8 DEF b, z
<1> QED BY <1>1 DEF SeparatorsExact

LEMMA ReturnsAre ==
  ASSUME IInv, Promised
  PROVE  ReturnExact
<1>1. ASSUME Idle \/ work.pc = "range" PROVE work.it \in Elements \cup {End}
  <2>1. TreeInv /\ Held(work.it) BY <1>1 DEF IInv, Ranks, Idle
  <2> QED BY <2>1, EmptyElements
<1> QED BY <1>1 DEF ReturnExact, Promised

-----------------------------------------------------------------------------
LEMMA OrderAlways == Spec => [](IInv /\ Ordering)
<1>1. Init => IInv /\ Ordering BY InitInv, InitOrder
<1>2. IInv /\ Ordering /\ [Next]_vars => (IInv /\ Ordering)'
  BY NextInv, NextOrder
<1> QED BY <1>1, <1>2, PTL DEF Spec

(* Between two calls each separator is the first key of the subtree behind *)
(* it, through every split, loan, merge and erasure of that key. *)
THEOREM SeparatorsExactAlways == Spec => []SeparatorsExact
<1>1. IInv /\ Ordering => SeparatorsExact BY SeparatorsAre DEF Ordering
<1> QED BY <1>1, OrderAlways, PTL

(* A search for any key, which compares it with separators and with the *)
(* keys of one leaf only, ends where counting all smaller elements, or all *)
(* smaller and equal ones, puts it, and so does the iterator made of it. *)
THEOREM SearchExactAlways == Spec => []SearchExact
<1>1. IInv /\ Ordering => SearchExact BY SearchesAre DEF Ordering
<1> QED BY <1>1, OrderAlways, PTL

(* The iterator a call returns points to the element inserted, at the place *)
(* the call promises, or to the one behind what was erased, however the *)
(* tree was restructured after the iterator was computed. *)
THEOREM ReturnExactAlways == Spec => []ReturnExact
<1>1. IInv /\ Ordering => ReturnExact BY ReturnsAre DEF Ordering
<1> QED BY <1>1, OrderAlways, PTL

=============================================================================
