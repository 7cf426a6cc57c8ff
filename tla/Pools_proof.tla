---------------------------- MODULE Pools_proof ----------------------------
(***************************************************************************)
(* Proofs about IntrusiveList and about Pools, which is built on it, for   *)
(* any heads, elements, chunks, pools, size classes and block sizes.       *)
(*                                                                         *)
(* First the lists.  A ring or a forward list is related to the sequence s *)
(* it stands for by its links alone (Path, Back), without a walk: the stops *)
(* of a walk from a through s to e.  A lemma about each operation shows    *)
(* that it turns links for one sequence into links for another and changes *)
(* nothing else; one lemma shows that a walk over such links sees exactly  *)
(* the sequence.                                                           *)
(*                                                                         *)
(* Then the pools.  The inductive invariant says what the memory is, not   *)
(* what a walk over it sees: the hooks are the links of the sequences in   *)
(* list (RingInv), the forward lists those of forward, and the free lists  *)
(* those of some sequences of free objects (FreeInv); every chunk is in one *)
(* of the pools' sequences; objects lie apart in the chunks of their pool, *)
(* and below what the pool's arena is still to hand out.                   *)
(***************************************************************************)
EXTENDS Pools, SequenceTheorems, FiniteSetTheorems, WellFoundedInduction, TLAPS

(* The stops of a walk: a, the elements of s, and e. *)
Stop(a, s, e, i) == IF i = 0 THEN a ELSE IF i > Len(s) THEN e ELSE s[i]

Path(f, a, s, e) == \A i \in 0 .. Len(s) : f[Stop(a, s, e, i)] = Stop(a, s, e, i + 1)
Back(f, a, s, e) == \A i \in 0 .. Len(s) : f[Stop(a, s, e, i + 1)] = Stop(a, s, e, i)

Distinct(s) == \A i, j \in DOMAIN s : s[i] = s[j] => i = j

-----------------------------------------------------------------------------
(* Induction and recursive definitions. *)

(* A set that has 0 and with each number the next one has them all. *)
LEMMA NatInduct ==
  ASSUME NEW S, 0 \in S, \A n \in Nat : n \in S => n + 1 \in S
  PROVE  Nat \subseteq S
<1> DEFINE T == Nat \ S
<1>1. SUFFICES ASSUME T # {} PROVE FALSE OBVIOUS
<1>2. PICK x \in T : \A y \in T : ~(<<y, x>> \in OpToRel(<, Nat))
  BY <1>1, NatLessThanWellFounded, WFMin, Zenon
<1>3. x \in Nat /\ x # 0 /\ x - 1 \in Nat /\ x - 1 < x OBVIOUS
<1>4. x - 1 \in T BY <1>3
<1>5. <<x - 1, x>> \in OpToRel(<, Nat) BY <1>3 DEF OpToRel
<1> QED BY <1>2, <1>4, <1>5

(* The same up to a bound. *)
LEMMA UpTo ==
  ASSUME NEW m \in Nat, NEW S, 0 \in S, \A n \in 0 .. m - 1 : n \in S => n + 1 \in S
  PROVE  0 .. m \subseteq S
<1> DEFINE T == {n \in Nat : n <= m => n \in S}
<1>1. 0 \in T OBVIOUS
<1>2. \A n \in Nat : n \in T => n + 1 \in T OBVIOUS
<1>3. Nat \subseteq T
  <2> HIDE DEF T
  <2> QED BY <1>1, <1>2, NatInduct
<1> QED BY <1>3

-----------------------------------------------------------------------------
(* Walks. *)

(* A walk that follows the links of s sees s: it is not cut off, because *)
(* there are at least as many links as elements. *)
LEMMA WalkSees ==
  ASSUME NEW f, IsFiniteSet(DOMAIN f), NEW E, NEW s \in Seq(E), NEW a, NEW e,
         Path(f, a, s, e), Distinct(s), \A i \in DOMAIN s : s[i] # e /\ s[i] \in DOMAIN f
  PROVE  Walk(f, f[a], e) = s
<1> DEFINE n == Len(s)
           most == Cardinality(DOMAIN f) + 1
           Upto(i) == IF i <= n THEN i ELSE n
           Point(i) == Stop(a, s, e, Upto(i) + 1)
           G == [i \in 0 .. most |-> [at |-> Point(i), seen |-> SubSeq(s, 1, Upto(i))]]
           Step(v) == IF v.at = e THEN v
                      ELSE [at |-> IF v.at \in DOMAIN f THEN f[v.at] ELSE v.at,
                            seen |-> Append(v.seen, v.at)]
           Base == [at |-> f[a], seen |-> <<>>]
           Body(w) == [i \in 0 .. most |-> IF i = 0 THEN Base ELSE Step(w[i - 1])]
           W == CHOOSE w : w = Body(w)
<1>1. n \in Nat /\ DOMAIN s = 1 .. n /\ s \in [1 .. n -> E] BY LenProperties
<1>2. most \in Nat /\ n < most
  <2>1. s \in Injection(1 .. n, DOMAIN f)
    BY <1>1 DEF Injection, Distinct, IsInjective
  <2>2. n <= Cardinality(DOMAIN f)
    BY <1>1, <2>1, FS_Injection, FS_Interval, SMTT(60)
  <2> QED BY <1>1, <2>2, FS_CardinalityType
<1>3. G = Body(G)
  <2>1. Base = [at |-> Point(0), seen |-> SubSeq(s, 1, 0)]
    BY <1>1, SubSeqEmpty DEF Path, Stop
  <2>2. ASSUME NEW i \in 1 .. most PROVE G[i] = Step(G[i - 1])
    <3>0. /\ G[i] = [at |-> Point(i), seen |-> SubSeq(s, 1, Upto(i))]
          /\ G[i - 1] = [at |-> Point(i - 1), seen |-> SubSeq(s, 1, Upto(i - 1))]
      <4> HIDE DEF Point, Upto, most
      <4> QED BY <1>2
    <3> HIDE DEF G
    <3>1. CASE i > n
      <4>1. Upto(i) = n /\ Upto(i - 1) = n /\ Point(i) = e /\ Point(i - 1) = e
        <5> HIDE DEF most
        <5>0. i \in Int /\ n \in Nat BY <1>1, <1>2
        <5> HIDE DEF n
        <5>1. n + 1 > n /\ n + 1 # 0 /\ Upto(i) = n /\ Upto(i - 1) = n
          BY <3>1, <5>0
        <5> HIDE DEF Upto
        <5> QED BY <5>1 DEF Stop, n
      <4> QED BY <3>0, <4>1, SMTT(60)
    <3>2. CASE i <= n
      <4>1. G[i - 1] = [at |-> s[i], seen |-> SubSeq(s, 1, i - 1)] /\ Upto(i) = i
        <5>1. Upto(i - 1) = i - 1 /\ Upto(i) = i /\ Point(i - 1) = s[i]
          BY <3>2, <1>1, <1>2 DEF Stop
        <5> QED BY <5>1, <3>0
      <4>2. s[i] # e /\ s[i] \in DOMAIN f /\ f[s[i]] = Point(i)
        BY <3>2, <1>1 DEF Path, Stop
      <4>3. Append(SubSeq(s, 1, i - 1), s[i]) = SubSeq(s, 1, i) BY <3>2, <1>1
      <4> QED
        <5>1. G[i] = [at |-> Point(i), seen |-> SubSeq(s, 1, i)] BY <4>1, <3>0
        <5> HIDE DEF Point, Upto, most
        <5>2. Step([at |-> s[i], seen |-> SubSeq(s, 1, i - 1)]) = [at |-> Point(i), seen |-> SubSeq(s, 1, i)]
          BY <4>2, <4>3
        <5> HIDE DEF Step
        <5> QED BY <5>1, <5>2, <4>1
    <3> QED BY <3>1, <3>2, <1>1
  <2>3. Upto(0) = 0 BY <1>1
  <2> HIDE DEF Base, Step, most, Point, Upto
  <2>4. G[0] = Base BY <2>1, <2>3, <1>2
  <2>5. \A i \in 0 .. most : G[i] = IF i = 0 THEN Base ELSE Step(G[i - 1])
    <3> HIDE DEF G
    <3> QED BY <2>2, <2>4, <1>2
  <2> QED BY <2>5
<1>4. W = Body(W)
  <2> HIDE DEF G, Body
  <2> QED BY <1>3
<1>5. \A i \in 0 .. most : W[i] = G[i]
  <2> DEFINE S == {i \in 0 .. most : W[i] = G[i]}
  <2>0. /\ W[0] = Base /\ G[0] = Base
        /\ \A i \in 1 .. most : W[i] = Step(W[i - 1]) /\ G[i] = Step(G[i - 1])
    <3> HIDE DEF W, G, Base, Step
    <3> QED BY <1>2, <1>3, <1>4
  <2> HIDE DEF W, G, Base, Step
  <2>1. 0 \in S BY <2>0, <1>2
  <2>2. \A i \in 0 .. most - 1 : i \in S => i + 1 \in S
    <3> TAKE i \in 0 .. most - 1
    <3> HAVE i \in S
    <3>1. i + 1 \in 1 .. most /\ (i + 1) - 1 = i BY <1>2
    <3> QED BY <3>1, <2>0, <1>2
  <2> HIDE DEF S, most
  <2>3. 0 .. most \subseteq S BY <2>1, <2>2, <1>2, UpTo
  <2> QED BY <2>3 DEF S
<1>6. Walk(f, f[a], e) = W[most].seen BY DEF Walk
<1>7. G[most].seen = SubSeq(s, 1, n) BY <1>1, <1>2
<1> QED
  <2> HIDE DEF W, G
  <2>1. Walk(f, f[a], e) = SubSeq(s, 1, n) BY <1>2, <1>5, <1>6, <1>7
  <2> QED BY <2>1, SubSeqFull
-----------------------------------------------------------------------------
(* Sequences. *)

(* A sequence t put into s before place k. *)
LEMMA Embedded ==
  ASSUME NEW E, NEW s \in Seq(E), NEW t \in Seq(E), NEW k \in 1 .. Len(s) + 1
  PROVE  LET u == SubSeq(s, 1, k - 1) \o t \o SubSeq(s, k, Len(s))
         IN  /\ u \in Seq(E) /\ Len(u) = Len(s) + Len(t)
             /\ \A i \in 1 .. Len(s) + Len(t) :
                  u[i] = IF i < k THEN s[i]
                         ELSE IF i < k + Len(t) THEN t[i - k + 1] ELSE s[i - Len(t)]
<1> DEFINE a == SubSeq(s, 1, k - 1)
           b == SubSeq(s, k, Len(s))
<1>1. Len(s) \in Nat /\ Len(t) \in Nat /\ \A i \in 1 .. Len(s) : s[i] \in E
  BY LenProperties
<1>2. a \in Seq(E) /\ Len(a) = k - 1 /\ \A i \in 1 .. k - 1 : a[i] = s[i]
  BY <1>1, SubSeqProperties
<1>3. b \in Seq(E) /\ Len(b) = Len(s) - k + 1 /\ \A i \in 1 .. Len(s) - k + 1 : b[i] = s[k + i - 1]
  BY <1>1, SubSeqProperties
<1> HIDE DEF a, b
<1>4. /\ a \o t \in Seq(E) /\ Len(a \o t) = k - 1 + Len(t)
      /\ \A i \in 1 .. k - 1 + Len(t) : (a \o t)[i] = IF i < k THEN s[i] ELSE t[i - k + 1]
  <2>1. /\ a \o t \in Seq(E) /\ Len(a \o t) = Len(a) + Len(t)
        /\ \A i \in 1 .. Len(a) + Len(t) :
             (a \o t)[i] = IF i <= Len(a) THEN a[i] ELSE t[i - Len(a)]
    BY <1>2, ConcatProperties, Zenon
  <2> QED BY <2>1, <1>1, <1>2
<1>5. /\ a \o t \o b \in Seq(E) /\ Len(a \o t \o b) = Len(s) + Len(t)
      /\ \A i \in 1 .. Len(s) + Len(t) : (a \o t \o b)[i] =
             IF i < k + Len(t) THEN (a \o t)[i] ELSE b[i - (k - 1 + Len(t))]
  <2>1. /\ (a \o t) \o b \in Seq(E) /\ Len((a \o t) \o b) = Len(a \o t) + Len(b)
        /\ \A i \in 1 .. Len(a \o t) + Len(b) :
             ((a \o t) \o b)[i] = IF i <= Len(a \o t) THEN (a \o t)[i] ELSE b[i - Len(a \o t)]
    <3> DEFINE c == a \o t
    <3>1. c \in Seq(E) BY <1>4
    <3> HIDE DEF c
    <3>2. /\ c \o b \in Seq(E) /\ Len(c \o b) = Len(c) + Len(b)
          /\ \A i \in 1 .. Len(c) + Len(b) :
               (c \o b)[i] = IF i <= Len(c) THEN c[i] ELSE b[i - Len(c)]
      BY <1>3, <3>1, ConcatProperties, ZenonT(60)
    <3> QED BY <3>2 DEF c
  <2> QED BY <2>1, <1>1, <1>3, <1>4, SMTT(60)
<1>6. ASSUME NEW i \in 1 .. Len(s) + Len(t)
      PROVE  (a \o t \o b)[i] = IF i < k THEN s[i]
                                ELSE IF i < k + Len(t) THEN t[i - k + 1] ELSE s[i - Len(t)]
  <2>1. CASE i < k + Len(t)
    <3>1. i \in 1 .. k - 1 + Len(t) BY <2>1, <1>1
    <3> QED BY <2>1, <3>1, <1>4, <1>5
  <2>2. CASE ~(i < k + Len(t))
    <3>1. i - (k - 1 + Len(t)) \in 1 .. Len(s) - k + 1 /\ k + (i - (k - 1 + Len(t))) - 1 = i - Len(t)
      BY <2>2, <1>1
    <3>2. (a \o t \o b)[i] = b[i - (k - 1 + Len(t))] BY <2>2, <1>5
    <3> QED BY <3>1, <3>2, <2>2, <1>1, <1>3, SMTT(60)
  <2> QED BY <2>1, <2>2
<1> QED BY <1>5, <1>6 DEF a, b

(* An element put in, one taken out, and a range taken out. *)
Inserted(E, s, k, e, t) ==
  /\ t \in Seq(E) /\ Len(t) = Len(s) + 1
  /\ \A i \in 1 .. Len(s) + 1 : t[i] = IF i < k THEN s[i] ELSE IF i = k THEN e ELSE s[i - 1]

LEMMA InsertedIs ==
  ASSUME NEW E, NEW s \in Seq(E), NEW e \in E, NEW k \in 1 .. Len(s) + 1
  PROVE  Inserted(E, s, k, e, InsertAt(s, k, e))
<1>1. <<e>> \in Seq(E) /\ Len(<<e>>) = 1 /\ <<e>>[1] = e /\ Len(s) \in Nat
  BY LenProperties
<1> HIDE DEF InsertAt
<1>2. InsertAt(s, k, e) = SubSeq(s, 1, k - 1) \o <<e>> \o SubSeq(s, k, Len(s))
  BY DEF InsertAt
<1>3. /\ InsertAt(s, k, e) \in Seq(E) /\ Len(InsertAt(s, k, e)) = Len(s) + 1
      /\ \A i \in 1 .. Len(s) + 1 :
              InsertAt(s, k, e)[i] = IF i < k THEN s[i]
                         ELSE IF i < k + 1 THEN <<e>>[i - k + 1] ELSE s[i - 1]
  <2>1. /\ SubSeq(s, 1, k - 1) \o <<e>> \o SubSeq(s, k, Len(s)) \in Seq(E)
        /\ Len(SubSeq(s, 1, k - 1) \o <<e>> \o SubSeq(s, k, Len(s))) = Len(s) + Len(<<e>>)
        /\ \A i \in 1 .. Len(s) + Len(<<e>>) :
             (SubSeq(s, 1, k - 1) \o <<e>> \o SubSeq(s, k, Len(s)))[i] =
                IF i < k THEN s[i]
                ELSE IF i < k + Len(<<e>>) THEN <<e>>[i - k + 1] ELSE s[i - Len(<<e>>)]
    BY <1>1, Embedded, ZenonT(60)
  <2> QED BY <2>1, <1>1, <1>2
<1>4. ASSUME NEW i \in 1 .. Len(s) + 1
      PROVE  InsertAt(s, k, e)[i] = IF i < k THEN s[i] ELSE IF i = k THEN e ELSE s[i - 1]
  <2>1. CASE i = k
    <3>1. i - k + 1 = 1 /\ ~(i < k) /\ i < k + 1 BY <2>1, <1>1
    <3> QED BY <3>1, <2>1, <1>1, <1>3
  <2>2. CASE i # k BY <2>2, <1>1, <1>3
  <2> QED BY <2>1, <2>2
<1> QED BY <1>3, <1>4 DEF Inserted

LEMMA InsertAtIs ==
  ASSUME NEW E, NEW s \in Seq(E), NEW e \in E, NEW k \in 1 .. Len(s) + 1
  PROVE  /\ InsertAt(s, k, e) \in Seq(E) /\ Len(InsertAt(s, k, e)) = Len(s) + 1
         /\ \A i \in 1 .. Len(s) + 1 :
              InsertAt(s, k, e)[i] = IF i < k THEN s[i] ELSE IF i = k THEN e ELSE s[i - 1]
<1>1. Inserted(E, s, k, e, InsertAt(s, k, e)) BY InsertedIs
<1> QED BY <1>1 DEF Inserted

LEMMA CutIs ==
  ASSUME NEW E, NEW s \in Seq(E), NEW i \in 1 .. Len(s) + 1, NEW j \in i .. Len(s) + 1
  PROVE  LET u == SubSeq(s, 1, i - 1) \o SubSeq(s, j, Len(s))
         IN  /\ u \in Seq(E) /\ Len(u) = Len(s) - (j - i)
             /\ \A x \in 1 .. Len(s) - (j - i) : u[x] = IF x < i THEN s[x] ELSE s[x + (j - i)]
<1> DEFINE a == SubSeq(s, 1, i - 1)
           b == SubSeq(s, j, Len(s))
<1>1. Len(s) \in Nat /\ \A x \in 1 .. Len(s) : s[x] \in E BY LenProperties
<1>2. a \in Seq(E) /\ Len(a) = i - 1 /\ \A x \in 1 .. i - 1 : a[x] = s[x]
  BY <1>1, SubSeqProperties
<1>3. b \in Seq(E) /\ Len(b) = Len(s) - j + 1 /\ \A x \in 1 .. Len(s) - j + 1 : b[x] = s[j + x - 1]
  BY <1>1, SubSeqProperties
<1> HIDE DEF a, b
<1>4. /\ a \o b \in Seq(E) /\ Len(a \o b) = Len(s) - (j - i)
      /\ \A x \in 1 .. Len(s) - (j - i) : (a \o b)[x] = IF x < i THEN a[x] ELSE b[x - (i - 1)]
  <2>1. /\ a \o b \in Seq(E) /\ Len(a \o b) = Len(a) + Len(b)
        /\ \A x \in 1 .. Len(a) + Len(b) :
             (a \o b)[x] = IF x <= Len(a) THEN a[x] ELSE b[x - Len(a)]
    BY <1>2, <1>3, ConcatProperties, ZenonT(60)
  <2>2. Len(a) + Len(b) = Len(s) - (j - i) /\ Len(a) = i - 1 /\ Len(a) \in Nat
    BY <1>1, <1>2, <1>3
  <2>3. \A x \in 1 .. Len(s) - (j - i) : (x <= i - 1) <=> (x < i) BY <1>1
  <2> QED BY <2>1, <2>2, <2>3
<1>5. ASSUME NEW x \in 1 .. Len(s) - (j - i)
      PROVE  (a \o b)[x] = IF x < i THEN s[x] ELSE s[x + (j - i)]
  <2>1. CASE x < i BY <2>1, <1>1, <1>2, <1>4
  <2>2. CASE ~(x < i)
    <3>1. x - (i - 1) \in 1 .. Len(s) - j + 1 /\ j + (x - (i - 1)) - 1 = x + (j - i)
      BY <2>2, <1>1
    <3> QED BY <3>1, <2>2, <1>3, <1>4
  <2> QED BY <2>1, <2>2
<1> QED BY <1>4, <1>5 DEF a, b

LEMMA RemoveAtIs ==
  ASSUME NEW E, NEW s \in Seq(E), NEW k \in DOMAIN s
  PROVE  /\ RemoveAt(s, k) \in Seq(E) /\ Len(RemoveAt(s, k)) = Len(s) - 1
         /\ \A i \in 1 .. Len(s) - 1 : RemoveAt(s, k)[i] = IF i < k THEN s[i] ELSE s[i + 1]
<1>1. Len(s) \in Nat /\ k \in 1 .. Len(s) /\ k + 1 \in k .. Len(s) + 1 /\ (k + 1) - k = 1
  BY LenProperties
<1> DEFINE u == SubSeq(s, 1, k - 1) \o SubSeq(s, k + 1, Len(s))
<1>2. RemoveAt(s, k) = u BY DEF RemoveAt
<1>3. k \in 1 .. Len(s) + 1 BY <1>1
<1> HIDE DEF RemoveAt
<1> QED
  <2> DEFINE d == (k + 1) - k
  <2>1. /\ u \in Seq(E) /\ Len(u) = Len(s) - d
        /\ \A x \in 1 .. Len(s) - d : u[x] = IF x < k THEN s[x] ELSE s[x + d]
    BY <1>1, <1>3, CutIs, ZenonT(60)
  <2>2. d = 1 BY <1>1
  <2> HIDE DEF d, u
  <2> QED BY <2>1, <2>2, <1>2

-----------------------------------------------------------------------------
(* The memory of the hooks. *)

IsMap(f) == f = [x \in DOMAIN f |-> f[x]]
Minus(f, gone) == [x \in DOMAIN f \ gone |-> f[x]]

Memory(h, D) ==
  /\ h = [next |-> h.next, prev |-> h.prev]
  /\ IsMap(h.next) /\ DOMAIN h.next = D
  /\ IsMap(h.prev) /\ DOMAIN h.prev = D

LEMMA WithIs ==
  ASSUME NEW f, NEW a, NEW b
  PROVE  /\ IsMap(With(f, a, b)) /\ DOMAIN With(f, a, b) = DOMAIN f \cup {a}
         /\ \A x \in DOMAIN f \cup {a} : With(f, a, b)[x] = IF x = a THEN b ELSE f[x]
  BY DEF With, IsMap

LEMMA MinusIs ==
  ASSUME NEW f, NEW gone
  PROVE  /\ IsMap(Minus(f, gone)) /\ DOMAIN Minus(f, gone) = DOMAIN f \ gone
         /\ \A x \in DOMAIN f \ gone : Minus(f, gone)[x] = f[x]
  BY DEF Minus, IsMap

(* Each store changes one of the two maps. *)
LEMMA SetNextIs ==
  ASSUME NEW f, NEW g, NEW a, NEW b
  PROVE  SetNext([next |-> f, prev |-> g], a, b) = [next |-> With(f, a, b), prev |-> g]
  BY DEF SetNext

LEMMA SetPrevIs ==
  ASSUME NEW f, NEW g, NEW a, NEW b
  PROVE  SetPrev([next |-> f, prev |-> g], a, b) = [next |-> f, prev |-> With(g, a, b)]
  BY DEF SetPrev

LEMMA ForgetIs ==
  ASSUME NEW f, NEW g, NEW b
  PROVE  Forget([next |-> f, prev |-> g], b) = [next |-> Minus(f, b), prev |-> Minus(g, b)]
  BY DEF Forget, Minus

LEMMA InitSelfIs ==
  ASSUME NEW f, NEW g, NEW a
  PROVE  InitSelf([next |-> f, prev |-> g], a) = [next |-> With(f, a, a), prev |-> With(g, a, a)]
<1>1. SetNext([next |-> f, prev |-> g], a, a) = [next |-> With(f, a, a), prev |-> g]
  BY SetNextIs
<1> QED BY <1>1, SetPrevIs DEF InitSelf

(* What each operation makes of the two maps. *)
LEMMA InsertIs ==
  ASSUME NEW f, NEW g, NEW pre, NEW nex, NEW n
  PROVE  Insert([next |-> f, prev |-> g], pre, nex, n)
           = [next |-> With(With(f, pre, n), n, nex), prev |-> With(With(g, n, pre), nex, n)]
<1> DEFINE h1 == SetNext([next |-> f, prev |-> g], pre, n)
           h2 == SetPrev(h1, n, pre)
           h3 == SetPrev(h2, nex, n)
<1>1. h1 = [next |-> With(f, pre, n), prev |-> g] BY SetNextIs
<1>2. h2 = [next |-> With(f, pre, n), prev |-> With(g, n, pre)]
  BY <1>1, SetPrevIs
<1>3. h3 = [next |-> With(f, pre, n), prev |-> With(With(g, n, pre), nex, n)]
  BY <1>2, SetPrevIs
<1>4. Insert([next |-> f, prev |-> g], pre, nex, n) = SetNext(h3, n, nex)
  BY DEF Insert
<1> HIDE DEF h3
<1> QED BY <1>3, <1>4, SetNextIs

LEMMA UnlinkIs ==
  ASSUME NEW f, NEW g, NEW n, g[n] # n, g[n] \in DOMAIN f, n \in DOMAIN f
  PROVE  Unlink([next |-> f, prev |-> g], n)
           = [next |-> Minus(With(f, g[n], f[n]), {n}), prev |-> Minus(With(g, f[n], g[n]), {n})]
<1> DEFINE h == [next |-> f, prev |-> g]
           k == [next |-> With(f, g[n], f[n]), prev |-> g]
<1>1. SetNext(h, h.prev[n], h.next[n]) = k BY SetNextIs
<1>2. k.next[n] = f[n] /\ k.prev[n] = g[n] BY DEF With
<1>3. SetPrev(k, k.next[n], k.prev[n]) = [next |-> With(f, g[n], f[n]), prev |-> With(g, f[n], g[n])]
  BY <1>2, SetPrevIs
<1>4. Unlink(h, n) = Forget(SetPrev(k, k.next[n], k.prev[n]), {n})
  <2> HIDE DEF h, k
  <2> QED BY <1>1 DEF Unlink
<1> QED BY <1>3, <1>4, ForgetIs

-----------------------------------------------------------------------------
(* Heads H, each with a sequence of elements E: no element is twice in them.*)

Parted(H, E, L) ==
  /\ L \in [H -> Seq(E)]
  /\ \A p \in H : Distinct(L[p])
  /\ \A p, q \in H : p # q => ToSet(L[p]) \cap ToSet(L[q]) = {}

Members(H, L) == H \cup UNION {ToSet(L[p]) : p \in H}

Rings(H, E, h, L) ==
  /\ Parted(H, E, L)
  /\ Memory(h, Members(H, L))
  /\ \A p \in H : Path(h.next, p, L[p], p) /\ Back(h.prev, p, L[p], p)

Chains(H, E, f, L) ==
  /\ Parted(H, E, L)
  /\ DOMAIN f = Members(H, L)
  /\ \A p \in H : Path(f, p, L[p], NULL)

Apart(H, E) == H \cap E = {}
Exchanged(D, gone, new) == (D \ gone) \cup new
Both(L, p, s, q, t) == [L EXCEPT ![p] = s, ![q] = t]

(* What one head, or two heads, may get in place of their sequences. *)
ForOne(H, E, L, p, t) ==
  t \in Seq(E) /\ Distinct(t) /\ \A q \in H \ {p} : ToSet(t) \cap ToSet(L[q]) = {}

ForTwo(H, E, L, p, q, s, t) ==
  /\ s \in Seq(E) /\ t \in Seq(E) /\ Distinct(s) /\ Distinct(t) /\ ToSet(s) \cap ToSet(t) = {}
  /\ \A r \in H \ {p, q} : (ToSet(s) \cup ToSet(t)) \cap ToSet(L[r]) = {}

(* One sequence changes. *)
LEMMA PartedOne ==
  ASSUME NEW H, NEW E, Apart(H, E), NEW L, Parted(H, E, L), NEW p \in H, NEW t, ForOne(H, E, L, p, t)
  PROVE  /\ Parted(H, E, [L EXCEPT ![p] = t])
         /\ Members(H, [L EXCEPT ![p] = t]) = Exchanged(Members(H, L), ToSet(L[p]), ToSet(t))
<1> DEFINE M == [L EXCEPT ![p] = t]
<1>1. M \in [H -> Seq(E)] /\ \A q \in H : M[q] = IF q = p THEN t ELSE L[q]
  BY DEF Parted, ForOne
<1>2. Parted(H, E, M) BY <1>1 DEF Parted, ForOne
<1>3. Members(H, M) = Exchanged(Members(H, L), ToSet(L[p]), ToSet(t))
  <2>1. \A q \in H : ToSet(L[q]) \subseteq E BY DEF Parted, ToSet
  <2>2. ASSUME NEW x \in Members(H, M) PROVE x \in Exchanged(Members(H, L), ToSet(L[p]), ToSet(t))
    <3>1. CASE x \in H BY <3>1, <2>1 DEF Members, Exchanged, Apart
    <3>2. CASE x \notin H
      <4>1. PICK q \in H : x \in ToSet(M[q])
        BY <3>2 DEF Members, Exchanged, Apart
      <4>2. CASE q = p BY <4>1, <4>2, <1>1 DEF Exchanged
      <4>3. CASE q # p
        <5>1. x \in ToSet(L[q]) /\ x \notin ToSet(L[p])
          BY <4>1, <4>3, <1>1 DEF Parted
        <5> QED BY <5>1 DEF Members, Exchanged, Apart
      <4> QED BY <4>2, <4>3
    <3> QED BY <3>1, <3>2
  <2>3. ASSUME NEW x \in Exchanged(Members(H, L), ToSet(L[p]), ToSet(t)) PROVE x \in Members(H, M)
    <3>1. CASE x \in ToSet(t) BY <3>1, <1>1 DEF Members
    <3>2. CASE x \notin ToSet(t)
      <4>1. x \in H \/ \E q \in H \ {p} : x \in ToSet(L[q])
        BY <3>2 DEF Members, Exchanged, Apart
      <4> QED BY <4>1, <1>1 DEF Members, Exchanged, Apart
    <3> QED BY <3>1, <3>2
  <2> QED BY <2>2, <2>3 DEF Exchanged
<1> QED BY <1>2, <1>3

(* Two sequences change. *)
LEMMA PartedTwo ==
  ASSUME NEW H, NEW E, Apart(H, E), NEW L, Parted(H, E, L), NEW p \in H, NEW q \in H, p # q,
         NEW s, NEW t, ForTwo(H, E, L, p, q, s, t)
  PROVE  /\ Parted(H, E, Both(L, p, s, q, t))
         /\ Members(H, Both(L, p, s, q, t))
                = Exchanged(Members(H, L), ToSet(L[p]) \cup ToSet(L[q]), ToSet(s) \cup ToSet(t))
<1> DEFINE M == Both(L, p, s, q, t)
<1>1. M \in [H -> Seq(E)] /\ \A r \in H : M[r] = IF r = p THEN s ELSE IF r = q THEN t ELSE L[r]
  BY DEF Parted, ForTwo, Both
<1>2. Parted(H, E, M) BY <1>1 DEF Parted, ForTwo
<1>3. Members(H, M) = Exchanged(Members(H, L), ToSet(L[p]) \cup ToSet(L[q]), ToSet(s) \cup ToSet(t))
  <2>1. \A r \in H : ToSet(L[r]) \subseteq E BY DEF Parted, ToSet
  <2>2. ASSUME NEW x \in Members(H, M)
        PROVE  x \in Exchanged(Members(H, L), ToSet(L[p]) \cup ToSet(L[q]), ToSet(s) \cup ToSet(t))
    <3>1. CASE x \in H BY <3>1, <2>1 DEF Members, Exchanged, Apart
    <3>2. CASE x \notin H
      <4>1. PICK r \in H : x \in ToSet(M[r])
        BY <3>2 DEF Members, Exchanged, Apart
      <4>2. CASE r \in {p, q} BY <4>1, <4>2, <1>1 DEF Exchanged
      <4>3. CASE r \notin {p, q}
        <5>1. x \in ToSet(L[r]) /\ x \notin ToSet(L[p]) /\ x \notin ToSet(L[q])
          BY <4>1, <4>3, <1>1 DEF Parted
        <5> QED BY <5>1 DEF Members, Exchanged, Apart
      <4> QED BY <4>2, <4>3
    <3> QED BY <3>1, <3>2
  <2>3. ASSUME NEW x \in Exchanged(Members(H, L), ToSet(L[p]) \cup ToSet(L[q]), ToSet(s) \cup ToSet(t))
        PROVE  x \in Members(H, M)
    <3>1. CASE x \in ToSet(s) \cup ToSet(t)
      <4>1. M[p] = s /\ M[q] = t BY <1>1
      <4> HIDE DEF M
      <4> QED BY <3>1, <4>1 DEF Members, Exchanged, Apart
    <3>2. CASE x \notin ToSet(s) \cup ToSet(t)
      <4>1. x \in H \/ \E r \in H \ {p, q} : x \in ToSet(L[r])
        BY <3>2 DEF Members, Exchanged, Apart
      <4> QED BY <4>1, <1>1 DEF Members, Exchanged, Apart
    <3> QED BY <3>1, <3>2
  <2> QED BY <2>2, <2>3 DEF Exchanged
<1> QED BY <1>2, <1>3

(* What every proof about one ring uses: its stops have links, only the last*)
(* is the first again, and no other ring has them. *)
StopsOf(H, E, h, L, p) ==
  LET s == L[p]
      N(i) == Stop(p, s, p, i)
  IN  /\ s \in Seq(E) /\ Len(s) \in Nat /\ DOMAIN s = 1 .. Len(s)
      /\ \A i \in 0 .. Len(s) + 1 :
           /\ N(i) \in Members(H, L) /\ (N(i) = p \/ N(i) \in ToSet(s))
           /\ \A q \in H \ {p} : N(i) # q /\ N(i) \notin ToSet(L[q])
      /\ \A i \in 1 .. Len(s) : N(i) = s[i] /\ s[i] # p /\ s[i] \in E /\ s[i] \notin H
      /\ N(0) = p /\ N(Len(s) + 1) = p
      /\ \A i, j \in 0 .. Len(s) : N(i) = N(j) => i = j
      /\ \A i, j \in 1 .. Len(s) + 1 : N(i) = N(j) => i = j
      /\ \A i \in 0 .. Len(s) : h.next[N(i)] = N(i + 1) /\ h.prev[N(i + 1)] = N(i)

LEMMA RingStops ==
  ASSUME NEW H, NEW E, Apart(H, E), NEW h, NEW L, Rings(H, E, h, L), NEW p \in H
  PROVE  StopsOf(H, E, h, L, p)
<1> DEFINE s == L[p]
           N(i) == Stop(p, s, p, i)
<1>1. s \in Seq(E) /\ Len(s) \in Nat /\ DOMAIN s = 1 .. Len(s) /\ \A i \in 1 .. Len(s) : s[i] \in E
  BY LenProperties DEF Rings, Parted
<1>2. \A i \in 1 .. Len(s) : N(i) = s[i] /\ s[i] # p /\ s[i] \in E /\ s[i] \notin H /\ s[i] \in ToSet(s)
  BY <1>1 DEF Stop, ToSet, Apart
<1>3. N(0) = p /\ N(Len(s) + 1) = p BY <1>1 DEF Stop
<1>4. \A i, j \in 1 .. Len(s) : s[i] = s[j] => i = j
  BY <1>1 DEF Rings, Parted, Distinct
<1>5. \A i \in 0 .. Len(s) : h.next[N(i)] = N(i + 1) /\ h.prev[N(i + 1)] = N(i)
  BY DEF Rings, Path, Back
<1>6. \A q \in H \ {p} : ToSet(L[q]) \subseteq E /\ ToSet(L[q]) \cap ToSet(s) = {}
  <2>1. \A q \in H : ToSet(L[q]) \subseteq E BY DEF Rings, Parted, ToSet
  <2> QED BY <2>1 DEF Rings, Parted
<1>7. ToSet(s) \subseteq Members(H, L) /\ p \in Members(H, L) BY DEF Members
<1> HIDE DEF s, N
<1>8. \A i \in 0 .. Len(s) + 1 : N(i) = p \/ (i \in 1 .. Len(s) /\ N(i) = s[i])
  BY <1>1, <1>2, <1>3
<1>9. ASSUME NEW i \in 0 .. Len(s) + 1
      PROVE  /\ N(i) \in Members(H, L) /\ (N(i) = p \/ N(i) \in ToSet(s))
             /\ \A q \in H \ {p} : N(i) # q /\ N(i) \notin ToSet(L[q])
  <2>1. CASE N(i) = p BY <2>1, <1>6, <1>7 DEF Apart
  <2>2. CASE N(i) \in ToSet(s) /\ N(i) \notin H BY <2>2, <1>6, <1>7
  <2> QED BY <2>1, <2>2, <1>2, <1>8
<1>10. /\ \A i, j \in 0 .. Len(s) : N(i) = N(j) => i = j
       /\ \A i, j \in 1 .. Len(s) + 1 : N(i) = N(j) => i = j
  BY <1>1, <1>2, <1>3, <1>4
<1> QED BY <1>1, <1>2, <1>3, <1>5, <1>9, <1>10 DEF s, N, StopsOf

(* One ring changes: its new links are right, and no link of another ring or*)
(* of another head has changed. *)
LEMMA RingsOne ==
  ASSUME NEW H, NEW E, Apart(H, E), NEW h, NEW L, Rings(H, E, h, L), NEW p \in H,
         NEW t, ForOne(H, E, L, p, t),
         NEW g, Memory(g, Exchanged(Members(H, L), ToSet(L[p]), ToSet(t))),
         Path(g.next, p, t, p), Back(g.prev, p, t, p),
         \A x \in Members(H, L) : x = p \/ x \in ToSet(L[p]) \/ (g.next[x] = h.next[x] /\ g.prev[x] = h.prev[x])
  PROVE  Rings(H, E, g, [L EXCEPT ![p] = t])
<1> DEFINE M == [L EXCEPT ![p] = t]
<1>1. Parted(H, E, M) /\ Members(H, M) = Exchanged(Members(H, L), ToSet(L[p]), ToSet(t))
  <2>1. Parted(H, E, L) BY DEF Rings
  <2> QED BY <2>1, PartedOne
<1>2. \A q \in H : M[q] = IF q = p THEN t ELSE L[q] BY DEF Rings, Parted, ForOne
<1>3. ASSUME NEW q \in H PROVE Path(g.next, q, M[q], q) /\ Back(g.prev, q, M[q], q)
  <2>1. CASE q = p BY <2>1, <1>2
  <2>2. CASE q # p
    <3> DEFINE N(i) == Stop(q, L[q], q, i)
    <3>1. M[q] = L[q] BY <2>2, <1>2
    <3>2. /\ \A i \in 0 .. Len(L[q]) + 1 : N(i) \in Members(H, L) /\ N(i) # p /\ N(i) \notin ToSet(L[p])
          /\ \A i \in 0 .. Len(L[q]) : h.next[N(i)] = N(i + 1) /\ h.prev[N(i + 1)] = N(i)
          /\ Len(L[q]) \in Nat
      <4>1. StopsOf(H, E, h, L, q) BY RingStops
      <4> QED BY <2>2, <4>1 DEF StopsOf
    <3> HIDE DEF N
    <3>3. \A i \in 0 .. Len(L[q]) : g.next[N(i)] = N(i + 1) /\ g.prev[N(i + 1)] = N(i)
      BY <3>2, SMTT(60)
    <3> QED BY <3>1, <3>3 DEF N, Path, Back
  <2> QED BY <2>1, <2>2
<1> QED BY <1>1, <1>3 DEF Rings

(* Two rings change. *)
LEMMA RingsTwo ==
  ASSUME NEW H, NEW E, Apart(H, E), NEW h, NEW L, Rings(H, E, h, L), NEW p \in H, NEW q \in H, p # q,
         NEW s, NEW t, ForTwo(H, E, L, p, q, s, t),
         NEW g, Memory(g, Exchanged(Members(H, L), ToSet(L[p]) \cup ToSet(L[q]), ToSet(s) \cup ToSet(t))),
         Path(g.next, p, s, p), Back(g.prev, p, s, p), Path(g.next, q, t, q), Back(g.prev, q, t, q),
         \A x \in Members(H, L) : x \in {p, q} \/ x \in ToSet(L[p]) \cup ToSet(L[q])
                                    \/ (g.next[x] = h.next[x] /\ g.prev[x] = h.prev[x])
  PROVE  Rings(H, E, g, Both(L, p, s, q, t))
<1> DEFINE M == Both(L, p, s, q, t)
<1>1. Parted(H, E, M) /\ Members(H, M) = Exchanged(Members(H, L), ToSet(L[p]) \cup ToSet(L[q]), ToSet(s) \cup ToSet(t))
  <2>1. Parted(H, E, L) BY DEF Rings
  <2> QED BY <2>1, PartedTwo
<1>2. \A r \in H : M[r] = IF r = p THEN s ELSE IF r = q THEN t ELSE L[r]
  BY DEF Rings, Parted, ForTwo, Both
<1>3. ASSUME NEW r \in H PROVE Path(g.next, r, M[r], r) /\ Back(g.prev, r, M[r], r)
  <2>1. CASE r \in {p, q} BY <2>1, <1>2
  <2>2. CASE r \notin {p, q}
    <3> DEFINE N(i) == Stop(r, L[r], r, i)
    <3>1. M[r] = L[r] BY <2>2, <1>2
    <3>2. /\ \A i \in 0 .. Len(L[r]) + 1 :
               /\ N(i) \in Members(H, L) /\ N(i) # p /\ N(i) \notin ToSet(L[p])
               /\ N(i) # q /\ N(i) \notin ToSet(L[q])
          /\ \A i \in 0 .. Len(L[r]) : h.next[N(i)] = N(i + 1) /\ h.prev[N(i + 1)] = N(i)
          /\ Len(L[r]) \in Nat
      <4>1. StopsOf(H, E, h, L, r) BY RingStops
      <4> QED BY <2>2, <4>1 DEF StopsOf
    <3> HIDE DEF N
    <3>3. \A i \in 0 .. Len(L[r]) : g.next[N(i)] = N(i + 1) /\ g.prev[N(i + 1)] = N(i)
      BY <3>2, SMTT(60)
    <3> QED BY <3>1, <3>3 DEF N, Path, Back
  <2> QED BY <2>1, <2>2
<1> QED BY <1>1, <1>3 DEF Rings

-----------------------------------------------------------------------------
(* The operations on one ring. *)

(* n goes between the stops k - 1 and k of a ring: insert, push_back, *)
(* push_front. *)
LEMMA RingInsert ==
  ASSUME NEW H, NEW E, Apart(H, E), NEW h, NEW L, Rings(H, E, h, L), NEW p \in H,
         NEW k \in 1 .. Len(L[p]) + 1, NEW n \in E, n \notin Members(H, L)
  PROVE  Rings(H, E, Insert(h, Stop(p, L[p], p, k - 1), Stop(p, L[p], p, k), n),
               [L EXCEPT ![p] = InsertAt(L[p], k, n)])
<1> DEFINE s == L[p]
           m == Len(s)
           N(i) == Stop(p, s, p, i)
           t == InsertAt(s, k, n)
           T(i) == Stop(p, t, p, i)
           D == Members(H, L)
           F == With(With(h.next, N(k - 1), n), n, N(k))
           G == With(With(h.prev, n, N(k - 1)), N(k), n)
           g == Insert(h, N(k - 1), N(k), n)
<1>1. StopsOf(H, E, h, L, p) BY RingStops
<1>2. /\ s \in Seq(E) /\ m \in Nat /\ DOMAIN s = 1 .. m /\ k \in 1 .. m + 1
      /\ \A i \in 0 .. m + 1 : N(i) \in D /\ N(i) # n /\ (N(i) = p \/ N(i) \in ToSet(s))
      /\ \A i, j \in 0 .. m : N(i) = N(j) => i = j
      /\ \A i, j \in 1 .. m + 1 : N(i) = N(j) => i = j
      /\ \A i \in 0 .. m : h.next[N(i)] = N(i + 1) /\ h.prev[N(i + 1)] = N(i)
      /\ N(0) = p /\ N(m + 1) = p /\ \A i \in 1 .. m : N(i) = s[i] /\ s[i] # p
  BY <1>1 DEF StopsOf
<1>3. /\ t \in Seq(E) /\ Len(t) = m + 1 /\ DOMAIN t = 1 .. m + 1
      /\ \A i \in 1 .. m + 1 : t[i] = IF i < k THEN s[i] ELSE IF i = k THEN n ELSE s[i - 1]
  <2>1. t \in Seq(E) /\ Len(t) = m + 1
        /\ \A i \in 1 .. m + 1 : t[i] = IF i < k THEN s[i] ELSE IF i = k THEN n ELSE s[i - 1]
    <3>1. s \in Seq(E) /\ k \in 1 .. Len(s) + 1 BY <1>2
    <3> HIDE DEF s
    <3>2. t \in Seq(E) BY <3>1, InsertAtIs
    <3>3. Len(t) = m + 1 BY <3>1, InsertAtIs
    <3>4. \A i \in 1 .. m + 1 : t[i] = IF i < k THEN s[i] ELSE IF i = k THEN n ELSE s[i - 1]
      BY <3>1, InsertAtIs
    <3> HIDE DEF t, m
    <3> QED BY <3>2, <3>3, <3>4
  <2> HIDE DEF t
  <2> QED BY <2>1, LenProperties
<1>4. h = [next |-> h.next, prev |-> h.prev] /\ DOMAIN h.next = D /\ DOMAIN h.prev = D
  BY DEF Rings, Memory
<1>5. g = [next |-> F, prev |-> G] BY <1>4, InsertIs
<1>6. /\ IsMap(F) /\ DOMAIN F = D \cup {n} /\ IsMap(G) /\ DOMAIN G = D \cup {n}
      /\ \A x \in D \cup {n} : /\ F[x] = IF x = n THEN N(k) ELSE IF x = N(k - 1) THEN n ELSE h.next[x]
                               /\ G[x] = IF x = N(k) THEN n ELSE IF x = n THEN N(k - 1) ELSE h.prev[x]
  <2> HIDE DEF N, D
  <2> QED BY <1>2, <1>4, SMTT(60) DEF With, IsMap
<1> HIDE DEF F, G, g, t, D, s
<1>7. \A i \in 0 .. m + 2 : T(i) = IF i < k THEN N(i) ELSE IF i = k THEN n ELSE N(i - 1)
  BY <1>2, <1>3 DEF Stop
<1> HIDE DEF N, T, m
<1>k. k \in Int /\ m \in Nat /\ 1 <= k /\ k <= m + 1
  BY <1>2
<1>8. Path(F, p, t, p)
  <2>1. ASSUME NEW i \in 0 .. m + 1 PROVE F[T(i)] = T(i + 1)
    <3>1. CASE i < k - 1
      <4>1. T(i) = N(i) /\ T(i + 1) = N(i + 1) /\ i \in 0 .. m /\ k - 1 \in 0 .. m /\ i # k - 1
        BY <3>1, <1>k, <1>7
      <4>2. N(i) # N(k - 1) /\ h.next[N(i)] = N(i + 1) BY <4>1, <1>2
      <4> QED BY <4>1, <4>2, <1>2, <1>6
    <3>2. CASE i = k - 1 BY <3>2, <1>2, <1>6, <1>7
    <3>3. CASE i = k BY <3>3, <1>2, <1>6, <1>7
    <3>4. CASE i > k
      <4>1. T(i) = N(i - 1) /\ T(i + 1) = N(i) /\ i - 1 \in 0 .. m /\ i - 1 # k - 1 /\ (i - 1) + 1 = i
                 /\ k - 1 \in 0 .. m
        BY <3>4, <1>k, <1>7
      <4>2. N(i - 1) # N(k - 1) /\ h.next[N(i - 1)] = N(i) BY <4>1, <1>2
      <4> QED BY <4>1, <4>2, <1>2, <1>6
    <3> QED BY <3>1, <3>2, <3>3, <3>4, <1>2
  <2> QED BY <2>1, <1>3 DEF Path, T
<1>9. Back(G, p, t, p)
  <2>1. ASSUME NEW i \in 0 .. m + 1 PROVE G[T(i + 1)] = T(i)
    <3>1. CASE i + 1 < k BY <3>1, <1>2, <1>6, <1>7, SMTT(60)
    <3>2. CASE i + 1 = k BY <3>2, <1>2, <1>6, <1>7
    <3>3. CASE i = k BY <3>3, <1>2, <1>6, <1>7
    <3>4. CASE i > k
      <4>1. T(i) = N(i - 1) /\ T(i + 1) = N(i) /\ i - 1 \in 0 .. m /\ i # k /\ (i - 1) + 1 = i
        BY <3>4, <1>2, <1>7
      <4>2. N(i) # N(k) /\ h.prev[N(i)] = N(i - 1) BY <4>1, <1>2
      <4> QED BY <4>1, <4>2, <1>2, <1>6
    <3> QED BY <3>1, <3>2, <3>3, <3>4, <1>2
  <2> QED BY <2>1, <1>3 DEF Back, T
<1>10. ToSet(t) = ToSet(s) \cup {n}
  <2>1. \A i \in 1 .. m + 1 : t[i] \in ToSet(s) \cup {n}
    <3> TAKE i \in 1 .. m + 1
    <3>1. CASE i < k
      <4>1. t[i] = s[i] /\ i \in DOMAIN s BY <3>1, <1>k, <1>2, <1>3
      <4> QED BY <4>1 DEF ToSet
    <3>2. CASE i = k BY <3>2, <1>3
    <3>3. CASE i > k
      <4>1. t[i] = s[i - 1] /\ i - 1 \in DOMAIN s BY <3>3, <1>k, <1>2, <1>3
      <4> QED BY <4>1 DEF ToSet
    <3> QED BY <3>1, <3>2, <3>3, <1>k
  <2>2. \A i \in 1 .. m : s[i] \in ToSet(t)
    <3> TAKE i \in 1 .. m
    <3>1. CASE i < k
      <4>1. t[i] = s[i] /\ i \in DOMAIN t BY <3>1, <1>2, <1>3
      <4> QED BY <4>1 DEF ToSet
    <3>2. CASE i >= k
      <4>1. t[i + 1] = s[i] /\ i + 1 \in DOMAIN t BY <3>2, <1>2, <1>3
      <4> QED BY <4>1 DEF ToSet
    <3> QED BY <3>1, <3>2, <1>2
  <2>3. n \in ToSet(t)
    <3>1. t[k] = n /\ k \in DOMAIN t BY <1>k, <1>3
    <3> QED BY <3>1 DEF ToSet
  <2> QED BY <2>1, <2>2, <2>3, <1>2, <1>3 DEF ToSet
<1>11. ForOne(H, E, L, p, t)
  <2>1. \A q \in H : n \notin ToSet(L[q]) BY DEF Members
  <2>2. \A q \in H \ {p} : ToSet(s) \cap ToSet(L[q]) = {}
    BY DEF Rings, Parted, s
  <2>3. Distinct(t)
    <3>1. \A i, j \in 1 .. m : s[i] = s[j] => i = j BY <1>2
    <3>2. \A i \in 1 .. m : s[i] # n BY <1>2
    <3> QED BY <3>1, <3>2, <1>2, <1>3, SMTT(60) DEF Distinct
  <2> QED BY <2>1, <2>2, <2>3, <1>3, <1>10 DEF ForOne
<1>12. Memory(g, Exchanged(D, ToSet(s), ToSet(t)))
  <2>1. ToSet(s) \subseteq D BY DEF D, Members, s
  <2>2. Exchanged(D, ToSet(s), ToSet(t)) = D \cup {n}
    BY <2>1, <1>10 DEF Exchanged
  <2> QED BY <2>2, <1>5, <1>6 DEF Memory
<1>13. \A x \in D : x = p \/ x \in ToSet(s) \/ (g.next[x] = h.next[x] /\ g.prev[x] = h.prev[x])
  <2>1. \A x \in D : x # n BY DEF D
  <2>2. k - 1 \in 0 .. m + 1 /\ k \in 0 .. m + 1 BY <1>2
  <2> QED BY <2>1, <2>2, <1>2, <1>5, <1>6, SMTT(60)
<1> QED
  <2>1. Path(g.next, p, t, p) /\ Back(g.prev, p, t, p) BY <1>5, <1>8, <1>9
  <2>2. Rings(H, E, g, [L EXCEPT ![p] = t])
    BY <2>1, <1>11, <1>12, <1>13, RingsOne DEF D, s
  <2> QED BY <2>2 DEF g, t, s, N

(* Element k of a ring leaves it: remove, pop_front, pop_back. *)
LEMMA RingUnlink ==
  ASSUME NEW H, NEW E, Apart(H, E), NEW h, NEW L, Rings(H, E, h, L), NEW p \in H,
         NEW k \in DOMAIN L[p]
  PROVE  Rings(H, E, Unlink(h, L[p][k]), [L EXCEPT ![p] = RemoveAt(L[p], k)])
<1> DEFINE s == L[p]
           m == Len(s)
           N(i) == Stop(p, s, p, i)
           n == s[k]
           t == RemoveAt(s, k)
           T(i) == Stop(p, t, p, i)
           D == Members(H, L)
           F == Minus(With(h.next, h.prev[n], h.next[n]), {n})
           G == Minus(With(h.prev, h.next[n], h.prev[n]), {n})
           g == Unlink(h, n)
<1>1. StopsOf(H, E, h, L, p) BY RingStops
<1>2. /\ s \in Seq(E) /\ m \in Nat /\ DOMAIN s = 1 .. m /\ k \in 1 .. m
      /\ \A i \in 0 .. m + 1 : N(i) \in D /\ (N(i) = p \/ N(i) \in ToSet(s))
      /\ \A i, j \in 0 .. m : N(i) = N(j) => i = j
      /\ \A i, j \in 1 .. m + 1 : N(i) = N(j) => i = j
      /\ \A i \in 0 .. m : h.next[N(i)] = N(i + 1) /\ h.prev[N(i + 1)] = N(i)
      /\ N(0) = p /\ N(m + 1) = p /\ \A i \in 1 .. m : N(i) = s[i] /\ s[i] # p /\ s[i] \notin H
  BY <1>1 DEF StopsOf
<1>3. /\ t \in Seq(E) /\ Len(t) = m - 1 /\ DOMAIN t = 1 .. m - 1
      /\ \A i \in 1 .. m - 1 : t[i] = IF i < k THEN s[i] ELSE s[i + 1]
  <2>1. t \in Seq(E) /\ Len(t) = m - 1
        /\ \A i \in 1 .. m - 1 : t[i] = IF i < k THEN s[i] ELSE s[i + 1]
    <3>1. s \in Seq(E) /\ k \in DOMAIN s BY <1>2
    <3> HIDE DEF s
    <3> QED BY <3>1, RemoveAtIs
  <2> HIDE DEF t
  <2> QED BY <2>1, LenProperties
<1> HIDE DEF t, D, s
<1>7. \A i \in 0 .. m : T(i) = IF i < k THEN N(i) ELSE N(i + 1)
  BY <1>2, <1>3, SMTT(60) DEF Stop
<1> HIDE DEF N, T, m
<1>k. k \in Int /\ m \in Nat /\ 1 <= k /\ k <= m /\ k - 1 \in 0 .. m /\ k + 1 \in 1 .. m + 1
  BY <1>2
<1>4. h = [next |-> h.next, prev |-> h.prev] /\ DOMAIN h.next = D /\ DOMAIN h.prev = D
  BY DEF Rings, Memory, D
<1>5. /\ n = N(k) /\ h.prev[n] = N(k - 1) /\ h.next[n] = N(k + 1) /\ n \in D /\ n # N(k - 1) /\ n # N(k + 1)
      /\ N(k - 1) \in D /\ N(k + 1) \in D
  <2>1. n = N(k) BY <1>2
  <2>2. h.prev[N(k)] = N(k - 1) /\ h.next[N(k)] = N(k + 1)
    <3>1. (k - 1) + 1 = k BY <1>k
    <3> QED BY <1>2, <1>k, <3>1
  <2>3. N(k) # N(k - 1) /\ N(k) # N(k + 1) BY <1>2, <1>k
  <2> HIDE DEF n
  <2> QED BY <2>1, <2>2, <2>3, <1>2, <1>k
<1> HIDE DEF n
<1>6. g = [next |-> F, prev |-> G]
  <2>1. h.prev[n] # n /\ h.prev[n] \in DOMAIN h.next /\ n \in DOMAIN h.next
    BY <1>4, <1>5
  <2>2. Unlink([next |-> h.next, prev |-> h.prev], n) = [next |-> F, prev |-> G]
    BY <2>1, UnlinkIs
  <2> HIDE DEF F, G
  <2> QED BY <2>2, <1>4
<1>8. /\ IsMap(F) /\ DOMAIN F = D \ {n} /\ IsMap(G) /\ DOMAIN G = D \ {n}
      /\ \A x \in D \ {n} : /\ F[x] = IF x = N(k - 1) THEN N(k + 1) ELSE h.next[x]
                            /\ G[x] = IF x = N(k + 1) THEN N(k - 1) ELSE h.prev[x]
  BY <1>4, <1>5 DEF With, Minus, IsMap
<1> HIDE DEF F, G, g
<1>9. Path(F, p, t, p) /\ Back(G, p, t, p)
  <2>1. ASSUME NEW i \in 0 .. m - 1 PROVE F[T(i)] = T(i + 1) /\ G[T(i + 1)] = T(i)
    <3>0. i \in 0 .. m /\ i + 1 \in 0 .. m /\ i + 1 \in 1 .. m + 1 /\ (i + 1) + 1 \in 1 .. m + 1
      BY <1>k
    <3>1. CASE i < k - 1
      <4>1. T(i) = N(i) /\ T(i + 1) = N(i + 1) /\ i # k - 1 /\ i # k /\ i + 1 # k + 1 /\ i + 1 # k
        BY <3>0, <3>1, <1>k, <1>7
      <4>2. N(i) # N(k - 1) /\ N(i) # N(k) /\ N(i + 1) # N(k + 1) /\ N(i + 1) # N(k)
        BY <4>1, <3>0, <1>2, <1>k, SMTT(60)
      <4>3. h.next[N(i)] = N(i + 1) /\ h.prev[N(i + 1)] = N(i) /\ N(i) \in D /\ N(i + 1) \in D
        BY <3>0, <1>2, SMTT(60)
      <4> QED BY <4>1, <4>2, <4>3, <1>5, <1>8
    <3>2. CASE i = k - 1
      <4>1. T(i) = N(k - 1) /\ T(i + 1) = N(k + 1) BY <3>0, <3>2, <1>k, <1>7
      <4> QED BY <4>1, <1>5, <1>8
    <3>3. CASE i >= k
      <4>1. T(i) = N(i + 1) /\ T(i + 1) = N((i + 1) + 1) /\ i + 1 # k - 1 /\ i + 1 # k /\ (i + 1) + 1 # k + 1
            /\ (i + 1) + 1 # k
        BY <3>0, <3>3, <1>k, <1>7
      <4>2. N(i + 1) # N(k - 1) /\ N(i + 1) # N(k) /\ N((i + 1) + 1) # N(k + 1) /\ N((i + 1) + 1) # N(k)
        BY <4>1, <3>0, <1>2, <1>k, SMTT(60)
      <4>3. h.next[N(i + 1)] = N((i + 1) + 1) /\ h.prev[N((i + 1) + 1)] = N(i + 1) /\ N(i + 1) \in D /\ N((i + 1) + 1) \in D
        BY <3>0, <1>2
      <4> QED BY <4>1, <4>2, <4>3, <1>5, <1>8
    <3> QED BY <3>1, <3>2, <3>3, <1>k
  <2> QED BY <2>1, <1>3 DEF Path, Back, T
<1>10. ToSet(t) = ToSet(s) \ {n}
  <2>1. ASSUME NEW i \in 1 .. m - 1 PROVE t[i] \in ToSet(s) \ {n}
    <3>1. CASE i < k
      <4>1. t[i] = s[i] /\ i \in DOMAIN s /\ i # k BY <3>1, <1>k, <1>2, <1>3
      <4>2. N(i) # N(k) /\ N(i) = s[i] BY <4>1, <1>k, <1>2
      <4> QED BY <4>1, <4>2, <1>5 DEF ToSet
    <3>2. CASE i >= k
      <4>1. t[i] = s[i + 1] /\ i + 1 \in DOMAIN s /\ i + 1 # k
        BY <3>2, <1>k, <1>2, <1>3
      <4>2. N(i + 1) # N(k) /\ N(i + 1) = s[i + 1] BY <4>1, <1>k, <1>2, SMTT(60)
      <4> QED BY <4>1, <4>2, <1>5 DEF ToSet
    <3> QED BY <3>1, <3>2, <1>k
  <2>2. ASSUME NEW i \in 1 .. m, s[i] # n PROVE s[i] \in ToSet(t)
    <3>1. i # k BY <2>2 DEF n
    <3>2. CASE i < k
      <4>1. t[i] = s[i] /\ i \in DOMAIN t BY <3>2, <1>k, <1>2, <1>3
      <4> QED BY <4>1 DEF ToSet
    <3>3. CASE i > k
      <4>1. t[i - 1] = s[i] /\ i - 1 \in DOMAIN t
        BY <3>3, <1>k, <1>2, <1>3, SMTT(30)
      <4> QED BY <4>1 DEF ToSet
    <3> QED BY <3>1, <3>2, <3>3, <1>k
  <2>3. ToSet(t) \subseteq ToSet(s) \ {n} BY <2>1, <1>3 DEF ToSet
  <2>4. ToSet(s) \ {n} \subseteq ToSet(t) BY <2>2, <1>2 DEF ToSet
  <2> QED BY <2>3, <2>4
<1>11. ForOne(H, E, L, p, t)
  <2>2. \A q \in H \ {p} : ToSet(s) \cap ToSet(L[q]) = {}
    BY DEF Rings, Parted, s
  <2>3. Distinct(t)
    <3>1. \A i, j \in 1 .. m : s[i] = s[j] => i = j BY <1>2
    <3> QED BY <3>1, <1>k, <1>3, SMTT(60) DEF Distinct
  <2> QED BY <2>2, <2>3, <1>3, <1>10 DEF ForOne
<1>12. Memory(g, Exchanged(D, ToSet(s), ToSet(t)))
  <2>1. ToSet(s) \subseteq D /\ n \in ToSet(s)
    <3>1. ToSet(s) \subseteq D BY DEF D, Members, s
    <3>2. s[k] \in ToSet(s) BY <1>2 DEF ToSet
    <3> QED BY <3>1, <3>2 DEF n
  <2>2. Exchanged(D, ToSet(s), ToSet(t)) = D \ {n} BY <2>1, <1>10 DEF Exchanged
  <2> QED BY <2>2, <1>6, <1>8 DEF Memory
<1>13. \A x \in D : x = p \/ x \in ToSet(s) \/ (g.next[x] = h.next[x] /\ g.prev[x] = h.prev[x])
  <2>1. n \in ToSet(s) BY <1>2 DEF n, ToSet
  <2>2. k - 1 \in 0 .. m + 1 /\ k + 1 \in 0 .. m + 1 BY <1>k
  <2> QED BY <2>1, <2>2, <1>2, <1>6, <1>8
<1> QED
  <2>1. Path(g.next, p, t, p) /\ Back(g.prev, p, t, p) BY <1>6, <1>9
  <2>2. Rings(H, E, g, [L EXCEPT ![p] = t])
    BY <2>1, <1>11, <1>12, <1>13, RingsOne DEF D, s
  <2> QED BY <2>2 DEF g, t, s, n

LEMMA SpliceIs ==
  ASSUME NEW f, NEW g, NEW pos, NEW first, NEW last, first # last, pos # first, pos # last
  PROVE  SpliceBefore([next |-> f, prev |-> g], pos, first, last)
           = [next |-> With(With(With(f, g[first], last), g[pos], first), g[last], pos),
              prev |-> With(With(With(g, last, g[first]), first, g[pos]), pos, g[last])]
<1> DEFINE h == [next |-> f, prev |-> g]
           h0 == SetNext(h, h.prev[first], last)
           h1 == SetPrev(h0, last, h.prev[first])
           h2 == SetNext(h1, h.prev[pos], first)
           h3 == SetPrev(h2, first, h.prev[pos])
           h4 == SetNext(h3, h.prev[last], pos)
<1>0. h.prev = g /\ h.next = f OBVIOUS
<1>1. SpliceBefore(h, pos, first, last) = SetPrev(h4, pos, h.prev[last])
  <2> HIDE DEF h
  <2> QED BY DEF SpliceBefore
<1>2. h0 = [next |-> With(f, g[first], last), prev |-> g] BY SetNextIs
<1> HIDE DEF h0
<1>3. h1 = [next |-> With(f, g[first], last), prev |-> With(g, last, g[first])]
  BY <1>2, SetPrevIs
<1> HIDE DEF h1
<1>4. h2 = [next |-> With(With(f, g[first], last), g[pos], first), prev |-> With(g, last, g[first])]
  BY <1>3, SetNextIs
<1> HIDE DEF h2
<1>5. h3 = [next |-> With(With(f, g[first], last), g[pos], first),
            prev |-> With(With(g, last, g[first]), first, g[pos])]
  BY <1>4, SetPrevIs
<1> HIDE DEF h3
<1>6. h4 = [next |-> With(With(With(f, g[first], last), g[pos], first), g[last], pos),
            prev |-> With(With(g, last, g[first]), first, g[pos])]
  BY <1>5, SetNextIs
<1> HIDE DEF h4
<1> QED BY <1>1, <1>6, SetPrevIs

(* The elements from a to before b and those from b to before c change *)
(* places. *)
Rotated(s, a, b, c) ==
  [x \in 1 .. Len(s) |-> IF x < a \/ x >= c THEN s[x]
                         ELSE IF x < a + (c - b) THEN s[x + (b - a)] ELSE s[x - (c - b)]]

LEMMA RotatedIs ==
  ASSUME NEW E, NEW s \in Seq(E), Distinct(s),
         NEW a \in 1 .. Len(s), NEW b \in a + 1 .. Len(s), NEW c \in b + 1 .. Len(s) + 1
  PROVE  LET t == Rotated(s, a, b, c)
         IN  /\ t \in Seq(E) /\ Len(t) = Len(s) /\ DOMAIN t = 1 .. Len(s)
             /\ Distinct(t) /\ ToSet(t) = ToSet(s)
<1> DEFINE t == Rotated(s, a, b, c)
           Point(x) == IF x < a \/ x >= c THEN x
                    ELSE IF x < a + (c - b) THEN x + (b - a) ELSE x - (c - b)
           After(x) == IF x < a \/ x >= c THEN x
                      ELSE IF x < b THEN x + (c - b) ELSE x - (b - a)
<1>1. Len(s) \in Nat /\ DOMAIN s = 1 .. Len(s) /\ \A x \in 1 .. Len(s) : s[x] \in E
  BY LenProperties
<1>2. \A x \in 1 .. Len(s) : Point(x) \in 1 .. Len(s) /\ After(x) \in 1 .. Len(s) /\ Point(After(x)) = x
  BY <1>1
<1>3. \A x, y \in 1 .. Len(s) : Point(x) = Point(y) => x = y BY <1>1
<1>4. DOMAIN t = 1 .. Len(s) /\ \A x \in 1 .. Len(s) : t[x] = s[Point(x)]
  BY <1>1 DEF Rotated
<1> HIDE DEF Point, After
<1>5. t \in Seq(E) /\ Len(t) = Len(s)
  <2>1. t \in [1 .. Len(s) -> E]
    <3>1. t = [x \in 1 .. Len(s) |-> t[x]] BY DEF Rotated
    <3> HIDE DEF t
    <3> QED BY <1>1, <1>2, <1>4, <3>1
  <2> HIDE DEF t
  <2>2. t \in Seq(E) BY <1>1, <2>1, SeqDef
  <2> QED BY <2>2, <1>1, <1>4, LenProperties
<1> HIDE DEF t
<1>6. Distinct(t)
  <2>1. SUFFICES ASSUME NEW i \in 1 .. Len(s), NEW j \in 1 .. Len(s), t[i] = t[j] PROVE i = j
    BY <1>4 DEF Distinct
  <2>2. s[Point(i)] = s[Point(j)] /\ Point(i) \in DOMAIN s /\ Point(j) \in DOMAIN s
    BY <2>1, <1>1, <1>2, <1>4
  <2>3. Point(i) = Point(j) BY <2>2 DEF Distinct
  <2> QED BY <2>3, <1>3
<1>7. ToSet(t) = ToSet(s)
  <2>1. ToSet(t) \subseteq ToSet(s) BY <1>1, <1>2, <1>4 DEF ToSet
  <2>2. \A x \in 1 .. Len(s) : s[x] = t[After(x)] /\ After(x) \in DOMAIN t
    BY <1>2, <1>4
  <2>3. ToSet(s) \subseteq ToSet(t) BY <1>1, <2>2 DEF ToSet
  <2> QED BY <2>1, <2>3
<1> QED BY <1>4, <1>5, <1>6, <1>7 DEF t

(* The links that g has other than h: blocks a and b of the ring of p have *)
(* changed places. *)
Turned(D, h, g, p, s, a, b, c) ==
  \A x \in D :
    /\ g.next[x] = IF x = Stop(p, s, p, a - 1) THEN Stop(p, s, p, b)
                   ELSE IF x = Stop(p, s, p, b - 1) THEN Stop(p, s, p, c)
                   ELSE IF x = Stop(p, s, p, c - 1) THEN Stop(p, s, p, a)
                   ELSE h.next[x]
    /\ g.prev[x] = IF x = Stop(p, s, p, b) THEN Stop(p, s, p, a - 1)
                   ELSE IF x = Stop(p, s, p, c) THEN Stop(p, s, p, b - 1)
                   ELSE IF x = Stop(p, s, p, a) THEN Stop(p, s, p, c - 1)
                   ELSE h.prev[x]

(* Two neighbouring blocks of a ring change places.  That is what the stores*)
(* of splice_before do, whether the range goes forth or back in its ring. *)
LEMMA RingRotate ==
  ASSUME NEW H, NEW E, Apart(H, E), NEW h, NEW L, Rings(H, E, h, L), NEW p \in H,
         NEW a \in 1 .. Len(L[p]), NEW b \in a + 1 .. Len(L[p]), NEW c \in b + 1 .. Len(L[p]) + 1,
         NEW g, Memory(g, Members(H, L)),
         Turned(Members(H, L), h, g, p, L[p], a, b, c)
  PROVE  Rings(H, E, g, [L EXCEPT ![p] = Rotated(L[p], a, b, c)])
<1> DEFINE s == L[p]
           m == Len(s)
           N(i) == Stop(p, s, p, i)
           t == Rotated(s, a, b, c)
           T(i) == Stop(p, t, p, i)
           D == Members(H, L)
<1>1. StopsOf(H, E, h, L, p) BY RingStops
<1>2. /\ s \in Seq(E) /\ m \in Nat /\ DOMAIN s = 1 .. m
      /\ \A i \in 0 .. m + 1 : N(i) \in D /\ (N(i) = p \/ N(i) \in ToSet(s))
      /\ \A i, j \in 0 .. m : N(i) = N(j) => i = j
      /\ \A i, j \in 1 .. m + 1 : N(i) = N(j) => i = j
      /\ \A i \in 0 .. m : h.next[N(i)] = N(i + 1) /\ h.prev[N(i + 1)] = N(i)
      /\ N(0) = p /\ N(m + 1) = p /\ \A i \in 1 .. m : N(i) = s[i]
  BY <1>1 DEF StopsOf
<1>3. Distinct(s) BY DEF Rings, Parted
<1>4. t \in Seq(E) /\ Len(t) = m /\ DOMAIN t = 1 .. m /\ Distinct(t) /\ ToSet(t) = ToSet(s)
  BY <1>2, <1>3, RotatedIs
<1>5. \A i \in 1 .. m : t[i] = IF i < a \/ i >= c THEN s[i]
                               ELSE IF i < a + (c - b) THEN s[i + (b - a)] ELSE s[i - (c - b)]
  BY DEF Rotated
<1>k. /\ m \in Nat /\ a \in Nat /\ b \in Nat /\ c \in Nat /\ 1 <= a /\ a < b /\ b < c /\ c <= m + 1
  BY <1>2
<1> HIDE DEF t, D, s
<1>7. \A i \in 0 .. m + 1 : T(i) = IF i < a \/ i >= c THEN N(i)
                                   ELSE IF i < a + (c - b) THEN N(i + (b - a)) ELSE N(i - (c - b))
  BY <1>k, <1>2, <1>4, <1>5, SMTT(60) DEF Stop
<1>8. \A x \in D :
        /\ g.next[x] = IF x = N(a - 1) THEN N(b) ELSE IF x = N(b - 1) THEN N(c)
                       ELSE IF x = N(c - 1) THEN N(a) ELSE h.next[x]
        /\ g.prev[x] = IF x = N(b) THEN N(a - 1) ELSE IF x = N(c) THEN N(b - 1)
                       ELSE IF x = N(a) THEN N(c - 1) ELSE h.prev[x]
  BY DEF D, s, Turned
<1> HIDE DEF N, T, m
(* Where nothing is stored the links are the old ones. *)
<1>9. /\ \A i \in 0 .. m : i \notin {a - 1, b - 1, c - 1} => g.next[N(i)] = N(i + 1)
      /\ \A i \in 0 .. m : i \notin {a - 1, b - 1, c - 1} => g.prev[N(i + 1)] = N(i)
      /\ g.next[N(a - 1)] = N(b) /\ g.next[N(b - 1)] = N(c) /\ g.next[N(c - 1)] = N(a)
      /\ g.prev[N(b)] = N(a - 1) /\ g.prev[N(c)] = N(b - 1) /\ g.prev[N(a)] = N(c - 1)
  <2>0. {a - 1, b - 1, c - 1} \subseteq 0 .. m /\ {a, b, c} \subseteq 1 .. m + 1
    BY <1>k
  <2>1. ASSUME NEW i \in 0 .. m, i \notin {a - 1, b - 1, c - 1}
        PROVE  g.next[N(i)] = N(i + 1) /\ g.prev[N(i + 1)] = N(i)
    <3>1. N(i) \notin {N(a - 1), N(b - 1), N(c - 1)} BY <2>0, <2>1, <1>2
    <3>2. i + 1 \in 1 .. m + 1 /\ i + 1 \notin {a, b, c} BY <2>1, <1>k
    <3>3. N(i + 1) \notin {N(a), N(b), N(c)} BY <2>0, <3>2, <1>2
    <3>4. N(i) \in D /\ N(i + 1) \in D /\ h.next[N(i)] = N(i + 1) /\ h.prev[N(i + 1)] = N(i)
      BY <3>2, <1>2, <1>k, SMTT(60)
    <3> QED BY <3>1, <3>3, <3>4, <1>8
  <2>2. N(a - 1) # N(b - 1) /\ N(b - 1) # N(c - 1) /\ N(c - 1) # N(a - 1)
        /\ N(a) # N(b) /\ N(b) # N(c) /\ N(c) # N(a)
    BY <2>0, <1>k, <1>2, SMTT(60)
  <2>3. {N(a - 1), N(b - 1), N(c - 1), N(a), N(b), N(c)} \subseteq D
    BY <2>0, <1>k, <1>2, SMTT(60)
  <2> QED BY <2>1, <2>2, <2>3, <1>8
<1>10. Path(g.next, p, t, p) /\ Back(g.prev, p, t, p)
  <2>1. ASSUME NEW i \in 0 .. m PROVE g.next[T(i)] = T(i + 1) /\ g.prev[T(i + 1)] = T(i)
    <3>0. i \in Int /\ 0 <= i /\ i <= m BY <1>k
    <3>1. CASE i < a - 1 \/ i >= c
      <4>1. T(i) = N(i) /\ T(i + 1) = N(i + 1) /\ i \notin {a - 1, b - 1, c - 1}
        BY <3>0, <3>1, <1>k, <1>7
      <4> QED BY <4>1, <1>9
    <3>2. CASE i = a - 1
      <4>1. T(i) = N(a - 1) /\ T(i + 1) = N(b) BY <3>0, <3>2, <1>k, <1>7
      <4> QED BY <4>1, <1>9
    <3>3. CASE i = c - 1
      <4>1. T(i) = N(b - 1) /\ T(i + 1) = N(c) BY <3>0, <3>3, <1>k, <1>7
      <4> QED BY <4>1, <1>9
    <3>4. CASE i = a + (c - b) - 1
      <4>1. T(i) = N(c - 1) /\ T(i + 1) = N(a) BY <3>0, <3>4, <1>k, <1>7
      <4> QED BY <4>1, <1>9
    <3>5. CASE i >= a /\ i < a + (c - b) - 1
      <4>1. T(i) = N(i + (b - a)) /\ T(i + 1) = N((i + (b - a)) + 1) /\ i + (b - a) \in 0 .. m
            /\ i + (b - a) \notin {a - 1, b - 1, c - 1}
        BY <3>0, <3>5, <1>k, <1>7
      <4> QED BY <4>1, <1>9
    <3>6. CASE i >= a + (c - b) /\ i < c - 1
      <4>1. T(i) = N(i - (c - b)) /\ T(i + 1) = N((i - (c - b)) + 1) /\ i - (c - b) \in 0 .. m
            /\ i - (c - b) \notin {a - 1, b - 1, c - 1}
        <5>1. (i + 1) - (c - b) = (i - (c - b)) + 1 /\ i \in 0 .. m + 1 /\ i + 1 \in 0 .. m + 1
          BY <3>0, <1>k
        <5>2. T(i) = N(i - (c - b)) /\ T(i + 1) = N((i + 1) - (c - b))
          BY <3>0, <3>6, <5>1, <1>k, <1>7
        <5>3. i - (c - b) \in 0 .. m /\ i - (c - b) \notin {a - 1, b - 1, c - 1}
          BY <3>0, <3>6, <1>k
        <5> QED BY <5>1, <5>2, <5>3
      <4> QED BY <4>1, <1>9
    <3> QED BY <3>0, <3>1, <3>2, <3>3, <3>4, <3>5, <3>6, <1>k
  <2> QED BY <2>1, <1>4 DEF Path, Back, T
<1>11. ForOne(H, E, L, p, t)
  <2>1. \A q \in H \ {p} : ToSet(s) \cap ToSet(L[q]) = {}
    BY DEF Rings, Parted, s
  <2> QED BY <2>1, <1>4 DEF ForOne
<1>12. Memory(g, Exchanged(D, ToSet(s), ToSet(t)))
  <2>1. ToSet(s) \subseteq D BY DEF D, Members, s
  <2>2. Exchanged(D, ToSet(s), ToSet(t)) = D BY <2>1, <1>4 DEF Exchanged
  <2> QED BY <2>2 DEF D
<1>13. \A x \in D : x = p \/ x \in ToSet(s) \/ (g.next[x] = h.next[x] /\ g.prev[x] = h.prev[x])
  <2>1. \A i \in {a - 1, b - 1, c - 1, a, b, c} : N(i) = p \/ N(i) \in ToSet(s)
    <3>1. {a - 1, b - 1, c - 1, a, b, c} \subseteq 0 .. m + 1 BY <1>k
    <3> QED BY <3>1, <1>2
  <2> QED BY <2>1, <1>8
<1> QED
  <2>1. Rings(H, E, g, [L EXCEPT ![p] = t])
    BY <1>10, <1>11, <1>12, <1>13, RingsOne DEF D, s
  <2> QED BY <2>1 DEF t, s

(* The range of s from i to before j goes before place k. *)
Moved(s, i, j, k) ==
  LET rest == SubSeq(s, 1, i - 1) \o SubSeq(s, j, Len(s))
      to   == IF k <= i THEN k ELSE k - (j - i)
  IN  SubSeq(rest, 1, to - 1) \o SubSeq(s, i, j - 1) \o SubSeq(rest, to, Len(rest))

LEMMA MovedIs ==
  ASSUME NEW E, NEW s \in Seq(E), NEW i \in 1 .. Len(s) + 1, NEW j \in i .. Len(s) + 1,
         NEW k \in 1 .. Len(s) + 1, k <= i \/ j <= k
  PROVE  Moved(s, i, j, k) = IF i = j \/ k = i \/ k = j THEN s
                             ELSE IF k < i THEN Rotated(s, k, i, j) ELSE Rotated(s, i, j, k)
<1> DEFINE m == Len(s)
           rest == SubSeq(s, 1, i - 1) \o SubSeq(s, j, Len(s))
           to == IF k <= i THEN k ELSE k - (j - i)
           range == SubSeq(s, i, j - 1)
           u == SubSeq(rest, 1, to - 1) \o range \o SubSeq(rest, to, Len(rest))
<1>1. m \in Nat /\ DOMAIN s = 1 .. m /\ \A x \in 1 .. m : s[x] \in E
  BY LenProperties
<1>2. /\ rest \in Seq(E) /\ Len(rest) = m - (j - i)
      /\ \A x \in 1 .. m - (j - i) : rest[x] = IF x < i THEN s[x] ELSE s[x + (j - i)]
  BY CutIs
<1>3. range \in Seq(E) /\ Len(range) = j - i /\ \A x \in 1 .. j - i : range[x] = s[i + x - 1]
  <2>1. \A x \in i .. j - 1 : s[x] \in E BY <1>1
  <2>2. /\ range \in Seq(E) /\ Len(range) = IF i <= j - 1 THEN (j - 1) - i + 1 ELSE 0
        /\ \A x \in 1 .. (j - 1) - i + 1 : range[x] = s[i + x - 1]
    BY <2>1, SubSeqProperties
  <2> HIDE DEF range
  <2> QED BY <2>2, <1>1
<1>4. to \in 1 .. (m - (j - i)) + 1 BY <1>1
<1>5. Moved(s, i, j, k) = u BY DEF Moved
<1> HIDE DEF rest, range, to
<1>6. /\ u \in Seq(E) /\ Len(u) = m
      /\ \A x \in 1 .. m : u[x] = IF x < to THEN rest[x]
                                  ELSE IF x < to + (j - i) THEN range[x - to + 1] ELSE rest[x - (j - i)]
  <2> HIDE DEF m
  <2>1. to \in 1 .. Len(rest) + 1 /\ rest \in Seq(E) /\ range \in Seq(E)
    BY <1>2, <1>3, <1>4
  <2>2. /\ u \in Seq(E) /\ Len(u) = Len(rest) + Len(range)
        /\ \A x \in 1 .. Len(rest) + Len(range) :
             u[x] = IF x < to THEN rest[x]
                    ELSE IF x < to + Len(range) THEN range[x - to + 1] ELSE rest[x - Len(range)]
    BY <2>1, Embedded, ZenonT(60)
  <2>3. Len(rest) + Len(range) = m BY <1>1, <1>2, <1>3
  <2> HIDE DEF u, m
  <2> QED BY <2>2, <2>3, <1>3
<1> HIDE DEF u
<1>7. \A x \in 1 .. m : u[x] = IF k <= i
        THEN IF x < k \/ x >= j THEN s[x] ELSE IF x < k + (j - i) THEN s[x + (i - k)] ELSE s[x - (j - i)]
        ELSE IF x < i \/ x >= k THEN s[x] ELSE IF x < i + (k - j) THEN s[x + (j - i)] ELSE s[x - (k - j)]
  <2> TAKE x \in 1 .. m
  <2>1. CASE k <= i
    <3>1. to = k BY <2>1 DEF to
    <3>2. CASE x < k BY <3>1, <3>2, <2>1, <1>1, <1>2, <1>6
    <3>3. CASE x >= k /\ x < k + (j - i)
      <4>1. u[x] = range[x - k + 1] /\ x - k + 1 \in 1 .. j - i /\ i + (x - k + 1) - 1 = x + (i - k) /\ x < j
        BY <3>1, <3>3, <2>1, <1>1, <1>6, SMTT(60)
      <4> QED BY <4>1, <3>3, <2>1, <1>3
    <3>4. CASE x >= k + (j - i)
      <4>a. x - (j - i) \in 1 .. m - (j - i) /\ (x - (j - i)) + (j - i) = x
            /\ (x - (j - i) < i <=> x < j)
        BY <3>4, <2>1, <1>1
      <4>b. ~(x < to) /\ ~(x < to + (j - i))
        BY <3>1, <3>4, <1>1
      <4>c. u[x] = rest[x - (j - i)]
        BY <4>b, <1>6
      <4>1. u[x] = rest[x - (j - i)] /\ x - (j - i) \in 1 .. m - (j - i) /\ (x - (j - i)) + (j - i) = x
            /\ (x - (j - i) < i <=> x < j)
        BY <4>a, <4>c
      <4>2. u[x] = IF x - (j - i) < i THEN s[x - (j - i)] ELSE s[x]
        BY <4>1, <1>2
      <4> QED BY <4>1, <4>2, <3>4, <2>1, <1>1
    <3> QED BY <3>2, <3>3, <3>4, <1>1
  <2>2. CASE ~(k <= i)
    <3>0. to = k - (j - i) /\ j <= k BY <2>2, <1>1 DEF to
    <3>1. to = i + (k - j) /\ to + (j - i) = k BY <3>0, <1>1
    <3>2. CASE x < i
      <4>1. x < to /\ x \in 1 .. m - (j - i) /\ (x < i \/ x >= k)
        BY <3>0, <3>1, <3>2, <1>1
      <4>2. u[x] = rest[x] BY <4>1, <1>6
      <4>3. rest[x] = s[x] BY <4>1, <3>2, <1>2
      <4> QED BY <4>1, <4>2, <4>3, <2>2
    <3>3. CASE x >= i /\ x < i + (k - j)
      <4>1. x < to /\ x \in 1 .. m - (j - i) /\ ~(x < i) /\ ~(x >= k)
        BY <3>0, <3>1, <3>3, <1>1
      <4>2. u[x] = rest[x] BY <4>1, <1>6
      <4>3. rest[x] = s[x + (j - i)] BY <4>1, <1>2
      <4> QED BY <4>1, <4>2, <4>3, <3>3, <2>2
    <3>4. CASE x >= i + (k - j) /\ x < k
      <4>0. ~(x < to) /\ x < to + (j - i) BY <3>1, <3>4, <1>1
      <4>1. u[x] = range[x - to + 1] BY <4>0, <1>6
      <4>2. x - to + 1 \in 1 .. j - i /\ i + (x - to + 1) - 1 = x - (k - j)
        BY <3>1, <3>4, <1>1
      <4>3. u[x] = s[x - (k - j)] BY <4>1, <4>2, <1>3
      <4>4. ~(x < i \/ x >= k) /\ ~(x < i + (k - j)) BY <3>0, <3>4, <1>1
      <4> QED BY <4>3, <4>4, <2>2
    <3>5. CASE x >= k
      <4>1. u[x] = rest[x - (j - i)] /\ x - (j - i) \in 1 .. m - (j - i) /\ (x - (j - i)) + (j - i) = x
            /\ ~(x - (j - i) < i)
        BY <3>0, <3>1, <3>5, <2>2, <1>1, <1>6, SMTT(60)
      <4> QED BY <4>1, <3>5, <2>2, <1>2
    <3> QED BY <3>2, <3>3, <3>4, <3>5, <1>1
  <2> QED BY <2>1, <2>2
<1>8. u = [x \in 1 .. m |-> u[x]] /\ s = [x \in 1 .. m |-> s[x]]
  BY <1>1, <1>6, LenProperties
<1>9. CASE i = j \/ k = i \/ k = j
  <2>1. ASSUME NEW x \in 1 .. m PROVE u[x] = s[x]
    <3>1. CASE i = j
      <4>1. CASE k <= i
        <5>1. ~(x < k \/ x >= j) => ~(x < k + (j - i)) \/ x + (i - k) = x
          BY <3>1, <4>1, <1>1
        <5>2. x - (j - i) = x BY <3>1, <1>1
        <5>3. k + (j - i) = k BY <3>1, <1>1
        <5> HIDE DEF m
        <5> QED BY <3>1, <4>1, <5>1, <5>2, <5>3, <1>7
      <4>2. CASE ~(k <= i)
        <5>1. x + (j - i) = x /\ i + (k - j) = k BY <3>1, <1>1
        <5> HIDE DEF m
        <5> QED BY <3>1, <4>2, <5>1, <1>7, <1>1
      <4> QED BY <4>1, <4>2
    <3>2. CASE k = i
      <4>1. x + (i - k) = x /\ k + (j - i) = j /\ k <= i BY <3>2, <1>1
      <4> HIDE DEF m
      <4> QED BY <3>2, <4>1, <1>7, <1>1
    <3>3. CASE k = j /\ i # j
      <4>1. ~(k <= i) /\ i + (k - j) = i /\ x - (k - j) = x BY <3>3, <1>1
      <4> HIDE DEF m
      <4> QED BY <3>3, <4>1, <1>7, <1>1
    <3> QED BY <3>1, <3>2, <3>3, <1>9
  <2> HIDE DEF m
  <2> QED BY <2>1, <1>5, <1>8, <1>9
<1>10. CASE ~(i = j \/ k = i \/ k = j) /\ k < i
  <2>1. u = Rotated(s, k, i, j)
    <3> HIDE DEF m
    <3> QED BY <1>7, <1>8, <1>10 DEF Rotated, m
  <2> QED BY <2>1, <1>5, <1>10
<1>11. CASE ~(i = j \/ k = i \/ k = j) /\ ~(k < i)
  <2>1. u = Rotated(s, i, j, k)
    <3>1. ~(k <= i) BY <1>1, <1>11
    <3> HIDE DEF m
    <3> QED BY <3>1, <1>7, <1>8 DEF Rotated, m
  <2> QED BY <2>1, <1>5, <1>11
<1> QED BY <1>9, <1>10, <1>11

-----------------------------------------------------------------------------
(* Splices. *)

(* What a splice of the nodes from first to before last makes of the memory.*)
Spliced(D, h, pos, first, last, g) ==
  /\ Memory(g, D)
  /\ \A x \in D :
       /\ g.next[x] = IF x = h.prev[last] THEN pos ELSE IF x = h.prev[pos] THEN first
                      ELSE IF x = h.prev[first] THEN last ELSE h.next[x]
       /\ g.prev[x] = IF x = pos THEN h.prev[last] ELSE IF x = first THEN h.prev[pos]
                      ELSE IF x = last THEN h.prev[first] ELSE h.prev[x]

LEMMA SpliceMemory ==
  ASSUME NEW D, NEW h, Memory(h, D), NEW pos \in D, NEW first \in D, NEW last \in D,
         first # last, pos # first, pos # last,
         h.prev[pos] \in D, h.prev[first] \in D, h.prev[last] \in D
  PROVE  Spliced(D, h, pos, first, last, SpliceBefore(h, pos, first, last))
<1> DEFINE f == h.next
           g == h.prev
           F == With(With(With(f, g[first], last), g[pos], first), g[last], pos)
           G == With(With(With(g, last, g[first]), first, g[pos]), pos, g[last])
<1>1. h = [next |-> f, prev |-> g] /\ DOMAIN f = D /\ DOMAIN g = D BY DEF Memory
<1>2. SpliceBefore(h, pos, first, last) = [next |-> F, prev |-> G]
  <2> HIDE DEF f, g
  <2>1. SpliceBefore([next |-> f, prev |-> g], pos, first, last) = [next |-> F, prev |-> G]
    BY SpliceIs
  <2> HIDE DEF F, G
  <2> QED BY <2>1, <1>1
<1>3. /\ IsMap(F) /\ DOMAIN F = D /\ IsMap(G) /\ DOMAIN G = D
      /\ \A x \in D :
           /\ F[x] = IF x = g[last] THEN pos ELSE IF x = g[pos] THEN first ELSE IF x = g[first] THEN last ELSE f[x]
           /\ G[x] = IF x = pos THEN g[last] ELSE IF x = first THEN g[pos] ELSE IF x = last THEN g[first] ELSE g[x]
  <2>1. g[last] \in D /\ g[pos] \in D /\ g[first] \in D OBVIOUS
  <2> HIDE DEF f, g
  <2> QED BY <1>1, <2>1 DEF With, IsMap
<1> HIDE DEF F, G
<1> QED BY <1>2, <1>3 DEF Spliced, Memory

(* splice_before of a range of the same ring: the blocks between the three *)
(* places change. *)
LEMMA RingSpliceWithin ==
  ASSUME NEW H, NEW E, Apart(H, E), NEW h, NEW L, Rings(H, E, h, L), NEW p \in H,
         NEW i \in 1 .. Len(L[p]) + 1, NEW j \in i .. Len(L[p]) + 1, NEW k \in 1 .. Len(L[p]) + 1,
         k <= i \/ j <= k
  PROVE  Rings(H, E, SpliceBefore(h, Stop(p, L[p], p, k), Stop(p, L[p], p, i), Stop(p, L[p], p, j)),
               [L EXCEPT ![p] = Moved(L[p], i, j, k)])
<1> DEFINE s == L[p]
           m == Len(s)
           N(x) == Stop(p, s, p, x)
           D == Members(H, L)
           g == SpliceBefore(h, N(k), N(i), N(j))
<1>1. StopsOf(H, E, h, L, p) BY RingStops
<1>2. /\ s \in Seq(E) /\ m \in Nat
      /\ \A x \in 0 .. m + 1 : N(x) \in D
      /\ \A x, y \in 0 .. m : N(x) = N(y) => x = y
      /\ \A x, y \in 1 .. m + 1 : N(x) = N(y) => x = y
      /\ \A x \in 0 .. m : h.prev[N(x + 1)] = N(x)
  BY <1>1 DEF StopsOf
<1>3. Moved(s, i, j, k) = IF i = j \/ k = i \/ k = j THEN s
                          ELSE IF k < i THEN Rotated(s, k, i, j) ELSE Rotated(s, i, j, k)
  <2>1. s \in Seq(E) /\ i \in 1 .. Len(s) + 1 /\ j \in i .. Len(s) + 1 /\ k \in 1 .. Len(s) + 1
    BY <1>2
  <2> HIDE DEF s
  <2> QED BY <2>1, MovedIs
<1>k. m \in Nat /\ i \in Int /\ j \in Int /\ k \in Int /\ 1 <= i /\ i <= j /\ j <= m + 1 /\ 1 <= k /\ k <= m + 1
  BY <1>2
<1>4. Memory(h, D) BY DEF Rings
<1> HIDE DEF N, D, g, m
<1>5. CASE i = j \/ k = i \/ k = j
  <2>1. g = h BY <1>5 DEF g, SpliceBefore
  <2>2. [L EXCEPT ![p] = s] = L BY DEF s, Rings, Parted
  <2>3. Rings(H, E, g, [L EXCEPT ![p] = Moved(s, i, j, k)])
    BY <2>1, <2>2, <1>3, <1>5
  <2> QED BY <2>3 DEF g, N, s
<1>6. CASE ~(i = j \/ k = i \/ k = j)
  <2>0. /\ i - 1 \in 0 .. m /\ j - 1 \in 0 .. m /\ k - 1 \in 0 .. m
        /\ i \in 1 .. m + 1 /\ j \in 1 .. m + 1 /\ k \in 1 .. m + 1
        /\ (i - 1) + 1 = i /\ (j - 1) + 1 = j /\ (k - 1) + 1 = k
        /\ i - 1 # j - 1 /\ i - 1 # k - 1 /\ j - 1 # k - 1
    BY <1>6, <1>k
  <2>1. /\ N(i) # N(j) /\ N(i) # N(k) /\ N(j) # N(k)
        /\ N(i - 1) # N(j - 1) /\ N(i - 1) # N(k - 1) /\ N(j - 1) # N(k - 1)
        /\ h.prev[N(i)] = N(i - 1) /\ h.prev[N(j)] = N(j - 1) /\ h.prev[N(k)] = N(k - 1)
    BY <2>0, <1>6, <1>2
  <2>2. N(i) \in D /\ N(j) \in D /\ N(k) \in D /\ N(i - 1) \in D /\ N(j - 1) \in D /\ N(k - 1) \in D
    <3>1. {i, j, k, i - 1, j - 1, k - 1} \subseteq 0 .. m + 1 BY <1>k
    <3> QED BY <3>1, <1>2
  <2>3. Spliced(D, h, N(k), N(i), N(j), g)
    BY <2>1, <2>2, <1>4, SpliceMemory DEF g
  <2>4. Memory(g, D) BY <2>3 DEF Spliced
  <2>5. \A x \in D :
           /\ g.next[x] = IF x = N(j - 1) THEN N(k) ELSE IF x = N(k - 1) THEN N(i)
                          ELSE IF x = N(i - 1) THEN N(j) ELSE h.next[x]
           /\ g.prev[x] = IF x = N(k) THEN N(j - 1) ELSE IF x = N(i) THEN N(k - 1)
                          ELSE IF x = N(j) THEN N(i - 1) ELSE h.prev[x]
    BY <2>3, <2>1 DEF Spliced
  <2>6. CASE k < i
    <3>1. k \in 1 .. m /\ i \in k + 1 .. m /\ j \in i + 1 .. m + 1
      BY <1>6, <1>k, <2>6
    <3>2. \A x \in D :
           /\ g.next[x] = IF x = N(k - 1) THEN N(i) ELSE IF x = N(i - 1) THEN N(j)
                          ELSE IF x = N(j - 1) THEN N(k) ELSE h.next[x]
           /\ g.prev[x] = IF x = N(i) THEN N(k - 1) ELSE IF x = N(j) THEN N(i - 1)
                          ELSE IF x = N(k) THEN N(j - 1) ELSE h.prev[x]
      BY <2>1, <2>5
    <3>3. Rings(H, E, g, [L EXCEPT ![p] = Rotated(L[p], k, i, j)])
      <4>1. k \in 1 .. Len(L[p]) /\ i \in k + 1 .. Len(L[p]) /\ j \in i + 1 .. Len(L[p]) + 1
        BY <3>1 DEF m
      <4>2. Memory(g, Members(H, L)) BY <2>4 DEF D
      <4>3. Turned(Members(H, L), h, g, p, L[p], k, i, j)
        BY <3>2 DEF N, D, s, Turned
      <4> QED BY <4>1, <4>2, <4>3, RingRotate
    <3> QED BY <3>3, <2>6, <1>3, <1>6 DEF g, N, s
  <2>7. CASE ~(k < i)
    <3>1. i \in 1 .. m /\ j \in i + 1 .. m /\ k \in j + 1 .. m + 1
      BY <1>6, <1>k, <2>7
    <3>2. \A x \in D :
           /\ g.next[x] = IF x = N(i - 1) THEN N(j) ELSE IF x = N(j - 1) THEN N(k)
                          ELSE IF x = N(k - 1) THEN N(i) ELSE h.next[x]
           /\ g.prev[x] = IF x = N(j) THEN N(i - 1) ELSE IF x = N(k) THEN N(j - 1)
                          ELSE IF x = N(i) THEN N(k - 1) ELSE h.prev[x]
      BY <2>1, <2>5
    <3>3. Rings(H, E, g, [L EXCEPT ![p] = Rotated(L[p], i, j, k)])
      <4>1. i \in 1 .. Len(L[p]) /\ j \in i + 1 .. Len(L[p]) /\ k \in j + 1 .. Len(L[p]) + 1
        BY <3>1 DEF m
      <4>2. Memory(g, Members(H, L)) BY <2>4 DEF D
      <4>3. Turned(Members(H, L), h, g, p, L[p], i, j, k)
        BY <3>2 DEF N, D, s, Turned
      <4> QED BY <4>1, <4>2, <4>3, RingRotate
    <3> QED BY <3>3, <2>7, <1>3, <1>6 DEF g, N, s
  <2> QED BY <2>6, <2>7
<1> QED BY <1>5, <1>6

(* The range of s from i to before j is cut out, and goes before place k of *)
(* t. *)
Cut(s, i, j) == SubSeq(s, 1, i - 1) \o SubSeq(s, j, Len(s))
Put(t, k, r) == SubSeq(t, 1, k - 1) \o r \o SubSeq(t, k, Len(t))

Exclusive(s, t) == Distinct(s) /\ Distinct(t) /\ ToSet(s) \cap ToSet(t) = {}

(* The elements that a range of d leaves behind and those it joins. *)
Carried(E, s, t, i, k, d, u, v) ==
  /\ u \in Seq(E) /\ Len(u) = Len(s) - d
  /\ \A x \in 1 .. Len(s) - d : u[x] = IF x < i THEN s[x] ELSE s[x + d]
  /\ v \in Seq(E) /\ Len(v) = Len(t) + d
  /\ \A x \in 1 .. Len(t) + d :
       v[x] = IF x < k THEN t[x] ELSE IF x < k + d THEN s[x - k + i] ELSE t[x - d]

LEMMA CarriedIs ==
  ASSUME NEW E, NEW s \in Seq(E), NEW t \in Seq(E), NEW i \in 1 .. Len(s) + 1, NEW j \in i .. Len(s) + 1,
         NEW k \in 1 .. Len(t) + 1, NEW d, d = j - i
  PROVE  Carried(E, s, t, i, k, d, Cut(s, i, j), Put(t, k, SubSeq(s, i, j - 1)))
<1> DEFINE r == SubSeq(s, i, j - 1)
           u == Cut(s, i, j)
           v == Put(t, k, r)
<1>1. Len(s) \in Nat /\ Len(t) \in Nat /\ d \in Nat /\ \A x \in 1 .. Len(s) : s[x] \in E
  BY LenProperties
<1>2. /\ u \in Seq(E) /\ Len(u) = Len(s) - (j - i)
      /\ \A x \in 1 .. Len(s) - (j - i) : u[x] = IF x < i THEN s[x] ELSE s[x + (j - i)]
  BY CutIs DEF Cut
<1>3. r \in Seq(E) /\ Len(r) = d /\ \A x \in 1 .. d : r[x] = s[i + x - 1]
  <2>1. \A x \in i .. j - 1 : s[x] \in E BY <1>1
  <2>2. /\ r \in Seq(E) /\ Len(r) = IF i <= j - 1 THEN (j - 1) - i + 1 ELSE 0
        /\ \A x \in 1 .. (j - 1) - i + 1 : r[x] = s[i + x - 1]
    BY <2>1, SubSeqProperties
  <2> HIDE DEF r
  <2> QED BY <2>2, <1>1
<1> HIDE DEF r
<1>4. /\ v \in Seq(E) /\ Len(v) = Len(t) + Len(r)
      /\ \A x \in 1 .. Len(t) + Len(r) :
           v[x] = IF x < k THEN t[x] ELSE IF x < k + Len(r) THEN r[x - k + 1] ELSE t[x - Len(r)]
  <2>1. r \in Seq(E) BY <1>3
  <2> QED BY <2>1, Embedded, ZenonT(60) DEF Put
<1> HIDE DEF u, v
<1>5. \A x \in 1 .. Len(t) + d : v[x] = IF x < k THEN t[x] ELSE IF x < k + d THEN s[x - k + i] ELSE t[x - d]
  <2> TAKE x \in 1 .. Len(t) + d
  <2>1. v[x] = IF x < k THEN t[x] ELSE IF x < k + d THEN r[x - k + 1] ELSE t[x - d]
    BY <1>3, <1>4
  <2>2. CASE ~(x < k) /\ x < k + d
    <3>1. x - k + 1 \in 1 .. d /\ i + (x - k + 1) - 1 = x - k + i BY <2>2, <1>1
    <3> QED BY <3>1, <2>1, <2>2, <1>3
  <2> QED BY <2>1, <2>2
<1>6. j - i = d OBVIOUS
<1>7. /\ Len(u) = Len(s) - d /\ \A x \in 1 .. Len(s) - d : u[x] = IF x < i THEN s[x] ELSE s[x + d]
  BY <1>2, <1>6
<1> QED
  <2>1. u \in Seq(E) /\ v \in Seq(E) /\ Len(v) = Len(t) + d BY <1>2, <1>3, <1>4
  <2>2. Carried(E, s, t, i, k, d, u, v) BY <2>1, <1>5, <1>7 DEF Carried
  <2> QED BY <2>2 DEF u, v, r

(* Nothing is lost or twice when a range is carried over. *)
LEMMA CarriedApart ==
  ASSUME NEW E, NEW s \in Seq(E), NEW t \in Seq(E), NEW i \in 1 .. Len(s) + 1, NEW j \in i .. Len(s) + 1,
         NEW k \in 1 .. Len(t) + 1, Exclusive(s, t)
  PROVE  /\ Exclusive(Cut(s, i, j), Put(t, k, SubSeq(s, i, j - 1)))
         /\ ToSet(Cut(s, i, j)) \cup ToSet(Put(t, k, SubSeq(s, i, j - 1))) = ToSet(s) \cup ToSet(t)
<1> DEFINE u == Cut(s, i, j)
           v == Put(t, k, SubSeq(s, i, j - 1))
           d == j - i
           m == Len(s)
           n == Len(t)
           A(x) == IF x < i THEN x ELSE x + d
<1>1. /\ u \in Seq(E) /\ Len(u) = m - d
      /\ \A x \in 1 .. m - d : u[x] = IF x < i THEN s[x] ELSE s[x + d]
      /\ v \in Seq(E) /\ Len(v) = n + d
      /\ \A x \in 1 .. n + d : v[x] = IF x < k THEN t[x] ELSE IF x < k + d THEN s[x - k + i] ELSE t[x - d]
  <2>1. d = j - i OBVIOUS
  <2> HIDE DEF d
  <2>2. Carried(E, s, t, i, k, d, u, v) BY <2>1, CarriedIs
  <2> HIDE DEF u, v
  <2> QED BY <2>2 DEF Carried, m, n
<1>u. Len(u) = m - d /\ \A x \in 1 .. m - d : u[x] = IF x < i THEN s[x] ELSE s[x + d]
  BY <1>1
<1>v. \A x \in 1 .. n + d : v[x] = IF x < k THEN t[x] ELSE IF x < k + d THEN s[x - k + i] ELSE t[x - d]
  BY <1>1
<1>2. /\ m \in Nat /\ n \in Nat /\ DOMAIN s = 1 .. m /\ DOMAIN t = 1 .. n /\ d \in Nat
      /\ i \in Int /\ j \in Int /\ k \in Int /\ 1 <= i /\ i <= j /\ j <= m + 1 /\ 1 <= k /\ k <= n + 1 /\ j = i + d
  BY LenProperties
<1>k. /\ m \in Nat /\ n \in Nat /\ d \in Nat
      /\ i \in Int /\ j \in Int /\ k \in Int /\ 1 <= i /\ i <= j /\ j <= m + 1 /\ 1 <= k /\ k <= n + 1 /\ j = i + d
  BY <1>2
<1>3. DOMAIN u = 1 .. m - d /\ DOMAIN v = 1 .. n + d
  <2> HIDE DEF u, v
  <2> QED BY <1>1, LenProperties
<1>4. /\ \A x, y \in 1 .. m : s[x] = s[y] => x = y
      /\ \A x, y \in 1 .. n : t[x] = t[y] => x = y
      /\ \A x \in 1 .. m, y \in 1 .. n : s[x] # t[y]
  <2> HIDE DEF m, n
  <2>1. /\ \A x, y \in 1 .. m : s[x] = s[y] => x = y
        /\ \A x, y \in 1 .. n : t[x] = t[y] => x = y
    BY <1>2 DEF Exclusive, Distinct
  <2>2. ASSUME NEW x \in 1 .. m, NEW y \in 1 .. n PROVE s[x] # t[y]
    <3>1. s[x] \in ToSet(s) /\ t[y] \in ToSet(t) BY <1>2 DEF ToSet
    <3> QED BY <3>1 DEF Exclusive
  <2> QED BY <2>1, <2>2
<1> HIDE DEF u, v, d, m, n
<1>5. Distinct(u)
  <2>1. ASSUME NEW x \in 1 .. m - d, NEW y \in 1 .. m - d, u[x] = u[y] PROVE x = y
    <3>1. /\ A(x) \in 1 .. m /\ A(y) \in 1 .. m /\ u[x] = s[A(x)] /\ u[y] = s[A(y)]
          /\ (A(x) = A(y) => x = y)
      <4>1. A(x) \in 1 .. m /\ A(y) \in 1 .. m /\ (A(x) = A(y) => x = y) BY <1>k
      <4>2. u[x] = s[A(x)] /\ u[y] = s[A(y)] BY <1>u
      <4> QED BY <4>1, <4>2
    <3> HIDE DEF A
    <3> QED BY <3>1, <2>1, <1>4
  <2> QED BY <2>1, <1>3 DEF Distinct
<1>6. Distinct(v)
  <2>1. ASSUME NEW x \in 1 .. n + d, NEW y \in 1 .. n + d, v[x] = v[y] PROVE x = y
    <3> DEFINE B(z) == IF z < k THEN z ELSE z - d
               R(z) == k <= z /\ z < k + d
    <3>1. ASSUME NEW z \in 1 .. n + d
          PROVE  /\ R(z) => z - k + i \in 1 .. m /\ v[z] = s[z - k + i]
                 /\ ~R(z) => B(z) \in 1 .. n /\ v[z] = t[B(z)]
      BY <1>u, <1>v, <1>k, SMTT(60)
    <3>2. CASE R(x) /\ R(y)
      <4> HIDE DEF B, R, u, v, m, n, d
      <4>1. x - k + i \in 1 .. m /\ v[x] = s[x - k + i] BY <3>1, <3>2
      <4>2. y - k + i \in 1 .. m /\ v[y] = s[y - k + i] BY <3>1, <3>2
      <4>3. \A a, b \in 1 .. m : s[a] = s[b] => a = b BY <1>4
      <4>4. x - k + i = y - k + i BY <4>1, <4>2, <4>3, <2>1
      <4> QED BY <4>4, <1>2
    <3>3. CASE ~R(x) /\ ~R(y)
      <4>1. B(x) = B(y)
        <5> HIDE DEF B, R
        <5> QED BY <3>1, <3>3, <2>1, <1>4, SMTT(60)
      <4> QED BY <4>1, <3>3, <1>2
    <3>4. CASE R(x) # R(y)
      <4> HIDE DEF B, R
      <4>1. CASE R(x) /\ ~R(y)
        <5>1. x - k + i \in 1 .. m /\ v[x] = s[x - k + i] BY <3>1, <4>1
        <5>2. B(y) \in 1 .. n /\ v[y] = t[B(y)] BY <3>1, <4>1
        <5>3. s[x - k + i] # t[B(y)] BY <5>1, <5>2, <1>4
        <5> QED BY <5>1, <5>2, <5>3, <2>1
      <4>2. CASE ~R(x) /\ R(y)
        <5>1. y - k + i \in 1 .. m /\ v[y] = s[y - k + i] BY <3>1, <4>2
        <5>2. B(x) \in 1 .. n /\ v[x] = t[B(x)] BY <3>1, <4>2
        <5>3. s[y - k + i] # t[B(x)] BY <5>1, <5>2, <1>4
        <5> QED BY <5>1, <5>2, <5>3, <2>1
      <4> QED BY <4>1, <4>2, <3>4 DEF R
    <3> QED BY <3>2, <3>3, <3>4 DEF R
  <2> QED BY <2>1, <1>3 DEF Distinct
<1>7. ToSet(u) \cap ToSet(v) = {}
  <2>1. ASSUME NEW x \in 1 .. m - d, NEW y \in 1 .. n + d, u[x] = v[y] PROVE FALSE
    <3>1. A(x) \in 1 .. m /\ u[x] = s[A(x)] /\ (A(x) < i \/ A(x) >= i + d)
      <4>1. A(x) \in 1 .. m /\ (A(x) < i \/ A(x) >= i + d) BY <1>k
      <4>2. u[x] = s[A(x)] BY <1>u
      <4> QED BY <4>1, <4>2
    <3>2. CASE k <= y /\ y < k + d
      <4>1. y - k + i \in 1 .. m /\ v[y] = s[y - k + i] /\ ~(y - k + i < i) /\ ~(y - k + i >= i + d)
        BY <3>2, <1>u, <1>v, <1>k
      <4> HIDE DEF A
      <4> QED BY <3>1, <4>1, <2>1, <1>4
    <3>3. CASE ~(k <= y /\ y < k + d)
      <4>1. \E z \in 1 .. n : v[y] = t[z]
        <5>1. (IF y < k THEN y ELSE y - d) \in 1 .. n BY <3>3, <1>2
        <5>2. v[y] = t[IF y < k THEN y ELSE y - d]
          <6>1. (y < k /\ (IF y < k THEN y ELSE y - d) = y)
                \/ (~(y < k) /\ ~(y < k + d) /\ (IF y < k THEN y ELSE y - d) = y - d)
            BY <3>3, <1>k
          <6> QED BY <6>1, <1>v
        <5> QED BY <5>1, <5>2
      <4> QED BY <4>1, <3>1, <2>1, <1>4
    <3> QED BY <3>2, <3>3
  <2> QED BY <2>1, <1>3 DEF ToSet
<1>8. ToSet(u) \subseteq ToSet(s)
  <2>1. ASSUME NEW x \in 1 .. m - d PROVE \E z \in 1 .. m : u[x] = s[z]
    <3>1. A(x) \in 1 .. m /\ u[x] = s[A(x)] BY <1>u, <1>v, <1>k
    <3> HIDE DEF A
    <3> QED BY <3>1
  <2> QED BY <2>1, <1>2, <1>3 DEF ToSet
<1>9. ToSet(v) \subseteq ToSet(s) \cup ToSet(t)
  <2>1. ASSUME NEW y \in 1 .. n + d PROVE (\E z \in 1 .. m : v[y] = s[z]) \/ \E z \in 1 .. n : v[y] = t[z]
    <3>1. CASE k <= y /\ y < k + d
      <4>1. y - k + i \in 1 .. m BY <3>1, <1>k
      <4>2. v[y] = s[y - k + i] BY <3>1, <1>v, <1>k
      <4> QED BY <4>1, <4>2
    <3>2. CASE y < k
      <4>1. y \in 1 .. n /\ v[y] = t[y] BY <3>2, <1>u, <1>v, <1>k
      <4> QED BY <4>1
    <3>3. CASE y >= k + d
      <4>1. y - d \in 1 .. n /\ v[y] = t[y - d]
        BY <3>3, <1>u, <1>v, <1>k, SMTT(60)
      <4> QED BY <4>1
    <3> QED BY <3>1, <3>2, <3>3, <1>2
  <2> QED BY <2>1, <1>2, <1>3 DEF ToSet
<1>10. ToSet(s) \subseteq ToSet(u) \cup ToSet(v)
  <2>1. ASSUME NEW z \in 1 .. m PROVE (\E x \in 1 .. m - d : u[x] = s[z]) \/ \E y \in 1 .. n + d : v[y] = s[z]
    <3>1. CASE z < i
      <4>1. z \in 1 .. m - d BY <3>1, <1>k
      <4>2. u[z] = s[z] BY <3>1, <4>1, <1>u
      <4> QED BY <4>1, <4>2
    <3>2. CASE i <= z /\ z < i + d
      <4>1. z - i + k \in 1 .. n + d /\ (z - i + k) - k + i = z /\ ~(z - i + k < k) /\ z - i + k < k + d
        BY <3>2, <1>2
      <4>2. v[z - i + k] = s[z] BY <4>1, <1>1
      <4> QED BY <4>1, <4>2
    <3>3. CASE z >= i + d
      <4>1. z - d \in 1 .. m - d /\ (z - d) + d = z /\ ~(z - d < i)
        BY <3>3, <1>2
      <4>2. u[z - d] = s[z] BY <4>1, <1>1
      <4> QED BY <4>1, <4>2
    <3> QED BY <3>1, <3>2, <3>3, <1>2
  <2> QED BY <2>1, <1>2, <1>3 DEF ToSet
<1>11. ToSet(t) \subseteq ToSet(v)
  <2>1. ASSUME NEW z \in 1 .. n PROVE \E y \in 1 .. n + d : v[y] = t[z]
    <3>1. CASE z < k
      <4>1. z \in 1 .. n + d /\ v[z] = t[z] BY <3>1, <1>u, <1>v, <1>k
      <4> QED BY <4>1
    <3>2. CASE z >= k
      <4>1. z + d \in 1 .. n + d /\ (z + d) - d = z /\ ~(z + d < k) /\ ~(z + d < k + d)
        BY <3>2, <1>2
      <4>2. v[z + d] = t[z] BY <4>1, <1>1
      <4> QED BY <4>1, <4>2
    <3> QED BY <3>1, <3>2, <1>2
  <2> QED BY <2>1, <1>2, <1>3 DEF ToSet
<1> QED
  <2>1. Exclusive(u, v) BY <1>5, <1>6, <1>7 DEF Exclusive
  <2>2. ToSet(u) \cup ToSet(v) = ToSet(s) \cup ToSet(t)
    BY <1>8, <1>9, <1>10, <1>11
  <2> QED BY <2>1, <2>2 DEF u, v

(* splice_before of a range of another ring. *)
LEMMA RingSpliceAcross ==
  ASSUME NEW H, NEW E, Apart(H, E), NEW h, NEW L, Rings(H, E, h, L), NEW p \in H, NEW q \in H, p # q,
         NEW i \in 1 .. Len(L[p]) + 1, NEW j \in i .. Len(L[p]) + 1, NEW k \in 1 .. Len(L[q]) + 1
  PROVE  Rings(H, E, SpliceBefore(h, Stop(q, L[q], q, k), Stop(p, L[p], p, i), Stop(p, L[p], p, j)),
               Both(L, p, Cut(L[p], i, j), q, Put(L[q], k, SubSeq(L[p], i, j - 1))))
<1> DEFINE s == L[p]
           t == L[q]
           m == Len(s)
           n == Len(t)
           d == j - i
           u == Cut(s, i, j)
           v == Put(t, k, SubSeq(s, i, j - 1))
           N(x) == Stop(p, s, p, x)
           T(x) == Stop(q, t, q, x)
           U(x) == Stop(p, u, p, x)
           V(x) == Stop(q, v, q, x)
           D == Members(H, L)
           g == SpliceBefore(h, T(k), N(i), N(j))
<1>1. StopsOf(H, E, h, L, p) /\ StopsOf(H, E, h, L, q) BY RingStops
<1>2. /\ s \in Seq(E) /\ m \in Nat /\ DOMAIN s = 1 .. m
      /\ \A x \in 0 .. m + 1 : N(x) \in D /\ (N(x) = p \/ N(x) \in ToSet(s))
      /\ \A x \in 0 .. m + 1 : N(x) # q /\ N(x) \notin ToSet(t)
      /\ \A x, y \in 0 .. m : N(x) = N(y) => x = y
      /\ \A x, y \in 1 .. m + 1 : N(x) = N(y) => x = y
      /\ \A x \in 0 .. m : h.next[N(x)] = N(x + 1) /\ h.prev[N(x + 1)] = N(x)
  BY <1>1 DEF StopsOf
<1>3. /\ t \in Seq(E) /\ n \in Nat /\ DOMAIN t = 1 .. n
      /\ \A x \in 0 .. n + 1 : T(x) \in D /\ (T(x) = q \/ T(x) \in ToSet(t))
      /\ \A x, y \in 0 .. n : T(x) = T(y) => x = y
      /\ \A x, y \in 1 .. n + 1 : T(x) = T(y) => x = y
      /\ \A x \in 0 .. n : h.next[T(x)] = T(x + 1) /\ h.prev[T(x + 1)] = T(x)
  BY <1>1 DEF StopsOf
<1>k. /\ m \in Nat /\ n \in Nat /\ d \in Nat /\ i \in Int /\ j \in Int /\ k \in Int
      /\ 1 <= i /\ i <= j /\ j <= m + 1 /\ 1 <= k /\ k <= n + 1 /\ j = i + d
  BY <1>2, <1>3
<1>4. Exclusive(s, t) BY DEF Rings, Parted, Exclusive
<1>5. Carried(E, s, t, i, k, d, u, v)
  <2>1. s \in Seq(E) /\ t \in Seq(E) /\ i \in 1 .. Len(s) + 1 /\ j \in i .. Len(s) + 1 /\ k \in 1 .. Len(t) + 1
        /\ d = j - i
    BY <1>2, <1>3
  <2> HIDE DEF s, t, d
  <2> QED BY <2>1, CarriedIs
<1>6. Exclusive(u, v) /\ ToSet(u) \cup ToSet(v) = ToSet(s) \cup ToSet(t)
  <2>1. s \in Seq(E) /\ t \in Seq(E) /\ i \in 1 .. Len(s) + 1 /\ j \in i .. Len(s) + 1 /\ k \in 1 .. Len(t) + 1
    BY <1>2, <1>3
  <2> HIDE DEF s, t
  <2> QED BY <2>1, <1>4, CarriedApart
<1>7. \A x \in 0 .. m + 1, y \in 0 .. n + 1 : N(x) # T(y)
  <2> HIDE DEF N, T
  <2> QED BY <1>2, <1>3
<1>8. Memory(h, D) BY DEF Rings
<1>u. /\ u \in Seq(E) /\ Len(u) = m - d
      /\ \A x \in 1 .. m - d : u[x] = IF x < i THEN s[x] ELSE s[x + d]
  BY <1>5 DEF Carried
<1>v. /\ v \in Seq(E) /\ Len(v) = n + d
      /\ \A x \in 1 .. n + d : v[x] = IF x < k THEN t[x] ELSE IF x < k + d THEN s[x - k + i] ELSE t[x - d]
  BY <1>5 DEF Carried
<1>9. CASE i = j
  <2>1. g = h /\ d = 0 BY <1>9, <1>k DEF SpliceBefore
  <2>2. u = s
    <3>1. Len(u) = m /\ \A x \in 1 .. m : u[x] = s[x]
      <4> HIDE DEF u, d
      <4> QED BY <2>1, <1>u, <1>k
    <3>2. s = [x \in 1 .. m |-> s[x]] BY <1>2, LenProperties
    <3> HIDE DEF u, m, s
    <3>3. u = [x \in 1 .. m |-> u[x]] BY <3>1, <1>u, LenProperties
    <3> QED BY <3>1, <3>2, <3>3
  <2>3. v = t
    <3>1. Len(v) = n /\ \A x \in 1 .. n : v[x] = t[x]
      <4> HIDE DEF v, d
      <4> QED BY <2>1, <1>v, <1>k
    <3>2. t = [x \in 1 .. n |-> t[x]] BY <1>3, LenProperties
    <3> HIDE DEF v, n, t
    <3>3. v = [x \in 1 .. n |-> v[x]] BY <3>1, <1>v, LenProperties
    <3> QED BY <3>1, <3>2, <3>3
  <2>4. Both(L, p, s, q, t) = L BY DEF Both, Rings, Parted
  <2> HIDE DEF u, v, g
  <2>5. Rings(H, E, g, Both(L, p, u, q, v)) BY <2>1, <2>2, <2>3, <2>4
  <2> QED BY <2>5 DEF u, v, g
<1>10. CASE i < j
  <2>0. /\ i - 1 \in 0 .. m /\ j - 1 \in 0 .. m /\ k - 1 \in 0 .. n /\ i - 1 # j - 1 /\ i # j
        /\ i \in 1 .. m + 1 /\ j \in 1 .. m + 1 /\ k \in 1 .. n + 1
        /\ (i - 1) + 1 = i /\ (j - 1) + 1 = j /\ (k - 1) + 1 = k
        /\ {i, j, i - 1, j - 1} \subseteq 0 .. m + 1 /\ {k, k - 1} \subseteq 0 .. n + 1
    BY <1>10, <1>k
  <2> HIDE DEF s, t, m, n, d, u, v, N, T, D, g
  <2>1. /\ N(i) # N(j) /\ N(i - 1) # N(j - 1)
        /\ T(k) \notin {N(i), N(j)} /\ T(k - 1) \notin {N(i - 1), N(j - 1)}
        /\ h.prev[N(i)] = N(i - 1) /\ h.prev[N(j)] = N(j - 1) /\ h.prev[T(k)] = T(k - 1)
    BY <2>0, <1>2, <1>3, <1>7
  <2>2. N(i) \in D /\ N(j) \in D /\ T(k) \in D /\ N(i - 1) \in D /\ N(j - 1) \in D /\ T(k - 1) \in D
    BY <2>0, <1>2, <1>3
  <2>3. Spliced(D, h, T(k), N(i), N(j), g)
    BY <2>1, <2>2, <1>8, SpliceMemory DEF g
  <2>4. Memory(g, D) BY <2>3 DEF Spliced
  <2>5. \A x \in D :
           /\ g.next[x] = IF x = N(j - 1) THEN T(k) ELSE IF x = T(k - 1) THEN N(i)
                          ELSE IF x = N(i - 1) THEN N(j) ELSE h.next[x]
           /\ g.prev[x] = IF x = T(k) THEN N(j - 1) ELSE IF x = N(i) THEN T(k - 1)
                          ELSE IF x = N(j) THEN N(i - 1) ELSE h.prev[x]
    BY <2>3, <2>1 DEF Spliced
  (* Where nothing is stored the links are the old ones. *)
  <2>6. /\ \A x \in 0 .. m : x \notin {i - 1, j - 1} => g.next[N(x)] = N(x + 1) /\ g.prev[N(x + 1)] = N(x)
        /\ \A x \in 0 .. n : x # k - 1 => g.next[T(x)] = T(x + 1) /\ g.prev[T(x + 1)] = T(x)
        /\ g.next[N(i - 1)] = N(j) /\ g.next[T(k - 1)] = N(i) /\ g.next[N(j - 1)] = T(k)
        /\ g.prev[N(j)] = N(i - 1) /\ g.prev[N(i)] = T(k - 1) /\ g.prev[T(k)] = N(j - 1)
    <3>1. ASSUME NEW x \in 0 .. m, x \notin {i - 1, j - 1}
          PROVE  g.next[N(x)] = N(x + 1) /\ g.prev[N(x + 1)] = N(x)
      <4>0. x + 1 \in 1 .. m + 1 /\ x + 1 \notin {i, j} /\ x \in 0 .. m + 1 /\ x + 1 \in 0 .. m + 1
        BY <3>1, <1>k
      <4>1. N(x) \notin {N(i - 1), N(j - 1), T(k - 1)} /\ N(x + 1) \notin {N(i), N(j), T(k)}
        BY <4>0, <3>1, <2>0, <1>2, <1>7
      <4>2. N(x) \in D /\ N(x + 1) \in D /\ h.next[N(x)] = N(x + 1) /\ h.prev[N(x + 1)] = N(x)
        BY <4>0, <1>2
      <4> QED BY <4>1, <4>2, <2>5
    <3>2. ASSUME NEW x \in 0 .. n, x # k - 1
          PROVE  g.next[T(x)] = T(x + 1) /\ g.prev[T(x + 1)] = T(x)
      <4>0. x + 1 \in 1 .. n + 1 /\ x + 1 # k /\ x \in 0 .. n + 1 /\ x + 1 \in 0 .. n + 1
        BY <3>2, <1>k
      <4>1. T(x) \notin {N(i - 1), N(j - 1), T(k - 1)} /\ T(x + 1) \notin {N(i), N(j), T(k)}
        BY <4>0, <3>2, <2>0, <1>3, <1>7
      <4>2. T(x) \in D /\ T(x + 1) \in D /\ h.next[T(x)] = T(x + 1) /\ h.prev[T(x + 1)] = T(x)
        BY <4>0, <1>3
      <4> QED BY <4>1, <4>2, <2>5
    <3>3. /\ g.next[N(i - 1)] = N(j) /\ g.next[T(k - 1)] = N(i) /\ g.next[N(j - 1)] = T(k)
          /\ g.prev[N(j)] = N(i - 1) /\ g.prev[N(i)] = T(k - 1) /\ g.prev[T(k)] = N(j - 1)
      BY <2>1, <2>2, <2>5
    <3> QED BY <3>1, <3>2, <3>3
  <2>7. \A x \in 0 .. (m - d) + 1 : U(x) = IF x < i THEN N(x) ELSE N(x + d)
    BY <1>u, <1>k, SMTT(60) DEF Stop, N, m
  <2>8. \A x \in 0 .. (n + d) + 1 : V(x) = IF x < k THEN T(x) ELSE IF x < k + d THEN N(x - k + i) ELSE T(x - d)
    <3> TAKE x \in 0 .. (n + d) + 1
    <3>1. CASE x < k BY <3>1, <1>v, <1>k, SMTT(60) DEF Stop, T, n
    <3>2. CASE ~(x < k) /\ x < k + d
      <4>1. x \in 1 .. n + d /\ x # 0 /\ x - k + i # 0 /\ ~(x - k + i > m)
        BY <3>2, <1>k
      <4> QED BY <4>1, <3>2, <1>v, <1>k DEF Stop, N, m
    <3>3. CASE ~(x < k) /\ ~(x < k + d)
      BY <3>3, <1>v, <1>k, SMTT(60) DEF Stop, T, n
    <3> QED BY <3>1, <3>2, <3>3
  <2> HIDE DEF U, V
  <2>9. ASSUME NEW x \in 0 .. m - d PROVE g.next[U(x)] = U(x + 1) /\ g.prev[U(x + 1)] = U(x)
    <3>1. CASE x < i - 1
      <4>1. x + 1 < i /\ x < i /\ x \in 0 .. m /\ x \notin {i - 1, j - 1}
            /\ x \in 0 .. (m - d) + 1 /\ x + 1 \in 0 .. (m - d) + 1
        BY <3>1, <1>k
      <4> QED BY <4>1, <2>6, <2>7
    <3>2. CASE x = i - 1
      <4>1. x < i /\ ~(x + 1 < i) /\ (x + 1) + d = j /\ x \in 0 .. (m - d) + 1 /\ x + 1 \in 0 .. (m - d) + 1
        BY <3>2, <1>k
      <4>2. U(x) = N(i - 1) /\ U(x + 1) = N(j) BY <4>1, <3>2, <2>7
      <4> QED BY <4>2, <2>6
    <3>3. CASE x >= i
      <4>1. ~(x < i) /\ ~(x + 1 < i) /\ x + d \in 0 .. m /\ x + d \notin {i - 1, j - 1} /\ (x + 1) + d = (x + d) + 1
            /\ x \in 0 .. (m - d) + 1 /\ x + 1 \in 0 .. (m - d) + 1
        BY <3>3, <1>k
      <4>2. U(x) = N(x + d) /\ U(x + 1) = N((x + d) + 1) BY <4>1, <2>7
      <4> QED BY <4>1, <4>2, <2>6
    <3> QED BY <3>1, <3>2, <3>3, <1>k
  <2>10. ASSUME NEW x \in 0 .. n + d PROVE g.next[V(x)] = V(x + 1) /\ g.prev[V(x + 1)] = V(x)
    <3>0. x \in 0 .. (n + d) + 1 /\ x + 1 \in 0 .. (n + d) + 1 /\ d >= 1
      BY <1>k, <1>10
    <3>1. CASE x < k - 1
      <4>1. x + 1 < k /\ x < k /\ x \in 0 .. n /\ x # k - 1 BY <3>1, <1>k
      <4> QED BY <4>1, <3>0, <2>6, <2>8
    <3>2. CASE x = k - 1
      <4>1. x < k /\ ~(x + 1 < k) /\ x + 1 < k + d /\ (x + 1) - k + i = i
        BY <3>0, <3>2, <1>k
      <4>2. V(x) = T(k - 1) /\ V(x + 1) = N(i) BY <4>1, <3>0, <3>2, <2>8
      <4> QED BY <4>2, <2>6
    <3>3. CASE x >= k /\ x < k + d - 1
      <4>1. ~(x < k) /\ x < k + d /\ ~(x + 1 < k) /\ x + 1 < k + d /\ (x + 1) - k + i = (x - k + i) + 1
            /\ x - k + i \in 0 .. m /\ x - k + i \notin {i - 1, j - 1}
        BY <3>3, <1>k
      <4>2. V(x) = N(x - k + i) /\ V(x + 1) = N((x - k + i) + 1)
        BY <4>1, <3>0, <2>8
      <4> QED BY <4>1, <4>2, <2>6
    <3>4. CASE x = k + d - 1
      <4>1. ~(x < k) /\ x < k + d /\ ~(x + 1 < k) /\ ~(x + 1 < k + d) /\ (x + 1) - d = k /\ x - k + i = j - 1
        BY <3>0, <3>4, <1>k
      <4>2. V(x) = N(j - 1) /\ V(x + 1) = T(k) BY <4>1, <3>0, <2>8
      <4> QED BY <4>2, <2>6
    <3>5. CASE x >= k + d
      <4>1. ~(x < k) /\ ~(x < k + d) /\ ~(x + 1 < k) /\ ~(x + 1 < k + d) /\ (x + 1) - d = (x - d) + 1
            /\ x - d \in 0 .. n /\ x - d # k - 1
        BY <3>5, <1>k
      <4>2. V(x) = T(x - d) /\ V(x + 1) = T((x - d) + 1) BY <4>1, <3>0, <2>8
      <4> QED BY <4>1, <4>2, <2>6
    <3> QED BY <3>1, <3>2, <3>3, <3>4, <3>5, <1>k
  <2>11. /\ Path(g.next, p, u, p) /\ Back(g.prev, p, u, p)
         /\ Path(g.next, q, v, q) /\ Back(g.prev, q, v, q)
    BY <2>9, <2>10, <1>u, <1>v DEF Path, Back, U, V
  <2>12. ForTwo(H, E, L, p, q, u, v)
    <3>1. \A r \in H \ {p, q} : (ToSet(s) \cup ToSet(t)) \cap ToSet(L[r]) = {}
      BY DEF Rings, Parted, s, t
    <3> QED BY <3>1, <1>6, <1>u, <1>v DEF ForTwo, Exclusive
  <2>13. Memory(g, Exchanged(D, ToSet(s) \cup ToSet(t), ToSet(u) \cup ToSet(v)))
    <3>1. ToSet(s) \subseteq D /\ ToSet(t) \subseteq D BY DEF D, Members, s, t
    <3>2. Exchanged(D, ToSet(s) \cup ToSet(t), ToSet(u) \cup ToSet(v)) = D
      BY <3>1, <1>6 DEF Exchanged
    <3> QED BY <3>2, <2>4
  <2>14. \A x \in D : x \in {p, q} \/ x \in ToSet(s) \cup ToSet(t)
                        \/ (g.next[x] = h.next[x] /\ g.prev[x] = h.prev[x])
    <3>1. \A x \in {i, j, i - 1, j - 1} : N(x) = p \/ N(x) \in ToSet(s)
      BY <2>0, <1>2
    <3>2. \A x \in {k, k - 1} : T(x) = q \/ T(x) \in ToSet(t) BY <2>0, <1>3
    <3> QED BY <3>1, <3>2, <2>5
  <2>15. Rings(H, E, g, Both(L, p, u, q, v))
    BY <2>11, <2>12, <2>13, <2>14, RingsTwo DEF D, s, t
  <2> QED BY <2>15 DEF g, u, v, s, t, N, T
<1> QED BY <1>9, <1>10, <1>k

-----------------------------------------------------------------------------
(* Replacements. *)

(* The four stores of replace, each over what the ones before it left. *)
LEMMA ReplaceStores ==
  ASSUME NEW f, NEW g, NEW from, NEW to
  PROVE  LET F1 == With(f, to, f[from])
             G1 == With(g, F1[from], to)
             G2 == With(G1, to, G1[from])
         IN  Replace([next |-> f, prev |-> g], from, to) = [next |-> With(F1, G2[from], to), prev |-> G2]
<1> DEFINE h == [next |-> f, prev |-> g]
           F1 == With(f, to, f[from])
           G1 == With(g, F1[from], to)
           G2 == With(G1, to, G1[from])
           h1 == SetNext(h, to, h.next[from])
           h2 == SetPrev(h1, h1.next[from], to)
           h3 == SetPrev(h2, to, h2.prev[from])
<1>1. Replace(h, from, to) = SetNext(h3, h3.prev[from], to) BY DEF Replace
<1>2. h1 = [next |-> F1, prev |-> g] BY SetNextIs
<1> HIDE DEF h1, F1
<1>3. h2 = [next |-> F1, prev |-> G1] BY <1>2, SetPrevIs
<1> HIDE DEF h2, G1
<1>4. h3 = [next |-> F1, prev |-> G2] BY <1>3, SetPrevIs
<1> HIDE DEF h3, G2
<1>5. SetNext(h3, h3.prev[from], to) = [next |-> With(F1, G2[from], to), prev |-> G2]
  BY <1>4, SetNextIs
<1> QED BY <1>1, <1>5 DEF F1, G1, G2

(* What they amount to when from is in a ring with others. *)
LEMMA ReplaceIs ==
  ASSUME NEW f, NEW g, NEW from, NEW to, from # to, from \in DOMAIN f, from \in DOMAIN g, f[from] # from
  PROVE  Replace([next |-> f, prev |-> g], from, to)
           = [next |-> With(With(f, to, f[from]), g[from], to),
              prev |-> With(With(g, f[from], to), to, g[from])]
<1> DEFINE F1 == With(f, to, f[from])
           G1 == With(g, F1[from], to)
           G2 == With(G1, to, G1[from])
<1>1. F1[from] = f[from] BY DEF With
<1>2. G1[from] = g[from] BY <1>1 DEF With
<1>3. DOMAIN G1 = DOMAIN g \cup {f[from]} BY <1>1 DEF With
<1> HIDE DEF G1
<1>4. G2[from] = g[from] BY <1>2, <1>3 DEF With
<1> QED
  <2>1. Replace([next |-> f, prev |-> g], from, to) = [next |-> With(F1, G2[from], to), prev |-> G2]
    BY ReplaceStores DEF G1
  <2>2. G2 = With(With(g, f[from], to), to, g[from]) BY <1>1, <1>2 DEF G1
  <2> QED BY <2>1, <2>2, <1>4

(* And when it is a ring of its own: the store to the next hook is one to *)
(* from itself, and what is read of it afterwards is to. *)
LEMMA ReplaceAlone ==
  ASSUME NEW f, NEW g, NEW from, NEW to, from # to, from \in DOMAIN f, from \in DOMAIN g, f[from] = from
  PROVE  Replace([next |-> f, prev |-> g], from, to)
           = [next |-> With(With(f, to, from), to, to),
              prev |-> With(With(g, from, to), to, to)]
<1> DEFINE F1 == With(f, to, f[from])
           G1 == With(g, F1[from], to)
           G2 == With(G1, to, G1[from])
<1>1. F1[from] = from BY DEF With
<1>2. G1[from] = to /\ from \in DOMAIN G1 BY <1>1 DEF With
<1> HIDE DEF G1
<1>4. G2[from] = to BY <1>2 DEF With
<1> QED
  <2>1. Replace([next |-> f, prev |-> g], from, to) = [next |-> With(F1, G2[from], to), prev |-> G2]
    BY ReplaceStores DEF G1
  <2>2. G2 = With(With(g, from, to), to, to) BY <1>1, <1>2 DEF G1
  <2> QED BY <2>1, <2>2, <1>4

LEMMA ReplaceAtIs ==
  ASSUME NEW E, NEW s \in Seq(E), NEW n \in E, NEW k \in DOMAIN s
  PROVE  /\ ReplaceAt(s, k, n) \in Seq(E) /\ Len(ReplaceAt(s, k, n)) = Len(s)
         /\ DOMAIN ReplaceAt(s, k, n) = 1 .. Len(s)
         /\ \A i \in 1 .. Len(s) : ReplaceAt(s, k, n)[i] = IF i = k THEN n ELSE s[i]
<1>1. Len(s) \in Nat /\ DOMAIN s = 1 .. Len(s) /\ s \in [1 .. Len(s) -> E]
  BY LenProperties
<1>2. ReplaceAt(s, k, n) = [i \in 1 .. Len(s) |-> IF i = k THEN n ELSE s[i]]
  BY <1>1 DEF ReplaceAt
<1> HIDE DEF ReplaceAt
<1>3. ReplaceAt(s, k, n) \in Seq(E) BY <1>1, <1>2
<1> QED BY <1>1, <1>2, <1>3

(* An element takes the place of another one. *)
LEMMA RingReplace ==
  ASSUME NEW H, NEW E, Apart(H, E), NEW h, NEW L, Rings(H, E, h, L), NEW p \in H,
         NEW k \in DOMAIN L[p], NEW n \in E, n \notin Members(H, L)
  PROVE  Rings(H, E, Forget(Replace(h, L[p][k], n), {L[p][k]}), [L EXCEPT ![p] = ReplaceAt(L[p], k, n)])
<1> DEFINE s == L[p]
           m == Len(s)
           o == s[k]
           N(i) == Stop(p, s, p, i)
           t == ReplaceAt(s, k, n)
           T(i) == Stop(p, t, p, i)
           D == Members(H, L)
           F == Minus(With(With(h.next, n, N(k + 1)), N(k - 1), n), {o})
           G == Minus(With(With(h.prev, N(k + 1), n), n, N(k - 1)), {o})
           g == Forget(Replace(h, o, n), {o})
<1>1. StopsOf(H, E, h, L, p) BY RingStops
<1>2. /\ s \in Seq(E) /\ m \in Nat /\ DOMAIN s = 1 .. m /\ k \in 1 .. m
      /\ \A i \in 0 .. m + 1 : N(i) \in D /\ N(i) # n /\ (N(i) = p \/ N(i) \in ToSet(s))
      /\ \A i, j \in 0 .. m : N(i) = N(j) => i = j
      /\ \A i, j \in 1 .. m + 1 : N(i) = N(j) => i = j
      /\ \A i \in 0 .. m : h.next[N(i)] = N(i + 1) /\ h.prev[N(i + 1)] = N(i)
      /\ N(0) = p /\ N(m + 1) = p /\ \A i \in 1 .. m : N(i) = s[i] /\ s[i] # p
  BY <1>1 DEF StopsOf
<1>3. /\ t \in Seq(E) /\ Len(t) = m /\ DOMAIN t = 1 .. m
      /\ \A i \in 1 .. m : t[i] = IF i = k THEN n ELSE s[i]
  <2>1. s \in Seq(E) /\ k \in DOMAIN s BY <1>2
  <2> HIDE DEF s
  <2> QED BY <2>1, ReplaceAtIs
<1>4. h = [next |-> h.next, prev |-> h.prev] /\ DOMAIN h.next = D /\ DOMAIN h.prev = D
  BY DEF Rings, Memory
<1>k. k \in Int /\ m \in Nat /\ 1 <= k /\ k <= m
  BY <1>2
<1> HIDE DEF t, D, s
<1>7. \A i \in 0 .. m + 1 : T(i) = IF i = k THEN n ELSE N(i)
  BY <1>k, <1>2, <1>3 DEF Stop
<1> HIDE DEF N, T, m, o
<1>8. /\ k - 1 \in 0 .. m /\ k \in 0 .. m /\ k \in 1 .. m + 1 /\ k + 1 \in 1 .. m + 1 /\ (k - 1) + 1 = k
      /\ k \in 1 .. m /\ k + 1 \in 0 .. m + 1 /\ k - 1 \in 0 .. m + 1 /\ k # k + 1 /\ k # k - 1
  BY <1>k
<1>9. o = N(k) /\ o \in D /\ h.next[o] = N(k + 1) /\ h.prev[o] = N(k - 1) /\ N(k + 1) # o /\ N(k - 1) # o /\ n # o
  <2>1. o = N(k) BY <1>2, <1>8 DEF o
  <2>2. o \in D /\ n # o BY <2>1, <1>2, <1>8
  <2>3. h.next[o] = N(k + 1) /\ h.prev[o] = N(k - 1) BY <2>1, <1>2, <1>8
  <2>4. N(k + 1) # o /\ N(k - 1) # o BY <2>1, <1>2, <1>8
  <2> QED BY <2>1, <2>2, <2>3, <2>4
<1>5. g = [next |-> F, prev |-> G]
  <2> HIDE DEF F, G
  <2> DEFINE F0 == With(With(h.next, n, N(k + 1)), N(k - 1), n)
             G0 == With(With(h.prev, N(k + 1), n), n, N(k - 1))
  <2>1. Replace([next |-> h.next, prev |-> h.prev], o, n)
          = [next |-> With(With(h.next, n, h.next[o]), h.prev[o], n),
             prev |-> With(With(h.prev, h.next[o], n), n, h.prev[o])]
    BY <1>4, <1>9, ReplaceIs
  <2>2. Replace(h, o, n) = [next |-> F0, prev |-> G0] BY <2>1, <1>4, <1>9
  <2> HIDE DEF F0, G0
  <2>3. g = [next |-> Minus(F0, {o}), prev |-> Minus(G0, {o})] BY <2>2, ForgetIs
  <2> QED BY <2>3 DEF F, G, F0, G0
<1>6. /\ IsMap(F) /\ DOMAIN F = (D \ {o}) \cup {n} /\ IsMap(G) /\ DOMAIN G = (D \ {o}) \cup {n}
      /\ \A x \in (D \ {o}) \cup {n} :
           /\ F[x] = IF x = N(k - 1) THEN n ELSE IF x = n THEN N(k + 1) ELSE h.next[x]
           /\ G[x] = IF x = n THEN N(k - 1) ELSE IF x = N(k + 1) THEN n ELSE h.prev[x]
  <2>1. N(k - 1) \in D /\ N(k + 1) \in D /\ N(k - 1) # n /\ N(k + 1) # n
    BY <1>2, <1>8
  <2> QED BY <2>1, <1>4, <1>9 DEF With, Minus, IsMap
<1> HIDE DEF F, G, g
<1>10. ASSUME NEW i \in 0 .. m PROVE F[T(i)] = T(i + 1) /\ G[T(i + 1)] = T(i)
  <2>0. i \in 0 .. m + 1 /\ i + 1 \in 0 .. m + 1 /\ i + 1 \in 1 .. m + 1 /\ i \in Int
    BY <1>k
  <2>1. CASE i = k - 1
    <3>1. T(i) = N(k - 1) /\ T(i + 1) = n BY <2>0, <2>1, <1>7, <1>8
    <3>2. N(k - 1) \in (D \ {o}) \cup {n} /\ N(k - 1) # n BY <1>2, <1>8, <1>9
    <3> QED BY <3>1, <3>2, <1>6
  <2>2. CASE i = k
    <3>1. T(i) = n /\ T(i + 1) = N(k + 1) BY <2>0, <2>2, <1>7, <1>8
    <3>2. N(k + 1) \in (D \ {o}) \cup {n} /\ N(k + 1) # n /\ N(k - 1) # n
      BY <1>2, <1>8, <1>9
    <3> QED BY <3>1, <3>2, <1>6
  <2>3. CASE i # k - 1 /\ i # k
    <3>0. i + 1 # k /\ i + 1 # k + 1 BY <2>0, <2>3, <1>k
    <3>1. T(i) = N(i) /\ T(i + 1) = N(i + 1) BY <2>0, <2>3, <3>0, <1>7
    <3>2. N(i) \in D /\ N(i) # n /\ N(i + 1) \in D /\ N(i + 1) # n BY <2>0, <1>2
    <3>3. N(i) # o /\ N(i) # N(k - 1) /\ N(i + 1) # o /\ N(i + 1) # N(k + 1)
      BY <2>0, <2>3, <3>0, <1>2, <1>8, <1>9
    <3>4. h.next[N(i)] = N(i + 1) /\ h.prev[N(i + 1)] = N(i) BY <1>2
    <3> QED BY <3>1, <3>2, <3>3, <3>4, <1>6
  <2> QED BY <2>1, <2>2, <2>3
<1>11. Path(F, p, t, p) /\ Back(G, p, t, p) BY <1>3, <1>10 DEF Path, Back, T
<1>12. ToSet(t) = (ToSet(s) \ {o}) \cup {n}
  <2>0. \A i, j \in 1 .. m : s[i] = s[j] => i = j
    <3>1. \A i \in 1 .. m : i \in 0 .. m BY <1>k
    <3> QED BY <3>1, <1>2
  <2>1. \A i \in 1 .. m : t[i] \in (ToSet(s) \ {o}) \cup {n}
    BY <2>0, <1>2, <1>3 DEF ToSet, o
  <2>2. \A i \in 1 .. m : s[i] # o => s[i] \in ToSet(t)
    BY <1>2, <1>3 DEF ToSet, o
  <2>3. n \in ToSet(t) BY <1>2, <1>3 DEF ToSet
  <2>4. ToSet(t) \subseteq (ToSet(s) \ {o}) \cup {n} BY <2>1, <1>3 DEF ToSet
  <2>5. (ToSet(s) \ {o}) \cup {n} \subseteq ToSet(t)
    BY <2>2, <2>3, <1>2 DEF ToSet
  <2> QED BY <2>4, <2>5
<1>13. n \notin ToSet(s) /\ ToSet(s) \subseteq D /\ n \notin D
  BY DEF D, Members, s
<1>14. ForOne(H, E, L, p, t)
  <2>1. Distinct(s) /\ \A q \in H \ {p} : ToSet(s) \cap ToSet(L[q]) = {} /\ n \notin ToSet(L[q])
    BY DEF Rings, Parted, Members, s
  <2>2. Distinct(t)
    <3>1. \A i \in 1 .. m : s[i] # n BY <1>2, <1>13 DEF ToSet
    <3> QED BY <2>1, <3>1, <1>2, <1>3 DEF Distinct
  <2>3. \A q \in H \ {p} : ToSet(t) \cap ToSet(L[q]) = {} BY <2>1, <1>12
  <2> QED BY <2>2, <2>3, <1>3 DEF ForOne
<1>15. Exchanged(D, ToSet(s), ToSet(t)) = (D \ {o}) \cup {n}
  <2>1. o \in ToSet(s) BY <1>2 DEF ToSet, o
  <2> QED BY <2>1, <1>12, <1>13 DEF Exchanged
<1>16. Memory(g, Exchanged(D, ToSet(s), ToSet(t)))
  BY <1>5, <1>6, <1>15 DEF Memory
<1>17. \A x \in D : x = p \/ x \in ToSet(s) \/ (g.next[x] = h.next[x] /\ g.prev[x] = h.prev[x])
  <2>1. o \in ToSet(s) BY <1>2 DEF ToSet, o
  <2>2. k - 1 \in 0 .. m + 1 /\ k + 1 \in 0 .. m + 1 BY <1>k
  <2> QED BY <2>1, <2>2, <1>2, <1>5, <1>6, <1>13
<1> QED
  <2>1. Path(g.next, p, t, p) /\ Back(g.prev, p, t, p) BY <1>5, <1>11
  <2>2. Rings(H, E, g, [L EXCEPT ![p] = t])
    BY <2>1, <1>14, <1>16, <1>17, RingsOne DEF D, s
  <2> QED BY <2>2 DEF g, t, s, o

(* replace of an empty head, and init_self of the one it replaces: all of *)
(* the ring has another head.  What the empty head's own links were does not*)
(* matter, they are written before they are read. *)
LEMMA RingMoveHead ==
  ASSUME NEW H, NEW E, Apart(H, E), NEW h0, NEW L, Rings(H, E, h0, L), NEW p \in H, NEW q \in H, p # q,
         L[q] = <<>>, NEW h, Memory(h, Members(H, L)),
         \A x \in Members(H, L) \ {q} : h.next[x] = h0.next[x] /\ h.prev[x] = h0.prev[x]
  PROVE  Rings(H, E, InitSelf(Replace(h, p, q), p), Both(L, p, <<>>, q, L[p]))
<1> DEFINE s == L[p]
           m == Len(s)
           N(x) == Stop(p, s, p, x)
           T(x) == Stop(q, s, q, x)
           D == Members(H, L)
           f == h.next
           r == h.prev
           g == InitSelf(Replace(h, p, q), p)
<1>1. StopsOf(H, E, h0, L, p) BY RingStops
<1>2. /\ s \in Seq(E) /\ m \in Nat /\ DOMAIN s = 1 .. m
      /\ \A i \in 0 .. m + 1 : N(i) \in D /\ N(i) # q /\ (N(i) = p \/ N(i) \in ToSet(s))
      /\ \A i, j \in 0 .. m : N(i) = N(j) => i = j
      /\ \A i, j \in 1 .. m + 1 : N(i) = N(j) => i = j
      /\ \A i \in 0 .. m : h0.next[N(i)] = N(i + 1) /\ h0.prev[N(i + 1)] = N(i)
      /\ N(0) = p /\ N(m + 1) = p /\ \A i \in 1 .. m : N(i) = s[i] /\ s[i] # p
  BY <1>1 DEF StopsOf
<1>3. p \in D /\ q \in D BY DEF Members
<1>4. /\ h = [next |-> f, prev |-> r] /\ DOMAIN f = D /\ DOMAIN r = D
      /\ \A x \in D \ {q} : f[x] = h0.next[x] /\ r[x] = h0.prev[x]
  BY DEF Memory
<1> HIDE DEF D, s
<1>5. \A i \in 0 .. m + 1 : T(i) = IF i \in 1 .. m THEN N(i) ELSE q
  BY <1>2 DEF Stop
<1> HIDE DEF m, N, T, f, r
<1>6. \A i \in 0 .. m : f[N(i)] = N(i + 1) /\ r[N(i + 1)] = N(i)
  <2> TAKE i \in 0 .. m
  <2>1. i \in 0 .. m + 1 /\ i + 1 \in 0 .. m + 1 BY <1>2
  <2> QED BY <2>1, <1>2, <1>4
<1>7. CASE m = 0
  <2>1. f[p] = p BY <1>2, <1>6, <1>7
  <2>2. Replace([next |-> f, prev |-> r], p, q)
           = [next |-> With(With(f, q, p), q, q), prev |-> With(With(r, p, q), q, q)]
    BY <2>1, <1>3, <1>4, ReplaceAlone
  <2> DEFINE F0 == With(With(f, q, p), q, q)
             G0 == With(With(r, p, q), q, q)
  <2> HIDE DEF F0, G0
  <2>3. g = [next |-> With(F0, p, p), prev |-> With(G0, p, p)]
    BY <2>2, <1>4, InitSelfIs DEF F0, G0
  <2> HIDE DEF g
  <2>4. /\ IsMap(g.next) /\ DOMAIN g.next = D /\ IsMap(g.prev) /\ DOMAIN g.prev = D
        /\ \A x \in D : /\ g.next[x] = IF x = p THEN p ELSE IF x = q THEN q ELSE f[x]
                        /\ g.prev[x] = IF x = p THEN p ELSE IF x = q THEN q ELSE r[x]
    BY <2>3, <1>3, <1>4 DEF F0, G0, With, IsMap
  <2>5. s = <<>> BY <1>2, <1>7, EmptySeq DEF m
  <2>6. \A x \in H : /\ Stop(x, <<>>, x, 0) = x /\ Stop(x, <<>>, x, 1) = x
    BY DEF Stop
  <2>7. /\ Path(g.next, p, <<>>, p) /\ Back(g.prev, p, <<>>, p)
        /\ Path(g.next, q, <<>>, q) /\ Back(g.prev, q, <<>>, q)
    BY <2>4, <2>6, <1>3 DEF Path, Back
  <2>8. ForTwo(H, E, L, p, q, <<>>, <<>>) /\ ToSet(<<>>) = {}
    BY DEF ForTwo, Distinct, ToSet
  <2>9. Memory(g, Exchanged(D, ToSet(L[p]) \cup ToSet(L[q]), ToSet(<<>>) \cup ToSet(<<>>)))
    <3>1. Exchanged(D, ToSet(L[p]) \cup ToSet(L[q]), ToSet(<<>>) \cup ToSet(<<>>)) = D
      BY <2>5, <2>8 DEF s, Exchanged
    <3> QED BY <3>1, <2>3, <2>4 DEF Memory
  <2>10. \A x \in D : x \in {p, q} \/ x \in ToSet(L[p]) \cup ToSet(L[q])
                        \/ (g.next[x] = h0.next[x] /\ g.prev[x] = h0.prev[x])
    BY <2>4, <1>4
  <2>11. Rings(H, E, g, Both(L, p, <<>>, q, <<>>))
    BY <2>7, <2>8, <2>9, <2>10, RingsTwo DEF D
  <2> QED BY <2>5, <2>11 DEF g, s
<1>8. CASE m # 0
  <2>0. m >= 1 /\ 1 \in 1 .. m + 1 /\ m \in 0 .. m /\ m \in 0 .. m + 1 /\ 0 \in 0 .. m /\ m \in Nat
        /\ m + 1 \in 1 .. m + 1 /\ 1 \in 0 .. m + 1 /\ m # 0 /\ m + 1 # 1
    BY <1>2, <1>8
  <2>1. f[p] = N(1) /\ r[p] = N(m) /\ N(1) # p /\ N(m) # p /\ N(1) # q /\ N(m) # q /\ N(1) \in D /\ N(m) \in D
    <3>1. f[N(0)] = N(0 + 1) /\ r[N(m + 1)] = N(m) /\ N(0) = p /\ N(m + 1) = p
      BY <2>0, <1>2, <1>6
    <3>2. N(1) # N(m + 1) /\ N(m) # N(0) BY <2>0, <1>2
    <3>3. N(1) # q /\ N(m) # q /\ N(1) \in D /\ N(m) \in D BY <2>0, <1>2
    <3> QED BY <3>1, <3>2, <3>3
  <2>2. Replace([next |-> f, prev |-> r], p, q)
           = [next |-> With(With(f, q, f[p]), r[p], q), prev |-> With(With(r, f[p], q), q, r[p])]
    BY <2>1, <1>3, <1>4, ReplaceIs
  <2> DEFINE F0 == With(With(f, q, N(1)), N(m), q)
             G0 == With(With(r, N(1), q), q, N(m))
  <2> HIDE DEF F0, G0
  <2>3. Replace(h, p, q) = [next |-> F0, prev |-> G0]
    BY <2>1, <2>2, <1>4 DEF F0, G0
  <2>4. g = [next |-> With(F0, p, p), prev |-> With(G0, p, p)]
    BY <2>3, InitSelfIs
  <2> HIDE DEF g
  <2>5. /\ IsMap(g.next) /\ DOMAIN g.next = D /\ IsMap(g.prev) /\ DOMAIN g.prev = D
        /\ \A x \in D :
             /\ g.next[x] = IF x = p THEN p ELSE IF x = N(m) THEN q ELSE IF x = q THEN N(1) ELSE f[x]
             /\ g.prev[x] = IF x = p THEN p ELSE IF x = q THEN N(m) ELSE IF x = N(1) THEN q ELSE r[x]
    BY <2>1, <2>4, <1>3, <1>4 DEF F0, G0, With, IsMap
  <2>6. ASSUME NEW i \in 0 .. m PROVE g.next[T(i)] = T(i + 1) /\ g.prev[T(i + 1)] = T(i)
    <3>0. i \in 0 .. m + 1 /\ i + 1 \in 0 .. m + 1 /\ i \in Int BY <2>0
    <3>1. g.next[T(i)] = T(i + 1)
      <4>1. CASE i = 0
        <5>1. T(0) = q /\ T(1) = N(1) BY <2>0, <1>5
        <5>2. T(i) = q /\ T(i + 1) = N(1) BY <5>1, <4>1
        <5> QED BY <5>2, <2>1, <2>5, <1>3
      <4>2. CASE i = m
        <5>1. T(i) = N(m) /\ T(i + 1) = q BY <4>2, <2>0, <3>0, <1>5
        <5> QED BY <5>1, <2>1, <2>5
      <4>3. CASE i # 0 /\ i # m
        <5>1. i \in 1 .. m /\ i + 1 \in 1 .. m BY <4>3, <2>0
        <5>2. T(i) = N(i) /\ T(i + 1) = N(i + 1) /\ N(i) \in D /\ N(i) # q /\ N(i) # p /\ N(i) # N(m)
          BY <5>1, <4>3, <2>0, <3>0, <1>2, <1>5
        <5> QED BY <5>2, <2>5, <1>6
      <4> QED BY <4>1, <4>2, <4>3
    <3>2. g.prev[T(i + 1)] = T(i)
      <4>1. CASE i = m
        <5>1. T(i) = N(m) /\ T(i + 1) = q BY <4>1, <2>0, <3>0, <1>5
        <5> QED BY <5>1, <2>1, <2>5, <1>3
      <4>2. CASE i = 0
        <5>1. T(0) = q /\ T(1) = N(1) BY <2>0, <1>5
        <5>2. T(i) = q /\ T(i + 1) = N(1) BY <5>1, <4>2
        <5> QED BY <5>2, <2>1, <2>5, <1>3
      <4>3. CASE i # 0 /\ i # m
        <5>1. i \in 1 .. m /\ i + 1 \in 1 .. m /\ i + 1 # 1 /\ i + 1 \in 1 .. m + 1
          BY <4>3, <2>0
        <5>2. T(i) = N(i) /\ T(i + 1) = N(i + 1) BY <5>1, <3>0, <1>5
        <5>3. N(i + 1) \in D /\ N(i + 1) # q BY <3>0, <1>2
        <5>4. N(i + 1) # p /\ N(i + 1) # N(1) BY <5>1, <2>0, <1>2
        <5> QED BY <5>2, <5>3, <5>4, <2>5, <1>6
      <4> QED BY <4>1, <4>2, <4>3
    <3> QED BY <3>1, <3>2
  <2>7. Path(g.next, q, s, q) /\ Back(g.prev, q, s, q)
    BY <2>6 DEF Path, Back, T, m
  <2>8. Path(g.next, p, <<>>, p) /\ Back(g.prev, p, <<>>, p)
    <3>1. Stop(p, <<>>, p, 0) = p /\ Stop(p, <<>>, p, 1) = p BY DEF Stop
    <3> QED BY <3>1, <2>5, <1>3 DEF Path, Back
  <2>9. ToSet(<<>>) = {} /\ ToSet(L[q]) = {} BY DEF ToSet
  <2>10. ForTwo(H, E, L, p, q, <<>>, s)
    <3>1. Distinct(s) /\ \A x \in H \ {p, q} : ToSet(s) \cap ToSet(L[x]) = {}
      BY DEF Rings, Parted, s
    <3>2. Distinct(<<>>) BY DEF Distinct
    <3> QED BY <3>1, <3>2, <2>9, <1>2 DEF ForTwo
  <2>11. Memory(g, Exchanged(D, ToSet(L[p]) \cup ToSet(L[q]), ToSet(<<>>) \cup ToSet(s)))
    <3>1. ToSet(s) \subseteq D BY DEF D, Members, s
    <3>2. Exchanged(D, ToSet(L[p]) \cup ToSet(L[q]), ToSet(<<>>) \cup ToSet(s)) = D
      BY <3>1, <2>9 DEF Exchanged, s
    <3>3. Memory(g, D) BY <2>4, <2>5 DEF Memory
    <3> QED BY <3>2, <3>3
  <2>12. \A x \in D : x \in {p, q} \/ x \in ToSet(L[p]) \cup ToSet(L[q])
                        \/ (g.next[x] = h0.next[x] /\ g.prev[x] = h0.prev[x])
    <3>1. (N(1) = p \/ N(1) \in ToSet(L[p])) /\ (N(m) = p \/ N(m) \in ToSet(L[p]))
      BY <2>0, <1>2 DEF s
    <3> QED BY <3>1, <2>5, <1>4
  <2>13. Rings(H, E, g, Both(L, p, <<>>, q, s))
    BY <2>7, <2>8, <2>10, <2>11, <2>12, RingsTwo DEF D
  <2> QED BY <2>13 DEF g, s
<1> QED BY <1>7, <1>8

(* clear_and_dispose. *)
LEMMA RingClear ==
  ASSUME NEW H, NEW E, Apart(H, E), NEW h, NEW L, Rings(H, E, h, L), NEW p \in H
  PROVE  Rings(H, E, Forget(InitSelf(h, p), ToSet(L[p])), [L EXCEPT ![p] = <<>>])
<1> DEFINE s == L[p]
           D == Members(H, L)
           F0 == With(h.next, p, p)
           G0 == With(h.prev, p, p)
           g == Forget(InitSelf(h, p), ToSet(s))
<1>1. h = [next |-> h.next, prev |-> h.prev] /\ DOMAIN h.next = D /\ DOMAIN h.prev = D /\ p \in D
  BY DEF Rings, Memory, Members
<1>2. p \notin ToSet(s) /\ ToSet(s) \subseteq D
  <2>1. ToSet(s) \subseteq E BY DEF Rings, Parted, ToSet
  <2> QED BY <2>1 DEF Apart, Members
<1>3. g = [next |-> Minus(F0, ToSet(s)), prev |-> Minus(G0, ToSet(s))]
  <2>1. InitSelf(h, p) = [next |-> F0, prev |-> G0]
    BY <1>1, InitSelfIs, ZenonT(60)
  <2> HIDE DEF F0, G0
  <2> QED BY <2>1, ForgetIs
<1> HIDE DEF g, s, D
<1>4. /\ IsMap(g.next) /\ DOMAIN g.next = D \ ToSet(s) /\ IsMap(g.prev) /\ DOMAIN g.prev = D \ ToSet(s)
      /\ \A x \in D \ ToSet(s) : /\ g.next[x] = IF x = p THEN p ELSE h.next[x]
                                 /\ g.prev[x] = IF x = p THEN p ELSE h.prev[x]
  BY <1>1, <1>3 DEF With, Minus, IsMap
<1>5. Path(g.next, p, <<>>, p) /\ Back(g.prev, p, <<>>, p)
  <2>1. Stop(p, <<>>, p, 0) = p /\ Stop(p, <<>>, p, 1) = p BY DEF Stop
  <2> QED BY <2>1, <1>1, <1>2, <1>4 DEF Path, Back
<1>6. ForOne(H, E, L, p, <<>>) /\ ToSet(<<>>) = {}
  BY DEF ForOne, Distinct, ToSet
<1>7. Memory(g, Exchanged(D, ToSet(s), ToSet(<<>>)))
  <2>1. Exchanged(D, ToSet(s), ToSet(<<>>)) = D \ ToSet(s) BY <1>6 DEF Exchanged
  <2> QED BY <2>1, <1>3, <1>4 DEF Memory
<1>8. \A x \in D : x = p \/ x \in ToSet(s) \/ (g.next[x] = h.next[x] /\ g.prev[x] = h.prev[x])
  BY <1>4
<1> QED
  <2>1. Rings(H, E, g, [L EXCEPT ![p] = <<>>])
    BY <1>5, <1>6, <1>7, <1>8, RingsOne DEF D, s
  <2> QED BY <2>1 DEF g, s

-----------------------------------------------------------------------------
(* swap_with. *)

LEMMA WithSame ==
  ASSUME NEW f, IsMap(f), NEW a \in DOMAIN f
  PROVE  With(f, a, f[a]) = f
  BY DEF With, IsMap

(* replace of a hook by itself changes nothing. *)
LEMMA ReplaceSame ==
  ASSUME NEW D, NEW f, NEW g, IsMap(f), IsMap(g), DOMAIN f = D, DOMAIN g = D, NEW a \in D,
         f[a] \in D, g[a] \in D, f[g[a]] = a, g[f[a]] = a
  PROVE  Replace([next |-> f, prev |-> g], a, a) = [next |-> f, prev |-> g]
<1>1. With(f, a, f[a]) = f /\ With(g, f[a], a) = g /\ With(g, a, g[a]) = g /\ With(f, g[a], a) = f
  BY DEF With, IsMap
<1> DEFINE F1 == With(f, a, f[a])
           G1 == With(g, F1[a], a)
           G2 == With(G1, a, G1[a])
<1>2. F1 = f /\ G1 = g /\ G2 = g BY <1>1
<1> HIDE DEF F1
<1>3. Replace([next |-> f, prev |-> g], a, a) = [next |-> With(F1, G2[a], a), prev |-> G2]
  BY ReplaceStores DEF F1
<1> HIDE DEF G1, G2
<1> QED BY <1>1, <1>2, <1>3

(* Two rings of one element or more: the stores of swap_with. *)
LEMMA SwapStores ==
  ASSUME NEW D, NEW f, NEW g, IsMap(f), IsMap(g), DOMAIN f = D, DOMAIN g = D,
         NEW a \in D, NEW b \in D, NEW t, t \notin D, a # b,
         f[a] \in D \ {a, b}, g[a] \in D \ {a, b}, f[b] \in D \ {a, b}, g[b] \in D \ {a, b},
         g[a] # g[b], f[a] # f[b], NEW h, h = [next |-> f, prev |-> g]
  PROVE  /\ Memory(SwapRings(h, a, b, t), D)
         /\ \A x \in D :
              /\ SwapRings(h, a, b, t).next[x]
                   = IF x = g[a] THEN b ELSE IF x = b THEN f[a] ELSE IF x = g[b] THEN a
                     ELSE IF x = a THEN f[b] ELSE f[x]
              /\ SwapRings(h, a, b, t).prev[x]
                   = IF x = f[a] THEN b ELSE IF x = b THEN g[a] ELSE IF x = f[b] THEN a
                     ELSE IF x = a THEN g[b] ELSE g[x]
<1> DEFINE F1 == With(f, t, f[a])
           G1 == With(g, t, g[a])
           F2 == With(With(F1, a, f[b]), g[b], a)
           G2 == With(With(G1, f[b], a), a, g[b])
           F3 == With(With(F2, b, f[a]), g[a], b)
           G3 == With(With(G2, f[a], b), b, g[a])
           copied == SetPrev(SetNext(h, t, h.next[a]), t, h.prev[a])
           w == SwapRings(h, a, b, t)
<1>1. copied = [next |-> F1, prev |-> G1]
  <2>1. SetNext(h, t, h.next[a]) = [next |-> F1, prev |-> g] BY SetNextIs
  <2> HIDE DEF F1
  <2>2. SetPrev([next |-> F1, prev |-> g], t, g[a]) = [next |-> F1, prev |-> G1]
    BY SetPrevIs
  <2> QED BY <2>1, <2>2
<1>2. F1[b] = f[b] /\ G1[b] = g[b] /\ b \in DOMAIN F1 /\ b \in DOMAIN G1 /\ f[b] # b
  BY DEF With
<1>3. Replace([next |-> F1, prev |-> G1], b, a)
        = [next |-> With(With(F1, a, F1[b]), G1[b], a), prev |-> With(With(G1, F1[b], a), a, G1[b])]
  <2> HIDE DEF F1, G1
  <2> QED BY <1>2, ReplaceIs
<1>4. Replace([next |-> F1, prev |-> G1], b, a) = [next |-> F2, prev |-> G2]
  BY <1>2, <1>3
<1>5. F2[t] = f[a] /\ G2[t] = g[a] /\ t \in DOMAIN F2 /\ t \in DOMAIN G2 /\ f[a] # t /\ t # b
  BY DEF With
<1>6. Replace([next |-> F2, prev |-> G2], t, b) = [next |-> F3, prev |-> G3]
  <2> HIDE DEF F2, G2
  <2>1. Replace([next |-> F2, prev |-> G2], t, b)
        = [next |-> With(With(F2, b, F2[t]), G2[t], b), prev |-> With(With(G2, F2[t], b), b, G2[t])]
    BY <1>5, ReplaceIs
  <2> QED BY <2>1, <1>5
<1>7. w = [next |-> Minus(F3, {t}), prev |-> Minus(G3, {t})]
  <2>1. w = Forget(Replace(Replace(copied, b, a), t, b), {t}) BY DEF SwapRings
  <2> HIDE DEF w, copied, F1, G1, F2, G2, F3, G3
  <2> QED BY <2>1, <1>1, <1>4, <1>6, ForgetIs
<1>8. /\ DOMAIN F2 = D \cup {t} /\ DOMAIN G2 = D \cup {t}
      /\ \A x \in D : /\ F2[x] = IF x = g[b] THEN a ELSE IF x = a THEN f[b] ELSE f[x]
                      /\ G2[x] = IF x = a THEN g[b] ELSE IF x = f[b] THEN a ELSE g[x]
  BY DEF With
<1>9. /\ IsMap(Minus(F3, {t})) /\ DOMAIN Minus(F3, {t}) = D /\ IsMap(Minus(G3, {t})) /\ DOMAIN Minus(G3, {t}) = D
      /\ \A x \in D : /\ Minus(F3, {t})[x] = IF x = g[a] THEN b ELSE IF x = b THEN f[a] ELSE F2[x]
                      /\ Minus(G3, {t})[x] = IF x = b THEN g[a] ELSE IF x = f[a] THEN b ELSE G2[x]
  <2> HIDE DEF F2, G2
  <2> QED BY <1>8 DEF With, Minus, IsMap
<1> HIDE DEF F2, G2, F3, G3, w
<1>10. /\ Memory(w, D)
       /\ \A x \in D :
              /\ w.next[x] = IF x = g[a] THEN b ELSE IF x = b THEN f[a] ELSE IF x = g[b] THEN a
                             ELSE IF x = a THEN f[b] ELSE f[x]
              /\ w.prev[x] = IF x = f[a] THEN b ELSE IF x = b THEN g[a] ELSE IF x = f[b] THEN a
                             ELSE IF x = a THEN g[b] ELSE g[x]
  BY <1>7, <1>8, <1>9 DEF Memory
<1> QED BY <1>10 DEF w

(* One of the two rings after the swap: the head b has the elements s of a. *)
LEMMA SwappedRing ==
  ASSUME NEW H, NEW E, Apart(H, E), NEW h, NEW L, Rings(H, E, h, L), NEW a \in H, NEW b \in H, a # b,
         L[a] # <<>>, NEW F, NEW G,
         \A x \in Members(H, L) : x \in ToSet(L[a]) =>
           /\ F[x] = IF x = h.prev[a] THEN b ELSE h.next[x]
           /\ G[x] = IF x = h.next[a] THEN b ELSE h.prev[x],
         F[b] = h.next[a], G[b] = h.prev[a]
  PROVE  Path(F, b, L[a], b) /\ Back(G, b, L[a], b)
<1> DEFINE s == L[a]
           m == Len(s)
           N(x) == Stop(a, s, a, x)
           T(x) == Stop(b, s, b, x)
           D == Members(H, L)
<1>1. StopsOf(H, E, h, L, a) BY RingStops
<1>2. /\ s \in Seq(E) /\ m \in Nat /\ DOMAIN s = 1 .. m
      /\ \A i \in 0 .. m + 1 : N(i) \in D /\ (N(i) = a \/ N(i) \in ToSet(s))
      /\ \A i, j \in 0 .. m : N(i) = N(j) => i = j
      /\ \A i, j \in 1 .. m + 1 : N(i) = N(j) => i = j
      /\ \A i \in 0 .. m : h.next[N(i)] = N(i + 1) /\ h.prev[N(i + 1)] = N(i)
      /\ N(0) = a /\ N(m + 1) = a /\ \A i \in 1 .. m : N(i) = s[i] /\ s[i] # a
  BY <1>1 DEF StopsOf
<1>3. m # 0 BY <1>2, EmptySeq
<1> HIDE DEF D, s
<1>4. \A i \in 0 .. m + 1 : T(i) = IF i \in 1 .. m THEN N(i) ELSE b
  BY <1>2 DEF Stop
<1> HIDE DEF m, N, T
<1>5. m >= 1 /\ 1 \in 1 .. m + 1 /\ m \in 0 .. m /\ 0 \in 0 .. m /\ m \in 1 .. m /\ 1 \in 1 .. m /\ m + 1 \in 1 .. m + 1
      /\ m \in Nat /\ m \in 0 .. m + 1 /\ 1 \in 0 .. m + 1 /\ 0 + 1 = 1
  BY <1>2, <1>3
<1>6. h.next[a] = N(1) /\ h.prev[a] = N(m)
  <2>1. h.next[N(0)] = N(0 + 1) /\ h.prev[N(m + 1)] = N(m) /\ N(0) = a /\ N(m + 1) = a
    BY <1>2, <1>5
  <2> QED BY <2>1
<1>7. ASSUME NEW i \in 1 .. m
      PROVE  /\ F[N(i)] = IF i = m THEN b ELSE N(i + 1)
             /\ G[N(i)] = IF i = 1 THEN b ELSE N(i - 1)
  <2>1. i \in 0 .. m + 1 /\ i \in 0 .. m /\ i \in 1 .. m + 1 /\ i - 1 \in 0 .. m /\ (i - 1) + 1 = i
    BY <1>5
  <2>2. N(i) \in D /\ N(i) \in ToSet(s) BY <2>1, <1>2
  <2>3. (N(i) = N(m) <=> i = m) /\ (N(i) = N(1) <=> i = 1) BY <2>1, <1>2, <1>5
  <2>4. h.next[N(i)] = N(i + 1) /\ h.prev[N(i)] = N(i - 1) BY <2>1, <1>2
  <2> QED BY <2>2, <2>3, <2>4, <1>6 DEF D, s
<1>8. ASSUME NEW i \in 0 .. m PROVE F[T(i)] = T(i + 1) /\ G[T(i + 1)] = T(i)
  <2>0. i \in 0 .. m + 1 /\ i + 1 \in 0 .. m + 1 /\ i \in Int BY <1>5
  <2>1. F[T(i)] = T(i + 1)
    <3>1. CASE i = 0
      <4>1. T(i) = b /\ T(i + 1) = N(1) BY <3>1, <2>0, <1>4, <1>5
      <4> QED BY <4>1, <1>6
    <3>2. CASE i # 0
      <4>1. i \in 1 .. m /\ T(i) = N(i) /\ T(i + 1) = IF i = m THEN b ELSE N(i + 1)
        BY <3>2, <2>0, <1>4, <1>5
      <4> QED BY <4>1, <1>7
    <3> QED BY <3>1, <3>2
  <2>2. G[T(i + 1)] = T(i)
    <3>1. CASE i = m
      <4>1. T(i + 1) = b /\ T(i) = N(m) BY <3>1, <2>0, <1>4, <1>5
      <4> QED BY <4>1, <1>6
    <3>2. CASE i # m
      <4>1. i + 1 \in 1 .. m /\ (i + 1) - 1 = i /\ (i + 1 = 1 <=> i = 0)
        BY <3>2, <2>0, <1>5
      <4>2. T(i + 1) = N(i + 1) /\ T(i) = IF i = 0 THEN b ELSE N(i)
        BY <4>1, <2>0, <1>4, <1>5
      <4>3. G[N(i + 1)] = IF i = 0 THEN b ELSE N(i) BY <4>1, <1>7
      <4> QED BY <4>2, <4>3
    <3> QED BY <3>1, <3>2
  <2> QED BY <2>1, <2>2
<1> QED BY <1>8 DEF Path, Back, T, m, s

(* swap_with of two heads that are not empty: each has the ring of the other*)
(* one. *)
LEMMA RingSwap ==
  ASSUME NEW H, NEW E, Apart(H, E), NEW h, NEW L, Rings(H, E, h, L), NEW a \in H, NEW b \in H,
         L[a] # <<>>, L[b] # <<>>, NEW t, t \notin Members(H, L)
  PROVE  Rings(H, E, SwapRings(h, a, b, t), Both(L, b, L[a], a, L[b]))
<1> DEFINE D == Members(H, L)
           w == SwapRings(h, a, b, t)
           f == h.next
           g == h.prev
<1>1. Memory(h, D) /\ h = [next |-> f, prev |-> g] /\ IsMap(f) /\ IsMap(g) /\ DOMAIN f = D /\ DOMAIN g = D
  BY DEF Rings, Memory
<1>2. a \in D /\ b \in D BY DEF Members
<1>3. ASSUME NEW p \in H, L[p] # <<>>
      PROVE  /\ f[p] \in ToSet(L[p]) /\ g[p] \in ToSet(L[p]) /\ f[p] \in D /\ g[p] \in D
             /\ f[g[p]] = p /\ g[f[p]] = p /\ ToSet(L[p]) \cap H = {}
  <2>1. StopsOf(H, E, h, L, p) BY RingStops
  <2> DEFINE s == L[p]
             m == Len(s)
             N(x) == Stop(p, s, p, x)
  <2>2. /\ s \in Seq(E) /\ m \in Nat /\ DOMAIN s = 1 .. m
        /\ \A i \in 0 .. m + 1 : N(i) \in D /\ (N(i) = p \/ N(i) \in ToSet(s))
        /\ \A i, j \in 0 .. m : N(i) = N(j) => i = j
        /\ \A i, j \in 1 .. m + 1 : N(i) = N(j) => i = j
        /\ \A i \in 0 .. m : h.next[N(i)] = N(i + 1) /\ h.prev[N(i + 1)] = N(i)
        /\ N(0) = p /\ N(m + 1) = p
        /\ \A i \in 1 .. m : N(i) = s[i] /\ s[i] # p /\ s[i] \notin H
    BY <2>1 DEF StopsOf
  <2>3. m # 0 BY <2>2, <1>3, EmptySeq
  <2> HIDE DEF m, N, D
  <2>4. m >= 1 /\ 1 \in 1 .. m + 1 /\ m \in 0 .. m /\ 0 \in 0 .. m /\ m \in 1 .. m /\ 1 \in 1 .. m
        /\ m + 1 \in 1 .. m + 1 /\ m \in 0 .. m + 1 /\ 1 \in 0 .. m + 1 /\ 0 + 1 = 1
    BY <2>2, <2>3
  <2>5. f[N(0)] = N(0 + 1) /\ g[N(m + 1)] = N(m) /\ f[N(m)] = N(m + 1) /\ g[N(0 + 1)] = N(0)
    BY <2>2, <2>4
  <2>6. f[p] = N(1) /\ g[p] = N(m) /\ f[N(m)] = p /\ g[N(1)] = p
    BY <2>2, <2>4, <2>5
  <2>7. N(1) # p /\ N(m) # p BY <2>2, <2>4
  <2>8. ToSet(s) \cap H = {} BY <2>2 DEF ToSet
  <2>9. N(1) \in D /\ N(m) \in D /\ N(1) \in ToSet(s) /\ N(m) \in ToSet(s)
    BY <2>2, <2>4, <2>7
  <2> QED BY <2>6, <2>8, <2>9
<1>4. CASE a = b
  <2>0. Both(L, b, L[a], a, L[b]) = L BY <1>4 DEF Both, Rings, Parted
  <2> DEFINE F1 == With(f, t, f[a])
             G1 == With(g, t, g[a])
             copied == SetPrev(SetNext(h, t, h.next[a]), t, h.prev[a])
  <2>1. copied = [next |-> F1, prev |-> G1]
    <3>1. SetNext([next |-> f, prev |-> g], t, f[a]) = [next |-> F1, prev |-> g]
      BY SetNextIs
    <3> HIDE DEF F1
    <3>2. SetPrev([next |-> F1, prev |-> g], t, g[a]) = [next |-> F1, prev |-> G1]
      BY SetPrevIs
    <3> HIDE DEF G1
    <3> QED BY <3>1, <3>2, <1>1
  <2> DEFINE D1 == D \cup {t}
  <2>2. /\ IsMap(F1) /\ IsMap(G1) /\ DOMAIN F1 = D1 /\ DOMAIN G1 = D1 /\ a \in D1 /\ t \in D1 /\ t # a
        /\ F1[t] = f[a] /\ G1[t] = g[a] /\ \A x \in D : F1[x] = f[x] /\ G1[x] = g[x]
    <3> HIDE DEF D, f, g
    <3> QED BY <1>1, <1>2 DEF With, IsMap, D
  <2>3. f[a] \in D /\ g[a] \in D /\ f[g[a]] = a /\ g[f[a]] = a /\ f[a] # t
    BY <1>3
  <2> HIDE DEF F1, G1, copied, D1, f, g, D
  <2>4. F1[a] \in D1 /\ G1[a] \in D1 /\ F1[G1[a]] = a /\ G1[F1[a]] = a
    BY <2>2, <2>3, <1>2 DEF D1
  <2>5. Replace(copied, a, a) = copied BY <2>1, <2>2, <2>4, ReplaceSame
  <2>6. Replace([next |-> F1, prev |-> G1], t, a)
           = [next |-> With(With(F1, a, F1[t]), G1[t], a), prev |-> With(With(G1, F1[t], a), a, G1[t])]
    BY <2>2, <2>3, ReplaceIs
  <2>7. /\ With(F1, a, f[a]) = F1 /\ With(F1, g[a], a) = F1
        /\ With(G1, f[a], a) = G1 /\ With(G1, a, g[a]) = G1
    <3>1. g[a] \in D1 /\ f[a] \in D1 /\ F1[a] = f[a] /\ F1[g[a]] = a /\ G1[f[a]] = a /\ G1[a] = g[a]
      BY <2>2, <2>3, <1>2 DEF D1
    <3>2. With(F1, a, F1[a]) = F1 /\ With(F1, g[a], F1[g[a]]) = F1
      BY <3>1, <2>2, WithSame
    <3>3. With(G1, f[a], G1[f[a]]) = G1 /\ With(G1, a, G1[a]) = G1
      BY <3>1, <2>2, WithSame
    <3> QED BY <3>1, <3>2, <3>3
  <2>8. Replace(copied, t, a) = copied BY <2>1, <2>2, <2>6, <2>7
  <2>9. w = Forget(copied, {t}) BY <2>5, <2>8, <1>4 DEF SwapRings, copied
  <2>10. Minus(F1, {t}) = f /\ Minus(G1, {t}) = g
    <3>1. D1 \ {t} = D BY DEF D1, D
    <3> QED BY <3>1, <2>2, <1>1 DEF Minus, IsMap
  <2>11. w = h BY <2>1, <2>9, <2>10, <1>1, ForgetIs
  <2> HIDE DEF w
  <2> QED BY <2>0, <2>11 DEF w
<1>5. CASE a # b
  <2>1. ToSet(L[a]) \cap ToSet(L[b]) = {} BY <1>5 DEF Rings, Parted
  <2>2. /\ f[a] \in D \ {a, b} /\ g[a] \in D \ {a, b} /\ f[b] \in D \ {a, b} /\ g[b] \in D \ {a, b}
        /\ g[a] # g[b] /\ f[a] # f[b]
    BY <2>1, <1>3
  <2> HIDE DEF D, f, g
  <2>3. /\ Memory(w, D)
        /\ \A x \in D :
              /\ w.next[x] = IF x = g[a] THEN b ELSE IF x = b THEN f[a] ELSE IF x = g[b] THEN a
                             ELSE IF x = a THEN f[b] ELSE f[x]
              /\ w.prev[x] = IF x = f[a] THEN b ELSE IF x = b THEN g[a] ELSE IF x = f[b] THEN a
                             ELSE IF x = a THEN g[b] ELSE g[x]
    BY <2>2, <1>1, <1>2, <1>5, SwapStores, SMTT(60) DEF D
  <2> HIDE DEF w
  <2>4. ToSet(L[a]) \cap H = {} /\ ToSet(L[b]) \cap H = {} BY <1>3
  <2>5. g[a] \in ToSet(L[a]) /\ f[a] \in ToSet(L[a]) /\ g[b] \in ToSet(L[b]) /\ f[b] \in ToSet(L[b])
    BY <1>3
  <2>6. Path(w.next, b, L[a], b) /\ Back(w.prev, b, L[a], b)
    <3>1. \A x \in Members(H, L) : x \in ToSet(L[a]) =>
           /\ w.next[x] = IF x = h.prev[a] THEN b ELSE h.next[x]
           /\ w.prev[x] = IF x = h.next[a] THEN b ELSE h.prev[x]
      BY <2>1, <2>3, <2>4, <2>5 DEF D, f, g
    <3>2. w.next[b] = h.next[a] /\ w.prev[b] = h.prev[a]
      BY <2>2, <2>3, <1>2, <1>5 DEF f, g
    <3> QED BY <3>1, <3>2, <1>5, SwappedRing
  <2>7. Path(w.next, a, L[b], a) /\ Back(w.prev, a, L[b], a)
    <3>1. \A x \in Members(H, L) : x \in ToSet(L[b]) =>
           /\ w.next[x] = IF x = h.prev[b] THEN a ELSE h.next[x]
           /\ w.prev[x] = IF x = h.next[b] THEN a ELSE h.prev[x]
      BY <2>1, <2>3, <2>4, <2>5 DEF D, f, g
    <3>2. w.next[a] = h.next[b] /\ w.prev[a] = h.prev[b]
      BY <2>2, <2>3, <1>2, <1>5 DEF f, g
    <3> QED BY <3>1, <3>2, <1>5, SwappedRing
  <2>8. ForTwo(H, E, L, b, a, L[a], L[b])
    <3>1. L[a] \in Seq(E) /\ L[b] \in Seq(E) /\ Distinct(L[a]) /\ Distinct(L[b])
      BY DEF Rings, Parted
    <3>2. \A r \in H \ {a, b} : (ToSet(L[a]) \cup ToSet(L[b])) \cap ToSet(L[r]) = {}
      BY DEF Rings, Parted
    <3> QED BY <3>1, <3>2, <2>1 DEF ForTwo
  <2>9. Memory(w, Exchanged(D, ToSet(L[b]) \cup ToSet(L[a]), ToSet(L[a]) \cup ToSet(L[b])))
    <3>1. ToSet(L[a]) \subseteq D /\ ToSet(L[b]) \subseteq D BY DEF D, Members
    <3>2. Exchanged(D, ToSet(L[b]) \cup ToSet(L[a]), ToSet(L[a]) \cup ToSet(L[b])) = D
      BY <3>1 DEF Exchanged
    <3> QED BY <3>2, <2>3
  <2>10. \A x \in D : x \in {b, a} \/ x \in ToSet(L[b]) \cup ToSet(L[a])
                        \/ (w.next[x] = h.next[x] /\ w.prev[x] = h.prev[x])
    BY <2>3, <2>5 DEF f, g
  <2>11. Rings(H, E, w, Both(L, b, L[a], a, L[b]))
    BY <2>6, <2>7, <2>8, <2>9, <2>10, <1>5, RingsTwo DEF D
  <2> QED BY <2>11 DEF w
<1> QED BY <1>4, <1>5

-----------------------------------------------------------------------------
(* Walks that remove. *)

(* The sequence that is left, place by place. *)
LeftSteps(E, s, keep, W) ==
  /\ Left(s, keep) = W[Len(s)] /\ W[0] = <<>>
  /\ \A i \in 1 .. Len(s) : W[i] = IF i \in keep THEN Append(W[i - 1], s[i]) ELSE W[i - 1]
  /\ \A i \in 0 .. Len(s) : W[i] \in Seq(E)

LEMMA LeftIs ==
  ASSUME NEW E, NEW s \in Seq(E), NEW keep
  PROVE  \E W : LeftSteps(E, s, keep, W)
<1> DEFINE m == Len(s)
           Step(v, i) == IF i \in keep THEN Append(v, s[i]) ELSE v
           Body(n, w) == [i \in 0 .. n |-> IF i = 0 THEN <<>> ELSE Step(w[i - 1], i)]
           W == CHOOSE w : w = Body(m, w)
           S == {n \in 0 .. m : \E w : w = Body(n, w)}
<1>1. m \in Nat /\ \A i \in 1 .. m : s[i] \in E BY LenProperties
<1>2. 0 \in S
  <2>1. [i \in 0 .. 0 |-> <<>>] = Body(0, [i \in 0 .. 0 |-> <<>>]) OBVIOUS
  <2> HIDE DEF Body, m
  <2> QED BY <2>1, <1>1
<1>3. \A n \in 0 .. m - 1 : n \in S => n + 1 \in S
  <2> TAKE n \in 0 .. m - 1
  <2> HAVE n \in S
  <2> PICK w : w = Body(n, w) OBVIOUS
  <2> DEFINE v == [i \in 0 .. n + 1 |-> IF i <= n THEN w[i] ELSE Step(w[n], n + 1)]
  <2>1. \A i \in 0 .. n : w[i] = IF i = 0 THEN <<>> ELSE Step(w[i - 1], i)
    <3> HIDE DEF Step
    <3> QED OBVIOUS
  <2>2. n \in Nat /\ n + 1 \in 0 .. m BY <1>1
  <2> HIDE DEF Step, m
  <2>3. v = Body(n + 1, v) BY <2>1, <2>2
  <2> HIDE DEF Body, v
  <2> QED BY <2>2, <2>3
<1>4. W = Body(m, W)
  <2> HIDE DEF S, Body, W, m
  <2>1. 0 .. m \subseteq S BY <1>1, <1>2, <1>3, UpTo
  <2>2. m \in S BY <2>1, <1>1
  <2>3. \E w : w = Body(m, w) BY <2>2 DEF S
  <2> QED BY <2>3 DEF W
<1>5. Left(s, keep) = W[m] BY DEF Left
<1> HIDE DEF W
<1>6. W[0] = <<>> /\ \A i \in 1 .. m : W[i] = IF i \in keep THEN Append(W[i - 1], s[i]) ELSE W[i - 1]
  <2>1. \A i \in 0 .. m : W[i] = IF i = 0 THEN <<>> ELSE Step(W[i - 1], i)
    <3> HIDE DEF Step, m
    <3> QED BY <1>4
  <2> HIDE DEF m
  <2> QED BY <2>1, <1>1
<1>7. \A i \in 0 .. m : W[i] \in Seq(E)
  <2> DEFINE T == {i \in 0 .. m : W[i] \in Seq(E)}
  <2> HIDE DEF m
  <2>1. 0 \in T
    <3>1. <<>> \in Seq(E) /\ 0 \in 0 .. m BY <1>1
    <3> QED BY <3>1, <1>6
  <2>2. \A i \in 0 .. m - 1 : i \in T => i + 1 \in T
    <3> TAKE i \in 0 .. m - 1
    <3> HAVE i \in T
    <3>1. i + 1 \in 1 .. m /\ (i + 1) - 1 = i /\ i + 1 \in 0 .. m BY <1>1
    <3>2. W[i + 1] = IF i + 1 \in keep THEN Append(W[i], s[i + 1]) ELSE W[i]
      BY <3>1, <1>6
    <3>3. Append(W[i], s[i + 1]) \in Seq(E) BY <3>1, <1>1
    <3> QED BY <3>1, <3>2, <3>3
  <2> HIDE DEF T
  <2>3. 0 .. m \subseteq T BY <2>1, <2>2, <1>1, UpTo
  <2> QED BY <2>3 DEF T
<1> QED BY <1>5, <1>6, <1>7 DEF LeftSteps

(* It is a sequence of the same elements. *)
LEMMA LeftType ==
  ASSUME NEW E, NEW s \in Seq(E), NEW keep
  PROVE  Left(s, keep) \in Seq(E)
<1>1. PICK W : LeftSteps(E, s, keep, W) BY LeftIs
<1>2. Len(s) \in 0 .. Len(s) BY LenProperties
<1> QED BY <1>1, <1>2 DEF LeftSteps

(* What has been kept, and the rest from the next element on: the next one *)
(* is at place k of r. *)
NextAt(E, w, s, i, r, k) ==
  /\ r \in Seq(E) /\ k \in DOMAIN r /\ r[k] = s[i]
  /\ Append(w, s[i]) \o SubSeq(s, i + 1, Len(s)) = r
  /\ w \o SubSeq(s, i + 1, Len(s)) = RemoveAt(r, k)

LEMMA NextOfRest ==
  ASSUME NEW E, NEW w \in Seq(E), NEW s \in Seq(E), NEW i \in 1 .. Len(s), NEW r, r = w \o SubSeq(s, i, Len(s)),
         NEW k, k = Len(w) + 1
  PROVE  NextAt(E, w, s, i, r, k)
<1> DEFINE n == Len(w)
           m == Len(s)
           a == SubSeq(s, i, m)
           b == SubSeq(s, i + 1, m)
           v == Append(w, s[i])
<1>1. n \in Nat /\ m \in Nat /\ \A x \in 1 .. m : s[x] \in E BY LenProperties
<1>2. a \in Seq(E) /\ Len(a) = m - i + 1 /\ \A x \in 1 .. m - i + 1 : a[x] = s[i + x - 1]
  BY <1>1, SubSeqProperties
<1>3. b \in Seq(E) /\ Len(b) = m - i /\ \A x \in 1 .. m - i : b[x] = s[i + x]
  <2>1. i + 1 \in Int /\ i + 1 >= 1 /\ m <= Len(s) /\ \A x \in i + 1 .. m : s[x] \in E
    BY <1>1
  <2>2. /\ b \in Seq(E) /\ Len(b) = IF i + 1 <= m THEN m - (i + 1) + 1 ELSE 0
        /\ \A x \in 1 .. m - (i + 1) + 1 : b[x] = s[(i + 1) + x - 1]
    BY <2>1, <1>1, SubSeqProperties
  <2>3. Len(b) = m - i BY <2>2, <1>1
  <2>4. ASSUME NEW x \in 1 .. m - i PROVE b[x] = s[i + x]
    <3>1. x \in 1 .. m - (i + 1) + 1 /\ (i + 1) + x - 1 = i + x BY <1>1
    <3> HIDE DEF b
    <3> QED BY <3>1, <2>2
  <2> QED BY <2>2, <2>3, <2>4
<1>4. v \in Seq(E) /\ Len(v) = n + 1 /\ v[n + 1] = s[i] /\ \A x \in 1 .. n : v[x] = w[x]
  BY <1>1
<1> HIDE DEF a, b, v
<1>5. r \in Seq(E) /\ Len(r) = n + (m - i + 1)
      /\ \A x \in 1 .. n + (m - i + 1) : r[x] = IF x <= n THEN w[x] ELSE a[x - n]
  <2>1. w \o a \in Seq(E) /\ Len(w \o a) = n + Len(a)
        /\ \A x \in 1 .. n + Len(a) : (w \o a)[x] = IF x <= n THEN w[x] ELSE a[x - n]
    BY <1>2, ConcatProperties
  <2> QED BY <2>1, <1>2 DEF a
<1>6. v \o b \in Seq(E) /\ Len(v \o b) = (n + 1) + (m - i)
      /\ \A x \in 1 .. (n + 1) + (m - i) : (v \o b)[x] = IF x <= n + 1 THEN v[x] ELSE b[x - (n + 1)]
  <2>1. v \o b \in Seq(E) /\ Len(v \o b) = Len(v) + Len(b)
        /\ \A x \in 1 .. Len(v) + Len(b) : (v \o b)[x] = IF x <= Len(v) THEN v[x] ELSE b[x - Len(v)]
    BY <1>3, <1>4, ConcatProperties, ZenonT(60)
  <2> QED BY <2>1, <1>3, <1>4
<1>7. w \o b \in Seq(E) /\ Len(w \o b) = n + (m - i)
      /\ \A x \in 1 .. n + (m - i) : (w \o b)[x] = IF x <= n THEN w[x] ELSE b[x - n]
  <2>1. w \o b \in Seq(E) /\ Len(w \o b) = n + Len(b)
        /\ \A x \in 1 .. n + Len(b) : (w \o b)[x] = IF x <= n THEN w[x] ELSE b[x - n]
    BY <1>3, ConcatProperties
  <2> QED BY <2>1, <1>3
<1> HIDE DEF n, m
<1>k. n \in Nat /\ m \in Nat /\ i \in Int /\ 1 <= i /\ i <= m /\ k = n + 1
  BY <1>1 DEF m, n
<1>8. ASSUME NEW x \in 1 .. n + (m - i + 1) PROVE r[x] = IF x <= n THEN w[x] ELSE s[i + (x - n) - 1]
  <2>1. CASE x <= n BY <2>1, <1>5
  <2>2. CASE ~(x <= n)
    <3>1. x - n \in 1 .. m - i + 1 BY <2>2, <1>k
    <3> QED BY <3>1, <2>2, <1>2, <1>5
  <2> QED BY <2>1, <2>2
<1>9. k \in DOMAIN r /\ r[k] = s[i]
  <2>1. k \in 1 .. n + (m - i + 1) BY <1>k
  <2>0. ~(k <= n) /\ k - n = 1 /\ i + 1 - 1 = i BY <1>k
  <2>2. DOMAIN r = 1 .. n + (m - i + 1) BY <1>5, LenProperties
  <2> QED BY <2>0, <2>1, <2>2, <1>8
<1>10. v \o b = r
  <2>1. Len(v \o b) = Len(r) BY <1>5, <1>6, <1>k
  <2>2. ASSUME NEW x \in 1 .. Len(r) PROVE (v \o b)[x] = r[x]
    <3>0. x \in 1 .. n + (m - i + 1) /\ x \in 1 .. (n + 1) + (m - i)
      BY <1>5, <1>k
    <3>1. CASE x <= n
      <4>1. x <= n + 1 /\ x \in 1 .. n BY <3>1, <3>0, <1>k
      <4> QED BY <4>1, <3>0, <3>1, <1>4, <1>6, <1>8
    <3>2. CASE x = n + 1
      <4>1. x <= n + 1 /\ ~(x <= n) /\ i + (x - n) - 1 = i BY <3>2, <1>k
      <4> QED BY <4>1, <3>0, <3>2, <1>4, <1>6, <1>8
    <3>3. CASE x > n + 1
      <4>1. ~(x <= n + 1) /\ ~(x <= n) /\ i + (x - n) - 1 = i + (x - (n + 1)) /\ x - (n + 1) \in 1 .. m - i
        BY <3>3, <3>0, <1>k
      <4> QED BY <4>1, <3>0, <1>3, <1>6, <1>8
    <3>4. x <= n \/ x = n + 1 \/ x > n + 1 BY <3>0, <1>k
    <3> QED BY <3>1, <3>2, <3>3, <3>4
  <2> DEFINE c == v \o b
  <2>3. c \in Seq(E) /\ Len(c) = Len(r) /\ \A x \in 1 .. Len(r) : c[x] = r[x]
    BY <2>1, <2>2, <1>6
  <2> HIDE DEF c
  <2>4. c = r BY <2>3, <1>5, SeqEqual
  <2> QED BY <2>4 DEF c
<1>11. w \o b = RemoveAt(r, k)
  <2> DEFINE c == w \o b
             e == RemoveAt(r, k)
  <2>1. e \in Seq(E) /\ Len(e) = Len(r) - 1
        /\ \A x \in 1 .. Len(r) - 1 : e[x] = IF x < k THEN r[x] ELSE r[x + 1]
    BY <1>5, <1>9, RemoveAtIs, ZenonT(60)
  <2>2. c \in Seq(E) /\ Len(c) = n + (m - i)
        /\ \A x \in 1 .. n + (m - i) : c[x] = IF x <= n THEN w[x] ELSE b[x - n]
    BY <1>7
  <2> HIDE DEF c, e
  <2>3. Len(e) = n + (m - i) /\ Len(r) - 1 = n + (m - i) BY <2>1, <1>5, <1>k
  <2>4. ASSUME NEW x \in 1 .. n + (m - i) PROVE c[x] = e[x]
    <3>0. x \in 1 .. n + (m - i + 1) /\ x + 1 \in 1 .. n + (m - i + 1) /\ (x < k <=> x <= n) /\ x \in 1 .. Len(r) - 1
      BY <2>3, <1>k
    <3>1. CASE x <= n BY <3>1, <3>0, <2>1, <2>2, <1>8
    <3>2. CASE ~(x <= n)
      <4>1. ~(x + 1 <= n) /\ x - n \in 1 .. m - i /\ i + ((x + 1) - n) - 1 = i + (x - n)
        BY <3>2, <3>0, <1>k
      <4>2. e[x] = s[i + (x - n)] BY <4>1, <3>0, <3>2, <2>1, <1>8
      <4>3. c[x] = s[i + (x - n)] BY <4>1, <3>2, <2>2, <1>3
      <4> QED BY <4>2, <4>3
    <3> QED BY <3>1, <3>2
  <2>5. c = e BY <2>1, <2>2, <2>3, <2>4, SeqEqual
  <2> QED BY <2>5 DEF c, e
<1> QED BY <1>5, <1>9, <1>10, <1>11 DEF v, b, m, NextAt

(* The memory after each place of a ring was passed, where the element was *)
(* kept or unlinked. *)
LEMMA RingThinned ==
  ASSUME NEW H, NEW E, Apart(H, E), NEW h, NEW L, Rings(H, E, h, L), NEW p \in H, NEW keep,
         NEW G, G[0] = h,
         \A i \in 1 .. Len(L[p]) : G[i] = IF i \in keep THEN G[i - 1] ELSE Unlink(G[i - 1], L[p][i])
  PROVE  Rings(H, E, G[Len(L[p])], [L EXCEPT ![p] = Left(L[p], keep)])
<1> DEFINE s == L[p]
           m == Len(s)
<1>1. s \in Seq(E) /\ m \in Nat BY LenProperties DEF Rings, Parted
<1>2. PICK W : /\ Left(s, keep) = W[m] /\ W[0] = <<>>
               /\ \A i \in 1 .. m : W[i] = IF i \in keep THEN Append(W[i - 1], s[i]) ELSE W[i - 1]
               /\ \A i \in 0 .. m : W[i] \in Seq(E)
  <2> HIDE DEF s
  <2> QED BY <1>1, LeftIs, SMTT(60) DEF LeftSteps
<1> DEFINE R(i) == W[i] \o SubSeq(s, i + 1, m)
           M(i) == [L EXCEPT ![p] = R(i)]
           T == {i \in 0 .. m : Rings(H, E, G[i], M(i))}
<1>3. 0 \in T
  <2>1. SubSeq(s, 0 + 1, m) = s BY <1>1, SubSeqFull
  <2>2. <<>> \o s = s BY <1>1, ConcatEmptySeq
  <2>3. R(0) = s BY <2>1, <2>2, <1>2
  <2>4. [L EXCEPT ![p] = s] = L BY DEF Rings, Parted
  <2>5. M(0) = L BY <2>3, <2>4
  <2> HIDE DEF M, m
  <2> QED BY <2>5, <1>1
<1>4. \A i \in 0 .. m - 1 : i \in T => i + 1 \in T
  <2> TAKE i \in 0 .. m - 1
  <2> HAVE i \in T
  <2> DEFINE k == Len(W[i]) + 1
  <2>1. i + 1 \in 1 .. m /\ (i + 1) - 1 = i /\ i + 1 \in 0 .. m /\ i \in 0 .. m
    <3> HIDE DEF T, m
    <3> QED BY <1>1
  <2>2. /\ W[i] \in Seq(E)
        /\ W[i + 1] = IF i + 1 \in keep THEN Append(W[i], s[i + 1]) ELSE W[i]
        /\ G[i + 1] = IF i + 1 \in keep THEN G[i] ELSE Unlink(G[i], s[i + 1])
    BY <2>1, <1>2
  <2>3. /\ R(i) \in Seq(E) /\ k \in DOMAIN R(i) /\ R(i)[k] = s[i + 1]
        /\ Append(W[i], s[i + 1]) \o SubSeq(s, (i + 1) + 1, m) = R(i)
        /\ W[i] \o SubSeq(s, (i + 1) + 1, m) = RemoveAt(R(i), k)
    <3>1. R(i) = W[i] \o SubSeq(s, i + 1, Len(s)) /\ k = Len(W[i]) + 1 OBVIOUS
    <3> HIDE DEF R, k, s
    <3>2. NextAt(E, W[i], s, i + 1, R(i), k)
      BY <3>1, <2>1, <2>2, <1>1, NextOfRest
    <3> QED BY <3>2 DEF NextAt
  <2>4. CASE i + 1 \in keep
    <3>1. R(i + 1) = R(i) /\ G[i + 1] = G[i] BY <2>2, <2>3, <2>4
    <3> HIDE DEF R
    <3>2. Rings(H, E, G[i + 1], M(i + 1)) BY <3>1
    <3> HIDE DEF M, m
    <3> QED BY <3>2, <2>1
  <2>5. CASE i + 1 \notin keep
    <3>1. R(i + 1) = RemoveAt(R(i), k) /\ G[i + 1] = Unlink(G[i], R(i)[k])
      BY <2>2, <2>3, <2>5
    <3> HIDE DEF R, k
    <3>2. Rings(H, E, G[i], M(i)) /\ M(i)[p] = R(i) BY DEF Rings, Parted
    <3>3. [M(i) EXCEPT ![p] = RemoveAt(R(i), k)] = [L EXCEPT ![p] = RemoveAt(R(i), k)]
      OBVIOUS
    <3> DEFINE K == M(i)
    <3>4. Rings(H, E, G[i], K) /\ k \in DOMAIN K[p] /\ K[p] = R(i) BY <3>2, <2>3
    <3> HIDE DEF K
    <3>5. Rings(H, E, Unlink(G[i], K[p][k]), [K EXCEPT ![p] = RemoveAt(K[p], k)])
      BY <3>4, RingUnlink
    <3>6. Rings(H, E, G[i + 1], M(i + 1))
      <4>1. Rings(H, E, Unlink(G[i], R(i)[k]), [K EXCEPT ![p] = RemoveAt(R(i), k)])
        BY <3>4, <3>5
      <4>2. [K EXCEPT ![p] = RemoveAt(R(i), k)] = M(i + 1) BY <3>1, <3>3 DEF K
      <4> HIDE DEF M
      <4> QED BY <4>1, <4>2, <3>1
    <3> HIDE DEF M, m
    <3> QED BY <3>6, <2>1
  <2> QED BY <2>4, <2>5
<1>5. Rings(H, E, G[m], M(m))
  <2> HIDE DEF T, m
  <2>1. 0 .. m \subseteq T BY <1>1, <1>3, <1>4, UpTo
  <2>2. m \in T BY <2>1, <1>1
  <2> QED BY <2>2 DEF T
<1>6. R(m) = W[m]
  <2>1. SubSeq(s, m + 1, m) = <<>> BY <1>1, SubSeqEmpty
  <2>2. m \in 0 .. m /\ W[m] \in Seq(E) BY <1>1, <1>2
  <2> QED BY <2>1, <2>2, ConcatEmptySeq
<1> QED
  <2> HIDE DEF R
  <2>1. Rings(H, E, G[m], [L EXCEPT ![p] = W[m]]) BY <1>5, <1>6
  <2> QED BY <2>1, <1>2

(* A ring, walked forth and back, is the sequence it stands for. *)
LEMMA RingWalked ==
  ASSUME NEW H, NEW E, Apart(H, E), NEW h, NEW L, Rings(H, E, h, L), IsFiniteSet(Members(H, L)), NEW p \in H
  PROVE  /\ Walked(h, p) = L[p]
         /\ Walk(h.prev, h.prev[p], p) = Reverse(L[p])
<1> DEFINE s == L[p]
           m == Len(s)
           N(x) == Stop(p, s, p, x)
           t == Reverse(s)
           D == Members(H, L)
<1>1. StopsOf(H, E, h, L, p) BY RingStops
<1>2. /\ s \in Seq(E) /\ m \in Nat /\ DOMAIN s = 1 .. m
      /\ \A i \in 0 .. m + 1 : N(i) \in D
      /\ \A i \in 1 .. m : N(i) = s[i] /\ s[i] # p /\ s[i] \in E
      /\ \A i, j \in 0 .. m : N(i) = N(j) => i = j
      /\ \A i \in 0 .. m : h.prev[N(i + 1)] = N(i)
      /\ N(0) = p /\ N(m + 1) = p
  BY <1>1 DEF StopsOf
<1>3. DOMAIN h.next = D /\ DOMAIN h.prev = D /\ IsFiniteSet(D)
  BY DEF Rings, Memory
<1>4. Distinct(s) /\ Path(h.next, p, s, p) BY DEF Rings, Parted
<1>5. \A i \in 1 .. m : s[i] \in D
  <2>1. \A i \in 1 .. m : i \in 0 .. m + 1 BY <1>2
  <2> HIDE DEF N
  <2> QED BY <2>1, <1>2
<1>6. Walked(h, p) = s
  <2>1. \A i \in DOMAIN s : s[i] # p /\ s[i] \in DOMAIN h.next
    BY <1>2, <1>3, <1>5
  <2>2. s \in Seq(E) /\ IsFiniteSet(DOMAIN h.next) BY <1>2, <1>3
  <2> HIDE DEF s
  <2>3. Walk(h.next, h.next[p], p) = s BY <2>1, <2>2, <1>4, WalkSees
  <2> QED BY <2>3 DEF Walked
<1>7. t = [i \in 1 .. m |-> s[m - i + 1]] BY <1>2 DEF Reverse
<1>8. t \in Seq(E) /\ Len(t) = m /\ DOMAIN t = 1 .. m /\ \A i \in 1 .. m : t[i] = s[m - i + 1]
  <2>1. \A i \in 1 .. m : m - i + 1 \in 1 .. m BY <1>2
  <2>2. t \in [1 .. m -> E] BY <2>1, <1>2, <1>7
  <2> HIDE DEF t, m, s
  <2>3. t \in Seq(E) BY <2>2, <1>2
  <2> QED BY <2>3, <1>2, <1>7
<1> HIDE DEF t, s
<1>9. \A i \in 0 .. m + 1 : Stop(p, t, p, i) = N(m + 1 - i)
  BY <1>2, <1>8 DEF Stop
<1> HIDE DEF N, m, D
<1>10. Path(h.prev, p, t, p)
  <2>1. ASSUME NEW i \in 0 .. m PROVE h.prev[Stop(p, t, p, i)] = Stop(p, t, p, i + 1)
    <3>1. i \in 0 .. m + 1 /\ i + 1 \in 0 .. m + 1 /\ m - i \in 0 .. m
          /\ m + 1 - i = (m - i) + 1 /\ m + 1 - (i + 1) = m - i
      BY <1>2
    <3>2. h.prev[N((m - i) + 1)] = N(m - i) BY <3>1, <1>2
    <3> QED BY <3>1, <3>2, <1>9
  <2> QED BY <2>1, <1>8 DEF Path
<1>11. \A i \in DOMAIN t : t[i] # p /\ t[i] \in DOMAIN h.prev
  <2> TAKE i \in DOMAIN t
  <2>1. m - i + 1 \in 1 .. m /\ i \in 1 .. m BY <1>2, <1>8
  <2> QED BY <2>1, <1>2, <1>3, <1>5, <1>8
<1>12. Distinct(t)
  <2>1. ASSUME NEW i \in 1 .. m, NEW j \in 1 .. m, t[i] = t[j] PROVE i = j
    <3>1. m - i + 1 \in DOMAIN s /\ m - j + 1 \in DOMAIN s BY <1>2
    <3>2. m - i + 1 = m - j + 1 BY <3>1, <2>1, <1>4, <1>8 DEF Distinct
    <3> QED BY <3>2, <1>2
  <2> QED BY <2>1, <1>8 DEF Distinct
<1>13. Walk(h.prev, h.prev[p], p) = t
  BY <1>3, <1>8, <1>10, <1>11, <1>12, WalkSees
<1> QED BY <1>6, <1>13 DEF s, t

LEMMA FiniteMembers ==
  ASSUME NEW H, IsFiniteSet(H), NEW E, NEW L, Parted(H, E, L)
  PROVE  IsFiniteSet(Members(H, L))
<1> DEFINE f == [p \in H |-> ToSet(L[p])]
<1>1. ASSUME NEW p \in H PROVE IsFiniteSet(ToSet(L[p]))
  <2> DEFINE s == L[p]
  <2>1. s \in Seq(E) /\ Len(s) \in Nat /\ DOMAIN s = 1 .. Len(s)
    BY LenProperties DEF Parted
  <2>2. IsFiniteSet(1 .. Len(s)) BY <2>1, FS_Interval
  <2>3. s \in Surjection(1 .. Len(s), ToSet(s))
    <3> HIDE DEF s
    <3>1. s = [i \in 1 .. Len(s) |-> s[i]] BY <2>1
    <3> QED BY <2>1, <3>1 DEF Surjection, ToSet
  <2> HIDE DEF s
  <2>4. IsFiniteSet(ToSet(s)) BY <2>2, <2>3, FS_Surjection
  <2> QED BY <2>4 DEF s
<1>2. f \in Surjection(H, {ToSet(L[p]) : p \in H}) BY DEF Surjection
<1>3. IsFiniteSet({ToSet(L[p]) : p \in H})
  <2> HIDE DEF f
  <2> QED BY <1>2, FS_Surjection
<1>4. IsFiniteSet(UNION {ToSet(L[p]) : p \in H}) BY <1>1, <1>3, FS_UNION
<1> QED BY <1>4, FS_Union DEF Members

(* The places that remove_if, and that unique, keep. *)
Spared(s, bad) == {i \in DOMAIN s : s[i] \notin bad}
Changes(s) == {i \in DOMAIN s : i = 1 \/ Kind[s[i]] # Kind[s[i - 1]]}

(* remove_if. *)
LEMMA RingRemoveAll ==
  ASSUME NEW H, NEW E, Apart(H, E), NEW h, NEW L, Rings(H, E, h, L), IsFiniteSet(Members(H, L)), NEW p \in H,
         NEW bad
  PROVE  Rings(H, E, RemoveAll(h, p, bad), [L EXCEPT ![p] = Left(L[p], Spared(L[p], bad))])
<1> DEFINE s == L[p]
           m == Len(s)
           keep == {i \in DOMAIN s : s[i] \notin bad}
           Step(v, i) == IF s[i] \in bad THEN Unlink(v, s[i]) ELSE v
           Body(n, w) == [i \in 0 .. n |-> IF i = 0 THEN h ELSE Step(w[i - 1], i)]
           W == CHOOSE w : w = Body(m, w)
           S == {n \in 0 .. m : \E w : w = Body(n, w)}
<1>1. m \in Nat /\ DOMAIN s = 1 .. m BY LenProperties DEF Rings, Parted
<1>2. 0 \in S
  <2>1. [i \in 0 .. 0 |-> h] = Body(0, [i \in 0 .. 0 |-> h]) OBVIOUS
  <2> HIDE DEF Body, m
  <2> QED BY <2>1, <1>1
<1>3. \A n \in 0 .. m - 1 : n \in S => n + 1 \in S
  <2> TAKE n \in 0 .. m - 1
  <2> HAVE n \in S
  <2> PICK w : w = Body(n, w) OBVIOUS
  <2> DEFINE v == [i \in 0 .. n + 1 |-> IF i <= n THEN w[i] ELSE Step(w[n], n + 1)]
  <2>1. \A i \in 0 .. n : w[i] = IF i = 0 THEN h ELSE Step(w[i - 1], i)
    <3> HIDE DEF Step
    <3> QED OBVIOUS
  <2>2. n \in Nat /\ n + 1 \in 0 .. m BY <1>1
  <2> HIDE DEF Step, m
  <2>3. v = Body(n + 1, v) BY <2>1, <2>2
  <2> HIDE DEF Body, v
  <2> QED BY <2>2, <2>3
<1>4. W = Body(m, W)
  <2> HIDE DEF S, Body, W, m
  <2>1. 0 .. m \subseteq S BY <1>1, <1>2, <1>3, UpTo
  <2>2. m \in S BY <2>1, <1>1
  <2>3. \E w : w = Body(m, w) BY <2>2 DEF S
  <2> QED BY <2>3 DEF W
<1>5. RemoveAll(h, p, bad) = W[m]
  <2>1. Walked(h, p) = s BY RingWalked
  <2> HIDE DEF s
  <2> QED BY <2>1 DEF RemoveAll
<1> HIDE DEF W
<1>6. W[0] = h /\ \A i \in 1 .. m : W[i] = IF i \in keep THEN W[i - 1] ELSE Unlink(W[i - 1], s[i])
  <2>1. \A i \in 0 .. m : W[i] = IF i = 0 THEN h ELSE Step(W[i - 1], i)
    <3> HIDE DEF Step, m
    <3> QED BY <1>4
  <2>2. \A i \in 1 .. m : i \in keep <=> s[i] \notin bad BY <1>1
  <2> HIDE DEF m, keep
  <2> QED BY <2>1, <2>2, <1>1
<1> QED
  <2> HIDE DEF keep
  <2>1. Rings(H, E, W[m], [L EXCEPT ![p] = Left(s, keep)]) BY <1>6, RingThinned
  <2> QED BY <2>1, <1>5 DEF keep, Spared

(* unique: the element that was kept last has the kind of the one before. *)
LEMMA RingUnique ==
  ASSUME NEW H, NEW E, Apart(H, E), NEW h, NEW L, Rings(H, E, h, L), IsFiniteSet(Members(H, L)), NEW p \in H
  PROVE  Rings(H, E, UniqueRing(h, p),
               [L EXCEPT ![p] = Left(L[p], Changes(L[p]))])
<1> DEFINE s == L[p]
           m == Len(s)
           keep == {i \in DOMAIN s : i = 1 \/ Kind[s[i]] # Kind[s[i - 1]]}
           Base == [h |-> h, kept |-> p]
           Step(v, i) == IF v.kept # p /\ Kind[v.kept] = Kind[s[i]]
                           THEN [h |-> Unlink(v.h, s[i]), kept |-> v.kept]
                         ELSE [h |-> v.h, kept |-> s[i]]
           Body(n, w) == [i \in 0 .. n |-> IF i = 0 THEN Base ELSE Step(w[i - 1], i)]
           W == CHOOSE w : w = Body(m, w)
           S == {n \in 0 .. m : \E w : w = Body(n, w)}
<1>1. m \in Nat /\ DOMAIN s = 1 .. m /\ \A i \in 1 .. m : s[i] # p
  <2>1. s \in Seq(E) BY DEF Rings, Parted
  <2>2. \A i \in 1 .. m : s[i] \in E BY <2>1, LenProperties
  <2> QED BY <2>1, <2>2, LenProperties DEF Apart
<1>2. 0 \in S
  <2>1. [i \in 0 .. 0 |-> Base] = Body(0, [i \in 0 .. 0 |-> Base]) OBVIOUS
  <2> HIDE DEF Body, m
  <2> QED BY <2>1, <1>1
<1>3. \A n \in 0 .. m - 1 : n \in S => n + 1 \in S
  <2> TAKE n \in 0 .. m - 1
  <2> HAVE n \in S
  <2> PICK w : w = Body(n, w) OBVIOUS
  <2> DEFINE v == [i \in 0 .. n + 1 |-> IF i <= n THEN w[i] ELSE Step(w[n], n + 1)]
  <2>1. \A i \in 0 .. n : w[i] = IF i = 0 THEN Base ELSE Step(w[i - 1], i)
    <3> HIDE DEF Step, Base
    <3> QED OBVIOUS
  <2>2. n \in Nat /\ n + 1 \in 0 .. m BY <1>1
  <2> HIDE DEF Step, Base, m
  <2>3. v = Body(n + 1, v) BY <2>1, <2>2
  <2> HIDE DEF Body, v
  <2> QED BY <2>2, <2>3
<1>4. W = Body(m, W)
  <2> HIDE DEF S, Body, W, m
  <2>1. 0 .. m \subseteq S BY <1>1, <1>2, <1>3, UpTo
  <2>2. m \in S BY <2>1, <1>1
  <2>3. \E w : w = Body(m, w) BY <2>2 DEF S
  <2> QED BY <2>3 DEF W
<1>5. UniqueRing(h, p) = W[m].h
  <2>1. Walked(h, p) = s BY RingWalked
  <2> HIDE DEF s
  <2> QED BY <2>1 DEF UniqueRing
<1> HIDE DEF W
<1>6. W[0] = Base /\ \A i \in 1 .. m : W[i] = Step(W[i - 1], i)
  <2>1. \A i \in 0 .. m : W[i] = IF i = 0 THEN Base ELSE Step(W[i - 1], i)
    <3> HIDE DEF Step, Base, m
    <3> QED BY <1>4
  <2> HIDE DEF Step, Base, m
  <2> QED BY <2>1, <1>1
<1>7. \A i \in 0 .. m : i # 0 => W[i].kept # p /\ Kind[W[i].kept] = Kind[s[i]]
  <2> DEFINE T == {i \in 0 .. m : i # 0 => W[i].kept # p /\ Kind[W[i].kept] = Kind[s[i]]}
  <2> HIDE DEF m, s
  <2>1. 0 \in T BY <1>1
  <2>2. \A i \in 0 .. m - 1 : i \in T => i + 1 \in T
    <3> TAKE i \in 0 .. m - 1
    <3> HAVE i \in T
    <3>1. i + 1 \in 1 .. m /\ (i + 1) - 1 = i /\ i + 1 \in 0 .. m /\ i + 1 # 0
      BY <1>1
    <3>2. W[i + 1] = Step(W[i], i + 1) /\ s[i + 1] # p BY <3>1, <1>1, <1>6
    <3>3. W[i + 1].kept # p /\ Kind[W[i + 1].kept] = Kind[s[i + 1]] BY <3>2
    <3> QED BY <3>1, <3>3
  <2> HIDE DEF T
  <2>3. 0 .. m \subseteq T BY <2>1, <2>2, <1>1, UpTo
  <2> QED BY <2>3 DEF T
<1> DEFINE G == [i \in 0 .. m |-> W[i].h]
<1>8. G[0] = h /\ G[m] = W[m].h
  <2> HIDE DEF m
  <2> QED BY <1>1, <1>6
<1>9. \A i \in 1 .. m : G[i] = IF i \in keep THEN G[i - 1] ELSE Unlink(G[i - 1], s[i])
  <2> TAKE i \in 1 .. m
  <2>1. i \in 0 .. m /\ i - 1 \in 0 .. m /\ i \in DOMAIN s /\ (i = 1 <=> i - 1 = 0)
    BY <1>1
  <2> HIDE DEF m, s
  <2>2. G[i] = W[i].h /\ G[i - 1] = W[i - 1].h /\ W[i] = Step(W[i - 1], i)
    BY <2>1, <1>6
  <2>3. i \in keep <=> ~(W[i - 1].kept # p /\ Kind[W[i - 1].kept] = Kind[s[i]])
    <3>1. CASE i = 1
      <4>1. W[i - 1].kept = p BY <3>1, <1>6
      <4> QED BY <4>1, <3>1, <2>1
    <3>2. CASE i # 1
      <4>1. W[i - 1].kept # p /\ Kind[W[i - 1].kept] = Kind[s[i - 1]]
        BY <3>2, <2>1, <1>7
      <4> QED BY <4>1, <3>2, <2>1
    <3> QED BY <3>1, <3>2
  <2> HIDE DEF G, keep
  <2> QED BY <2>2, <2>3
<1> QED
  <2> HIDE DEF keep, G
  <2>1. Rings(H, E, G[m], [L EXCEPT ![p] = Left(s, keep)])
    BY <1>8, <1>9, RingThinned
  <2> QED BY <2>1, <1>5, <1>8 DEF keep, Changes

(***************************************************************************)
(* Forward lists: each operation on the links of one list, or of two, leaves *)
(* links for the sequences it promises and touches no other list.          *)
(***************************************************************************)

ChainStopsOf(H, E, f, L, p) ==
  LET s == L[p]
      N(i) == Stop(p, s, NULL, i)
  IN  /\ s \in Seq(E) /\ Len(s) \in Nat /\ DOMAIN s = 1 .. Len(s)
      /\ \A i \in 0 .. Len(s) :
           /\ N(i) \in Members(H, L) /\ (N(i) = p \/ N(i) \in ToSet(s))
           /\ \A q \in H \ {p} : N(i) # q /\ N(i) \notin ToSet(L[q])
      /\ \A i \in 1 .. Len(s) : N(i) = s[i] /\ s[i] # p /\ s[i] \in E /\ s[i] \notin H
      /\ N(0) = p /\ N(Len(s) + 1) = NULL
      /\ \A i, j \in 0 .. Len(s) : N(i) = N(j) => i = j
      /\ \A i \in 0 .. Len(s) : f[N(i)] = N(i + 1)

LEMMA ChainStops ==
  ASSUME NEW H, NEW E, Apart(H, E), NEW f, NEW L, Chains(H, E, f, L), NEW p \in H
  PROVE  ChainStopsOf(H, E, f, L, p)
<1> DEFINE s == L[p]
           N(i) == Stop(p, s, NULL, i)
<1>1. s \in Seq(E) /\ Len(s) \in Nat /\ DOMAIN s = 1 .. Len(s) /\ \A i \in 1 .. Len(s) : s[i] \in E
  BY LenProperties DEF Chains, Parted
<1>2. \A i \in 1 .. Len(s) : N(i) = s[i] /\ s[i] # p /\ s[i] \in E /\ s[i] \notin H /\ s[i] \in ToSet(s)
  BY <1>1 DEF Stop, ToSet, Apart
<1>3. N(0) = p /\ N(Len(s) + 1) = NULL BY <1>1 DEF Stop
<1>4. \A i, j \in 1 .. Len(s) : s[i] = s[j] => i = j
  BY <1>1 DEF Chains, Parted, Distinct
<1>5. \A i \in 0 .. Len(s) : f[N(i)] = N(i + 1) BY DEF Chains, Path
<1>6. \A q \in H \ {p} : ToSet(L[q]) \subseteq E /\ ToSet(L[q]) \cap ToSet(s) = {}
  <2>1. \A q \in H : ToSet(L[q]) \subseteq E BY DEF Chains, Parted, ToSet
  <2> QED BY <2>1 DEF Chains, Parted
<1>7. ToSet(s) \subseteq Members(H, L) /\ p \in Members(H, L) BY DEF Members
<1> HIDE DEF s, N
<1>8. \A i \in 0 .. Len(s) : N(i) = p \/ (i \in 1 .. Len(s) /\ N(i) = s[i])
  BY <1>1, <1>2, <1>3
<1>9. ASSUME NEW i \in 0 .. Len(s)
      PROVE  /\ N(i) \in Members(H, L) /\ (N(i) = p \/ N(i) \in ToSet(s))
             /\ \A q \in H \ {p} : N(i) # q /\ N(i) \notin ToSet(L[q])
  <2>1. CASE N(i) = p BY <2>1, <1>6, <1>7 DEF Apart
  <2>2. CASE N(i) \in ToSet(s) /\ N(i) \notin H BY <2>2, <1>6, <1>7
  <2> QED BY <2>1, <2>2, <1>2, <1>8
<1>10. \A i, j \in 0 .. Len(s) : N(i) = N(j) => i = j BY <1>1, <1>2, <1>3, <1>4
<1> QED BY <1>1, <1>2, <1>3, <1>5, <1>9, <1>10 DEF s, N, ChainStopsOf

(* One forward list changes, or two. *)
LEMMA ChainsOne ==
  ASSUME NEW H, NEW E, Apart(H, E), NEW f, NEW L, Chains(H, E, f, L), NEW p \in H,
         NEW t, ForOne(H, E, L, p, t),
         NEW g, DOMAIN g = Exchanged(Members(H, L), ToSet(L[p]), ToSet(t)),
         Path(g, p, t, NULL),
         \A x \in Members(H, L) : x = p \/ x \in ToSet(L[p]) \/ g[x] = f[x]
  PROVE  Chains(H, E, g, [L EXCEPT ![p] = t])
<1> DEFINE M == [L EXCEPT ![p] = t]
<1>1. Parted(H, E, M) /\ Members(H, M) = Exchanged(Members(H, L), ToSet(L[p]), ToSet(t))
  <2>1. Parted(H, E, L) BY DEF Chains
  <2> QED BY <2>1, PartedOne
<1>2. \A q \in H : M[q] = IF q = p THEN t ELSE L[q]
  BY DEF Chains, Parted, ForOne
<1>3. ASSUME NEW q \in H PROVE Path(g, q, M[q], NULL)
  <2>1. CASE q = p BY <2>1, <1>2
  <2>2. CASE q # p
    <3> DEFINE N(i) == Stop(q, L[q], NULL, i)
    <3>1. M[q] = L[q] BY <2>2, <1>2
    <3>2. /\ \A i \in 0 .. Len(L[q]) : N(i) \in Members(H, L) /\ N(i) # p /\ N(i) \notin ToSet(L[p])
          /\ \A i \in 0 .. Len(L[q]) : f[N(i)] = N(i + 1)
          /\ Len(L[q]) \in Nat
      <4>1. ChainStopsOf(H, E, f, L, q) BY ChainStops
      <4> QED BY <2>2, <4>1 DEF ChainStopsOf
    <3> HIDE DEF N
    <3>3. \A i \in 0 .. Len(L[q]) : g[N(i)] = N(i + 1) BY <3>2
    <3> QED BY <3>1, <3>3 DEF N, Path
  <2> QED BY <2>1, <2>2
<1> QED BY <1>1, <1>3 DEF Chains

LEMMA ChainsTwo ==
  ASSUME NEW H, NEW E, Apart(H, E), NEW f, NEW L, Chains(H, E, f, L), NEW p \in H, NEW q \in H, p # q,
         NEW s, NEW t, ForTwo(H, E, L, p, q, s, t),
         NEW g, DOMAIN g = Exchanged(Members(H, L), ToSet(L[p]) \cup ToSet(L[q]), ToSet(s) \cup ToSet(t)),
         Path(g, p, s, NULL), Path(g, q, t, NULL),
         \A x \in Members(H, L) : x \in {p, q} \/ x \in ToSet(L[p]) \cup ToSet(L[q]) \/ g[x] = f[x]
  PROVE  Chains(H, E, g, Both(L, p, s, q, t))
<1> DEFINE M == Both(L, p, s, q, t)
<1>1. Parted(H, E, M) /\ Members(H, M) = Exchanged(Members(H, L), ToSet(L[p]) \cup ToSet(L[q]), ToSet(s) \cup ToSet(t))
  <2>1. Parted(H, E, L) BY DEF Chains
  <2> QED BY <2>1, PartedTwo
<1>2. \A r \in H : M[r] = IF r = p THEN s ELSE IF r = q THEN t ELSE L[r]
  BY DEF Chains, Parted, ForTwo, Both
<1>3. ASSUME NEW r \in H PROVE Path(g, r, M[r], NULL)
  <2>1. CASE r \in {p, q} BY <2>1, <1>2
  <2>2. CASE r \notin {p, q}
    <3> DEFINE N(i) == Stop(r, L[r], NULL, i)
    <3>1. M[r] = L[r] BY <2>2, <1>2
    <3>2. /\ \A i \in 0 .. Len(L[r]) :
               /\ N(i) \in Members(H, L) /\ N(i) # p /\ N(i) \notin ToSet(L[p])
               /\ N(i) # q /\ N(i) \notin ToSet(L[q])
          /\ \A i \in 0 .. Len(L[r]) : f[N(i)] = N(i + 1)
          /\ Len(L[r]) \in Nat
      <4>1. ChainStopsOf(H, E, f, L, r) BY ChainStops
      <4> QED BY <2>2, <4>1 DEF ChainStopsOf
    <3> HIDE DEF N
    <3>3. \A i \in 0 .. Len(L[r]) : g[N(i)] = N(i + 1) BY <3>2
    <3> QED BY <3>1, <3>3 DEF N, Path
  <2> QED BY <2>1, <2>2
<1> QED BY <1>1, <1>3 DEF Chains

(* An element more, or less, in a sequence of distinct ones. *)
LEMMA InsertedApart ==
  ASSUME NEW E, NEW s \in Seq(E), Distinct(s), NEW n \in E, n \notin ToSet(s), NEW k \in 1 .. Len(s) + 1
  PROVE  Distinct(InsertAt(s, k, n)) /\ ToSet(InsertAt(s, k, n)) = ToSet(s) \cup {n}
<1> DEFINE m == Len(s)
           t == InsertAt(s, k, n)
           A(i) == IF i < k THEN i ELSE i - 1
<1>1. m \in Nat /\ DOMAIN s = 1 .. m BY LenProperties
<1>2. t \in Seq(E) /\ Len(t) = m + 1
      /\ \A i \in 1 .. m + 1 : t[i] = IF i < k THEN s[i] ELSE IF i = k THEN n ELSE s[i - 1]
  <2>1. Inserted(E, s, k, n, InsertAt(s, k, n)) BY InsertedIs
  <2> QED BY <2>1 DEF Inserted
<1>3. \A i \in 1 .. m : s[i] # n BY <1>1 DEF ToSet
<1> HIDE DEF t, m
<1>4. DOMAIN t = 1 .. m + 1 BY <1>2, LenProperties
<1>k. k \in Int /\ 1 <= k /\ k <= m + 1 /\ m \in Nat
  BY <1>1 DEF m
<1>5. ASSUME NEW i \in 1 .. m + 1, i # k PROVE A(i) \in 1 .. m /\ t[i] = s[A(i)]
  <2>1. A(i) \in 1 .. m BY <1>5, <1>k
  <2>2. t[i] = s[A(i)] BY <1>5, <1>2
  <2> QED BY <2>1, <2>2
<1>6. t[k] = n /\ k \in 1 .. m + 1 BY <1>2, <1>k
<1>7. \A i, j \in 1 .. m + 1 : i # k /\ j # k /\ A(i) = A(j) => i = j BY <1>k
<1>8. Distinct(t)
  <2> HIDE DEF A
  <2>1. ASSUME NEW i \in 1 .. m + 1, NEW j \in 1 .. m + 1, t[i] = t[j] PROVE i = j
    <3>1. CASE i = k /\ j # k BY <3>1, <2>1, <1>3, <1>5, <1>6
    <3>2. CASE i # k /\ j = k BY <3>2, <2>1, <1>3, <1>5, <1>6
    <3>3. CASE i # k /\ j # k
      <4>1. s[A(i)] = s[A(j)] /\ A(i) \in 1 .. m /\ A(j) \in 1 .. m
        BY <3>3, <2>1, <1>5
      <4>2. A(i) = A(j) BY <4>1, <1>1 DEF Distinct
      <4> QED BY <4>2, <3>3, <1>7
    <3> QED BY <3>1, <3>2, <3>3
  <2> QED BY <2>1, <1>4 DEF Distinct
<1>9. ToSet(t) \subseteq ToSet(s) \cup {n}
  <2> HIDE DEF A
  <2>1. \A i \in 1 .. m + 1 : t[i] = n \/ \E j \in 1 .. m : t[i] = s[j]
    BY <1>5, <1>6
  <2> QED BY <2>1, <1>1, <1>4 DEF ToSet
<1>10. ToSet(s) \cup {n} \subseteq ToSet(t)
  <2>1. ASSUME NEW i \in 1 .. m PROVE s[i] \in ToSet(t)
    <3>1. CASE i < k
      <4>1. i \in 1 .. m + 1 /\ t[i] = s[i] BY <3>1, <1>2, <1>k
      <4> QED BY <4>1, <1>4 DEF ToSet
    <3>2. CASE i >= k
      <4>1. i + 1 \in 1 .. m + 1 /\ ~(i + 1 < k) /\ i + 1 # k /\ (i + 1) - 1 = i
        BY <3>2, <1>k
      <4>2. t[i + 1] = s[i] BY <4>1, <1>2
      <4> QED BY <4>1, <4>2, <1>4 DEF ToSet
    <3> QED BY <3>1, <3>2, <1>k
  <2>2. n \in ToSet(t) BY <1>4, <1>6 DEF ToSet
  <2> QED BY <2>1, <2>2, <1>1 DEF ToSet
<1> QED BY <1>8, <1>9, <1>10 DEF t

LEMMA RemovedApart ==
  ASSUME NEW E, NEW s \in Seq(E), Distinct(s), NEW k \in DOMAIN s
  PROVE  Distinct(RemoveAt(s, k)) /\ ToSet(RemoveAt(s, k)) = ToSet(s) \ {s[k]}
<1> DEFINE m == Len(s)
           t == RemoveAt(s, k)
           A(i) == IF i < k THEN i ELSE i + 1
<1>1. m \in Nat /\ DOMAIN s = 1 .. m BY LenProperties
<1>2. t \in Seq(E) /\ Len(t) = m - 1 /\ \A i \in 1 .. m - 1 : t[i] = IF i < k THEN s[i] ELSE s[i + 1]
  BY RemoveAtIs
<1>3. \A i, j \in 1 .. m : s[i] = s[j] => i = j BY <1>1 DEF Distinct
<1> HIDE DEF t, m
<1>4. DOMAIN t = 1 .. m - 1 BY <1>1, <1>2, LenProperties
<1>k. k \in Int /\ 1 <= k /\ k <= m /\ m \in Nat /\ k \in 1 .. m
  BY <1>1
<1>5. ASSUME NEW i \in 1 .. m - 1 PROVE A(i) \in 1 .. m /\ t[i] = s[A(i)] /\ A(i) # k
  <2>1. A(i) \in 1 .. m /\ A(i) # k BY <1>k
  <2>2. t[i] = s[A(i)] BY <1>2
  <2> QED BY <2>1, <2>2
<1>6. \A i, j \in 1 .. m - 1 : A(i) = A(j) => i = j BY <1>k
<1>7. \A i \in 1 .. m : i # k => \E j \in 1 .. m - 1 : A(j) = i
  <2> TAKE i \in 1 .. m
  <2> HAVE i # k
  <2>1. CASE i < k
    <3>1. i \in 1 .. m - 1 /\ A(i) = i BY <2>1, <1>k
    <3> QED BY <3>1
  <2>2. CASE i > k
    <3>1. i - 1 \in 1 .. m - 1 /\ A(i - 1) = i BY <2>2, <1>k
    <3> QED BY <3>1
  <2> QED BY <2>1, <2>2, <1>k
<1> HIDE DEF A
<1>8. Distinct(t)
  <2>1. ASSUME NEW i \in 1 .. m - 1, NEW j \in 1 .. m - 1, t[i] = t[j] PROVE i = j
    <3>1. A(i) = A(j) BY <2>1, <1>3, <1>5
    <3> QED BY <3>1, <1>6
  <2> QED BY <2>1, <1>4 DEF Distinct
<1>9. ToSet(t) \subseteq ToSet(s) \ {s[k]}
  <2>1. \A i \in 1 .. m - 1 : t[i] # s[k] /\ \E j \in 1 .. m : t[i] = s[j]
    BY <1>3, <1>5, <1>k
  <2> QED BY <2>1, <1>1, <1>4 DEF ToSet
<1>10. ToSet(s) \ {s[k]} \subseteq ToSet(t)
  <2>1. ASSUME NEW i \in 1 .. m, s[i] # s[k] PROVE \E j \in 1 .. m - 1 : t[j] = s[i]
    <3>1. i # k BY <2>1
    <3> QED BY <3>1, <1>5, <1>7
  <2> QED BY <2>1, <1>1, <1>4 DEF ToSet
<1> QED BY <1>8, <1>9, <1>10 DEF t

-----------------------------------------------------------------------------
(* The operations on one list, and on two. *)

(* n goes behind the stop k - 1: push_front of one node. *)
LEMMA ChainInsert ==
  ASSUME NEW H, NEW E, Apart(H, E), NEW f, NEW L, Chains(H, E, f, L), NEW p \in H,
         NEW k \in 1 .. Len(L[p]) + 1, NEW n \in E, n \notin Members(H, L)
  PROVE  Chains(H, E, PushAfter(f, Stop(p, L[p], NULL, k - 1), n, n), [L EXCEPT ![p] = InsertAt(L[p], k, n)])
<1> DEFINE s == L[p]
           m == Len(s)
           N(i) == Stop(p, s, NULL, i)
           t == InsertAt(s, k, n)
           T(i) == Stop(p, t, NULL, i)
           D == Members(H, L)
           g == PushAfter(f, N(k - 1), n, n)
<1>1. ChainStopsOf(H, E, f, L, p) BY ChainStops
<1>2. /\ s \in Seq(E) /\ m \in Nat /\ DOMAIN s = 1 .. m /\ k \in 1 .. m + 1
      /\ \A i \in 0 .. m : N(i) \in D /\ N(i) # n /\ (N(i) = p \/ N(i) \in ToSet(s))
      /\ \A i, j \in 0 .. m : N(i) = N(j) => i = j
      /\ \A i \in 0 .. m : f[N(i)] = N(i + 1)
      /\ N(0) = p /\ N(m + 1) = NULL /\ \A i \in 1 .. m : N(i) = s[i]
  BY <1>1 DEF ChainStopsOf
<1>3. /\ t \in Seq(E) /\ Len(t) = m + 1 /\ DOMAIN t = 1 .. m + 1
      /\ \A i \in 1 .. m + 1 : t[i] = IF i < k THEN s[i] ELSE IF i = k THEN n ELSE s[i - 1]
  <2>1. t \in Seq(E) /\ Len(t) = m + 1
        /\ \A i \in 1 .. m + 1 : t[i] = IF i < k THEN s[i] ELSE IF i = k THEN n ELSE s[i - 1]
    <3>1. s \in Seq(E) /\ k \in 1 .. Len(s) + 1 BY <1>2
    <3> HIDE DEF s
    <3>2. Inserted(E, s, k, n, InsertAt(s, k, n)) BY <3>1, InsertedIs
    <3> QED BY <3>2 DEF Inserted
  <2> HIDE DEF t
  <2> QED BY <2>1, LenProperties
<1>4. Distinct(s) /\ ToSet(s) \subseteq D /\ n \notin ToSet(s) /\ DOMAIN f = D /\ n \notin D
  BY DEF Chains, Parted, Members
<1>5. Distinct(t) /\ ToSet(t) = ToSet(s) \cup {n}
  <2>1. k \in 1 .. Len(s) + 1 OBVIOUS
  <2> HIDE DEF s
  <2> QED BY <2>1, <1>2, <1>4, InsertedApart
<1> HIDE DEF t, D
<1>k. k \in Int /\ m \in Nat /\ 1 <= k /\ k <= m + 1 /\ k - 1 \in 0 .. m /\ (k - 1) + 1 = k
  BY <1>2
<1>t. T(0) = p /\ T(m + 2) = NULL /\ \A i \in 1 .. m + 1 : T(i) = t[i]
  BY <1>k, <1>3 DEF Stop
<1> HIDE DEF s, N, T, m
<1>7. \A i \in 0 .. m + 2 : T(i) = IF i < k THEN N(i) ELSE IF i = k THEN n ELSE N(i - 1)
  <2> TAKE i \in 0 .. m + 2
  <2>1. CASE i = 0 BY <2>1, <1>2, <1>k, <1>t
  <2>2. CASE i = m + 2
    <3>1. ~(i < k) /\ i # k /\ i - 1 = m + 1 BY <2>2, <1>k
    <3> QED BY <3>1, <2>2, <1>2, <1>t
  <2>3. CASE i \in 1 .. m + 1
    <3>1. T(i) = IF i < k THEN s[i] ELSE IF i = k THEN n ELSE s[i - 1]
      BY <2>3, <1>3, <1>t
    <3>2. i < k => i \in 1 .. m BY <2>3, <1>k
    <3>3. ~(i < k) /\ i # k => i - 1 \in 1 .. m BY <2>3, <1>k
    <3> QED BY <3>1, <3>2, <3>3, <1>2
  <2> QED BY <2>1, <2>2, <2>3, <1>k
<1>8. N(k - 1) \in D /\ N(k - 1) # n /\ f[N(k - 1)] = N(k) /\ (N(k - 1) = p \/ N(k - 1) \in ToSet(s))
  BY <1>2, <1>k
<1>6. /\ DOMAIN g = D \cup {n}
      /\ \A x \in D \cup {n} : g[x] = IF x = N(k - 1) THEN n ELSE IF x = n THEN N(k) ELSE f[x]
  <2>1. n # N(k - 1) BY <1>8
  <2> QED BY <2>1, <1>4, <1>8, SMTT(30) DEF PushAfter, With
<1> HIDE DEF g
<1>9. Path(g, p, t, NULL)
  <2>1. ASSUME NEW i \in 0 .. m + 1 PROVE g[T(i)] = T(i + 1)
    <3>1. CASE i < k - 1
      <4>1. T(i) = N(i) /\ T(i + 1) = N(i + 1) /\ i \in 0 .. m /\ i # k - 1
        BY <3>1, <1>k, <1>7
      <4>2. N(i) # N(k - 1) /\ N(i) # n /\ N(i) \in D /\ f[N(i)] = N(i + 1)
        BY <4>1, <1>k, <1>2
      <4> QED BY <4>1, <4>2, <1>6
    <3>2. CASE i = k - 1
      <4>1. T(i) = N(k - 1) /\ T(i + 1) = n BY <3>2, <1>k, <1>7
      <4> QED BY <4>1, <1>6, <1>8
    <3>3. CASE i = k
      <4>1. T(i) = n /\ T(i + 1) = N(k) BY <3>3, <1>k, <1>7
      <4> QED BY <4>1, <1>6, <1>8
    <3>4. CASE i > k
      <4>1. T(i) = N(i - 1) /\ T(i + 1) = N(i) /\ i - 1 \in 0 .. m /\ i - 1 # k - 1 /\ (i - 1) + 1 = i
        BY <3>4, <1>k, <1>7
      <4>2. N(i - 1) # N(k - 1) /\ N(i - 1) # n /\ N(i - 1) \in D /\ f[N(i - 1)] = N(i)
        BY <4>1, <1>k, <1>2
      <4> QED BY <4>1, <4>2, <1>6
    <3> QED BY <3>1, <3>2, <3>3, <3>4, <1>k
  <2> QED BY <2>1, <1>3 DEF Path, T
<1>10. ForOne(H, E, L, p, t)
  <2>1. \A q \in H : n \notin ToSet(L[q]) BY DEF Members
  <2>2. \A q \in H \ {p} : ToSet(s) \cap ToSet(L[q]) = {}
    BY DEF Chains, Parted, s
  <2> QED BY <2>1, <2>2, <1>3, <1>5 DEF ForOne
<1>11. DOMAIN g = Exchanged(D, ToSet(s), ToSet(t))
  BY <1>4, <1>5, <1>6 DEF Exchanged
<1>12. \A x \in D : x = p \/ x \in ToSet(s) \/ g[x] = f[x] BY <1>4, <1>6, <1>8
<1> QED
  <2>1. Chains(H, E, g, [L EXCEPT ![p] = t])
    BY <1>9, <1>10, <1>11, <1>12, ChainsOne DEF D, s
  <2> QED BY <2>1 DEF g, t, s, N

(* Element k leaves: remove, pop_front. *)
LEMMA ChainUnlink ==
  ASSUME NEW H, NEW E, Apart(H, E), NEW f, NEW L, Chains(H, E, f, L), NEW p \in H, NEW k \in DOMAIN L[p]
  PROVE  Chains(H, E, UnlinkAfter(f, Stop(p, L[p], NULL, k - 1)), [L EXCEPT ![p] = RemoveAt(L[p], k)])
<1> DEFINE s == L[p]
           m == Len(s)
           N(i) == Stop(p, s, NULL, i)
           n == s[k]
           t == RemoveAt(s, k)
           T(i) == Stop(p, t, NULL, i)
           D == Members(H, L)
           g == UnlinkAfter(f, N(k - 1))
<1>1. ChainStopsOf(H, E, f, L, p) BY ChainStops
<1>2. /\ s \in Seq(E) /\ m \in Nat /\ DOMAIN s = 1 .. m /\ k \in 1 .. m
      /\ \A i \in 0 .. m : N(i) \in D /\ (N(i) = p \/ N(i) \in ToSet(s))
      /\ \A i, j \in 0 .. m : N(i) = N(j) => i = j
      /\ \A i \in 0 .. m : f[N(i)] = N(i + 1)
      /\ N(0) = p /\ N(m + 1) = NULL /\ \A i \in 1 .. m : N(i) = s[i]
  BY <1>1 DEF ChainStopsOf
<1>3. /\ t \in Seq(E) /\ Len(t) = m - 1 /\ DOMAIN t = 1 .. m - 1
      /\ \A i \in 1 .. m - 1 : t[i] = IF i < k THEN s[i] ELSE s[i + 1]
  <2>1. t \in Seq(E) /\ Len(t) = m - 1
        /\ \A i \in 1 .. m - 1 : t[i] = IF i < k THEN s[i] ELSE s[i + 1]
    <3>1. s \in Seq(E) /\ k \in DOMAIN s BY <1>2
    <3> HIDE DEF s
    <3> QED BY <3>1, RemoveAtIs
  <2> HIDE DEF t
  <2> QED BY <2>1, LenProperties
<1>4. Distinct(s) /\ ToSet(s) \subseteq D /\ n \in ToSet(s) /\ DOMAIN f = D
  <2>1. n \in ToSet(s) BY <1>2 DEF ToSet
  <2> QED BY <2>1 DEF Chains, Parted, Members
<1>5. Distinct(t) /\ ToSet(t) = ToSet(s) \ {n}
  <2>1. k \in DOMAIN s OBVIOUS
  <2> HIDE DEF s
  <2> QED BY <2>1, <1>2, <1>4, RemovedApart
<1> HIDE DEF t, D
<1>7. \A i \in 0 .. m : T(i) = IF i < k THEN N(i) ELSE N(i + 1)
  BY <1>2, <1>3, SMTT(60) DEF Stop
<1>k. k \in Int /\ m \in Nat /\ 1 <= k /\ k <= m /\ k - 1 \in 0 .. m /\ (k - 1) + 1 = k /\ k \in 0 .. m
  BY <1>2
<1>8. /\ n = N(k) /\ N(k - 1) \in D /\ N(k - 1) # n /\ f[N(k - 1)] = n /\ f[n] = N(k + 1)
      /\ (N(k - 1) = p \/ N(k - 1) \in ToSet(s))
  <2>1. n = N(k) BY <1>2
  <2> HIDE DEF n, N, s, m
  <2>2. N(k - 1) # N(k) BY <1>2, <1>k
  <2>3. N(k - 1) \in D /\ f[N(k - 1)] = N(k) /\ f[N(k)] = N(k + 1) /\ (N(k - 1) = p \/ N(k - 1) \in ToSet(s))
    BY <1>2, <1>k
  <2> QED BY <2>1, <2>2, <2>3
<1> HIDE DEF s, N, T, m, n
<1>6. /\ DOMAIN g = D \ {n}
      /\ \A x \in D \ {n} : g[x] = IF x = N(k - 1) THEN N(k + 1) ELSE f[x]
  BY <1>4, <1>8 DEF UnlinkAfter
<1> HIDE DEF g
<1>9. Path(g, p, t, NULL)
  <2>1. ASSUME NEW i \in 0 .. m - 1 PROVE g[T(i)] = T(i + 1)
    <3>0. i \in 0 .. m /\ i + 1 \in 0 .. m BY <1>k
    <3>1. CASE i < k - 1
      <4>1. T(i) = N(i) /\ T(i + 1) = N(i + 1) /\ i # k - 1 /\ i # k
        BY <3>0, <3>1, <1>k, <1>7
      <4>2. N(i) # N(k - 1) /\ N(i) # n /\ N(i) \in D /\ f[N(i)] = N(i + 1)
        BY <4>1, <3>0, <1>k, <1>2, <1>8
      <4> QED BY <4>1, <4>2, <1>6
    <3>2. CASE i = k - 1
      <4>1. T(i) = N(k - 1) /\ T(i + 1) = N(k + 1) BY <3>0, <3>2, <1>k, <1>7
      <4> QED BY <4>1, <1>6, <1>8
    <3>3. CASE i >= k
      <4>1. T(i) = N(i + 1) /\ T(i + 1) = N((i + 1) + 1) /\ i + 1 # k - 1 /\ i + 1 # k
        BY <3>0, <3>3, <1>k, <1>7
      <4>2. N(i + 1) # N(k - 1) /\ N(i + 1) # n /\ N(i + 1) \in D /\ f[N(i + 1)] = N((i + 1) + 1)
        BY <4>1, <3>0, <1>k, <1>2, <1>8
      <4> QED BY <4>1, <4>2, <1>6
    <3> QED BY <3>1, <3>2, <3>3, <1>k
  <2> QED BY <2>1, <1>3 DEF Path, T
<1>10. ForOne(H, E, L, p, t)
  <2>2. \A q \in H \ {p} : ToSet(s) \cap ToSet(L[q]) = {}
    BY DEF Chains, Parted, s
  <2> QED BY <2>2, <1>3, <1>5 DEF ForOne
<1>11. DOMAIN g = Exchanged(D, ToSet(s), ToSet(t))
  BY <1>4, <1>5, <1>6 DEF Exchanged
<1>12. \A x \in D : x = p \/ x \in ToSet(s) \/ g[x] = f[x] BY <1>4, <1>6, <1>8
<1> QED
  <2>1. Chains(H, E, g, [L EXCEPT ![p] = t])
    BY <1>9, <1>10, <1>11, <1>12, ChainsOne DEF D, s
  <2> QED BY <2>1 DEF g, t, s, N

(* clear_and_dispose. *)
LEMMA ChainClear ==
  ASSUME NEW H, NEW E, Apart(H, E), NEW f, NEW L, Chains(H, E, f, L), NEW p \in H,
         NEW g, g = [x \in DOMAIN f \ ToSet(L[p]) |-> IF x = p THEN NULL ELSE f[x]]
  PROVE  Chains(H, E, g, [L EXCEPT ![p] = <<>>])
<1>1. <<>> \in Seq(E) /\ Len(<<>>) = 0 /\ DOMAIN <<>> = {} /\ ToSet(<<>>) = {} /\ Distinct(<<>>)
  BY DEF ToSet, Distinct
<1>2. p \in DOMAIN f /\ p \notin ToSet(L[p]) /\ DOMAIN f = Members(H, L)
  BY DEF Chains, Parted, Members, Apart, ToSet
<1>3. DOMAIN g = Exchanged(Members(H, L), ToSet(L[p]), ToSet(<<>>))
  BY <1>1, <1>2 DEF Exchanged
<1>4. Path(g, p, <<>>, NULL) BY <1>1, <1>2 DEF Path, Stop
<1>5. ForOne(H, E, L, p, <<>>) BY <1>1 DEF ForOne
<1>6. \A x \in Members(H, L) : x = p \/ x \in ToSet(L[p]) \/ g[x] = f[x] BY <1>2
<1> QED BY <1>3, <1>4, <1>5, <1>6, ChainsOne

(* replace of an empty head, and init_self of the one it replaces: the list *)
(* has another head. *)
LEMMA ChainMove ==
  ASSUME NEW H, NEW E, Apart(H, E), NEW f, NEW L, Chains(H, E, f, L), NEW p \in H, NEW q \in H, p # q,
         L[q] = <<>>
  PROVE  Chains(H, E, MoveChain(f, p, q), Both(L, p, <<>>, q, L[p]))
<1> DEFINE s == L[p]
           m == Len(s)
           N(i) == Stop(p, s, NULL, i)
           T(i) == Stop(q, s, NULL, i)
           D == Members(H, L)
           g == MoveChain(f, p, q)
<1>1. ChainStopsOf(H, E, f, L, p) BY ChainStops
<1>2. /\ s \in Seq(E) /\ m \in Nat
      /\ \A i \in 0 .. m : N(i) \in D /\ N(i) # q
      /\ \A i, j \in 0 .. m : N(i) = N(j) => i = j
      /\ \A i \in 0 .. m : f[N(i)] = N(i + 1)
      /\ N(0) = p
  BY <1>1 DEF ChainStopsOf
<1>3. DOMAIN f = D /\ p \in D /\ q \in D /\ ToSet(s) \subseteq D /\ Distinct(s)
  BY DEF Chains, Parted, Members
<1>4. T(0) = q /\ \A i \in 1 .. m + 1 : T(i) = N(i) BY <1>2 DEF Stop
<1>5. DOMAIN g = D /\ \A x \in D : g[x] = IF x = p THEN NULL ELSE IF x = q THEN N(1) ELSE f[x]
  <2>1. f[p] = N(1) BY <1>2
  <2> HIDE DEF D, N
  <2> QED BY <2>1, <1>3 DEF MoveChain, With
<1> HIDE DEF g, D, s, m, N, T
<1>6. Path(g, q, s, NULL)
  <2>1. ASSUME NEW i \in 0 .. m PROVE g[T(i)] = T(i + 1)
    <3>1. CASE i = 0
      <4>1. i + 1 = 1 /\ 1 \in 1 .. m + 1 BY <3>1, <1>2
      <4> QED BY <4>1, <3>1, <1>3, <1>4, <1>5
    <3>2. CASE i # 0
      <4>1. i \in 1 .. m + 1 /\ i + 1 \in 1 .. m + 1 /\ 0 \in 0 .. m
        BY <3>2, <1>2
      <4>2. N(i) # p /\ N(i) # q /\ N(i) \in D /\ f[N(i)] = N(i + 1)
        BY <4>1, <3>2, <1>2
      <4> QED BY <4>1, <4>2, <1>4, <1>5
    <3> QED BY <3>1, <3>2
  <2> QED BY <2>1 DEF Path, T, m
<1>7. Path(g, p, <<>>, NULL) BY <1>3, <1>5 DEF Path, Stop
<1>8. <<>> \in Seq(E) /\ ToSet(<<>>) = {} /\ Distinct(<<>>) /\ ToSet(L[q]) = {}
  BY DEF ToSet, Distinct
<1>9. ForTwo(H, E, L, p, q, <<>>, s)
  <2>1. \A r \in H \ {p, q} : ToSet(s) \cap ToSet(L[r]) = {}
    BY DEF Chains, Parted, s
  <2> QED BY <2>1, <1>2, <1>3, <1>8 DEF ForTwo
<1>10. DOMAIN g = Exchanged(D, ToSet(s) \cup ToSet(L[q]), ToSet(<<>>) \cup ToSet(s))
  BY <1>3, <1>5, <1>8 DEF Exchanged
<1>11. \A x \in D : x \in {p, q} \/ x \in ToSet(s) \cup ToSet(L[q]) \/ g[x] = f[x]
  BY <1>5
<1> QED
  <2>1. Chains(H, E, g, Both(L, p, <<>>, q, s))
    BY <1>6, <1>7, <1>9, <1>10, <1>11, ChainsTwo DEF D, s
  <2> QED BY <2>1 DEF g, s

(* All of another sequence goes before place k. *)
PutAll(E, s, t, k, u) ==
  /\ u \in Seq(E) /\ Len(u) = Len(t) + Len(s)
  /\ \A i \in 1 .. Len(t) + Len(s) :
       u[i] = IF i < k THEN t[i] ELSE IF i < k + Len(s) THEN s[i - k + 1] ELSE t[i - Len(s)]
  /\ Distinct(u) /\ ToSet(u) = ToSet(s) \cup ToSet(t)

LEMMA PutAllIs ==
  ASSUME NEW E, NEW s \in Seq(E), NEW t \in Seq(E), NEW k \in 1 .. Len(t) + 1, Exclusive(s, t)
  PROVE  PutAll(E, s, t, k, Put(t, k, s))
<1> DEFINE m == Len(s)
           u == Put(t, k, s)
<1>1. m \in Nat /\ 1 \in 1 .. m + 1 /\ m + 1 \in 1 .. m + 1 /\ (m + 1) - 1 = m /\ 1 - 1 = 0
  BY LenProperties
<1>2. SubSeq(s, 1, (m + 1) - 1) = s BY <1>1, SubSeqFull
<1>3. Cut(s, 1, m + 1) = <<>>
  <2>1. SubSeq(s, 1, 1 - 1) = <<>>
    <3>1. \A i \in 1 .. 1 - 1 : s[i] \in E OBVIOUS
    <3> QED BY <1>1, SubSeqEmpty
  <2>2. SubSeq(s, m + 1, m) = <<>> BY <1>1, SubSeqEmpty
  <2> QED BY <2>1, <2>2, ConcatEmptySeq DEF Cut
<1>4. Exclusive(<<>>, u) /\ ToSet(<<>>) \cup ToSet(u) = ToSet(s) \cup ToSet(t)
  <2> DEFINE i == 1
             j == m + 1
             a == Cut(s, i, j)
             b == Put(t, k, SubSeq(s, i, j - 1))
  <2>1. i \in 1 .. Len(s) + 1 /\ j \in i .. Len(s) + 1 BY <1>1
  <2>2. a = <<>> /\ b = u BY <1>2, <1>3
  <2> HIDE DEF i, j
  <2>3. Exclusive(a, b) /\ ToSet(a) \cup ToSet(b) = ToSet(s) \cup ToSet(t)
    BY <2>1, CarriedApart
  <2> HIDE DEF a, b, u
  <2> QED BY <2>2, <2>3
<1>5. ToSet(<<>>) = {} BY DEF ToSet
<1>6. u \in Seq(E) /\ Len(u) = Len(t) + m BY Embedded DEF Put
<1>7. \A i \in 1 .. Len(t) + m : u[i] = IF i < k THEN t[i] ELSE IF i < k + m THEN s[i - k + 1] ELSE t[i - m]
  BY Embedded, ZenonT(60) DEF Put
<1> QED BY <1>4, <1>5, <1>6, <1>7 DEF PutAll, Exclusive

(* All of another list goes behind the stop k - 1: push_front of a chain. *)
LEMMA ChainPutAll ==
  ASSUME NEW H, NEW E, Apart(H, E), NEW f, NEW L, Chains(H, E, f, L), NEW p \in H, NEW q \in H, p # q,
         NEW k \in 1 .. Len(L[p]) + 1, L[q] # <<>>
  PROVE  Chains(H, E, With(PushAfter(f, Stop(p, L[p], NULL, k - 1), f[q], Last(L[q])), q, NULL),
                Both(L, q, <<>>, p, Put(L[p], k, L[q])))
<1> DEFINE s == L[q]
           t == L[p]
           m == Len(s)
           n == Len(t)
           Q(i) == Stop(q, s, NULL, i)
           N(i) == Stop(p, t, NULL, i)
           u == Put(t, k, s)
           T(i) == Stop(p, u, NULL, i)
           D == Members(H, L)
           g == With(PushAfter(f, N(k - 1), f[q], Last(s)), q, NULL)
<1>1. ChainStopsOf(H, E, f, L, p) /\ ChainStopsOf(H, E, f, L, q) BY ChainStops
<1>2. /\ t \in Seq(E) /\ n \in Nat /\ k \in 1 .. n + 1
      /\ \A i \in 0 .. n : N(i) \in D /\ (N(i) = p \/ N(i) \in ToSet(t)) /\ N(i) # q /\ N(i) \notin ToSet(s)
      /\ \A i, j \in 0 .. n : N(i) = N(j) => i = j
      /\ \A i \in 0 .. n : f[N(i)] = N(i + 1)
      /\ N(0) = p /\ N(n + 1) = NULL /\ \A i \in 1 .. n : N(i) = t[i]
  BY <1>1 DEF ChainStopsOf
<1>3. /\ s \in Seq(E) /\ m \in Nat /\ DOMAIN s = 1 .. m
      /\ \A i \in 0 .. m : Q(i) \in D /\ (Q(i) = q \/ Q(i) \in ToSet(s))
      /\ \A i, j \in 0 .. m : Q(i) = Q(j) => i = j
      /\ \A i \in 0 .. m : f[Q(i)] = Q(i + 1)
      /\ Q(0) = q /\ \A i \in 1 .. m : Q(i) = s[i]
  BY <1>1 DEF ChainStopsOf
<1>4. m # 0 /\ Last(s) = Q(m) /\ f[q] = Q(1) /\ \A i \in 1 .. m : Q(i) \in ToSet(s)
  <2>1. m # 0 BY <1>3, EmptySeq
  <2>2. Last(s) = s[m] BY DEF Last
  <2>3. \A i \in 1 .. m : s[i] \in ToSet(s) BY <1>3 DEF ToSet
  <2> QED BY <2>1, <2>2, <2>3, <1>3
<1>5. Exclusive(s, t) /\ ToSet(s) \subseteq D /\ ToSet(t) \subseteq D /\ DOMAIN f = D /\ p \in D /\ q \in D
  BY DEF Chains, Parted, Members, Exclusive
<1>6. PutAll(E, s, t, k, u)
  <2>1. s \in Seq(E) /\ t \in Seq(E) /\ k \in 1 .. Len(t) + 1 BY <1>2, <1>3
  <2> HIDE DEF s, t, u
  <2>2. PutAll(E, s, t, k, Put(t, k, s)) BY <2>1, <1>5, PutAllIs
  <2> QED BY <2>2 DEF u
<1> HIDE DEF u, D
<1>7. u \in Seq(E) /\ Len(u) = n + m /\ Distinct(u) /\ ToSet(u) = ToSet(s) \cup ToSet(t)
  BY <1>6 DEF PutAll
<1>8. \A i \in 1 .. n + m : u[i] = IF i < k THEN t[i] ELSE IF i < k + m THEN s[i - k + 1] ELSE t[i - m]
  BY <1>6 DEF PutAll
<1>k. k \in Int /\ n \in Nat /\ m \in Nat /\ m # 0 /\ 1 <= k /\ k <= n + 1 /\ k - 1 \in 0 .. n /\ (k - 1) + 1 = k
  BY <1>2, <1>3, <1>4
<1> HIDE DEF m, n
<1>9. \A i \in 0 .. n + m + 1 : T(i) = IF i < k THEN N(i) ELSE IF i < k + m THEN Q(i - k + 1) ELSE N(i - m)
  <2> TAKE i \in 0 .. n + m + 1
  <2>1. CASE i = 0 BY <2>1, <1>k DEF Stop
  <2>2. CASE i = n + m + 1
    <3>1. i # 0 /\ i > n + m /\ ~(i < k) /\ ~(i < k + m) /\ i - m = n + 1 /\ n + 1 # 0 /\ n + 1 > n
      BY <2>2, <1>k
    <3>2. T(i) = NULL BY <3>1, <1>7 DEF Stop
    <3> QED BY <3>1, <3>2, <1>2
  <2>3. CASE i \in 1 .. n + m
    <3>0. T(i) = u[i] BY <2>3, <1>k, <1>7 DEF Stop
    <3>1. CASE i < k
      <4>1. i \in 1 .. n BY <2>3, <3>1, <1>k
      <4> QED BY <4>1, <2>3, <3>0, <3>1, <1>2, <1>8
    <3>2. CASE ~(i < k) /\ i < k + m
      <4>1. i - k + 1 \in 1 .. m BY <2>3, <3>2, <1>k, SMTT(60)
      <4> QED BY <4>1, <2>3, <3>0, <3>2, <1>3, <1>8
    <3>3. CASE ~(i < k) /\ ~(i < k + m)
      <4>1. i - m \in 1 .. n BY <2>3, <3>3, <1>k, SMTT(60)
      <4> QED BY <4>1, <2>3, <3>0, <3>3, <1>2, <1>8
    <3> QED BY <3>1, <3>2, <3>3
  <2> QED BY <2>1, <2>2, <2>3, <1>k
<1> HIDE DEF s, t, N, Q, T
<1>10. /\ N(k - 1) \in D /\ N(k - 1) # q /\ N(k - 1) \notin ToSet(s) /\ f[N(k - 1)] = N(k)
       /\ (N(k - 1) = p \/ N(k - 1) \in ToSet(t))
  BY <1>2, <1>k
<1>11. Q(m) \in D /\ Q(m) # q /\ Q(m) \in ToSet(s) BY <1>3, <1>4, <1>k
<1>12. /\ DOMAIN g = D
       /\ \A x \in D : g[x] = IF x = q THEN NULL ELSE IF x = N(k - 1) THEN Q(1) ELSE IF x = Q(m) THEN N(k) ELSE f[x]
  <2>1. g = With(With(With(f, Q(m), N(k)), N(k - 1), Q(1)), q, NULL)
    BY <1>4, <1>10 DEF PushAfter
  <2> HIDE DEF g
  <2>2. DOMAIN With(With(With(f, Q(m), N(k)), N(k - 1), Q(1)), q, NULL) = D
    BY <1>5, <1>10, <1>11 DEF With
  <2>3. \A x \in D : With(With(With(f, Q(m), N(k)), N(k - 1), Q(1)), q, NULL)[x]
                       = IF x = q THEN NULL ELSE IF x = N(k - 1) THEN Q(1) ELSE IF x = Q(m) THEN N(k) ELSE f[x]
    BY <1>5, <1>10, <1>11 DEF With
  <2> QED BY <2>1, <2>2, <2>3
<1> HIDE DEF g
<1>13. ASSUME NEW i \in 0 .. n + m PROVE g[T(i)] = T(i + 1)
  <2>0. i \in 0 .. n + m + 1 /\ i + 1 \in 0 .. n + m + 1 BY <1>k
  <2>1. CASE i < k - 1
    <3>1. T(i) = N(i) /\ T(i + 1) = N(i + 1) /\ i \in 0 .. n /\ i # k - 1
      BY <2>0, <2>1, <1>k, <1>9
    <3>2. N(i) # N(k - 1) /\ N(i) # q /\ N(i) # Q(m) /\ N(i) \in D /\ f[N(i)] = N(i + 1)
      BY <3>1, <1>k, <1>2, <1>11
    <3> QED BY <3>1, <3>2, <1>12
  <2>2. CASE i = k - 1
    <3>1. T(i) = N(k - 1) /\ T(i + 1) = Q(1)
      <4>1. i < k /\ ~(i + 1 < k) /\ i + 1 < k + m /\ (i + 1) - k + 1 = 1
        BY <2>2, <1>k
      <4> QED BY <4>1, <2>0, <2>2, <1>9
    <3> QED BY <3>1, <1>10, <1>12
  <2>3. CASE i >= k /\ i < k + m - 1
    <3>1. T(i) = Q(i - k + 1) /\ T(i + 1) = Q((i - k + 1) + 1) /\ i - k + 1 \in 1 .. m /\ i - k + 1 # m
      <4>1. ~(i < k) /\ ~(i + 1 < k) /\ i < k + m /\ i + 1 < k + m /\ (i + 1) - k + 1 = (i - k + 1) + 1
            /\ i - k + 1 \in 1 .. m /\ i - k + 1 # m
        BY <2>3, <1>k
      <4> QED BY <4>1, <2>0, <1>9
    <3> DEFINE x == i - k + 1
    <3>2. x \in 1 .. m /\ x \in 0 .. m /\ m \in 0 .. m /\ 0 \in 0 .. m /\ x # m /\ x # 0
      BY <3>1, <1>k
    <3>3. T(i) = Q(x) /\ T(i + 1) = Q(x + 1) BY <3>1
    <3> HIDE DEF x
    <3>4. Q(x) # q /\ Q(x) # Q(m) /\ Q(x) \in ToSet(s) /\ Q(x) \in D /\ f[Q(x)] = Q(x + 1)
      BY <3>2, <1>3, <1>4
    <3> QED BY <3>3, <3>4, <1>10, <1>12
  <2>4. CASE i = k + m - 1
    <3>1. T(i) = Q(m) /\ T(i + 1) = N(k)
      <4>1. ~(i < k) /\ i < k + m /\ i - k + 1 = m /\ ~(i + 1 < k) /\ ~(i + 1 < k + m) /\ (i + 1) - m = k
        BY <2>4, <1>k
      <4> QED BY <4>1, <2>0, <1>9
    <3> QED BY <3>1, <1>10, <1>11, <1>12
  <2>5. CASE i >= k + m
    <3>1. T(i) = N(i - m) /\ T(i + 1) = N((i - m) + 1) /\ i - m \in 0 .. n /\ i - m # k - 1
      <4>1. ~(i < k) /\ ~(i + 1 < k) /\ ~(i < k + m) /\ ~(i + 1 < k + m) /\ (i + 1) - m = (i - m) + 1
            /\ i - m \in 0 .. n /\ i - m # k - 1
        BY <2>5, <1>k
      <4> QED BY <4>1, <2>0, <1>9
    <3> DEFINE x == i - m
    <3>2. x \in 0 .. n /\ x # k - 1 /\ T(i) = N(x) /\ T(i + 1) = N(x + 1)
      BY <3>1
    <3> HIDE DEF x
    <3>3. N(x) # N(k - 1) /\ N(x) # q /\ N(x) # Q(m) /\ N(x) \in D /\ f[N(x)] = N(x + 1)
      BY <3>2, <1>k, <1>2, <1>11
    <3> QED BY <3>2, <3>3, <1>12
  <2> QED BY <2>1, <2>2, <2>3, <2>4, <2>5, <1>k, SMTT(60)
<1>14. Path(g, p, u, NULL) BY <1>7, <1>13 DEF Path, T
<1>15. Path(g, q, <<>>, NULL) BY <1>5, <1>12 DEF Path, Stop
<1>16. <<>> \in Seq(E) /\ ToSet(<<>>) = {} /\ Distinct(<<>>)
  BY DEF ToSet, Distinct
<1>17. ForTwo(H, E, L, q, p, <<>>, u)
  <2>1. \A r \in H \ {p, q} : (ToSet(s) \cup ToSet(t)) \cap ToSet(L[r]) = {}
    BY DEF Chains, Parted, s, t
  <2> QED BY <2>1, <1>7, <1>16 DEF ForTwo
<1>18. DOMAIN g = Exchanged(D, ToSet(s) \cup ToSet(t), ToSet(<<>>) \cup ToSet(u))
  BY <1>5, <1>7, <1>12, <1>16 DEF Exchanged
<1>19. \A x \in D : x \in {q, p} \/ x \in ToSet(s) \cup ToSet(t) \/ g[x] = f[x]
  BY <1>10, <1>11, <1>12
<1> QED
  <2>1. Chains(H, E, g, Both(L, q, <<>>, p, u))
    BY <1>14, <1>15, <1>17, <1>18, <1>19, ChainsTwo DEF D, s, t
  <2> QED BY <2>1 DEF g, u, s, t, N

(* A forward list, walked, is the sequence it stands for. *)
LEMMA ChainWalked ==
  ASSUME NEW H, NEW E, Apart(H, E), NEW f, NEW L, Chains(H, E, f, L), IsFiniteSet(Members(H, L)),
         NULL \notin E, NEW p \in H
  PROVE  Chain(f, p) = L[p]
<1> DEFINE s == L[p]
<1>1. s \in Seq(E) /\ Distinct(s) /\ Path(f, p, s, NULL) /\ IsFiniteSet(DOMAIN f) /\ DOMAIN f = Members(H, L)
  BY DEF Chains, Parted
<1>2. ToSet(s) \subseteq Members(H, L) BY DEF Members
<1>3. \A i \in DOMAIN s : s[i] # NULL /\ s[i] \in DOMAIN f
  <2>1. \A i \in DOMAIN s : s[i] \in E /\ s[i] \in ToSet(s) BY <1>1 DEF ToSet
  <2> QED BY <2>1, <1>1, <1>2
<1> HIDE DEF s
<1>4. Walk(f, f[p], NULL) = s BY <1>1, <1>3, WalkSees
<1> QED BY <1>4 DEF Chain, s

-----------------------------------------------------------------------------
(* Walks that remove. *)

(* The stop before place k stays when the element at k goes. *)
LEMMA StopBefore ==
  ASSUME NEW E, NEW r \in Seq(E), NEW k \in DOMAIN r, NEW p
  PROVE  Stop(p, RemoveAt(r, k), NULL, k - 1) = Stop(p, r, NULL, k - 1)
<1> DEFINE t == RemoveAt(r, k)
<1>1. Len(r) \in Nat /\ k \in 1 .. Len(r) BY LenProperties
<1>2. Len(t) = Len(r) - 1 /\ \A i \in 1 .. Len(r) - 1 : t[i] = IF i < k THEN r[i] ELSE r[i + 1]
  BY RemoveAtIs
<1> HIDE DEF t
<1>3. CASE k = 1 BY <1>3 DEF Stop
<1>4. CASE k # 1
  <2>1. k - 1 \in 1 .. Len(r) - 1 /\ k - 1 < k /\ k - 1 # 0 /\ ~(k - 1 > Len(t)) /\ ~(k - 1 > Len(r))
    BY <1>1, <1>2, <1>4
  <2>2. t[k - 1] = r[k - 1] BY <2>1, <1>2
  <2>3. Stop(p, t, NULL, k - 1) = t[k - 1] /\ Stop(p, r, NULL, k - 1) = r[k - 1]
    BY <2>1 DEF Stop
  <2> QED BY <2>2, <2>3 DEF t
<1> QED BY <1>3, <1>4

(* The links after each place of a list was passed, where the element was *)
(* kept or unlinked behind the last one that was kept. *)
LEMMA ChainThinned ==
  ASSUME NEW H, NEW E, Apart(H, E), NEW f, NEW L, Chains(H, E, f, L), NEW p \in H, NEW keep,
         NEW G, G[0] = [f |-> f, kept |-> p],
         \A i \in 1 .. Len(L[p]) :
           G[i] = IF i \in keep THEN [f |-> G[i - 1].f, kept |-> L[p][i]]
                  ELSE [f |-> UnlinkAfter(G[i - 1].f, G[i - 1].kept), kept |-> G[i - 1].kept]
  PROVE  Chains(H, E, G[Len(L[p])].f, [L EXCEPT ![p] = Left(L[p], keep)])
<1> DEFINE s == L[p]
           m == Len(s)
<1>1. s \in Seq(E) /\ m \in Nat BY LenProperties DEF Chains, Parted
<1>2. PICK W : /\ Left(s, keep) = W[m] /\ W[0] = <<>>
               /\ \A i \in 1 .. m : W[i] = IF i \in keep THEN Append(W[i - 1], s[i]) ELSE W[i - 1]
               /\ \A i \in 0 .. m : W[i] \in Seq(E)
  <2> HIDE DEF s
  <2> QED BY <1>1, LeftIs, SMTT(60) DEF LeftSteps
<1> DEFINE R(i) == W[i] \o SubSeq(s, i + 1, m)
           M(i) == [L EXCEPT ![p] = R(i)]
           T == {i \in 0 .. m : Chains(H, E, G[i].f, M(i)) /\ G[i].kept = Stop(p, R(i), NULL, Len(W[i]))}
<1>3. 0 \in T
  <2>1. SubSeq(s, 0 + 1, m) = s BY <1>1, SubSeqFull
  <2>2. <<>> \o s = s BY <1>1, ConcatEmptySeq
  <2>3. R(0) = s BY <2>1, <2>2, <1>2
  <2>4. [L EXCEPT ![p] = s] = L BY DEF Chains, Parted
  <2>5. M(0) = L BY <2>3, <2>4
  <2>6. Len(W[0]) = 0 /\ G[0].kept = p /\ G[0].f = f BY <1>2
  <2> HIDE DEF R, M, m
  <2>7. G[0].kept = Stop(p, R(0), NULL, Len(W[0])) BY <2>6 DEF Stop
  <2> QED BY <2>5, <2>6, <2>7, <1>1
<1>4. \A i \in 0 .. m - 1 : i \in T => i + 1 \in T
  <2> TAKE i \in 0 .. m - 1
  <2> HAVE i \in T
  <2> DEFINE k == Len(W[i]) + 1
  <2>1. i + 1 \in 1 .. m /\ (i + 1) - 1 = i /\ i + 1 \in 0 .. m /\ i \in 0 .. m
    <3> HIDE DEF T, m
    <3> QED BY <1>1
  <2>2. W[i] \in Seq(E) /\ W[i + 1] = IF i + 1 \in keep THEN Append(W[i], s[i + 1]) ELSE W[i]
    BY <2>1, <1>2
  <2>k. Len(W[i]) \in Nat /\ k - 1 = Len(W[i])
    BY <2>2, LenProperties
  <2>3. /\ R(i) \in Seq(E) /\ k \in DOMAIN R(i) /\ R(i)[k] = s[i + 1]
        /\ Append(W[i], s[i + 1]) \o SubSeq(s, (i + 1) + 1, m) = R(i)
        /\ W[i] \o SubSeq(s, (i + 1) + 1, m) = RemoveAt(R(i), k)
    <3>1. R(i) = W[i] \o SubSeq(s, i + 1, Len(s)) /\ k = Len(W[i]) + 1 OBVIOUS
    <3> HIDE DEF R, k, s
    <3>2. NextAt(E, W[i], s, i + 1, R(i), k)
      BY <3>1, <2>1, <2>2, <1>1, NextOfRest
    <3> QED BY <3>2 DEF NextAt
  <2>4. Chains(H, E, G[i].f, M(i)) /\ G[i].kept = Stop(p, R(i), NULL, k - 1)
    BY <2>k
  <2>5. CASE i + 1 \in keep
    <3>1. R(i + 1) = R(i) BY <2>2, <2>3, <2>5
    <3>2. G[i + 1] = [f |-> G[i].f, kept |-> s[i + 1]] BY <2>1, <2>5
    <3>3. Len(W[i + 1]) = k
      <4>1. s[i + 1] \in E BY <2>1, <1>1, LenProperties
      <4> QED BY <4>1, <2>2, <2>5, AppendProperties
    <3> HIDE DEF R
    <3>0. k \in Nat /\ k # 0 BY <2>k
    <3> HIDE DEF k
    <3>4. k # 0 /\ ~(k > Len(R(i)))
      <4>1. k \in 1 .. Len(R(i)) /\ Len(R(i)) \in Nat BY <2>3, LenProperties
      <4> QED BY <3>0, <4>1, SMTT(60)
    <3>5. Stop(p, R(i + 1), NULL, Len(W[i + 1])) = s[i + 1]
      BY <3>1, <3>3, <3>4, <2>3 DEF Stop
    <3>6. M(i + 1) = M(i) BY <3>1
    <3> HIDE DEF M
    <3>7. Chains(H, E, G[i + 1].f, M(i + 1)) BY <3>2, <3>6, <2>4
    <3> HIDE DEF m
    <3> QED BY <3>2, <3>5, <3>7, <2>1, SMTT(60)
  <2>6. CASE i + 1 \notin keep
    <3>1. R(i + 1) = RemoveAt(R(i), k) /\ Len(W[i + 1]) = k - 1
      BY <2>2, <2>3, <2>6, <2>k
    <3>2. G[i + 1] = [f |-> UnlinkAfter(G[i].f, G[i].kept), kept |-> G[i].kept]
      BY <2>1, <2>6
    <3> HIDE DEF R, k
    <3>3. Stop(p, R(i + 1), NULL, k - 1) = Stop(p, R(i), NULL, k - 1)
      BY <3>1, <2>3, StopBefore, ZenonT(60)
    <3> DEFINE K == M(i)
    <3>4. Chains(H, E, G[i].f, K) /\ K[p] = R(i) BY <2>4 DEF Chains, Parted
    <3>5. [K EXCEPT ![p] = RemoveAt(R(i), k)] = M(i + 1) BY <3>1
    <3> HIDE DEF K, M
    <3>6. Chains(H, E, UnlinkAfter(G[i].f, Stop(p, K[p], NULL, k - 1)), [K EXCEPT ![p] = RemoveAt(K[p], k)])
      BY <3>4, <2>3, ChainUnlink
    <3>7. Chains(H, E, G[i + 1].f, M(i + 1)) BY <3>2, <3>4, <3>5, <3>6, <2>4
    <3> HIDE DEF m
    <3> QED BY <3>1, <3>2, <3>3, <3>7, <2>1, <2>4, SMTT(60)
  <2> QED BY <2>5, <2>6
<1>5. Chains(H, E, G[m].f, M(m))
  <2> HIDE DEF T, m
  <2>1. 0 .. m \subseteq T BY <1>1, <1>3, <1>4, UpTo
  <2>2. m \in T BY <2>1, <1>1
  <2> QED BY <2>2 DEF T
<1>6. R(m) = W[m]
  <2>1. SubSeq(s, m + 1, m) = <<>> BY <1>1, SubSeqEmpty
  <2>2. m \in 0 .. m /\ W[m] \in Seq(E) BY <1>1, <1>2
  <2> QED BY <2>1, <2>2, ConcatEmptySeq
<1> QED
  <2> HIDE DEF R
  <2>1. Chains(H, E, G[m].f, [L EXCEPT ![p] = W[m]]) BY <1>5, <1>6
  <2> QED BY <2>1, <1>2

(* remove_if of a forward list. *)
LEMMA ChainRemoveAll ==
  ASSUME NEW H, NEW E, Apart(H, E), NEW f, NEW L, Chains(H, E, f, L), IsFiniteSet(Members(H, L)),
         NULL \notin E, NEW p \in H, NEW bad
  PROVE  Chains(H, E, RemoveAllAfter(f, p, bad),
                [L EXCEPT ![p] = Left(L[p], Spared(L[p], bad))])
<1> DEFINE s == L[p]
           m == Len(s)
           keep == {i \in DOMAIN s : s[i] \notin bad}
           Base == [f |-> f, kept |-> p]
           Step(v, i) == IF s[i] \in bad THEN [f |-> UnlinkAfter(v.f, v.kept), kept |-> v.kept]
                         ELSE [f |-> v.f, kept |-> s[i]]
           Body(n, w) == [i \in 0 .. n |-> IF i = 0 THEN Base ELSE Step(w[i - 1], i)]
           W == CHOOSE w : w = Body(m, w)
           S == {n \in 0 .. m : \E w : w = Body(n, w)}
<1>1. m \in Nat /\ DOMAIN s = 1 .. m BY LenProperties DEF Chains, Parted
<1>2. 0 \in S
  <2>1. [i \in 0 .. 0 |-> Base] = Body(0, [i \in 0 .. 0 |-> Base]) OBVIOUS
  <2> HIDE DEF Body, m
  <2> QED BY <2>1, <1>1
<1>3. \A n \in 0 .. m - 1 : n \in S => n + 1 \in S
  <2> TAKE n \in 0 .. m - 1
  <2> HAVE n \in S
  <2> PICK w : w = Body(n, w) OBVIOUS
  <2> DEFINE v == [i \in 0 .. n + 1 |-> IF i <= n THEN w[i] ELSE Step(w[n], n + 1)]
  <2>1. \A i \in 0 .. n : w[i] = IF i = 0 THEN Base ELSE Step(w[i - 1], i)
    <3> HIDE DEF Step, Base
    <3> QED OBVIOUS
  <2>2. n \in Nat /\ n + 1 \in 0 .. m BY <1>1
  <2> HIDE DEF Step, Base, m
  <2>3. v = Body(n + 1, v) BY <2>1, <2>2
  <2> HIDE DEF Body, v
  <2> QED BY <2>2, <2>3
<1>4. W = Body(m, W)
  <2> HIDE DEF S, Body, W, m
  <2>1. 0 .. m \subseteq S BY <1>1, <1>2, <1>3, UpTo
  <2>2. m \in S BY <2>1, <1>1
  <2>3. \E w : w = Body(m, w) BY <2>2 DEF S
  <2> QED BY <2>3 DEF W
<1>5. RemoveAllAfter(f, p, bad) = W[m].f
  <2>1. Chain(f, p) = s BY ChainWalked
  <2> HIDE DEF s
  <2> QED BY <2>1 DEF RemoveAllAfter
<1> HIDE DEF W
<1>6. W[0] = Base /\ \A i \in 1 .. m : W[i] = Step(W[i - 1], i)
  <2>1. \A i \in 0 .. m : W[i] = IF i = 0 THEN Base ELSE Step(W[i - 1], i)
    <3> HIDE DEF Step, Base, m
    <3> QED BY <1>4
  <2> HIDE DEF Step, Base, m
  <2> QED BY <2>1, <1>1
<1>7. \A i \in 1 .. m : W[i] = IF i \in keep THEN [f |-> W[i - 1].f, kept |-> s[i]]
                               ELSE [f |-> UnlinkAfter(W[i - 1].f, W[i - 1].kept), kept |-> W[i - 1].kept]
  <2> TAKE i \in 1 .. m
  <2>1. i \in keep <=> s[i] \notin bad BY <1>1
  <2>2. W[i] = Step(W[i - 1], i) BY <1>6
  <2> HIDE DEF keep, m, s
  <2> QED BY <2>1, <2>2
<1> QED
  <2> HIDE DEF keep
  <2>1. Chains(H, E, W[m].f, [L EXCEPT ![p] = Left(s, keep)])
    BY <1>6, <1>7, ChainThinned
  <2> QED BY <2>1, <1>5 DEF keep, Spared

(* unique of a forward list. *)
LEMMA ChainUnique ==
  ASSUME NEW H, NEW E, Apart(H, E), NEW f, NEW L, Chains(H, E, f, L), IsFiniteSet(Members(H, L)),
         NULL \notin E, NEW p \in H
  PROVE  Chains(H, E, UniqueAfter(f, p),
                [L EXCEPT ![p] = Left(L[p], Changes(L[p]))])
<1> DEFINE s == L[p]
           m == Len(s)
           keep == {i \in DOMAIN s : i = 1 \/ Kind[s[i]] # Kind[s[i - 1]]}
           Base == [f |-> f, kept |-> p]
           Step(v, i) == IF v.kept # p /\ Kind[v.kept] = Kind[s[i]]
                           THEN [f |-> UnlinkAfter(v.f, v.kept), kept |-> v.kept]
                         ELSE [f |-> v.f, kept |-> s[i]]
           Body(n, w) == [i \in 0 .. n |-> IF i = 0 THEN Base ELSE Step(w[i - 1], i)]
           W == CHOOSE w : w = Body(m, w)
           S == {n \in 0 .. m : \E w : w = Body(n, w)}
<1>1. m \in Nat /\ DOMAIN s = 1 .. m /\ \A i \in 1 .. m : s[i] # p
  <2>1. s \in Seq(E) BY DEF Chains, Parted
  <2>2. \A i \in 1 .. m : s[i] \in E BY <2>1, LenProperties
  <2> QED BY <2>1, <2>2, LenProperties DEF Apart
<1>2. 0 \in S
  <2>1. [i \in 0 .. 0 |-> Base] = Body(0, [i \in 0 .. 0 |-> Base]) OBVIOUS
  <2> HIDE DEF Body, m
  <2> QED BY <2>1, <1>1
<1>3. \A n \in 0 .. m - 1 : n \in S => n + 1 \in S
  <2> TAKE n \in 0 .. m - 1
  <2> HAVE n \in S
  <2> PICK w : w = Body(n, w) OBVIOUS
  <2> DEFINE v == [i \in 0 .. n + 1 |-> IF i <= n THEN w[i] ELSE Step(w[n], n + 1)]
  <2>1. \A i \in 0 .. n : w[i] = IF i = 0 THEN Base ELSE Step(w[i - 1], i)
    <3> HIDE DEF Step, Base
    <3> QED OBVIOUS
  <2>2. n \in Nat /\ n + 1 \in 0 .. m BY <1>1
  <2> HIDE DEF Step, Base, m
  <2>3. v = Body(n + 1, v) BY <2>1, <2>2
  <2> HIDE DEF Body, v
  <2> QED BY <2>2, <2>3
<1>4. W = Body(m, W)
  <2> HIDE DEF S, Body, W, m
  <2>1. 0 .. m \subseteq S BY <1>1, <1>2, <1>3, UpTo
  <2>2. m \in S BY <2>1, <1>1
  <2>3. \E w : w = Body(m, w) BY <2>2 DEF S
  <2> QED BY <2>3 DEF W
<1>5. UniqueAfter(f, p) = W[m].f
  <2>1. Chain(f, p) = s BY ChainWalked
  <2> HIDE DEF s
  <2> QED BY <2>1 DEF UniqueAfter
<1> HIDE DEF W
<1>6. W[0] = Base /\ \A i \in 1 .. m : W[i] = Step(W[i - 1], i)
  <2>1. \A i \in 0 .. m : W[i] = IF i = 0 THEN Base ELSE Step(W[i - 1], i)
    <3> HIDE DEF Step, Base, m
    <3> QED BY <1>4
  <2> HIDE DEF Step, Base, m
  <2> QED BY <2>1, <1>1
<1>7. \A i \in 0 .. m : i # 0 => W[i].kept # p /\ Kind[W[i].kept] = Kind[s[i]]
  <2> DEFINE T == {i \in 0 .. m : i # 0 => W[i].kept # p /\ Kind[W[i].kept] = Kind[s[i]]}
  <2> HIDE DEF m, s
  <2>1. 0 \in T BY <1>1
  <2>2. \A i \in 0 .. m - 1 : i \in T => i + 1 \in T
    <3> TAKE i \in 0 .. m - 1
    <3> HAVE i \in T
    <3>1. i + 1 \in 1 .. m /\ (i + 1) - 1 = i /\ i + 1 \in 0 .. m /\ i + 1 # 0
      BY <1>1
    <3>2. W[i + 1] = Step(W[i], i + 1) /\ s[i + 1] # p BY <3>1, <1>1, <1>6
    <3>3. W[i + 1].kept # p /\ Kind[W[i + 1].kept] = Kind[s[i + 1]] BY <3>2
    <3> QED BY <3>1, <3>3
  <2> HIDE DEF T
  <2>3. 0 .. m \subseteq T BY <2>1, <2>2, <1>1, UpTo
  <2> QED BY <2>3 DEF T
<1>8. \A i \in 1 .. m : W[i] = IF i \in keep THEN [f |-> W[i - 1].f, kept |-> s[i]]
                               ELSE [f |-> UnlinkAfter(W[i - 1].f, W[i - 1].kept), kept |-> W[i - 1].kept]
  <2> TAKE i \in 1 .. m
  <2>1. i - 1 \in 0 .. m /\ i \in DOMAIN s /\ (i = 1 <=> i - 1 = 0) BY <1>1
  <2> HIDE DEF m, s
  <2>2. W[i] = Step(W[i - 1], i) BY <1>6
  <2>3. i \in keep <=> ~(W[i - 1].kept # p /\ Kind[W[i - 1].kept] = Kind[s[i]])
    <3>1. CASE i = 1
      <4>1. W[i - 1].kept = p BY <3>1, <1>6
      <4> QED BY <4>1, <3>1, <2>1
    <3>2. CASE i # 1
      <4>1. W[i - 1].kept # p /\ Kind[W[i - 1].kept] = Kind[s[i - 1]]
        BY <3>2, <2>1, <1>7
      <4> QED BY <4>1, <3>2, <2>1
    <3> QED BY <3>1, <3>2
  <2> HIDE DEF keep
  <2> QED BY <2>2, <2>3
<1> QED
  <2> HIDE DEF keep
  <2>1. Chains(H, E, W[m].f, [L EXCEPT ![p] = Left(s, keep)])
    BY <1>6, <1>8, ChainThinned
  <2> QED BY <2>1, <1>5 DEF keep, Changes

-----------------------------------------------------------------------------
(* Heads that take over chains, or that are empty. *)
Reheads(H, f, L, g, M) ==
  /\ \A p \in H : (M[p] = <<>> /\ g[p] = NULL) \/ \E q \in H : M[p] = L[q] /\ g[p] = f[q]
  /\ \A p, q \in H : p # q => ToSet(M[p]) \cap ToSet(M[q]) = {}
  /\ \A x \in Members(H, M) \ H : g[x] = f[x]

LEMMA ChainsRehead ==
  ASSUME NEW H, NEW E, Apart(H, E), NEW f, NEW L, Chains(H, E, f, L), NEW M \in [H -> Seq(E)], NEW g,
         DOMAIN g = Members(H, M), Reheads(H, f, L, g, M)
  PROVE  Chains(H, E, g, M)
<1> USE DEF Reheads
<1>1. ASSUME NEW p \in H PROVE Distinct(M[p]) /\ Path(g, p, M[p], NULL)
  <2>1. CASE M[p] = <<>> /\ g[p] = NULL
    <3>1. \A i \in 0 .. 0 : g[Stop(p, <<>>, NULL, i)] = Stop(p, <<>>, NULL, i + 1)
      BY <2>1 DEF Stop
    <3> QED BY <2>1, <3>1 DEF Path, Distinct
  <2>2. ASSUME NEW q \in H, M[p] = L[q], g[p] = f[q] PROVE Distinct(M[p]) /\ Path(g, p, M[p], NULL)
    <3> DEFINE s == L[q]
    <3>1. ChainStopsOf(H, E, f, L, q) BY ChainStops
    <3>2. Distinct(s) BY DEF Chains, Parted
    <3>3. /\ Len(s) \in Nat /\ DOMAIN s = 1 .. Len(s)
          /\ \A i \in 1 .. Len(s) : Stop(q, s, NULL, i) = s[i] /\ s[i] \notin H
          /\ Stop(q, s, NULL, 0) = q
          /\ \A i \in 0 .. Len(s) : f[Stop(q, s, NULL, i)] = Stop(q, s, NULL, i + 1)
      BY <3>1 DEF ChainStopsOf
    <3>4. \A i \in 1 .. Len(s) + 1 : Stop(p, s, NULL, i) = Stop(q, s, NULL, i)
      BY <3>3 DEF Stop
    <3>5. \A i \in 1 .. Len(s) : s[i] \in Members(H, M) \ H
      BY <2>2, <3>3 DEF Members, ToSet
    <3>6. ASSUME NEW i \in 0 .. Len(s) PROVE g[Stop(p, s, NULL, i)] = Stop(p, s, NULL, i + 1)
      <4>0. i + 1 \in 1 .. Len(s) + 1 BY <3>3
      <4>1. CASE i = 0
        <5>1. Stop(p, s, NULL, i) = p BY <4>1 DEF Stop
        <5>2. f[q] = Stop(q, s, NULL, i + 1) BY <4>1, <3>3
        <5> QED BY <2>2, <3>4, <4>0, <5>1, <5>2
      <4>2. CASE i # 0
        <5>1. i \in 1 .. Len(s) BY <4>2, <3>3
        <5>2. Stop(p, s, NULL, i) = s[i] /\ f[s[i]] = Stop(q, s, NULL, i + 1)
          <6>1. i \in 1 .. Len(s) + 1 BY <5>1, <3>3
          <6> QED BY <5>1, <3>3, <3>4, <6>1
        <5>3. g[s[i]] = f[s[i]] BY <5>1, <3>5
        <5> QED BY <3>4, <4>0, <5>2, <5>3
      <4> QED BY <4>1, <4>2
    <3> QED BY <2>2, <3>2, <3>6 DEF Path
  <2> QED BY <2>1, <2>2
<1> QED BY <1>1 DEF Chains, Parted

-----------------------------------------------------------------------------
Elements == Nodes \cup Chunks
FreeHeads == Arenas \X Classes
Addresses == Chunks \X Nat

(* The rings of lists hold elements, those of pools hold chunks. *)
Sorted(L) == (\A l \in Lists : L[l] \in Seq(Nodes)) /\ (\A p \in Pools : L[p] \in Seq(Chunks))
Owned(h, L) == Rings(Heads, Elements, h, L) /\ Sorted(L)

RingInv == Owned(hook, list)
ForwardInv == Chains(Forwards, Nodes, link, forward)

HeapInv ==
  /\ DOMAIN heap = UNION {ToSet(list[p]) : p \in Pools}
  /\ \A c \in DOMAIN heap : heap[c] \in Nat

(* What arenas hand out next lies in a chunk of theirs, from an aligned *)
(* offset on. *)
Block(a, r, L, hp) ==
  /\ r \in [block : Chunks \cup {NULL}, start : Nat, end : Nat, cache : 0 .. Wrap - 1, rule : Rules]
  /\ r.start <= r.end /\ r.start % Align = 0
  /\ r.block # NULL => r.block \in ToSet(L[a]) /\ r.end <= hp[r.block]
ArenaInv == DOMAIN arena = Arenas /\ \A a \in Arenas : Block(a, arena[a], list, heap)

Placed(o, L, hp) ==
  /\ o \in [pool : Arenas, class : Classes, at : Addresses, free : BOOLEAN]
  /\ o.at[1] \in ToSet(L[o.pool]) /\ o.at[2] % Align = 0
  /\ o.at[2] + o.class <= hp[o.at[1]]
Clear(o, u) == o.at[1] = u.at[1] => o.at[2] + o.class <= u.at[2] \/ u.at[2] + u.class <= o.at[2]
Below(o, r) == r.block = o.at[1] => o.at[2] + o.class <= r.start
ObjectInv ==
  /\ \A o \in objects : Placed(o, list, heap)
  /\ \A o, u \in objects : o # u => Clear(o, u)
  /\ \A o \in objects, a \in Arenas : Below(o, arena[a])

(* The free objects of a class. *)
FreeIn(p, obs) == {o.at : o \in {o \in obs : o.pool = p[1] /\ o.class = p[2] /\ o.free}}
FreeInv ==
  \E F : /\ Chains(FreeHeads, Addresses, freed, F)
         /\ \A p \in FreeHeads : ToSet(F[p]) = FreeIn(p, objects)

Inv == RingInv /\ ForwardInv /\ HeapInv /\ ArenaInv /\ ObjectInv /\ FreeInv

-----------------------------------------------------------------------------
(* Names. *)

LEMMA Names ==
  /\ Apart(Heads, Elements) /\ Apart(Forwards, Nodes) /\ Apart(FreeHeads, Addresses)
  /\ IsFiniteSet(Heads) /\ IsFiniteSet(FreeHeads)
  /\ NULL \notin Addresses /\ NULL \notin Nodes /\ NULL \notin Chunks
<1>1. IsFiniteSet(Heads) BY HookAssumption, FS_Union DEF Heads, Pools
<1>2. IsFiniteSet(FreeHeads)
  BY HookAssumption, ClassAssumption, FS_Product DEF FreeHeads
<1>3. Apart(Heads, Elements) /\ Apart(Forwards, Nodes)
  BY HookAssumption DEF Apart, Heads, Pools, Elements
<1>4. Apart(FreeHeads, Addresses)
  BY HookAssumption DEF Apart, FreeHeads, Addresses
<1>5. NULL \notin Addresses /\ NULL \notin Nodes /\ NULL \notin Chunks
  BY HookAssumption DEF Addresses
<1> QED BY <1>1, <1>2, <1>3, <1>4, <1>5

LEMMA OwnedFinite ==
  ASSUME NEW h, NEW L, Owned(h, L)
  PROVE  IsFiniteSet(Members(Heads, L))
<1>1. Parted(Heads, Elements, L) BY DEF Owned, Rings
<1> QED BY <1>1, Names, FiniteMembers

(* One ring of a kind changes, or two. *)
Suits(p, s) == (p \in Lists /\ s \in Seq(Nodes)) \/ (p \in Pools /\ s \in Seq(Chunks))

LEMMA OwnedOne ==
  ASSUME NEW h, NEW L, Owned(h, L), NEW p \in Heads, NEW s, Suits(p, s), NEW g,
         Rings(Heads, Elements, g, [L EXCEPT ![p] = s])
  PROVE  Owned(g, [L EXCEPT ![p] = s])
<1>1. DOMAIN L = Heads /\ Lists \subseteq Heads /\ Pools \subseteq Heads /\ Lists \cap Pools = {}
  BY HookAssumption DEF Owned, Rings, Parted, Heads, Pools
<1> QED BY <1>1 DEF Owned, Sorted, Suits

LEMMA OwnedTwo ==
  ASSUME NEW h, NEW L, Owned(h, L), NEW p \in Heads, NEW s, Suits(p, s), NEW q \in Heads, NEW t, Suits(q, t),
         NEW g, Rings(Heads, Elements, g, Both(L, p, s, q, t))
  PROVE  Owned(g, Both(L, p, s, q, t))
<1>1. DOMAIN L = Heads /\ Lists \subseteq Heads /\ Pools \subseteq Heads /\ Lists \cap Pools = {}
  BY HookAssumption DEF Owned, Rings, Parted, Heads, Pools
<1> QED BY <1>1 DEF Owned, Sorted, Suits, Both

-----------------------------------------------------------------------------
(* The lists of a user: every operation leaves rings that are the sequences *)
(* it promises, and no pool's ring is touched. *)

ListStep(h, L, g, M) == Owned(g, M) /\ \A p \in Pools : M[p] = L[p]

LEMMA ListOne ==
  ASSUME NEW h, NEW L, Owned(h, L), NEW l \in Lists, NEW s \in Seq(Nodes), NEW g,
         Rings(Heads, Elements, g, [L EXCEPT ![l] = s])
  PROVE  ListStep(h, L, g, [L EXCEPT ![l] = s])
<1>1. l \in Heads /\ Suits(l, s) BY DEF Heads, Suits
<1>2. Owned(g, [L EXCEPT ![l] = s]) BY <1>1, OwnedOne
<1>3. \A p \in Pools : [L EXCEPT ![l] = s][p] = L[p]
  BY HookAssumption DEF Owned, Rings, Parted, Heads, Pools
<1> QED BY <1>2, <1>3 DEF ListStep

LEMMA ListTwo ==
  ASSUME NEW h, NEW L, Owned(h, L), NEW l \in Lists, NEW s \in Seq(Nodes), NEW m \in Lists, NEW t \in Seq(Nodes),
         NEW g, Rings(Heads, Elements, g, Both(L, l, s, m, t))
  PROVE  ListStep(h, L, g, Both(L, l, s, m, t))
<1>1. l \in Heads /\ Suits(l, s) /\ m \in Heads /\ Suits(m, t)
  BY DEF Heads, Suits
<1>2. Owned(g, Both(L, l, s, m, t)) BY <1>1, OwnedTwo
<1>3. \A p \in Pools : Both(L, l, s, m, t)[p] = L[p]
  <2>1. DOMAIN L = Heads /\ Pools \subseteq Heads /\ Lists \cap Pools = {}
    BY HookAssumption DEF Owned, Rings, Parted, Heads, Pools
  <2> HIDE DEF Pools
  <2> QED BY <2>1 DEF Both
<1> QED BY <1>2, <1>3 DEF ListStep

(* What a list or a pool has: its place among the heads, and its sequence. *)
LEMMA OfOwner ==
  ASSUME NEW h, NEW L, Owned(h, L)
  PROVE  /\ \A l \in Lists : l \in Heads /\ L[l] \in Seq(Nodes) /\ L[l] \in Seq(Elements) /\ Len(L[l]) \in Nat
                             /\ DOMAIN L[l] = 1 .. Len(L[l])
         /\ \A p \in Pools : p \in Heads /\ L[p] \in Seq(Chunks) /\ L[p] \in Seq(Elements) /\ Len(L[p]) \in Nat
                             /\ DOMAIN L[p] = 1 .. Len(L[p])
         /\ DOMAIN L = Heads
<1>1. L \in [Heads -> Seq(Elements)] /\ Sorted(L) BY DEF Owned, Rings, Parted
<1>2. \A p \in Heads : Len(L[p]) \in Nat /\ DOMAIN L[p] = 1 .. Len(L[p])
  BY <1>1, LenProperties
<1> QED BY <1>1, <1>2 DEF Sorted, Heads

LEMMA FreshNode ==
  ASSUME NEW h, NEW L, Owned(h, L), NEW n \in Nodes, \A l \in Lists : n \notin ToSet(L[l])
  PROVE  n \notin Members(Heads, L) /\ n \in Elements
<1>1. \A p \in Pools : ToSet(L[p]) \subseteq Chunks
  BY OfOwner, LenProperties DEF ToSet
<1>2. \A p \in Heads : n \notin ToSet(L[p]) BY <1>1, HookAssumption DEF Heads
<1>3. n \notin Heads /\ n \in Elements
  BY HookAssumption DEF Heads, Pools, Elements
<1> QED BY <1>2, <1>3 DEF Members

LEMMA FreshChunk ==
  ASSUME NEW h, NEW L, Owned(h, L), NEW c \in Chunks, \A p \in Pools : c \notin ToSet(L[p])
  PROVE  c \notin Members(Heads, L) /\ c \in Elements
<1>1. \A l \in Lists : ToSet(L[l]) \subseteq Nodes
  BY OfOwner, LenProperties DEF ToSet
<1>2. \A p \in Heads : c \notin ToSet(L[p]) BY <1>1, HookAssumption DEF Heads
<1>3. c \notin Heads /\ c \in Elements
  BY HookAssumption DEF Heads, Pools, Elements
<1> QED BY <1>2, <1>3 DEF Members

(* Both ends of a sequence. *)
LEMMA InsertAtEnds ==
  ASSUME NEW E, NEW s \in Seq(E), NEW n \in E
  PROVE  InsertAt(s, Len(s) + 1, n) = Append(s, n) /\ InsertAt(s, 1, n) = <<n>> \o s
<1>1. Len(s) \in Nat /\ <<n>> \in Seq(E) BY LenProperties
<1>2. SubSeq(s, 1, Len(s)) = s BY SubSeqFull
<1>3. SubSeq(s, Len(s) + 1, Len(s)) = <<>> /\ (Len(s) + 1) - 1 = Len(s)
  BY <1>1, SubSeqEmpty
<1>4. SubSeq(s, 1, 1 - 1) = <<>> BY <1>1, SubSeqEmpty
<1>5. InsertAt(s, Len(s) + 1, n) = s \o <<n>> \o <<>> BY <1>2, <1>3 DEF InsertAt
<1>6. s \o <<n>> \in Seq(E) BY <1>1, ConcatProperties
<1>7. s \o <<n>> \o <<>> = Append(s, n)
  <2>1. s \o <<n>> \o <<>> = s \o <<n>> BY <1>6, ConcatEmptySeq
  <2> QED BY <2>1, AppendIsConcat
<1>8. InsertAt(s, 1, n) = <<>> \o <<n>> \o s BY <1>2, <1>4 DEF InsertAt
<1>9. <<>> \o <<n>> = <<n>> BY <1>1, ConcatEmptySeq
<1> QED BY <1>5, <1>7, <1>8, <1>9

(* push_back in front of a stop: an element before another one, or before *)
(* the head, which is behind the last one. *)
LEMMA LinkedBack ==
  ASSUME NEW h, NEW L, Owned(h, L), NEW p \in Heads, NEW k \in 1 .. Len(L[p]) + 1,
         NEW n \in Elements, n \notin Members(Heads, L)
  PROVE  Rings(Heads, Elements, LinkBack(h, Stop(p, L[p], p, k), n), [L EXCEPT ![p] = InsertAt(L[p], k, n)])
<1>1. Rings(Heads, Elements, h, L) /\ Apart(Heads, Elements) BY Names DEF Owned
<1>2. StopsOf(Heads, Elements, h, L, p) BY <1>1, RingStops
<1>3. h.prev[Stop(p, L[p], p, k)] = Stop(p, L[p], p, k - 1)
  <2>1. k - 1 \in 0 .. Len(L[p]) /\ (k - 1) + 1 = k
    <3>1. Len(L[p]) \in Nat BY <1>2 DEF StopsOf
    <3> QED BY <3>1
  <2> QED BY <2>1, <1>2 DEF StopsOf
<1>4. Rings(Heads, Elements, Insert(h, Stop(p, L[p], p, k - 1), Stop(p, L[p], p, k), n),
            [L EXCEPT ![p] = InsertAt(L[p], k, n)])
  BY <1>1, RingInsert
<1> QED BY <1>3, <1>4 DEF LinkBack

(* push_front. *)
LEMMA LinkedFront ==
  ASSUME NEW h, NEW L, Owned(h, L), NEW p \in Heads, NEW n \in Elements, n \notin Members(Heads, L)
  PROVE  Rings(Heads, Elements, LinkFront(h, p, n), [L EXCEPT ![p] = InsertAt(L[p], 1, n)])
<1>1. Rings(Heads, Elements, h, L) /\ Apart(Heads, Elements) BY Names DEF Owned
<1>2. StopsOf(Heads, Elements, h, L, p) BY <1>1, RingStops
<1>3. Len(L[p]) \in Nat BY <1>2 DEF StopsOf
<1>4. Stop(p, L[p], p, 1 - 1) = p /\ h.next[p] = Stop(p, L[p], p, 1)
  <2>1. 0 \in 0 .. Len(L[p]) /\ 0 + 1 = 1 /\ 1 - 1 = 0 BY <1>3
  <2>2. Stop(p, L[p], p, 0) = p /\ h.next[Stop(p, L[p], p, 0)] = Stop(p, L[p], p, 0 + 1)
    BY <2>1, <1>2 DEF StopsOf
  <2> QED BY <2>1, <2>2
<1>5. 1 \in 1 .. Len(L[p]) + 1 BY <1>3
<1>6. Rings(Heads, Elements, Insert(h, Stop(p, L[p], p, 1 - 1), Stop(p, L[p], p, 1), n),
            [L EXCEPT ![p] = InsertAt(L[p], 1, n)])
  BY <1>1, <1>5, RingInsert
<1> QED BY <1>4, <1>6 DEF LinkFront

LEMMA AtStop ==
  ASSUME RingInv, NEW l \in Lists, NEW i \in 1 .. Len(list[l]) + 1
  PROVE  At(l, i) = Stop(l, list[l], l, i)
<1>1. Len(list[l]) \in Nat BY OfOwner DEF RingInv
<1> QED BY <1>1 DEF At, Stop

LEMMA StepPushes ==
  ASSUME RingInv, NEW l \in Lists, NEW n \in Nodes, Pushes(l, n)
  PROVE  ListStep(hook, list, hook', list')
<1> DEFINE s == list[l]
<1>1. Owned(hook, list) BY DEF RingInv
<1>2. l \in Heads /\ s \in Seq(Nodes) /\ Len(s) \in Nat /\ DOMAIN s = 1 .. Len(s)
  BY <1>1, OfOwner
<1>3. n \in Elements /\ n \notin Members(Heads, list)
  <2>1. \A x \in Lists : n \notin ToSet(list[x]) BY DEF Pushes, Linked
  <2> QED BY <2>1, <1>1, FreshNode
<1>4. ASSUME NEW k \in 1 .. Len(s) + 1,
             Rings(Heads, Elements, hook', [list EXCEPT ![l] = InsertAt(s, k, n)]),
             list' = [list EXCEPT ![l] = InsertAt(s, k, n)]
      PROVE  ListStep(hook, list, hook', list')
  <2>1. InsertAt(s, k, n) \in Seq(Nodes)
    <3>1. k \in 1 .. Len(s) + 1 OBVIOUS
    <3> HIDE DEF s
    <3> QED BY <3>1, <1>2, InsertAtIs
  <2> QED BY <2>1, <1>1, <1>4, ListOne
<1>5. CASE hook' = LinkBack(hook, l, n) /\ Becomes(l, Append(s, n))
  <2>1. Stop(l, s, l, Len(s) + 1) = l /\ Len(s) + 1 \in 1 .. Len(s) + 1
    BY <1>2 DEF Stop
  <2>2. Rings(Heads, Elements, LinkBack(hook, Stop(l, s, l, Len(s) + 1), n),
              [list EXCEPT ![l] = InsertAt(s, Len(s) + 1, n)])
    BY <2>1, <1>1, <1>2, <1>3, LinkedBack
  <2>3. Append(s, n) = InsertAt(s, Len(s) + 1, n) BY <1>2, InsertAtEnds
  <2> QED BY <2>1, <2>2, <2>3, <1>4, <1>5 DEF Becomes
<1>6. CASE hook' = LinkFront(hook, l, n) /\ Becomes(l, <<n>> \o s)
  <2>1. 1 \in 1 .. Len(s) + 1 BY <1>2
  <2>2. Rings(Heads, Elements, LinkFront(hook, l, n), [list EXCEPT ![l] = InsertAt(s, 1, n)])
    BY <1>1, <1>2, <1>3, LinkedFront
  <2>3. <<n>> \o s = InsertAt(s, 1, n) BY <1>2, InsertAtEnds
  <2> QED BY <2>1, <2>2, <2>3, <1>4, <1>6 DEF Becomes
<1>7. ASSUME NEW i \in DOMAIN s, hook' = LinkBack(hook, At(l, i), n), Becomes(l, InsertAt(s, i, n))
      PROVE  ListStep(hook, list, hook', list')
  <2>1. i \in 1 .. Len(s) + 1 BY <1>2
  <2>2. At(l, i) = Stop(l, s, l, i) BY <2>1, AtStop
  <2>3. Rings(Heads, Elements, LinkBack(hook, Stop(l, s, l, i), n), [list EXCEPT ![l] = InsertAt(s, i, n)])
    BY <2>1, <1>1, <1>2, <1>3, LinkedBack
  <2> QED BY <2>1, <2>2, <2>3, <1>4, <1>7 DEF Becomes
<1> QED BY <1>5, <1>6, <1>7 DEF Pushes

LEMMA StepRemoves ==
  ASSUME RingInv, NEW l \in Lists, NEW i \in DOMAIN list[l], Removes(l, i)
  PROVE  ListStep(hook, list, hook', list')
<1>1. Owned(hook, list) /\ Rings(Heads, Elements, hook, list) /\ Apart(Heads, Elements)
  BY Names DEF RingInv, Owned
<1>2. l \in Heads /\ list[l] \in Seq(Nodes) BY <1>1, OfOwner
<1>3. Rings(Heads, Elements, hook', [list EXCEPT ![l] = RemoveAt(list[l], i)])
  BY <1>1, <1>2, RingUnlink DEF Removes
<1>4. RemoveAt(list[l], i) \in Seq(Nodes) BY <1>2, RemoveAtIs
<1> QED BY <1>1, <1>3, <1>4, ListOne DEF Removes, Becomes

(* A range that moves within a sequence leaves a sequence of its elements. *)
LEMMA MovedType ==
  ASSUME NEW E, NEW s \in Seq(E), Distinct(s), NEW i \in 1 .. Len(s) + 1, NEW j \in i .. Len(s) + 1,
         NEW k \in 1 .. Len(s) + 1, k <= i \/ j <= k
  PROVE  Moved(s, i, j, k) \in Seq(E)
<1>1. Moved(s, i, j, k) = IF i = j \/ k = i \/ k = j THEN s
                          ELSE IF k < i THEN Rotated(s, k, i, j) ELSE Rotated(s, i, j, k)
  BY MovedIs
<1>2. Len(s) \in Nat BY LenProperties
<1> HIDE DEF Moved, Rotated
<1>3. CASE i = j \/ k = i \/ k = j BY <1>1, <1>3
<1>4. CASE ~(i = j \/ k = i \/ k = j) /\ k < i
  <2>1. k \in 1 .. Len(s) /\ i \in k + 1 .. Len(s) /\ j \in i + 1 .. Len(s) + 1
    BY <1>2, <1>4
  <2>2. Rotated(s, k, i, j) \in Seq(E) BY <2>1, RotatedIs
  <2> QED BY <1>1, <1>4, <2>2
<1>5. CASE ~(i = j \/ k = i \/ k = j) /\ ~(k < i)
  <2>1. i \in 1 .. Len(s) /\ j \in i + 1 .. Len(s) /\ k \in j + 1 .. Len(s) + 1
    BY <1>2, <1>5
  <2>2. Rotated(s, i, j, k) \in Seq(E) BY <2>1, RotatedIs
  <2> QED BY <1>1, <1>5, <2>2
<1> QED BY <1>3, <1>4, <1>5

LEMMA StepSplices ==
  ASSUME RingInv, NEW l \in Lists, NEW m \in Lists, NEW k \in 1 .. Len(list[m]) + 1,
         NEW i \in 1 .. Len(list[l]) + 1, NEW j \in 1 .. Len(list[l]) + 1, i <= j, Splices(l, i, j, m, k)
  PROVE  ListStep(hook, list, hook', list')
<1> DEFINE s == list[l]
           t == list[m]
<1>1. Owned(hook, list) /\ Rings(Heads, Elements, hook, list) /\ Apart(Heads, Elements)
  BY Names DEF RingInv, Owned
<1>2. l \in Heads /\ s \in Seq(Nodes) /\ m \in Heads /\ t \in Seq(Nodes) /\ Len(s) \in Nat /\ Len(t) \in Nat
  BY <1>1, OfOwner
<1>3. j \in i .. Len(s) + 1 BY <1>2
<1>4. At(m, k) = Stop(m, t, m, k) /\ At(l, i) = Stop(l, s, l, i) /\ At(l, j) = Stop(l, s, l, j)
  BY AtStop
<1>5. hook' = SpliceBefore(hook, Stop(m, t, m, k), Stop(l, s, l, i), Stop(l, s, l, j))
  <2> HIDE DEF SpliceBefore
  <2> QED BY <1>4 DEF Splices
<1>6. CASE l = m
  <2>1. k <= i \/ j <= k BY <1>6 DEF Splices
  <2>2. list' = [list EXCEPT ![l] = Moved(s, i, j, k)]
    BY <1>6 DEF Splices, Moved, Until, From
  <2>3. Rings(Heads, Elements, hook', [list EXCEPT ![l] = Moved(s, i, j, k)])
    BY <1>1, <1>2, <1>3, <1>5, <1>6, <2>1, RingSpliceWithin
  <2>4. Moved(s, i, j, k) \in Seq(Nodes)
    <3>1. Distinct(s) BY <1>1, <1>2 DEF Rings, Parted
    <3>2. k \in 1 .. Len(s) + 1 BY <1>6
    <3> QED BY <1>2, <1>3, <2>1, <3>1, <3>2, MovedType
  <2> QED BY <1>1, <2>2, <2>3, <2>4, ListOne
<1>7. CASE l # m
  <2> DEFINE u == Cut(s, i, j)
             v == Put(t, k, SubSeq(s, i, j - 1))
  <2>1. list' = Both(list, l, u, m, v)
    <3>1. list' = [list EXCEPT ![l] = Until(s, i) \o From(s, j),
                               ![m] = Until(@, k) \o SubSeq(s, i, j - 1) \o From(@, k)]
      BY <1>7 DEF Splices
    <3>2. DOMAIN list = Heads BY <1>1, OfOwner
    <3> QED BY <1>2, <1>7, <3>1, <3>2 DEF Both, Cut, Put, Until, From
  <2>2. Rings(Heads, Elements, hook', Both(list, l, u, m, v))
    <3> HIDE DEF u, v
    <3> QED BY <1>1, <1>2, <1>3, <1>5, <1>7, RingSpliceAcross DEF u, v
  <2>3. u \in Seq(Nodes) /\ v \in Seq(Nodes)
    <3> DEFINE d == j - i
    <3>1. Carried(Nodes, s, t, i, k, d, u, v)
      <4>1. k \in 1 .. Len(t) + 1 /\ i \in 1 .. Len(s) + 1 OBVIOUS
      <4> HIDE DEF s, t
      <4> QED BY <4>1, <1>2, <1>3, CarriedIs
    <3> HIDE DEF d, u, v
    <3> QED BY <3>1 DEF Carried
  <2> HIDE DEF u, v
  <2> QED BY <1>1, <2>1, <2>2, <2>3, ListTwo
<1> QED BY <1>6, <1>7

LEMMA StepSplicesAll ==
  ASSUME RingInv, NEW l \in Lists, NEW m \in Lists, NEW k \in 1 .. Len(list[m]) + 1, SplicesAll(l, m, k)
  PROVE  ListStep(hook, list, hook', list')
<1> DEFINE s == list[l]
           t == list[m]
<1>1. Owned(hook, list) /\ Rings(Heads, Elements, hook, list) /\ Apart(Heads, Elements)
  BY Names DEF RingInv, Owned
<1>2. /\ l \in Heads /\ s \in Seq(Nodes) /\ m \in Heads /\ t \in Seq(Nodes) /\ Len(s) \in Nat /\ Len(t) \in Nat
      /\ DOMAIN list = Heads
  BY <1>1, OfOwner
<1>3. CASE l = m
  <2>1. At(m, k) = l BY <1>2, <1>3 DEF SplicesAll, At
  <2>2. hook' = hook /\ list' = list BY <1>3, <2>1 DEF SplicesAll, SpliceBefore
  <2> QED BY <1>1, <2>2 DEF ListStep
<1>4. CASE l # m
  <2> DEFINE n == Len(s) + 1
             u == Cut(s, 1, n)
             v == Put(t, k, SubSeq(s, 1, n - 1))
  <2>1. At(m, k) = Stop(m, t, m, k) /\ Stop(l, s, l, n) = l /\ hook.next[l] = Stop(l, s, l, 1)
    <3>1. StopsOf(Heads, Elements, hook, list, l) BY <1>1, <1>2, RingStops
    <3>2. 0 \in 0 .. Len(s) /\ 0 + 1 = 1 BY <1>2
    <3>3. Stop(l, s, l, 0) = l /\ hook.next[Stop(l, s, l, 0)] = Stop(l, s, l, 0 + 1)
      BY <3>1, <3>2 DEF StopsOf
    <3>4. Stop(l, s, l, n) = l BY <1>2 DEF Stop
    <3> QED BY <3>2, <3>3, <3>4, AtStop
  <2>2. hook' = SpliceBefore(hook, Stop(m, t, m, k), Stop(l, s, l, 1), Stop(l, s, l, n))
    <3> HIDE DEF n
    <3> QED BY <2>1 DEF SplicesAll
  <2>3. 1 \in 1 .. Len(s) + 1 /\ n \in 1 .. Len(s) + 1 BY <1>2
  <2>4. Rings(Heads, Elements, hook', Both(list, l, u, m, v))
    <3> HIDE DEF n
    <3> QED BY <1>1, <1>2, <1>4, <2>2, <2>3, RingSpliceAcross
  <2>5. u \in Seq(Nodes) /\ v \in Seq(Nodes)
    <3> DEFINE d == n - 1
    <3>1. Carried(Nodes, s, t, 1, k, d, u, v)
      <4> HIDE DEF s, t, n
      <4> QED BY <1>2, <2>3, CarriedIs DEF s, t
    <3> HIDE DEF d, u, v
    <3> QED BY <3>1 DEF Carried
  <2>6. u = <<>> /\ v = Put(t, k, s)
    <3>1. SubSeq(s, 1, 0) = <<>> /\ SubSeq(s, n, Len(s)) = <<>>
      BY <1>2, SubSeqEmpty
    <3>2. <<>> \o <<>> = <<>> OBVIOUS
    <3>3. n - 1 = Len(s) /\ 1 - 1 = 0 BY <1>2
    <3>4. SubSeq(s, 1, Len(s)) = s BY <1>2, SubSeqFull
    <3> QED BY <3>1, <3>2, <3>3, <3>4 DEF Cut
  <2>7. list' = Both(list, l, <<>>, m, Put(t, k, s))
    BY <1>2, <1>4 DEF SplicesAll, Both, Put, Until, From
  <2> HIDE DEF u, v
  <2> QED BY <1>1, <2>4, <2>5, <2>6, <2>7, ListTwo
<1> QED BY <1>3, <1>4

LEMMA StepReplaces ==
  ASSUME RingInv, NEW l \in Lists, Replaces(l)
  PROVE  ListStep(hook, list, hook', list')
<1>1. Owned(hook, list) /\ Rings(Heads, Elements, hook, list) /\ Apart(Heads, Elements)
  BY Names DEF RingInv, Owned
<1>2. l \in Heads /\ list[l] \in Seq(Nodes) /\ DOMAIN list = Heads
  BY <1>1, OfOwner
<1>3. ASSUME NEW i \in DOMAIN list[l], NEW n \in Nodes \ Linked,
             hook' = Forget(Replace(hook, list[l][i], n), {list[l][i]}), Becomes(l, ReplaceAt(list[l], i, n))
      PROVE  ListStep(hook, list, hook', list')
  <2>1. n \notin Members(Heads, list) /\ n \in Elements
    <3>1. \A x \in Lists : n \notin ToSet(list[x]) BY DEF Linked
    <3> QED BY <3>1, <1>1, FreshNode
  <2>2. Rings(Heads, Elements, hook', [list EXCEPT ![l] = ReplaceAt(list[l], i, n)])
    BY <1>1, <1>2, <1>3, <2>1, RingReplace
  <2>3. ReplaceAt(list[l], i, n) \in Seq(Nodes) BY <1>2, ReplaceAtIs
  <2> QED BY <1>1, <1>3, <2>2, <2>3, ListOne DEF Becomes
<1>4. ASSUME NEW m \in Lists \ {l}, list[m] = <<>>, hook' = InitSelf(Replace(hook, l, m), l),
             list' = [list EXCEPT ![l] = <<>>, ![m] = list[l]]
      PROVE  ListStep(hook, list, hook', list')
  <2>1. m \in Heads /\ m # l /\ <<>> \in Seq(Nodes) BY <1>1, OfOwner
  <2>2. Memory(hook, Members(Heads, list)) BY <1>1 DEF Rings
  <2>3. Rings(Heads, Elements, InitSelf(Replace(hook, l, m), l), Both(list, l, <<>>, m, list[l]))
    BY <1>1, <1>2, <1>4, <2>1, <2>2, RingMoveHead
  <2>4. list' = Both(list, l, <<>>, m, list[l]) BY <1>4 DEF Both
  <2>5. ListStep(hook, list, InitSelf(Replace(hook, l, m), l), Both(list, l, <<>>, m, list[l]))
    <3> HIDE <1>4
    <3> QED BY <1>1, <1>2, <2>1, <2>3, ListTwo
  <2> QED BY <1>4, <2>4, <2>5
<1> QED BY <1>3, <1>4 DEF Replaces

LEMMA StepSwaps ==
  ASSUME RingInv, NEW l \in Lists, NEW m \in Lists, Swaps(l, m)
  PROVE  ListStep(hook, list, hook', list')
<1>1. Owned(hook, list) /\ Rings(Heads, Elements, hook, list) /\ Apart(Heads, Elements)
  BY Names DEF RingInv, Owned
<1>2. l \in Heads /\ list[l] \in Seq(Nodes) /\ m \in Heads /\ list[m] \in Seq(Nodes) /\ DOMAIN list = Heads
  BY <1>1, OfOwner
<1>3. Temp \notin Members(Heads, list)
  <2>1. Parted(Heads, Elements, list) BY <1>1 DEF Rings
  <2>2. \A p \in Heads : ToSet(list[p]) \subseteq Elements
    BY <2>1, LenProperties DEF Parted, ToSet
  <2>3. Temp \notin Heads /\ Temp \notin Elements
    BY HookAssumption DEF Heads, Pools, Elements
  <2> QED BY <2>2, <2>3 DEF Members
<1>4. Rings(Heads, Elements, hook', Both(list, m, list[l], l, list[m]))
  BY <1>1, <1>2, <1>3, RingSwap DEF Swaps
<1>5. list' = Both(list, m, list[l], l, list[m]) BY <1>2 DEF Swaps, Both
<1> QED BY <1>1, <1>2, <1>4, <1>5, ListTwo

LEMMA PurgedIs ==
  ASSUME NEW s \in Seq(Nodes), NEW bad
  PROVE  Purged(s, bad) = Left(s, Spared(s, {n \in Nodes : Kind[n] = bad}))
<1>1. DOMAIN s = 1 .. Len(s) /\ \A i \in DOMAIN s : s[i] \in Nodes
  BY LenProperties
<1>2. {i \in DOMAIN s : Kind[s[i]] # bad} = {i \in DOMAIN s : s[i] \notin {n \in Nodes : Kind[n] = bad}}
  BY <1>1
<1> QED BY <1>2 DEF Purged, Spared

LEMMA StepRemovesIf ==
  ASSUME RingInv, NEW l \in Lists, NEW bad, RemovesIf(l, bad)
  PROVE  ListStep(hook, list, hook', list')
<1> DEFINE B == {n \in Nodes : Kind[n] = bad}
           s == list[l]
           t == Left(s, Spared(s, B))
<1>1. Owned(hook, list) /\ Rings(Heads, Elements, hook, list) /\ Apart(Heads, Elements)
      /\ IsFiniteSet(Members(Heads, list))
  BY Names, OwnedFinite DEF RingInv, Owned
<1>2. l \in Heads /\ s \in Seq(Nodes) BY <1>1, OfOwner
<1>3. Purged(s, bad) = t BY <1>2, PurgedIs
<1>4. hook' = RemoveAll(hook, l, B) /\ list' = [list EXCEPT ![l] = t]
  <2> HIDE DEF RemoveAll, Purged, t
  <2> QED BY <1>3 DEF RemovesIf, Becomes
<1>5. Rings(Heads, Elements, hook', [list EXCEPT ![l] = t])
  <2> HIDE DEF B
  <2> QED BY <1>1, <1>2, <1>4, RingRemoveAll
<1>6. t \in Seq(Nodes)
  <2> HIDE DEF s, Left
  <2> QED BY <1>2, LeftType
<1> HIDE DEF t
<1> QED BY <1>1, <1>4, <1>5, <1>6, ListOne

LEMMA StepUniques ==
  ASSUME RingInv, NEW l \in Lists, Uniques(l)
  PROVE  ListStep(hook, list, hook', list')
<1> DEFINE s == list[l]
<1>1. Owned(hook, list) /\ Rings(Heads, Elements, hook, list) /\ Apart(Heads, Elements)
      /\ IsFiniteSet(Members(Heads, list))
  BY Names, OwnedFinite DEF RingInv, Owned
<1>2. l \in Heads /\ s \in Seq(Nodes) BY <1>1, OfOwner
<1>3. Rings(Heads, Elements, UniqueRing(hook, l), [list EXCEPT ![l] = Deduped(s)])
  <2>1. Deduped(s) = Left(s, Changes(s)) BY DEF Deduped, Changes
  <2> QED BY <1>1, <1>2, <2>1, RingUnique
<1>4. Deduped(s) \in Seq(Nodes)
  <2> HIDE DEF s
  <2> QED BY <1>2, LeftType DEF Deduped
<1>5. hook' = UniqueRing(hook, l) /\ list' = [list EXCEPT ![l] = Deduped(s)]
  BY DEF Uniques, Becomes
<1> QED BY <1>1, <1>3, <1>4, <1>5, ListOne

(* clear of a ring sees its sequence. *)
LEMMA Cleared ==
  ASSUME NEW h, NEW L, Owned(h, L), NEW p \in Heads
  PROVE  /\ Walked(h, p) = L[p]
         /\ ClearRing(h, p).h = Forget(InitSelf(h, p), ToSet(L[p]))
         /\ ClearRing(h, p).disposed = L[p]
         /\ Rings(Heads, Elements, ClearRing(h, p).h, [L EXCEPT ![p] = <<>>])
<1>1. Rings(Heads, Elements, h, L) /\ Apart(Heads, Elements) /\ IsFiniteSet(Members(Heads, L))
  BY Names, OwnedFinite DEF Owned
<1>2. Walked(h, p) = L[p] BY <1>1, RingWalked
<1>3. /\ ClearRing(h, p).h = Forget(InitSelf(h, p), ToSet(L[p]))
      /\ ClearRing(h, p).disposed = L[p]
  BY <1>2 DEF ClearRing
<1>4. Rings(Heads, Elements, Forget(InitSelf(h, p), ToSet(L[p])), [L EXCEPT ![p] = <<>>])
  BY <1>1, RingClear
<1> QED BY <1>2, <1>3, <1>4

LEMMA StepClears ==
  ASSUME RingInv, NEW l \in Lists, Clears(l)
  PROVE  ListStep(hook, list, hook', list')
<1>1. Owned(hook, list) BY DEF RingInv
<1>2. l \in Heads /\ <<>> \in Seq(Nodes) BY <1>1, OfOwner
<1>3. Rings(Heads, Elements, hook', [list EXCEPT ![l] = <<>>])
  BY <1>1, <1>2, Cleared DEF Clears
<1> QED BY <1>1, <1>2, <1>3, ListOne DEF Clears, Becomes

LEMMA StepOfList ==
  ASSUME RingInv, NEW l \in Lists, OfList(l)
  PROVE  ListStep(hook, list, hook', list')
  BY StepPushes, StepRemoves, StepSplices, StepSplicesAll, StepSwaps, StepRemovesIf, StepReplaces,
     StepUniques, StepClears DEF OfList

-----------------------------------------------------------------------------
(* The forward lists of a user. *)

LEMMA OfForwardList ==
  ASSUME ForwardInv, NEW l \in Forwards
  PROVE  /\ forward[l] \in Seq(Nodes) /\ Len(forward[l]) \in Nat /\ DOMAIN forward[l] = 1 .. Len(forward[l])
         /\ DOMAIN forward = Forwards
         /\ \A i \in 0 .. Len(forward[l]) : Behind(l, i) = Stop(l, forward[l], NULL, i)
<1>1. forward[l] \in Seq(Nodes) /\ DOMAIN forward = Forwards
  BY DEF ForwardInv, Chains, Parted
<1>2. Len(forward[l]) \in Nat /\ DOMAIN forward[l] = 1 .. Len(forward[l])
  BY <1>1, LenProperties
<1>3. \A i \in 0 .. Len(forward[l]) : Behind(l, i) = Stop(l, forward[l], NULL, i)
  BY <1>2 DEF Behind, Stop
<1> QED BY <1>1, <1>2, <1>3

LEMMA StepPushesAfter ==
  ASSUME ForwardInv, NEW l \in Forwards, NEW i \in 0 .. Len(forward[l]), NEW n \in Nodes, PushesAfter(l, i, n)
  PROVE  ForwardInv'
<1> DEFINE s == forward[l]
           k == i + 1
<1>1. Chains(Forwards, Nodes, link, forward) /\ Apart(Forwards, Nodes)
  BY Names DEF ForwardInv
<1>2. k \in 1 .. Len(s) + 1 /\ k - 1 = i BY OfForwardList
<1>3. Behind(l, i) = Stop(l, s, NULL, k - 1) BY <1>2, OfForwardList
<1>4. n \notin Members(Forwards, forward)
  BY HookAssumption DEF Members, PushesAfter, Chained
<1>5. link' = PushAfter(link, Stop(l, s, NULL, k - 1), n, n) /\ forward' = [forward EXCEPT ![l] = InsertAt(s, k, n)]
  <2> HIDE DEF PushAfter
  <2> QED BY <1>3 DEF PushesAfter, Holds
<1> HIDE DEF k
<1>6. Chains(Forwards, Nodes, PushAfter(link, Stop(l, s, NULL, k - 1), n, n), [forward EXCEPT ![l] = InsertAt(s, k, n)])
  BY <1>1, <1>2, <1>4, ChainInsert
<1> QED BY <1>5, <1>6 DEF ForwardInv

LEMMA StepPushesChain ==
  ASSUME ForwardInv, NEW l \in Forwards, NEW i \in 0 .. Len(forward[l]), NEW m \in Forwards, PushesChain(l, i, m)
  PROVE  ForwardInv'
<1> DEFINE t == forward[l]
           s == forward[m]
           k == i + 1
           u == Put(t, k, s)
           g == With(PushAfter(link, Stop(l, t, NULL, k - 1), link[m], Last(s)), m, NULL)
<1>1. Chains(Forwards, Nodes, link, forward) /\ Apart(Forwards, Nodes) /\ l # m /\ s # <<>>
  BY Names DEF ForwardInv, PushesChain
<1>2. k \in 1 .. Len(t) + 1 /\ k - 1 = i BY OfForwardList
<1>3. Behind(l, i) = Stop(l, t, NULL, k - 1) BY <1>2, OfForwardList
<1>4. link' = g
  <2> HIDE DEF PushAfter, With
  <2> QED BY <1>3 DEF PushesChain
<1>5. forward' = Both(forward, m, <<>>, l, u)
  <2>1. DOMAIN forward = Forwards BY OfForwardList
  <2> QED BY <1>1, <2>1 DEF PushesChain, Both, Put, Until, From
<1> HIDE DEF k
<1>6. Chains(Forwards, Nodes, g, Both(forward, m, <<>>, l, u))
  BY <1>1, <1>2, ChainPutAll
<1> HIDE DEF g, u
<1> QED BY <1>4, <1>5, <1>6 DEF ForwardInv

LEMMA StepRemovesAfter ==
  ASSUME ForwardInv, NEW l \in Forwards, NEW i \in 0 .. Len(forward[l]), i < Len(forward[l]), RemovesAfter(l, i)
  PROVE  ForwardInv'
<1> DEFINE s == forward[l]
           k == i + 1
<1>1. Chains(Forwards, Nodes, link, forward) /\ Apart(Forwards, Nodes)
  BY Names DEF ForwardInv
<1>2. k \in DOMAIN s /\ k - 1 = i BY OfForwardList
<1>3. Behind(l, i) = Stop(l, s, NULL, k - 1) BY <1>2, OfForwardList
<1>4. link' = UnlinkAfter(link, Stop(l, s, NULL, k - 1)) /\ forward' = [forward EXCEPT ![l] = RemoveAt(s, k)]
  <2> HIDE DEF UnlinkAfter
  <2> QED BY <1>3 DEF RemovesAfter, Holds
<1> HIDE DEF k
<1>5. Chains(Forwards, Nodes, UnlinkAfter(link, Stop(l, s, NULL, k - 1)), [forward EXCEPT ![l] = RemoveAt(s, k)])
  BY <1>1, <1>2, ChainUnlink
<1> QED BY <1>4, <1>5 DEF ForwardInv

LEMMA StepMovesChain ==
  ASSUME ForwardInv, NEW l \in Forwards, NEW m \in Forwards, MovesChain(l, m)
  PROVE  ForwardInv'
<1>1. Chains(Forwards, Nodes, link, forward) /\ Apart(Forwards, Nodes) /\ l # m /\ forward[m] = <<>>
  BY Names DEF ForwardInv, MovesChain
<1>2. Chains(Forwards, Nodes, MoveChain(link, l, m), Both(forward, l, <<>>, m, forward[l]))
  BY <1>1, ChainMove
<1>3. link' = MoveChain(link, l, m) /\ forward' = Both(forward, l, <<>>, m, forward[l])
  BY DEF MovesChain, Both
<1> QED BY <1>2, <1>3 DEF ForwardInv

LEMMA StepBulk ==
  ASSUME ForwardInv, NEW l \in Forwards, Bulk(l)
  PROVE  ForwardInv'
<1> DEFINE s == forward[l]
<1>1. Chains(Forwards, Nodes, link, forward) /\ Apart(Forwards, Nodes) /\ NULL \notin Nodes
  BY Names DEF ForwardInv
<1>2. IsFiniteSet(Members(Forwards, forward))
  BY <1>1, HookAssumption, FiniteMembers DEF Chains
<1>3. s \in Seq(Nodes) BY OfForwardList
<1>4. ASSUME NEW bad, link' = RemoveAllAfter(link, l, {n \in Nodes : Kind[n] = bad}), Holds(l, Purged(s, bad))
      PROVE  ForwardInv'
  <2> DEFINE B == {n \in Nodes : Kind[n] = bad}
             t == Left(s, Spared(s, B))
  <2>1. Purged(s, bad) = t BY <1>3, PurgedIs
  <2>2. link' = RemoveAllAfter(link, l, B) /\ forward' = [forward EXCEPT ![l] = t]
    <3> HIDE DEF t
    <3> QED BY <1>4, <2>1 DEF Holds
  <2> HIDE DEF B
  <2>3. Chains(Forwards, Nodes, RemoveAllAfter(link, l, B), [forward EXCEPT ![l] = t])
    BY <1>1, <1>2, ChainRemoveAll
  <2> QED BY <2>2, <2>3 DEF ForwardInv
<1>5. ASSUME link' = UniqueAfter(link, l), Holds(l, Deduped(s))
      PROVE  ForwardInv'
  <2>1. Deduped(s) = Left(s, Changes(s)) BY DEF Deduped, Changes
  <2>2. Chains(Forwards, Nodes, UniqueAfter(link, l), [forward EXCEPT ![l] = Deduped(s)])
    BY <1>1, <1>2, <2>1, ChainUnique
  <2> QED BY <1>5, <2>2 DEF ForwardInv, Holds
<1>6. ASSUME link' = ClearChain(link, l), Holds(l, <<>>)
      PROVE  ForwardInv'
  <2>1. Chain(link, l) = s BY <1>1, <1>2, ChainWalked
  <2>2. link' = [x \in DOMAIN link \ ToSet(s) |-> IF x = l THEN NULL ELSE link[x]]
    BY <1>6, <2>1 DEF ClearChain
  <2>3. Chains(Forwards, Nodes, link', [forward EXCEPT ![l] = <<>>])
    BY <1>1, <2>2, ChainClear
  <2> QED BY <1>6, <2>3 DEF ForwardInv, Holds
<1> QED BY <1>4, <1>5, <1>6 DEF Bulk

LEMMA StepOfForward ==
  ASSUME ForwardInv, NEW l \in Forwards, OfForward(l)
  PROVE  ForwardInv'
  BY StepPushesAfter, StepPushesChain, StepRemovesAfter, StepMovesChain, StepBulk DEF OfForward

-----------------------------------------------------------------------------
(* The chunks of pools. *)

(* A pool whose chunks are as they were. *)
Steady(p) == list'[p] = list[p] /\ \A c \in ToSet(list[p]) : heap'[c] = heap[c]

LEMMA OfPool ==
  ASSUME RingInv
  PROVE  /\ DOMAIN list = Heads
         /\ \A p \in Pools : /\ p \in Heads /\ list[p] \in Seq(Chunks) /\ Len(list[p]) \in Nat
                             /\ DOMAIN list[p] = 1 .. Len(list[p]) /\ ToSet(list[p]) \subseteq Chunks
         /\ \A p, q \in Pools : p # q => ToSet(list[p]) \cap ToSet(list[q]) = {}
<1>1. Owned(hook, list) /\ Parted(Heads, Elements, list)
  BY DEF RingInv, Owned, Rings
<1>2. \A p \in Pools : /\ p \in Heads /\ list[p] \in Seq(Chunks) /\ Len(list[p]) \in Nat
                       /\ DOMAIN list[p] = 1 .. Len(list[p])
  BY <1>1, OfOwner
<1>3. \A p \in Pools : ToSet(list[p]) \subseteq Chunks
  BY <1>2, LenProperties DEF ToSet
<1>4. \A p, q \in Pools : p # q => ToSet(list[p]) \cap ToSet(list[q]) = {}
  BY <1>1, <1>2 DEF Parted
<1>5. DOMAIN list = Heads BY <1>1, OfOwner
<1> QED BY <1>2, <1>3, <1>4, <1>5

LEMMA AppendSet ==
  ASSUME NEW E, NEW s \in Seq(E), NEW e \in E
  PROVE  ToSet(Append(s, e)) = ToSet(s) \cup {e}
<1>1. /\ Len(s) \in Nat /\ Len(Append(s, e)) = Len(s) + 1 /\ DOMAIN s = 1 .. Len(s)
      /\ DOMAIN Append(s, e) = 1 .. Len(s) + 1
      /\ \A i \in 1 .. Len(s) : Append(s, e)[i] = s[i]
      /\ Append(s, e)[Len(s) + 1] = e
  BY AppendProperties, LenProperties
<1> DEFINE t == Append(s, e)
           n == Len(s)
<1> HIDE DEF t
<1>2. ASSUME NEW x \in ToSet(t) PROVE x \in ToSet(s) \cup {e}
  BY <1>1, <1>2 DEF ToSet, t
<1>3. ASSUME NEW x \in ToSet(s) PROVE x \in ToSet(t) BY <1>1, <1>3 DEF ToSet, t
<1>4. e \in ToSet(t) BY <1>1 DEF ToSet, t
<1> QED BY <1>2, <1>3, <1>4 DEF t

(* allocate. *)
LEMMA StepTakesChunk ==
  ASSUME RingInv, HeapInv, NEW p \in Pools, NEW c \in Chunks, NEW n \in Nat, TakesChunk(p, c, n)
  PROVE  /\ RingInv' /\ HeapInv'
         /\ ToSet(list'[p]) = ToSet(list[p]) \cup {c} /\ heap'[c] = n /\ c \notin DOMAIN heap
         /\ \A d \in DOMAIN heap : d # c /\ heap'[d] = heap[d]
         /\ \A q \in Pools \ {p} : list'[q] = list[q]
<1> DEFINE s == list[p]
<1>1. Owned(hook, list) BY DEF RingInv
<1>2. p \in Heads /\ s \in Seq(Chunks) /\ Len(s) \in Nat /\ DOMAIN list = Heads
  BY OfPool
<1>3. c \in Elements /\ c \notin Members(Heads, list)
  <2>1. \A q \in Pools : c \notin ToSet(list[q]) BY DEF HeapInv, TakesChunk
  <2> QED BY <2>1, <1>1, FreshChunk
<1>4. list' = [list EXCEPT ![p] = Append(s, c)] /\ heap' = With(heap, c, n)
  BY DEF TakesChunk
<1>5. RingInv'
  <2>1. Stop(p, s, p, Len(s) + 1) = p /\ Len(s) + 1 \in 1 .. Len(s) + 1
    BY <1>2 DEF Stop
  <2>2. Rings(Heads, Elements, LinkBack(hook, Stop(p, s, p, Len(s) + 1), c),
              [list EXCEPT ![p] = InsertAt(s, Len(s) + 1, c)])
    BY <2>1, <1>1, <1>2, <1>3, LinkedBack
  <2>3. Append(s, c) = InsertAt(s, Len(s) + 1, c) /\ Append(s, c) \in Seq(Chunks)
    <3>1. Append(s, c) \in Seq(Chunks) BY <1>2, AppendProperties
    <3>2. Append(s, c) = InsertAt(s, Len(s) + 1, c) BY <1>2, InsertAtEnds
    <3> QED BY <3>1, <3>2
  <2>4. hook' = LinkBack(hook, p, c) BY DEF TakesChunk
  <2>5. Rings(Heads, Elements, hook', [list EXCEPT ![p] = Append(s, c)])
    BY <2>1, <2>2, <2>3, <2>4
  <2>6. Suits(p, Append(s, c)) BY <2>3 DEF Suits
  <2>7. Owned(hook', [list EXCEPT ![p] = Append(s, c)])
    BY <1>1, <1>2, <2>5, <2>6, OwnedOne
  <2> QED BY <1>4, <2>7 DEF RingInv
<1>6. ToSet(list'[p]) = ToSet(s) \cup {c} /\ \A q \in Pools \ {p} : list'[q] = list[q]
  <2>1. list'[p] = Append(s, c) /\ \A q \in Pools \ {p} : list'[q] = list[q]
    <3>1. \A q \in Pools : q \in Heads BY OfPool
    <3> QED BY <3>1, <1>2, <1>4
  <2> QED BY <2>1, <1>2, AppendSet
<1>7. /\ c \notin DOMAIN heap /\ DOMAIN heap' = DOMAIN heap \cup {c} /\ heap'[c] = n
      /\ \A d \in DOMAIN heap : d # c /\ heap'[d] = heap[d]
  BY <1>4 DEF TakesChunk, With
<1>8. HeapInv'
  <2>1. DOMAIN heap' = UNION {ToSet(list'[q]) : q \in Pools}
    BY <1>6, <1>7 DEF HeapInv
  <2>2. \A d \in DOMAIN heap' : heap'[d] \in Nat BY <1>7 DEF HeapInv
  <2> QED BY <2>1, <2>2 DEF HeapInv
<1> QED BY <1>5, <1>6, <1>7, <1>8

(* The heap when chunks of one pool are freed and no other pool changes. *)
LEMMA HeapWithout ==
  ASSUME RingInv, HeapInv, NEW p \in Pools, NEW gone, gone \subseteq ToSet(list[p]), heap' = Without(gone),
         ToSet(list'[p]) = ToSet(list[p]) \ gone, \A q \in Pools \ {p} : list'[q] = list[q]
  PROVE  HeapInv' /\ \A q \in Pools \ {p} : Steady(q)
<1>1. DOMAIN heap' = DOMAIN heap \ gone /\ \A d \in DOMAIN heap \ gone : heap'[d] = heap[d]
  BY DEF Without
<1>2. \A q \in Pools \ {p} : ToSet(list[q]) \cap gone = {} /\ ToSet(list[q]) \subseteq DOMAIN heap
  BY OfPool, ZenonT(60) DEF HeapInv
<1>3. DOMAIN heap' = UNION {ToSet(list'[q]) : q \in Pools}
  BY <1>1, <1>2 DEF HeapInv
<1>4. \A d \in DOMAIN heap' : heap'[d] \in Nat BY <1>1 DEF HeapInv
<1>5. \A q \in Pools \ {p} : Steady(q) BY <1>1, <1>2 DEF Steady
<1> QED BY <1>3, <1>4, <1>5 DEF HeapInv

(* deallocate. *)
LEMMA StepDeallocates ==
  ASSUME RingInv, HeapInv, NEW c, Deallocates(c)
  PROVE  RingInv' /\ HeapInv' /\ \A a \in Arenas : Steady(a)
<1>0. PICK p \in FreePools : \E i \in DOMAIN list[p] :
        /\ list[p][i] = c /\ hook' = Unlink(hook, c) /\ heap' = Without({c})
        /\ list' = [list EXCEPT ![p] = RemoveAt(list[p], i)]
  BY DEF Deallocates
<1>1. PICK i \in DOMAIN list[p] :
        /\ list[p][i] = c /\ hook' = Unlink(hook, c) /\ heap' = Without({c})
        /\ list' = [list EXCEPT ![p] = RemoveAt(list[p], i)]
  BY <1>0
<1> DEFINE s == list[p]
           t == RemoveAt(s, i)
<1>2. Owned(hook, list) /\ Rings(Heads, Elements, hook, list) /\ Apart(Heads, Elements)
  BY Names DEF RingInv, Owned
<1>3. p \in Pools /\ p \in Heads /\ s \in Seq(Chunks) /\ DOMAIN list = Heads /\ \A q \in Pools : q \in Heads
  <2>1. p \in Pools BY DEF Pools
  <2> QED BY <2>1, OfPool
<1>4. t \in Seq(Chunks)
  <2>1. i \in DOMAIN s OBVIOUS
  <2> HIDE DEF s
  <2> QED BY <1>3, <2>1, RemoveAtIs
<1>5. ToSet(t) = ToSet(s) \ {c}
  <2>1. Distinct(s) BY <1>2, <1>3 DEF Rings, Parted
  <2> QED BY <2>1, <1>1, <1>3, RemovedApart
<1>6. RingInv'
  <2>1. Rings(Heads, Elements, Unlink(hook, s[i]), [list EXCEPT ![p] = t])
    BY <1>2, <1>3, RingUnlink
  <2>2. Suits(p, t) BY <1>3, <1>4 DEF Suits
  <2>3. Owned(Unlink(hook, s[i]), [list EXCEPT ![p] = t])
    BY <1>2, <1>3, <2>1, <2>2, OwnedOne
  <2> QED BY <1>1, <2>3 DEF RingInv
<1>7. list'[p] = t /\ \A q \in Pools \ {p} : list'[q] = list[q]
  <2> HIDE DEF t
  <2> QED BY <1>1, <1>3 DEF t
<1>8. HeapInv' /\ \A q \in Pools \ {p} : Steady(q)
  <2>1. {c} \subseteq ToSet(s) BY <1>1 DEF ToSet
  <2> HIDE DEF t
  <2> QED BY <1>1, <1>3, <1>5, <1>7, <2>1, HeapWithout
<1>9. \A a \in Arenas : a \in Pools \ {p} BY HookAssumption DEF Pools
<1> QED BY <1>6, <1>8, <1>9

(* clear, the destructor. *)
LEMMA StepClearsPool ==
  ASSUME RingInv, HeapInv, NEW p \in Pools, ClearsPool(p)
  PROVE  RingInv' /\ HeapInv' /\ list'[p] = <<>> /\ \A q \in Pools \ {p} : Steady(q)
<1>1. Owned(hook, list) BY DEF RingInv
<1>2. p \in Heads /\ <<>> \in Seq(Chunks) /\ DOMAIN list = Heads /\ \A q \in Pools : q \in Heads
  BY OfPool
<1>3. /\ ClearRing(hook, p).disposed = list[p]
      /\ Rings(Heads, Elements, ClearRing(hook, p).h, [list EXCEPT ![p] = <<>>])
  BY <1>1, <1>2, Cleared
<1>4. hook' = ClearRing(hook, p).h /\ heap' = Without(ToSet(list[p])) /\ list' = [list EXCEPT ![p] = <<>>]
  <2> HIDE DEF ClearRing
  <2> QED BY <1>3 DEF ClearsPool
<1>5. RingInv'
  <2>1. Suits(p, <<>>) BY <1>2 DEF Suits
  <2> QED BY <1>1, <1>2, <1>3, <1>4, <2>1, OwnedOne DEF RingInv
<1>6. list'[p] = <<>> /\ \A q \in Pools \ {p} : list'[q] = list[q] BY <1>2, <1>4
<1>7. ToSet(<<>>) = {} BY DEF ToSet
<1>8. HeapInv' /\ \A q \in Pools \ {p} : Steady(q)
  <2> DEFINE gone == ToSet(list[p])
  <2>1. gone \subseteq ToSet(list[p]) /\ ToSet(list'[p]) = ToSet(list[p]) \ gone /\ heap' = Without(gone)
    BY <1>4, <1>6, <1>7
  <2> HIDE DEF gone
  <2> QED BY <2>1, <1>6, HeapWithout
<1> QED BY <1>5, <1>6, <1>8

(* Move assignment: dispose_nodes leaves the head of the destination with *)
(* links to what it disposed of, and replace stores both of them. *)
LEMMA StepMovesPool ==
  ASSUME RingInv, HeapInv, NEW p \in Pools, NEW q \in Pools, p # q, MovesPool(p, q)
  PROVE  /\ RingInv' /\ HeapInv' /\ list'[p] = list[q] /\ list'[q] = <<>>
         /\ \A c \in ToSet(list[q]) : heap'[c] = heap[c]
         /\ \A r \in Pools \ {p, q} : Steady(r)
<1> DEFINE gone == ToSet(list[p])
           L0 == [list EXCEPT ![p] = <<>>]
           h0 == ClearRing(hook, p).h
           h == Forget(hook, gone)
           M == Both(L0, q, <<>>, p, list[q])
<1>1. Owned(hook, list) /\ Rings(Heads, Elements, hook, list) /\ Apart(Heads, Elements)
  BY Names DEF RingInv, Owned
<1>2. /\ p \in Heads /\ q \in Heads /\ <<>> \in Seq(Chunks) /\ list[q] \in Seq(Chunks) /\ DOMAIN list = Heads
      /\ \A r \in Pools : r \in Heads
  BY OfPool
<1>3. Walked(hook, p) = list[p] /\ h0 = Forget(InitSelf(hook, p), gone) /\ Rings(Heads, Elements, h0, L0)
  BY <1>1, <1>2, Cleared
<1>4. hook' = InitSelf(Replace(h, q, p), q) /\ heap' = Without(gone)
      /\ list' = [list EXCEPT ![p] = list[q], ![q] = <<>>]
  <2> HIDE DEF InitSelf, Replace, Forget
  <2> QED BY <1>3 DEF MovesPool
<1>5. Owned(h0, L0)
  <2>1. Suits(p, <<>>) BY <1>2 DEF Suits
  <2> HIDE DEF h0
  <2> QED BY <1>1, <1>2, <1>3, <2>1, OwnedOne
<1>6. L0[q] = list[q] /\ L0[p] = <<>> BY <1>2
<1>7. Memory(h, Members(Heads, L0)) /\ \A x \in Members(Heads, L0) \ {p} : h.next[x] = h0.next[x] /\ h.prev[x] = h0.prev[x]
  <2> DEFINE D0 == Members(Heads, L0)
             D == Members(Heads, list)
  <2>1. Memory(h0, D0) /\ Memory(hook, D) /\ p \in D
    BY <1>1, <1>2, <1>3 DEF Rings, Members
  <2>2. h0 = [next |-> Minus(With(hook.next, p, p), gone), prev |-> Minus(With(hook.prev, p, p), gone)]
    <3>1. hook = [next |-> hook.next, prev |-> hook.prev] BY <2>1 DEF Memory
    <3>2. InitSelf(hook, p) = [next |-> With(hook.next, p, p), prev |-> With(hook.prev, p, p)]
      BY <3>1, InitSelfIs, ZenonT(60)
    <3>3. Forget(InitSelf(hook, p), gone) = [next |-> Minus(With(hook.next, p, p), gone), prev |-> Minus(With(hook.prev, p, p), gone)]
      BY <3>2, ForgetIs
    <3> QED BY <1>3, <3>3
  <2>3. h = [next |-> Minus(hook.next, gone), prev |-> Minus(hook.prev, gone)]
    BY DEF Forget, Minus
  <2> HIDE DEF h, h0, D, D0, gone, L0
  <2>4. D0 = D \ gone
    <3>1. DOMAIN h0.next = D0 BY <2>1 DEF Memory
    <3>2. DOMAIN h0.next = (DOMAIN hook.next \cup {p}) \ gone
      BY <2>2 DEF Minus, With
    <3>3. DOMAIN hook.next = D BY <2>1 DEF Memory
    <3> QED BY <3>1, <3>2, <3>3, <2>1
  <2>5. Memory(h, D0)
    <3>1. DOMAIN h.next = D0 /\ DOMAIN h.prev = D0
      BY <2>1, <2>3, <2>4 DEF Memory, Minus
    <3>2. IsMap(h.next) /\ IsMap(h.prev) BY <2>3 DEF IsMap, Minus
    <3>3. h = [next |-> h.next, prev |-> h.prev] BY <2>3
    <3> QED BY <3>1, <3>2, <3>3 DEF Memory
  <2>6. ASSUME NEW x \in D0 \ {p} PROVE h.next[x] = h0.next[x] /\ h.prev[x] = h0.prev[x]
    <3>1. x \in DOMAIN hook.next \ gone /\ x \in DOMAIN hook.prev \ gone /\ x # p
      BY <2>1, <2>4 DEF Memory
    <3> QED BY <3>1, <2>2, <2>3 DEF Minus, With
  <2> QED BY <2>5, <2>6 DEF D0
<1>8. Rings(Heads, Elements, hook', M)
  <2> HIDE DEF h, h0, L0
  <2>1. Rings(Heads, Elements, InitSelf(Replace(h, q, p), q), Both(L0, q, <<>>, p, L0[q]))
    BY <1>1, <1>2, <1>3, <1>6, <1>7, RingMoveHead
  <2> QED BY <1>4, <1>6, <2>1
<1>9. list' = M BY <1>2, <1>4 DEF Both
<1>10. RingInv'
  <2>1. Suits(p, list[q]) /\ Suits(q, <<>>) BY <1>2 DEF Suits
  <2> HIDE DEF h0, L0
  <2>2. Owned(hook', M) BY <1>2, <1>5, <1>8, <2>1, OwnedTwo
  <2> QED BY <1>9, <2>2 DEF RingInv
<1>11. list'[p] = list[q] /\ list'[q] = <<>> /\ \A r \in Pools \ {p, q} : list'[r] = list[r]
  BY <1>2, <1>4
<1>12. DOMAIN heap' = DOMAIN heap \ gone /\ \A d \in DOMAIN heap \ gone : heap'[d] = heap[d]
  BY <1>4 DEF Without
<1>13. \A r \in Pools \ {p} : ToSet(list[r]) \cap gone = {} /\ ToSet(list[r]) \subseteq DOMAIN heap
  BY OfPool DEF HeapInv
<1> HIDE DEF gone
<1>14. HeapInv'
  <2>1. DOMAIN heap' = UNION {ToSet(list'[r]) : r \in Pools}
    <3>1. ToSet(<<>>) = {} BY DEF ToSet
    <3>2. DOMAIN heap' = UNION {ToSet(list[r]) : r \in Pools \ {p}}
      BY <1>12, <1>13 DEF HeapInv, gone
    <3>3. UNION {ToSet(list'[r]) : r \in Pools} = UNION {ToSet(list[r]) : r \in Pools \ {p}}
      BY <1>11, <3>1
    <3> QED BY <3>2, <3>3
  <2>2. \A d \in DOMAIN heap' : heap'[d] \in Nat BY <1>12 DEF HeapInv
  <2> QED BY <2>1, <2>2 DEF HeapInv
<1>15. \A c \in ToSet(list[q]) : heap'[c] = heap[c] BY <1>12, <1>13
<1>16. \A r \in Pools \ {p, q} : Steady(r) BY <1>11, <1>12, <1>13 DEF Steady
<1> QED BY <1>10, <1>11, <1>14, <1>15, <1>16

-----------------------------------------------------------------------------
(* Sizes. *)

LEMMA Aligned ==
  ASSUME NEW n \in Nat
  PROVE  /\ AlignDown(n) \in Nat /\ AlignDown(n) <= n /\ AlignDown(n) % Align = 0
         /\ AlignUp(n) \in Nat /\ n <= AlignUp(n) /\ AlignUp(n) <= n + 15 /\ AlignUp(n) % Align = 0
  BY DEF AlignDown, AlignUp, Align

LEMMA AlignedUpTo ==
  ASSUME NEW n \in Nat, NEW m \in Nat, m % Align = 0, n <= m
  PROVE  AlignUp(n) <= m
  BY DEF AlignDown, AlignUp, Align

LEMMA AlignedSum ==
  ASSUME NEW n \in Nat, NEW m \in Nat, n % Align = 0, m % Align = 0
  PROVE  (n + m) % Align = 0
  BY DEF Align

(* The room of a block is no more than it has. *)
LEMMA RoomIs ==
  ASSUME NEW r, r.start \in Nat, r.end \in Nat, r.start <= r.end
  PROVE  Room(r) \in Nat /\ Room(r) <= r.end - r.start /\ Room(r) % Align = 0
<1> DEFINE d == r.end - r.start
           n == d % AddressSpace
<1>1. d \in Nat OBVIOUS
<1> HIDE DEF d
<1>2. n \in Nat /\ n <= d BY <1>1 DEF AddressSpace
<1>3. Room(r) = AlignDown(n) BY DEF Room, d
<1> HIDE DEF n
<1>4. AlignDown(n) \in Nat /\ AlignDown(n) <= n /\ AlignDown(n) % Align = 0
  BY <1>2, Aligned
<1> HIDE DEF AlignDown
<1>5. AlignDown(n) <= d BY <1>1, <1>2, <1>4
<1> QED BY <1>3, <1>4, <1>5 DEF d

LEMMA ExpandedIs ==
  ASSUME NEW cache \in 0 .. Wrap - 1, NEW rule \in Rules
  PROVE  Expanded(cache, rule) \in 0 .. Wrap - 1
<1>1. Wrap \in Nat \ {0} /\ rule \in {"Constant", "Factor1_5", "Factor2"}
  BY SizeAssumption
<1>2. \A n \in Nat : n % Wrap \in 0 .. Wrap - 1 BY <1>1
<1>3. cache + cache \div 2 \in Nat /\ cache + cache \in Nat BY <1>1
<1> QED BY <1>1, <1>2, <1>3 DEF Expanded

(* An object of no more than a quarter of a block fits, rounded up. *)
LEMMA SmallFits ==
  ASSUME NEW n \in Classes, NEW cache \in Nat, n <= cache \div 4
  PROVE  AlignUp(n) <= cache /\ n <= cache
<1>1. n \in Nat /\ n >= 8 BY ClassAssumption DEF Hook
<1>2. n <= AlignUp(n) /\ AlignUp(n) <= n + 15 /\ AlignUp(n) \in Nat
  BY <1>1, Aligned
<1>3. 4 * n <= cache BY <1>1
<1> HIDE DEF AlignUp
<1> QED BY <1>1, <1>2, <1>3

-----------------------------------------------------------------------------
(* The objects. *)

LEMMA SteadyInv ==
  ASSUME RingInv, ArenaInv, ObjectInv, FreeInv, \A a \in Arenas : Steady(a), UNCHANGED <<arena, freed, objects>>
  PROVE  ArenaInv' /\ ObjectInv' /\ FreeInv'
<1>1. ASSUME NEW a \in Arenas PROVE Block(a, arena[a], list', heap')
  <2>1. Block(a, arena[a], list, heap) /\ Steady(a) BY DEF ArenaInv
  <2> QED BY <2>1 DEF Block, Steady
<1>2. ASSUME NEW o \in objects PROVE Placed(o, list', heap')
  <2>1. Placed(o, list, heap) /\ o.pool \in Arenas BY DEF ObjectInv, Placed
  <2> QED BY <2>1 DEF Placed, Steady
<1>3. ArenaInv' BY <1>1 DEF ArenaInv
<1>4. ObjectInv'
  <2>1. \A o \in objects' : Placed(o, list', heap') BY <1>2
  <2>2. \A o, u \in objects' : o # u => Clear(o, u) BY DEF ObjectInv
  <2>3. \A o \in objects', a \in Arenas : Below(o, arena'[a]) BY DEF ObjectInv
  <2> QED BY <2>1, <2>2, <2>3 DEF ObjectInv
<1>5. FreeInv' BY DEF FreeInv
<1> QED BY <1>3, <1>4, <1>5

(* What an object is. *)
LEMMA OfObject ==
  ASSUME RingInv, HeapInv, ObjectInv, NEW o \in objects
  PROVE  /\ o \in [pool : Arenas, class : Classes, at : Addresses, free : BOOLEAN]
         /\ o.pool \in Arenas /\ o.class \in Classes /\ o.at \in Addresses /\ o.at[1] \in Chunks /\ o.at[2] \in Nat
         /\ o.class \in Nat /\ o.class >= 8
         /\ o.at[1] \in ToSet(list[o.pool]) /\ o.at[1] \in DOMAIN heap /\ heap[o.at[1]] \in Nat
<1>1. Placed(o, list, heap) BY DEF ObjectInv
<1>2. o.pool \in Arenas /\ o.class \in Classes /\ o.at \in Addresses
  BY <1>1 DEF Placed
<1>3. o.at[1] \in Chunks /\ o.at[2] \in Nat BY <1>2 DEF Addresses
<1>4. o.class \in Nat /\ o.class >= 8 BY <1>2, ClassAssumption DEF Hook
<1>5. o.at[1] \in DOMAIN heap /\ heap[o.at[1]] \in Nat
  BY <1>1, <1>2 DEF Placed, HeapInv, Pools
<1> QED BY <1>1, <1>2, <1>3, <1>4, <1>5 DEF Placed

(* The address of an object is its own. *)
LEMMA AtUnique ==
  ASSUME RingInv, HeapInv, ObjectInv, NEW o \in objects, NEW u \in objects, o.at = u.at
  PROVE  o = u
<1>1. SUFFICES ASSUME o # u PROVE FALSE OBVIOUS
<1>2. Clear(o, u) BY <1>1 DEF ObjectInv
<1>3. o.at[2] \in Nat /\ o.class \in Nat /\ o.class >= 8 /\ u.class \in Nat /\ u.class >= 8
  BY OfObject
<1> QED BY <1>2, <1>3 DEF Clear

(* What an arena is. *)
LEMMA OfArenaBlock ==
  ASSUME RingInv, HeapInv, ArenaInv, NEW a \in Arenas
  PROVE  /\ arena[a] \in [block : Chunks \cup {NULL}, start : Nat, end : Nat, cache : 0 .. Wrap - 1, rule : Rules]
         /\ arena[a].start \in Nat /\ arena[a].end \in Nat /\ arena[a].start <= arena[a].end
         /\ arena[a].start % Align = 0
         /\ arena[a].cache \in 0 .. Wrap - 1 /\ arena[a].rule \in Rules
         /\ arena[a].block # NULL => /\ arena[a].block \in ToSet(list[a]) /\ arena[a].block \in Chunks
                                     /\ arena[a].block \in DOMAIN heap /\ heap[arena[a].block] \in Nat
                                     /\ arena[a].end <= heap[arena[a].block]
<1>1. Block(a, arena[a], list, heap) BY DEF ArenaInv
<1> DEFINE r == arena[a]
<1>2. /\ r \in [block : Chunks \cup {NULL}, start : Nat, end : Nat, cache : 0 .. Wrap - 1, rule : Rules]
      /\ r.start <= r.end /\ r.start % Align = 0
      /\ r.block # NULL => r.block \in ToSet(list[a]) /\ r.end <= heap[r.block]
  BY <1>1 DEF Block
<1>3. r.block # NULL => r.block \in DOMAIN heap /\ heap[r.block] \in Nat
  BY <1>2 DEF HeapInv, Pools
<1> HIDE DEF r
<1>4. r.start \in Nat /\ r.end \in Nat /\ r.cache \in 0 .. Wrap - 1 /\ r.rule \in Rules /\ r.block \in Chunks \cup {NULL}
  BY <1>2
<1> QED BY <1>2, <1>3, <1>4 DEF r

(* Arenas do not share chunks. *)
LEMMA ChunksApart ==
  ASSUME RingInv, NEW a \in Arenas, NEW b \in Arenas, a # b, NEW c, c \in ToSet(list[a])
  PROVE  c \notin ToSet(list[b])
  BY OfPool DEF Pools

(* An object of a user is given back, or a free one taken again: its bytes *)
(* stay its own. *)
LEMMA Reflagged ==
  ASSUME RingInv, HeapInv, ObjectInv, NEW o \in objects, NEW b \in BOOLEAN,
         objects' = (objects \ {o}) \cup {[o EXCEPT !.free = b]}, UNCHANGED <<list, heap, arena>>
  PROVE  ObjectInv'
<1> DEFINE v == [o EXCEPT !.free = b]
<1>1. o \in [pool : Arenas, class : Classes, at : Addresses, free : BOOLEAN] /\ Placed(o, list, heap)
  BY OfObject DEF ObjectInv
<1>2. v \in [pool : Arenas, class : Classes, at : Addresses, free : BOOLEAN]
      /\ v.pool = o.pool /\ v.class = o.class /\ v.at = o.at
  BY <1>1
<1>3. objects' = (objects \ {o}) \cup {v} OBVIOUS
<1> HIDE DEF v
<1>4. ASSUME NEW u \in objects' PROVE \E w \in objects : u.pool = w.pool /\ u.class = w.class /\ u.at = w.at
                                                          /\ Placed(u, list, heap) /\ (u = v => w = o) /\ (u # v => w = u /\ w # o)
  <2>1. CASE u = v BY <2>1, <1>1, <1>2 DEF Placed
  <2>2. CASE u # v
    <3>1. u \in objects /\ u # o BY <2>2, <1>3
    <3> QED BY <2>2, <3>1 DEF ObjectInv
  <2> QED BY <2>1, <2>2
<1>5. \A u \in objects' : Placed(u, list', heap') BY <1>4
<1>6. ASSUME NEW u \in objects', NEW x \in objects', u # x PROVE Clear(u, x)
  <2>1. PICK w \in objects : u.class = w.class /\ u.at = w.at /\ (u = v => w = o) /\ (u # v => w = u /\ w # o)
    BY <1>4
  <2>2. PICK y \in objects : x.class = y.class /\ x.at = y.at /\ (x = v => y = o) /\ (x # v => y = x /\ y # o)
    BY <1>4
  <2>3. w # y BY <1>6, <2>1, <2>2
  <2>4. Clear(w, y) BY <2>3 DEF ObjectInv
  <2> QED BY <2>1, <2>2, <2>4 DEF Clear
<1>7. ASSUME NEW u \in objects', NEW a \in Arenas PROVE Below(u, arena'[a])
  <2>1. PICK w \in objects : u.class = w.class /\ u.at = w.at BY <1>4
  <2>2. Below(w, arena[a]) BY DEF ObjectInv
  <2> QED BY <2>1, <2>2 DEF Below
<1> QED BY <1>5, <1>6, <1>7 DEF ObjectInv

(* Which addresses are free: those of one class change, or none. *)
LEMMA FreeOne ==
  ASSUME NEW F, NEW obs, \A p \in FreeHeads : ToSet(F[p]) = FreeIn(p, obs), DOMAIN F = FreeHeads,
         NEW q \in FreeHeads, NEW s, NEW new, ToSet(s) = FreeIn(q, new),
         \A p \in FreeHeads \ {q} : FreeIn(p, new) = FreeIn(p, obs)
  PROVE  \A p \in FreeHeads : ToSet([F EXCEPT ![q] = s][p]) = FreeIn(p, new)
  OBVIOUS

(* What the lists of free objects are made of. *)
LEMMA FreeLists ==
  ASSUME FreeInv
  PROVE  \E F : /\ Chains(FreeHeads, Addresses, freed, F) /\ DOMAIN F = FreeHeads
                /\ \A p \in FreeHeads : F[p] \in Seq(Addresses) /\ Distinct(F[p]) /\ ToSet(F[p]) = FreeIn(p, objects)
  BY DEF FreeInv, Chains, Parted

LEMMA StepReuses ==
  ASSUME RingInv, HeapInv, ArenaInv, ObjectInv, FreeInv, NEW a \in Arenas, NEW n \in Classes, Reuses(a, n)
  PROVE  RingInv' /\ HeapInv' /\ ArenaInv' /\ ObjectInv' /\ FreeInv'
<1> DEFINE p == <<a, n>>
           first == freed[p]
<1>1. PICK F : /\ Chains(FreeHeads, Addresses, freed, F) /\ DOMAIN F = FreeHeads
               /\ \A q \in FreeHeads : F[q] \in Seq(Addresses) /\ Distinct(F[q]) /\ ToSet(F[q]) = FreeIn(q, objects)
  BY FreeLists, Zenon
<1>2. p \in FreeHeads /\ first # NULL BY DEF FreeHeads, Reuses
<1>3. Apart(FreeHeads, Addresses) BY Names
<1> DEFINE s == F[p]
<1>4. 1 \in DOMAIN s /\ s[1] = first
  <2>1. ChainStopsOf(FreeHeads, Addresses, freed, F, p)
    BY <1>1, <1>2, <1>3, ChainStops
  <2>2. Len(s) \in Nat /\ DOMAIN s = 1 .. Len(s) BY <2>1 DEF ChainStopsOf
  <2>3. 0 \in 0 .. Len(s) /\ 0 + 1 = 1 BY <2>2
  <2>4. Stop(p, s, NULL, 0) = p /\ freed[Stop(p, s, NULL, 0)] = Stop(p, s, NULL, 0 + 1)
    BY <2>1, <2>3 DEF ChainStopsOf
  <2>5. first = Stop(p, s, NULL, 1) BY <2>3, <2>4
  <2> HIDE DEF s, first
  <2>6. 1 <= Len(s) BY <1>2, <2>2, <2>5 DEF Stop
  <2> QED BY <2>2, <2>5, <2>6 DEF Stop
<1>5. PICK o \in objects : o.pool = a /\ o.class = n /\ o.free /\ o.at = first
  <2>1. first \in ToSet(s) BY <1>4 DEF ToSet
  <2>2. first \in FreeIn(p, objects) BY <1>1, <1>2, <2>1
  <2> QED BY <2>2 DEF FreeIn
<1> DEFINE v == [o EXCEPT !.free = FALSE]
<1>6. objects' = (objects \ {o}) \cup {v}
  <2> DEFINE G(u) == IF u.at = first /\ u.free THEN NewObject(a, n, first) ELSE u
  <2>1. objects' = {G(u) : u \in objects} BY DEF Reuses
  <2>2. \A u \in objects : G(u) = IF u = o THEN v ELSE u
    <3>1. o \in [pool : Arenas, class : Classes, at : Addresses, free : BOOLEAN]
      BY OfObject
    <3>2. G(o) = v
      <4>1. /\ v \in [pool : Arenas, class : Classes, at : Addresses, free : BOOLEAN]
            /\ v.pool = o.pool /\ v.class = o.class /\ v.at = o.at /\ v.free = FALSE
        BY <3>1
      <4> HIDE DEF v
      <4>2. v = [pool |-> v.pool, class |-> v.class, at |-> v.at, free |-> v.free]
        BY <4>1
      <4> HIDE DEF first
      <4> QED BY <1>5, <4>1, <4>2 DEF NewObject
    <3>3. ASSUME NEW u \in objects, u # o PROVE G(u) = u BY <1>5, <3>3, AtUnique
    <3> HIDE DEF G
    <3> QED BY <3>2, <3>3
  <2> HIDE DEF G, v
  <2> QED BY <2>1, <2>2
<1>7. UNCHANGED <<hook, list, heap, arena>> BY DEF Reuses
<1>8. RingInv' /\ HeapInv' /\ ArenaInv' BY <1>7 DEF RingInv, HeapInv, ArenaInv
<1>9. ObjectInv' BY <1>6, <1>7, Reflagged
<1>10. FreeInv'
  <2> DEFINE t == RemoveAt(s, 1)
             M == [F EXCEPT ![p] = t]
  <2>1. Chains(FreeHeads, Addresses, freed', M)
    <3>1. Chains(FreeHeads, Addresses, UnlinkAfter(freed, Stop(p, s, NULL, 1 - 1)), M)
      BY <1>1, <1>2, <1>3, <1>4, ChainUnlink
    <3>2. Stop(p, s, NULL, 1 - 1) = p BY DEF Stop
    <3> HIDE DEF M
    <3> QED BY <3>1, <3>2 DEF Reuses
  <2>2. ToSet(t) = ToSet(s) \ {first}
    <3>1. s \in Seq(Addresses) /\ Distinct(s) BY <1>1, <1>2
    <3> HIDE DEF s
    <3> QED BY <3>1, <1>4, RemovedApart
  <2>3. v.pool = o.pool /\ v.class = o.class /\ v.at = o.at /\ ~v.free
    <3>1. o \in [pool : Arenas, class : Classes, at : Addresses, free : BOOLEAN]
      BY OfObject
    <3> QED BY <3>1
  <2> HIDE DEF t, v
  <2>4. FreeIn(p, objects') = FreeIn(p, objects) \ {first}
    <3>1. \A u \in objects : u.at = first => u = o BY <1>5, AtUnique
    <3> HIDE DEF first
    <3> QED BY <1>5, <1>6, <2>3, <3>1 DEF FreeIn
  <2>5. ASSUME NEW q \in FreeHeads \ {p} PROVE FreeIn(q, objects') = FreeIn(q, objects)
    <3>1. q = <<q[1], q[2]>> BY DEF FreeHeads
    <3>2. ~(o.pool = q[1] /\ o.class = q[2]) BY <1>5, <3>1
    <3> HIDE DEF p
    <3> QED BY <1>6, <2>3, <3>2 DEF FreeIn
  <2>6. ToSet(t) = FreeIn(p, objects') BY <1>1, <1>2, <2>2, <2>4
  <2>7. \A q \in FreeHeads : ToSet(M[q]) = FreeIn(q, objects')
    <3> HIDE DEF p
    <3> QED BY <1>1, <1>2, <2>5, <2>6, FreeOne
  <2> HIDE DEF M
  <2> QED BY <2>1, <2>7 DEF FreeInv
<1> QED BY <1>8, <1>9, <1>10

LEMMA StepReturns ==
  ASSUME RingInv, HeapInv, ArenaInv, ObjectInv, FreeInv, NEW o \in objects, Returns(o)
  PROVE  RingInv' /\ HeapInv' /\ ArenaInv' /\ ObjectInv' /\ FreeInv'
<1> DEFINE p == <<o.pool, o.class>>
           v == [o EXCEPT !.free = TRUE]
           n == o.at
<1>1. PICK F : /\ Chains(FreeHeads, Addresses, freed, F) /\ DOMAIN F = FreeHeads
               /\ \A q \in FreeHeads : F[q] \in Seq(Addresses) /\ Distinct(F[q]) /\ ToSet(F[q]) = FreeIn(q, objects)
  BY FreeLists, Zenon
<1>2. /\ o \in [pool : Arenas, class : Classes, at : Addresses, free : BOOLEAN]
      /\ p \in FreeHeads /\ n \in Addresses
  BY OfObject DEF FreeHeads
<1>3. Apart(FreeHeads, Addresses) BY Names
<1>4. v.pool = o.pool /\ v.class = o.class /\ v.at = o.at /\ v.free BY <1>2
<1>5. objects' = (objects \ {o}) \cup {v} /\ ~o.free /\ UNCHANGED <<hook, list, heap, arena>>
      /\ freed' = PushAfter(freed, p, n, n)
  BY DEF Returns
<1>6. RingInv' /\ HeapInv' /\ ArenaInv' BY <1>5 DEF RingInv, HeapInv, ArenaInv
<1>7. ObjectInv' BY <1>5, Reflagged
<1>8. \A q \in FreeHeads : n \notin FreeIn(q, objects)
  BY <1>5, AtUnique DEF FreeIn
<1> DEFINE s == F[p]
           t == InsertAt(s, 1, n)
           M == [F EXCEPT ![p] = t]
<1>9. s \in Seq(Addresses) /\ Distinct(s) /\ ToSet(s) = FreeIn(p, objects) /\ 1 \in 1 .. Len(s) + 1
  <2>1. s \in Seq(Addresses) /\ Distinct(s) /\ ToSet(s) = FreeIn(p, objects)
    BY <1>1, <1>2
  <2>2. Len(s) \in Nat BY <2>1, LenProperties
  <2> QED BY <2>1, <2>2
<1>10. Chains(FreeHeads, Addresses, freed', M)
  <2>1. n \notin Members(FreeHeads, F)
    BY <1>1, <1>2, <1>3, <1>8 DEF Members, Apart
  <2>2. Chains(FreeHeads, Addresses, PushAfter(freed, Stop(p, s, NULL, 1 - 1), n, n), M)
    <3> HIDE DEF p, n
    <3> QED BY <1>1, <1>2, <1>3, <1>9, <2>1, ChainInsert
  <2>3. Stop(p, s, NULL, 1 - 1) = p BY DEF Stop
  <2> HIDE DEF M, p, n, PushAfter
  <2> QED BY <1>5, <2>2, <2>3
<1>11. ToSet(t) = ToSet(s) \cup {n}
  <2>1. n \notin ToSet(s) BY <1>2, <1>8, <1>9
  <2> HIDE DEF s, n
  <2> QED BY <1>2, <1>9, <2>1, InsertedApart
<1> HIDE DEF t, v
<1>12. FreeIn(p, objects') = FreeIn(p, objects) \cup {n}
  BY <1>4, <1>5 DEF FreeIn
<1>13. ASSUME NEW q \in FreeHeads \ {p} PROVE FreeIn(q, objects') = FreeIn(q, objects)
  <2>1. q = <<q[1], q[2]>> BY DEF FreeHeads
  <2>2. ~(o.pool = q[1] /\ o.class = q[2]) BY <2>1
  <2> HIDE DEF p
  <2> QED BY <1>4, <1>5, <2>2 DEF FreeIn
<1>14. ToSet(t) = FreeIn(p, objects') BY <1>9, <1>11, <1>12
<1>15. \A q \in FreeHeads : ToSet(M[q]) = FreeIn(q, objects')
  <2> HIDE DEF p
  <2> QED BY <1>1, <1>2, <1>13, <1>14, FreeOne
<1>16. FreeInv'
  <2> HIDE DEF M
  <2> QED BY <1>10, <1>15 DEF FreeInv
<1> QED BY <1>6, <1>7, <1>16

(* A new object that is in use changes no free list. *)
LEMMA FreeAsBefore ==
  ASSUME FreeInv, NEW v, ~v.free, objects' = objects \cup {v}, freed' = freed
  PROVE  FreeInv'
<1>1. \A p : FreeIn(p, objects') = FreeIn(p, objects) BY DEF FreeIn
<1> QED BY <1>1 DEF FreeInv

(* A new object that lies apart from the others, and below what its arena *)
(* is still to hand out. *)
LEMMA ObjectAdded ==
  ASSUME ObjectInv, NEW v, objects' = objects \cup {v}, Placed(v, list', heap'),
         \A o \in objects : Placed(o, list', heap') /\ (o # v => Clear(o, v) /\ Clear(v, o)),
         \A o \in objects, a \in Arenas : Below(o, arena'[a]),
         \A a \in Arenas : Below(v, arena'[a])
  PROVE  ObjectInv'
<1>1. \A o \in objects' : Placed(o, list', heap') OBVIOUS
<1>2. \A o, u \in objects' : o # u => Clear(o, u) BY DEF ObjectInv
<1>3. \A o \in objects', a \in Arenas : Below(o, arena'[a]) OBVIOUS
<1> QED BY <1>1, <1>2, <1>3 DEF ObjectInv

LEMMA NewObjectIs ==
  ASSUME NEW a \in Arenas, NEW n \in Classes, NEW at \in Addresses
  PROVE  LET v == NewObject(a, n, at)
         IN  /\ v \in [pool : Arenas, class : Classes, at : Addresses, free : BOOLEAN]
             /\ v.pool = a /\ v.class = n /\ v.at = at /\ ~v.free
  BY DEF NewObject

LEMMA StepBumps ==
  ASSUME RingInv, HeapInv, ArenaInv, ObjectInv, FreeInv, NEW a \in Arenas, NEW n \in Classes, Bumps(a, n)
  PROVE  RingInv' /\ HeapInv' /\ ArenaInv' /\ ObjectInv' /\ FreeInv'
<1> DEFINE r == arena[a]
           r2 == [r EXCEPT !.start = @ + AlignUp(n)]
           at == <<r.block, r.start>>
           v == NewObject(a, n, at)
<1>1. /\ Fits(r, n) /\ arena' = [arena EXCEPT ![a] = r2] /\ objects' = objects \cup {v}
      /\ UNCHANGED <<hook, list, heap, freed>>
  BY DEF Bumps
<1>2. /\ r \in [block : Chunks \cup {NULL}, start : Nat, end : Nat, cache : 0 .. Wrap - 1, rule : Rules]
      /\ r.start \in Nat /\ r.end \in Nat /\ r.start <= r.end /\ r.start % Align = 0
      /\ r.block \in ToSet(list[a]) /\ r.block \in Chunks /\ heap[r.block] \in Nat /\ r.end <= heap[r.block]
  BY <1>1, OfArenaBlock DEF Fits
<1>3. n \in Nat /\ AlignUp(n) \in Nat /\ n <= AlignUp(n) /\ AlignUp(n) % Align = 0
  BY ClassAssumption, Aligned
<1>4. r.start + AlignUp(n) <= r.end
  <2>1. Room(r) \in Nat /\ Room(r) <= r.end - r.start /\ Room(r) % Align = 0
    BY <1>2, RoomIs
  <2>2. AlignUp(n) <= Room(r) BY <1>1, <1>3, <2>1, AlignedUpTo DEF Fits
  <2> HIDE DEF AlignUp, Room, r
  <2> QED BY <1>2, <1>3, <2>1, <2>2
<1>5. (r.start + AlignUp(n)) % Align = 0
  <2> HIDE DEF AlignUp, r
  <2> QED BY <1>2, <1>3, AlignedSum
<1>6. /\ r2 \in [block : Chunks \cup {NULL}, start : Nat, end : Nat, cache : 0 .. Wrap - 1, rule : Rules]
      /\ r2.block = r.block /\ r2.start = r.start + AlignUp(n) /\ r2.end = r.end
  <2> HIDE DEF AlignUp, r
  <2> QED BY <1>2, <1>3
<1>7. at \in Addresses /\ at[1] = r.block /\ at[2] = r.start
  BY <1>2 DEF Addresses
<1>8. /\ v \in [pool : Arenas, class : Classes, at : Addresses, free : BOOLEAN]
      /\ v.pool = a /\ v.class = n /\ v.at = at /\ ~v.free
  BY <1>7, NewObjectIs
<1>9. arena' = [arena EXCEPT ![a] = r2] /\ DOMAIN arena = Arenas
  BY <1>1 DEF ArenaInv
<1>10. arena'[a] = r2 /\ \A b \in Arenas \ {a} : arena'[b] = arena[b] BY <1>9
<1> HIDE DEF r2, at, v
<1>11. RingInv' /\ HeapInv' BY <1>1 DEF RingInv, HeapInv
<1>12. ArenaInv'
  <2>1. Block(a, r2, list, heap) BY <1>2, <1>4, <1>5, <1>6 DEF Block
  <2>2. \A b \in Arenas : Block(b, arena'[b], list', heap')
    BY <1>1, <1>10, <2>1 DEF ArenaInv
  <2> QED BY <1>9, <2>2 DEF ArenaInv
<1>13. Placed(v, list, heap) BY <1>2, <1>3, <1>4, <1>7, <1>8 DEF Placed
<1>14. ASSUME NEW o \in objects PROVE Clear(o, v) /\ Clear(v, o) /\ Below(o, r2)
  <2>1. Below(o, r) BY DEF ObjectInv
  <2>2. o.at[2] \in Nat /\ o.class \in Nat BY OfObject
  <2> QED BY <1>2, <1>3, <1>6, <1>7, <1>8, <2>1, <2>2 DEF Below, Clear
<1>15. \A o \in objects, b \in Arenas : Below(o, arena'[b])
  BY <1>10, <1>14 DEF ObjectInv
<1>16. ASSUME NEW b \in Arenas PROVE Below(v, arena'[b])
  <2>1. CASE b = a BY <1>2, <1>3, <1>6, <1>7, <1>8, <1>10, <2>1 DEF Below
  <2>2. CASE b # a
    <3>1. r.block \notin ToSet(list[b]) /\ r.block # NULL
      BY <1>2, <2>2, ChunksApart, Names
    <3>2. arena'[b].block # r.block BY <1>10, <2>2, <3>1, OfArenaBlock
    <3> QED BY <1>7, <1>8, <3>2 DEF Below
  <2> QED BY <2>1, <2>2
<1>17. ObjectInv'
  <2>1. \A o \in objects : Placed(o, list', heap') /\ (o # v => Clear(o, v) /\ Clear(v, o))
    BY <1>1, <1>14 DEF ObjectInv
  <2>2. Placed(v, list', heap') BY <1>1, <1>13
  <2> QED BY <1>1, <1>15, <1>16, <2>1, <2>2, ObjectAdded
<1>18. FreeInv' BY <1>1, <1>8, FreeAsBefore
<1> QED BY <1>11, <1>12, <1>17, <1>18

LEMMA StepRefills ==
  ASSUME RingInv, HeapInv, ArenaInv, ObjectInv, FreeInv, NEW a \in Arenas, NEW n \in Classes, NEW c \in Chunks,
         Refills(a, n, c)
  PROVE  RingInv' /\ HeapInv' /\ ArenaInv' /\ ObjectInv' /\ FreeInv'
<1> DEFINE r == arena[a]
           cache == Expanded(r.cache, r.rule)
           large == n > cache \div 4
           size == IF large THEN n ELSE cache
           r2 == IF large THEN [r EXCEPT !.cache = cache]
                 ELSE [r EXCEPT !.cache = cache, !.block = c, !.start = AlignUp(n), !.end = cache]
           at == <<c, 0>>
           v == NewObject(a, n, at)
<1>1. TakesChunk(a, c, size) /\ arena' = [arena EXCEPT ![a] = r2] /\ objects' = objects \cup {v} /\ freed' = freed
  <2> HIDE DEF TakesChunk, Expanded, NewObject, AlignUp
  <2> QED BY DEF Refills
<1>2. /\ r \in [block : Chunks \cup {NULL}, start : Nat, end : Nat, cache : 0 .. Wrap - 1, rule : Rules]
      /\ r.start \in Nat /\ r.end \in Nat /\ r.start <= r.end /\ r.start % Align = 0
      /\ r.cache \in 0 .. Wrap - 1 /\ r.rule \in Rules
      /\ r.block # NULL => r.block \in ToSet(list[a]) /\ r.block \in DOMAIN heap /\ r.end <= heap[r.block]
  BY OfArenaBlock
<1> HIDE DEF r
<1>3. cache \in 0 .. Wrap - 1 /\ cache \in Nat
  <2>1. cache \in 0 .. Wrap - 1 BY <1>2, ExpandedIs
  <2> HIDE DEF cache
  <2> QED BY <2>1, SizeAssumption
<1>4. n \in Nat /\ AlignUp(n) \in Nat /\ n <= AlignUp(n) /\ AlignUp(n) % Align = 0
  BY ClassAssumption, Aligned
<1> HIDE DEF cache
<1>5. ~large => AlignUp(n) <= cache /\ n <= cache
  <2>1. cache \div 4 \in Int BY <1>3
  <2>2. ~large => n <= cache \div 4 BY <1>4, <2>1
  <2> HIDE DEF large, AlignUp
  <2> QED BY <1>3, <2>2, SmallFits
<1>6. size \in Nat /\ n <= size
  <2> HIDE DEF large
  <2> QED BY <1>3, <1>4, <1>5
<1>7. a \in Pools BY DEF Pools
<1> HIDE DEF size
<1>8. /\ RingInv' /\ HeapInv'
      /\ ToSet(list'[a]) = ToSet(list[a]) \cup {c} /\ heap'[c] = size /\ c \notin DOMAIN heap
      /\ \A d \in DOMAIN heap : d # c /\ heap'[d] = heap[d]
      /\ \A q \in Pools \ {a} : list'[q] = list[q]
  BY <1>1, <1>6, <1>7, StepTakesChunk
<1>9. \A b \in Arenas : ToSet(list[b]) \subseteq ToSet(list'[b])
  BY <1>8 DEF Pools
<1>10. DOMAIN arena = Arenas BY DEF ArenaInv
<1>11. arena'[a] = r2 /\ \A b \in Arenas \ {a} : arena'[b] = arena[b]
  <2> HIDE DEF r2
  <2> QED BY <1>1, <1>10
<1>12. Block(a, r2, list', heap')
  <2>1. CASE large
    <3>1. r2 = [r EXCEPT !.cache = cache] BY <2>1
    <3>2. /\ r2 \in [block : Chunks \cup {NULL}, start : Nat, end : Nat, cache : 0 .. Wrap - 1, rule : Rules]
          /\ r2.block = r.block /\ r2.start = r.start /\ r2.end = r.end
      BY <1>2, <1>3, <3>1
    <3> HIDE DEF r2
    <3> QED BY <1>2, <1>8, <3>2 DEF Block
  <2>2. CASE ~large
    <3>1. r2 = [r EXCEPT !.cache = cache, !.block = c, !.start = AlignUp(n), !.end = cache] /\ size = cache
      BY <2>2 DEF size
    <3>2. /\ r2 \in [block : Chunks \cup {NULL}, start : Nat, end : Nat, cache : 0 .. Wrap - 1, rule : Rules]
          /\ r2.block = c /\ r2.start = AlignUp(n) /\ r2.end = cache
      <4> HIDE DEF r2, AlignUp
      <4> QED BY <1>2, <1>3, <1>4, <3>1
    <3> HIDE DEF r2, AlignUp
    <3> QED BY <1>3, <1>4, <1>5, <1>8, <2>2, <3>1, <3>2 DEF Block
  <2> QED BY <2>1, <2>2
<1>13. r2.block = c => ~large /\ r2.start = AlignUp(n)
  <2>1. CASE large
    <3>1. r2.block = r.block BY <2>1, <1>2
    <3>2. c # NULL BY Names
    <3> HIDE DEF r2
    <3> QED BY <1>2, <1>8, <3>1, <3>2
  <2>2. CASE ~large
    <3> HIDE DEF AlignUp
    <3> QED BY <1>2, <2>2
  <2> QED BY <2>1, <2>2
<1>14. r2.block # c => r2.block = r.block /\ r2.start = r.start
  <2> HIDE DEF AlignUp
  <2> QED BY <1>2
<1>15. at \in Addresses /\ at[1] = c /\ at[2] = 0 BY DEF Addresses
<1>16. /\ v \in [pool : Arenas, class : Classes, at : Addresses, free : BOOLEAN]
       /\ v.pool = a /\ v.class = n /\ v.at = at /\ ~v.free
  BY <1>15, NewObjectIs
<1> HIDE DEF r2, at, v, large, AlignUp
<1>17. ArenaInv'
  <2>1. ASSUME NEW b \in Arenas, b # a PROVE Block(b, arena'[b], list', heap')
    <3>1. Block(b, arena[b], list, heap) BY DEF ArenaInv
    <3>2. arena[b].block # NULL => arena[b].block \in DOMAIN heap
      BY OfArenaBlock
    <3> QED BY <1>8, <1>9, <1>11, <2>1, <3>1, <3>2 DEF Block
  <2>2. \A b \in Arenas : Block(b, arena'[b], list', heap')
    BY <1>11, <1>12, <2>1
  <2> QED BY <1>1, <1>10, <2>2 DEF ArenaInv
<1>18. Placed(v, list', heap')
  <2>1. 0 % Align = 0 BY DEF Align
  <2> QED BY <1>4, <1>6, <1>8, <1>15, <1>16, <2>1 DEF Placed
<1>19. ASSUME NEW o \in objects
       PROVE  Placed(o, list', heap') /\ Clear(o, v) /\ Clear(v, o) /\ \A b \in Arenas : Below(o, arena'[b])
  <2>1. o.at[1] \in DOMAIN heap /\ o.at[1] # c /\ o.pool \in Arenas
    BY <1>8, OfObject
  <2>2. Placed(o, list', heap') BY <1>8, <1>9, <2>1 DEF Placed, ObjectInv
  <2>3. Clear(o, v) /\ Clear(v, o) BY <1>15, <1>16, <2>1 DEF Clear
  <2>4. Below(o, r2)
    <3>1. Below(o, r) BY DEF ObjectInv, r
    <3> QED BY <1>14, <2>1, <3>1 DEF Below
  <2>5. \A b \in Arenas : Below(o, arena'[b]) BY <1>11, <2>4 DEF ObjectInv
  <2> QED BY <2>2, <2>3, <2>5
<1>20. ASSUME NEW b \in Arenas PROVE Below(v, arena'[b])
  <2>1. CASE b = a BY <1>4, <1>11, <1>13, <1>15, <1>16, <2>1 DEF Below
  <2>2. CASE b # a
    <3>1. arena[b].block # NULL => arena[b].block \in DOMAIN heap
      BY OfArenaBlock
    <3>2. arena[b].block # c BY <1>8, <3>1, Names
    <3> QED BY <1>11, <1>15, <1>16, <2>2, <3>2 DEF Below
  <2> QED BY <2>1, <2>2
<1>21. ObjectInv' BY <1>1, <1>18, <1>19, <1>20, ObjectAdded
<1>22. FreeInv' BY <1>1, <1>16, FreeAsBefore
<1> QED BY <1>8, <1>17, <1>21, <1>22

(* The free objects of an arena lie in its chunks, and heads do not. *)
LEMMA FreePlaces ==
  ASSUME RingInv, HeapInv, ObjectInv, NEW F, \A p \in FreeHeads : ToSet(F[p]) = FreeIn(p, objects)
  PROVE  /\ \A p \in FreeHeads : p[1] \in Arenas /\ p[2] \in Classes /\ p = <<p[1], p[2]>> /\ p[1] \notin Chunks
         /\ \A p \in FreeHeads : \A x \in ToSet(F[p]) :
              x \in Addresses /\ x[1] \in Chunks /\ x[1] \notin Arenas /\ x[1] \in ToSet(list[p[1]])
<1>1. \A p \in FreeHeads : p[1] \in Arenas /\ p[2] \in Classes /\ p = <<p[1], p[2]>> /\ p[1] \notin Chunks
  BY HookAssumption DEF FreeHeads
<1>2. ASSUME NEW p \in FreeHeads, NEW x \in ToSet(F[p])
      PROVE  x \in Addresses /\ x[1] \in Chunks /\ x[1] \notin Arenas /\ x[1] \in ToSet(list[p[1]])
  <2>1. PICK o \in objects : o.pool = p[1] /\ o.at = x BY <1>2 DEF FreeIn
  <2>2. o.at \in Addresses /\ o.at[1] \in Chunks /\ o.at[1] \in ToSet(list[o.pool])
    BY OfObject
  <2> QED BY <2>1, <2>2, HookAssumption
<1> QED BY <1>1, <1>2

(* The free lists of an arena go to another one, or nowhere, with the *)
(* chunks. *)
LEMMA FreeMoved ==
  ASSUME RingInv, HeapInv, ObjectInv, FreeInv, NEW a \in Arenas, NEW b \in Arenas,
         NEW takes \in BOOLEAN, takes <=> a # b,
         freed' = [x \in DOMAIN LinksWithout(ToSet(list[a])) |->
                     IF x[1] = a THEN IF takes THEN freed[<<b, x[2]>>] ELSE NULL
                     ELSE IF x[1] = b THEN NULL ELSE freed[x]],
         \A p \in FreeHeads : FreeIn(p, objects') = IF p[1] = a THEN IF takes THEN FreeIn(<<b, p[2]>>, objects) ELSE {}
                                                    ELSE IF p[1] = b THEN {} ELSE FreeIn(p, objects)
  PROVE  FreeInv'
<1>1. PICK F : /\ Chains(FreeHeads, Addresses, freed, F) /\ DOMAIN F = FreeHeads
               /\ \A q \in FreeHeads : F[q] \in Seq(Addresses) /\ Distinct(F[q]) /\ ToSet(F[q]) = FreeIn(q, objects)
  BY FreeLists, Zenon
<1> DEFINE gone == ToSet(list[a])
           M == [p \in FreeHeads |-> IF p[1] = a THEN IF takes THEN F[<<b, p[2]>>] ELSE <<>>
                                     ELSE IF p[1] = b THEN <<>> ELSE F[p]]
           g == freed'
<1>2. Apart(FreeHeads, Addresses) BY Names
<1>3. /\ \A p \in FreeHeads : p[1] \in Arenas /\ p[2] \in Classes /\ p = <<p[1], p[2]>> /\ p[1] \notin Chunks
      /\ \A p \in FreeHeads : \A x \in ToSet(F[p]) :
           x \in Addresses /\ x[1] \in Chunks /\ x[1] \notin Arenas /\ x[1] \in ToSet(list[p[1]])
  BY <1>1, FreePlaces
<1>4. \A p \in FreeHeads : <<b, p[2]>> \in FreeHeads BY <1>3 DEF FreeHeads
<1>5. \A p \in FreeHeads : M[p] = IF p[1] = a THEN IF takes THEN F[<<b, p[2]>>] ELSE <<>>
                                  ELSE IF p[1] = b THEN <<>> ELSE F[p]
  OBVIOUS
<1>6. M \in [FreeHeads -> Seq(Addresses)]
  <2>1. ASSUME NEW p \in FreeHeads PROVE M[p] \in Seq(Addresses)
    <3>1. M[p] = <<>> \/ \E q \in FreeHeads : M[p] = F[q]
      <4> HIDE DEF M
      <4> QED BY <1>4, <1>5
    <3>2. <<>> \in Seq(Addresses) OBVIOUS
    <3> HIDE DEF M
    <3> QED BY <1>1, <3>1, <3>2
  <2> QED BY <2>1
<1>7. ToSet(<<>>) = {} BY DEF ToSet
<1>8. \A p \in FreeHeads : ToSet(M[p]) = FreeIn(p, objects')
  <2> HIDE DEF M
  <2> QED BY <1>1, <1>4, <1>5, <1>7, ZenonT(60)
<1>9. DOMAIN freed = Members(FreeHeads, F) BY <1>1 DEF Chains
<1>10. DOMAIN g = {x \in DOMAIN freed : x[1] \notin gone} BY DEF LinksWithout
<1>11. gone \subseteq Chunks /\ \A c \in gone : \A d \in Arenas \ {a} : c \notin ToSet(list[d])
  <2>1. gone \subseteq Chunks BY OfPool DEF Pools
  <2> QED BY <2>1, ChunksApart
<1> HIDE DEF gone
<1>12. DOMAIN g = Members(FreeHeads, M)
  <2> HIDE DEF M, g
  <2>1. ASSUME NEW x \in DOMAIN g PROVE x \in Members(FreeHeads, M)
    <3>1. x \in Members(FreeHeads, F) /\ x[1] \notin gone BY <1>9, <1>10
    <3>2. CASE x \in FreeHeads BY <3>2 DEF Members
    <3>3. ASSUME NEW p \in FreeHeads, x \in ToSet(F[p]) PROVE x \in Members(FreeHeads, M)
      <4>1. p[1] # a /\ p[1] \in Arenas /\ p = <<p[1], p[2]>> /\ p[2] \in Classes
        BY <1>3, <3>1, <3>3 DEF gone
      <4>2. CASE p[1] = b
        <5> DEFINE q == <<a, p[2]>>
        <5>1. q \in FreeHeads /\ q[1] = a /\ q[2] = p[2] /\ takes /\ <<b, p[2]>> = p
          BY <4>1, <4>2 DEF FreeHeads
        <5> HIDE DEF q
        <5>2. M[q] = F[p] BY <1>5, <5>1
        <5> QED BY <3>3, <5>1, <5>2 DEF Members
      <4>3. CASE p[1] # b
        <5>1. M[p] = F[p] BY <1>5, <4>1, <4>3
        <5> QED BY <3>3, <5>1 DEF Members
      <4> QED BY <4>2, <4>3
    <3> QED BY <3>1, <3>2, <3>3 DEF Members
  <2>2. ASSUME NEW x \in Members(FreeHeads, M) PROVE x \in DOMAIN g
    <3>1. CASE x \in FreeHeads BY <3>1, <1>3, <1>9, <1>10, <1>11 DEF Members
    <3>2. ASSUME NEW p \in FreeHeads, x \in ToSet(M[p]) PROVE x \in DOMAIN g
      <4>1. PICK q \in FreeHeads : M[p] = F[q] /\ q[1] # a
        <5>1. M[p] # <<>> BY <1>7, <3>2
        <5>2. CASE p[1] = a
          <6>1. takes /\ M[p] = F[<<b, p[2]>>] BY <1>5, <5>1, <5>2
          <6> QED BY <1>4, <6>1
        <5>3. CASE p[1] # a BY <1>5, <5>1, <5>3
        <5> QED BY <5>2, <5>3
      <4>2. x \in ToSet(F[q]) /\ x \in DOMAIN freed
        BY <3>2, <4>1, <1>9 DEF Members
      <4>3. x[1] \notin gone BY <1>3, <1>11, <4>1, <4>2
      <4> QED BY <1>10, <4>2, <4>3
    <3> QED BY <3>1, <3>2 DEF Members
  <2> QED BY <2>1, <2>2
<1>13. ASSUME NEW p \in FreeHeads
       PROVE  (M[p] = <<>> /\ g[p] = NULL) \/ \E q \in FreeHeads : M[p] = F[q] /\ g[p] = freed[q]
  <2>1. p \in DOMAIN g
    <3> HIDE DEF M, g
    <3> QED BY <1>12 DEF Members
  <2>2. g[p] = IF p[1] = a THEN IF takes THEN freed[<<b, p[2]>>] ELSE NULL
               ELSE IF p[1] = b THEN NULL ELSE freed[p]
    BY <2>1
  <2> HIDE DEF M, g
  <2> QED BY <1>4, <1>5, <2>2
<1>14. ASSUME NEW p \in FreeHeads, NEW q \in FreeHeads, p # q PROVE ToSet(M[p]) \cap ToSet(M[q]) = {}
  <2>1. \A u, v \in FreeHeads : u # v => ToSet(F[u]) \cap ToSet(F[v]) = {}
    BY <1>1 DEF Chains, Parted
  <2>2. p = <<p[1], p[2]>> /\ q = <<q[1], q[2]>> BY <1>3
  <2> DEFINE Src(u) == IF u[1] = a THEN <<b, u[2]>> ELSE u
  <2>3. ASSUME NEW u \in FreeHeads PROVE Src(u) \in FreeHeads /\ (M[u] = <<>> \/ (M[u] = F[Src(u)] /\ (u[1] = a => takes) /\ (u[1] # a => u[1] # b)))
    <3> HIDE DEF M
    <3> QED BY <1>4, <1>5
  <2>4. CASE M[p] = <<>> \/ M[q] = <<>> BY <2>4, <1>7
  <2>5. CASE M[p] # <<>> /\ M[q] # <<>>
    <3>1. Src(p) # Src(q)
      <4> HIDE DEF M
      <4>1. /\ (p[1] = a => takes) /\ (p[1] # a => p[1] # b)
            /\ (q[1] = a => takes) /\ (q[1] # a => q[1] # b)
        <5> HIDE DEF Src
        <5> QED BY <2>3, <2>5
      <4>2. <<b, p[2]>>[1] = b /\ <<b, p[2]>>[2] = p[2] /\ <<b, q[2]>>[1] = b /\ <<b, q[2]>>[2] = q[2]
        OBVIOUS
      <4> QED BY <1>14, <2>2, <4>1, <4>2
    <3> HIDE DEF M, Src
    <3> QED BY <2>1, <2>3, <2>5, <3>1
  <2> QED BY <2>4, <2>5
<1>15. ASSUME NEW x \in Members(FreeHeads, M) \ FreeHeads PROVE g[x] = freed[x]
  <2>1. x \in DOMAIN g
    <3> HIDE DEF M, g
    <3> QED BY <1>12
  <2>2. x[1] # a /\ x[1] # b
    <3> HIDE DEF M, g
    <3>1. x \in Members(FreeHeads, F) \ FreeHeads BY <1>9, <1>10, <2>1
    <3>2. PICK p \in FreeHeads : x \in ToSet(F[p]) BY <3>1 DEF Members
    <3> QED BY <1>3, <3>2
  <2> QED BY <2>1, <2>2
<1>16. Chains(FreeHeads, Addresses, g, M)
  <2> HIDE DEF M, g
  <2>1. \A p \in FreeHeads : (M[p] = <<>> /\ g[p] = NULL) \/ \E q \in FreeHeads : M[p] = F[q] /\ g[p] = freed[q]
    BY <1>13
  <2>2. \A p, q \in FreeHeads : p # q => ToSet(M[p]) \cap ToSet(M[q]) = {}
    BY <1>14
  <2>3. \A x \in Members(FreeHeads, M) \ FreeHeads : g[x] = freed[x] BY <1>15
  <2>4. Chains(FreeHeads, Addresses, freed, F) BY <1>1
  <2>5. Reheads(FreeHeads, freed, F, g, M) BY <2>1, <2>2, <2>3 DEF Reheads
  <2> QED BY <1>2, <1>6, <1>12, <2>4, <2>5, ChainsRehead
<1> HIDE DEF M
<1> QED BY <1>8, <1>16 DEF FreeInv

LEMMA NewArenaIs ==
  ASSUME NEW cache \in 0 .. Wrap - 1, NEW rule \in Rules, NEW a, NEW L, NEW hp
  PROVE  Block(a, NewArena(cache, rule), L, hp) /\ NewArena(cache, rule).block = NULL
<1>1. 0 % Align = 0 BY DEF Align
<1> QED BY <1>1 DEF Block, NewArena

LEMMA StepMovesArena ==
  ASSUME RingInv, HeapInv, ArenaInv, ObjectInv, FreeInv, NEW a \in Arenas, NEW b \in Arenas, a # b,
         MovesArena(a, b)
  PROVE  RingInv' /\ HeapInv' /\ ArenaInv' /\ ObjectInv' /\ FreeInv'
<1> DEFINE fresh == NewArena(arena[b].cache, arena[b].rule)
           To(o) == [o EXCEPT !.pool = IF @ = b THEN a ELSE @]
           stay == {o \in objects : o.pool # a}
<1>1. /\ MovesPool(a, b) /\ arena' = [arena EXCEPT ![a] = arena[b], ![b] = fresh]
      /\ objects' = {To(o) : o \in stay}
  <2> HIDE DEF MovesPool, NewArena
  <2> QED BY DEF MovesArena
<1>2. a \in Pools /\ b \in Pools /\ \A c \in Arenas : c \in Pools BY DEF Pools
<1>3. /\ RingInv' /\ HeapInv' /\ list'[a] = list[b] /\ list'[b] = <<>>
      /\ \A c \in ToSet(list[b]) : heap'[c] = heap[c]
      /\ \A r \in Pools \ {a, b} : Steady(r)
  BY <1>1, <1>2, StepMovesPool
<1>4. DOMAIN arena = Arenas BY DEF ArenaInv
<1>5. arena'[a] = arena[b] /\ arena'[b] = fresh /\ \A c \in Arenas \ {a, b} : arena'[c] = arena[c]
  <2> HIDE DEF fresh
  <2> QED BY <1>1, <1>4
<1>6. \A c \in Arenas : Block(c, fresh, list', heap') /\ fresh.block = NULL
  <2>1. arena[b].cache \in 0 .. Wrap - 1 /\ arena[b].rule \in Rules
    BY OfArenaBlock
  <2> QED BY <2>1, NewArenaIs
<1> HIDE DEF fresh
<1>7. ArenaInv'
  <2>1. Block(a, arena'[a], list', heap')
    <3>1. Block(b, arena[b], list, heap) BY DEF ArenaInv
    <3> QED BY <1>3, <1>5, <3>1 DEF Block
  <2>2. ASSUME NEW c \in Arenas \ {a, b} PROVE Block(c, arena'[c], list', heap')
    <3>1. Block(c, arena[c], list, heap) /\ Steady(c) BY <1>2, <1>3 DEF ArenaInv
    <3> QED BY <1>5, <3>1 DEF Block, Steady
  <2>3. \A c \in Arenas : Block(c, arena'[c], list', heap')
    BY <1>5, <1>6, <2>1, <2>2
  <2>4. DOMAIN arena' = Arenas BY <1>1, <1>4
  <2> QED BY <2>3, <2>4 DEF ArenaInv
<1>8. ASSUME NEW o \in objects
      PROVE  /\ To(o) \in [pool : Arenas, class : Classes, at : Addresses, free : BOOLEAN]
             /\ To(o).pool = IF o.pool = b THEN a ELSE o.pool
             /\ To(o).class = o.class /\ To(o).at = o.at /\ To(o).free = o.free
  <2>1. o \in [pool : Arenas, class : Classes, at : Addresses, free : BOOLEAN]
    BY OfObject
  <2> QED BY <2>1
<1> HIDE DEF To
<1>9. ObjectInv'
  <2>1. ASSUME NEW o \in stay PROVE Placed(To(o), list', heap')
    <3>1. Placed(o, list, heap) /\ o.pool \in Arenas /\ o.pool # a
      BY OfObject DEF ObjectInv
    <3>2. CASE o.pool = b BY <1>3, <1>8, <3>1, <3>2 DEF Placed
    <3>3. CASE o.pool # b
      <4>1. Steady(o.pool) BY <1>2, <1>3, <3>1, <3>3
      <4> QED BY <1>8, <3>1, <3>3, <4>1 DEF Placed, Steady
    <3> QED BY <3>2, <3>3
  <2>2. ASSUME NEW o \in stay, NEW u \in stay, To(o) # To(u) PROVE Clear(To(o), To(u))
    <3>1. Clear(o, u) BY <2>2 DEF ObjectInv
    <3>2. To(o).class = o.class /\ To(o).at = o.at /\ To(u).class = u.class /\ To(u).at = u.at
      BY <1>8
    <3> QED BY <3>1, <3>2 DEF Clear
  <2>3. ASSUME NEW o \in stay, NEW c \in Arenas PROVE Below(To(o), arena'[c])
    <3>1. o.at[1] # NULL BY OfObject, Names
    <3>2. \A d \in Arenas : Below(o, arena[d]) BY DEF ObjectInv
    <3>3. To(o).class = o.class /\ To(o).at = o.at BY <1>8
    <3>4. arena'[c].block = NULL \/ \E d \in Arenas : arena'[c] = arena[d]
      BY <1>5, <1>6
    <3> QED BY <3>1, <3>2, <3>3, <3>4 DEF Below
  <2>4. \A o \in objects' : \E u \in stay : o = To(u) BY <1>1
  <2> HIDE DEF stay
  <2>5. \A o \in objects' : Placed(o, list', heap') BY <2>1, <2>4
  <2>6. \A o, u \in objects' : o # u => Clear(o, u) BY <2>2, <2>4
  <2>7. \A o \in objects', c \in Arenas : Below(o, arena'[c]) BY <2>3, <2>4
  <2> QED BY <2>5, <2>6, <2>7 DEF ObjectInv
<1>10. FreeInv'
  <2>1. freed' = [x \in DOMAIN LinksWithout(ToSet(list[a])) |->
                    IF x[1] = a THEN IF TRUE THEN freed[<<b, x[2]>>] ELSE NULL
                    ELSE IF x[1] = b THEN NULL ELSE freed[x]]
    <3> HIDE DEF MovesPool, NewArena
    <3> QED BY DEF MovesArena, LinksWithout
  <2>2. ASSUME NEW p \in FreeHeads
        PROVE  FreeIn(p, objects') = IF p[1] = a THEN FreeIn(<<b, p[2]>>, objects)
                                     ELSE IF p[1] = b THEN {} ELSE FreeIn(p, objects)
    <3>1. \A x : x \in FreeIn(p, objects') <=>
                   \E o \in stay : To(o).pool = p[1] /\ To(o).class = p[2] /\ To(o).free /\ To(o).at = x
      BY <1>1 DEF FreeIn
    <3>2. \A x : x \in FreeIn(p, objects') <=>
                   \E o \in objects : /\ o.pool # a /\ (IF o.pool = b THEN a ELSE o.pool) = p[1]
                                      /\ o.class = p[2] /\ o.free /\ o.at = x
      BY <1>8, <3>1
    <3>3. CASE p[1] = a
      <4>1. <<b, p[2]>>[1] = b /\ <<b, p[2]>>[2] = p[2] OBVIOUS
      <4>2. \A x : x \in FreeIn(<<b, p[2]>>, objects) <=>
                     \E o \in objects : o.pool = b /\ o.class = p[2] /\ o.free /\ o.at = x
        BY <4>1 DEF FreeIn
      <4>3. \A x : x \in FreeIn(p, objects') <=> x \in FreeIn(<<b, p[2]>>, objects)
        BY <3>2, <3>3, <4>2
      <4> QED BY <3>3, <4>3
    <3>4. CASE p[1] = b
      <4>1. \A x : x \notin FreeIn(p, objects') BY <3>2, <3>4
      <4> QED BY <3>4, <4>1
    <3>5. CASE p[1] # a /\ p[1] # b
      <4>1. \A x : x \in FreeIn(p, objects) <=> \E o \in objects : o.pool = p[1] /\ o.class = p[2] /\ o.free /\ o.at = x
        BY DEF FreeIn
      <4>2. \A x : x \in FreeIn(p, objects') <=> x \in FreeIn(p, objects)
        BY <3>2, <3>5, <4>1
      <4> QED BY <3>5, <4>2
    <3> QED BY <3>3, <3>4, <3>5
  <2>3. \A p \in FreeHeads : FreeIn(p, objects') = IF p[1] = a THEN IF TRUE THEN FreeIn(<<b, p[2]>>, objects) ELSE {}
                                                   ELSE IF p[1] = b THEN {} ELSE FreeIn(p, objects)
    BY <2>2
  <2> QED BY <2>1, <2>3, FreeMoved
<1> QED BY <1>3, <1>7, <1>9, <1>10

LEMMA StepDestroysArena ==
  ASSUME RingInv, HeapInv, ArenaInv, ObjectInv, FreeInv, NEW a \in Arenas, DestroysArena(a)
  PROVE  RingInv' /\ HeapInv' /\ ArenaInv' /\ ObjectInv' /\ FreeInv'
<1>1. PICK rule \in Rules : arena' = [arena EXCEPT ![a] = NewArena(Cache, rule)]
  BY DEF DestroysArena
<1>2. ClearsPool(a) /\ objects' = {o \in objects : o.pool # a}
  BY DEF DestroysArena
<1>3. a \in Pools /\ \A c \in Arenas : c \in Pools BY DEF Pools
<1>4. RingInv' /\ HeapInv' /\ list'[a] = <<>> /\ \A r \in Pools \ {a} : Steady(r)
  BY <1>2, <1>3, StepClearsPool
<1> DEFINE fresh == NewArena(Cache, rule)
<1>5. Block(a, fresh, list', heap') /\ fresh.block = NULL
  BY SizeAssumption, NewArenaIs
<1> HIDE DEF fresh
<1>6. DOMAIN arena = Arenas BY DEF ArenaInv
<1>7. arena'[a] = fresh /\ DOMAIN arena' = Arenas /\ \A c \in Arenas \ {a} : arena'[c] = arena[c]
  BY <1>1, <1>6 DEF fresh
<1>8. ArenaInv'
  <2>1. ASSUME NEW c \in Arenas \ {a} PROVE Block(c, arena'[c], list', heap')
    <3>1. Block(c, arena[c], list, heap) /\ Steady(c) BY <1>3, <1>4 DEF ArenaInv
    <3> QED BY <1>7, <3>1 DEF Block, Steady
  <2> QED BY <1>5, <1>7, <2>1 DEF ArenaInv
<1>9. ObjectInv'
  <2>1. ASSUME NEW o \in objects' PROVE Placed(o, list', heap')
    <3>1. Placed(o, list, heap) /\ o.pool \in Arenas /\ o.pool # a
      BY <1>2, OfObject DEF ObjectInv
    <3>2. Steady(o.pool) BY <1>3, <1>4, <3>1
    <3> QED BY <3>1, <3>2 DEF Placed, Steady
  <2>2. \A o, u \in objects' : o # u => Clear(o, u) BY <1>2 DEF ObjectInv
  <2>3. ASSUME NEW o \in objects', NEW c \in Arenas PROVE Below(o, arena'[c])
    <3>1. o.at[1] # NULL /\ Below(o, arena[c])
      BY <1>2, OfObject, Names DEF ObjectInv
    <3> QED BY <1>5, <1>7, <3>1 DEF Below
  <2> QED BY <2>1, <2>2, <2>3 DEF ObjectInv
<1>10. FreeInv'
  <2>1. freed' = [x \in DOMAIN LinksWithout(ToSet(list[a])) |->
                    IF x[1] = a THEN IF FALSE THEN freed[<<a, x[2]>>] ELSE NULL
                    ELSE IF x[1] = a THEN NULL ELSE freed[x]]
    <3> HIDE DEF ClearsPool, NewArena
    <3> QED BY DEF DestroysArena, LinksWithout
  <2>2. \A p \in FreeHeads : FreeIn(p, objects') = IF p[1] = a THEN IF FALSE THEN FreeIn(<<a, p[2]>>, objects) ELSE {}
                                                   ELSE IF p[1] = a THEN {} ELSE FreeIn(p, objects)
    BY <1>2 DEF FreeIn
  <2> QED BY <2>1, <2>2, FreeMoved
<1> QED BY <1>4, <1>8, <1>9, <1>10

-----------------------------------------------------------------------------
(* Every step keeps the invariant. *)

LEMMA StepOfFreePool ==
  ASSUME RingInv, HeapInv, ArenaInv, ObjectInv, FreeInv, NEW p \in FreePools, OfFreePool(p),
         UNCHANGED <<arena, freed, objects>>
  PROVE  RingInv' /\ HeapInv' /\ ArenaInv' /\ ObjectInv' /\ FreeInv'
<1>1. p \in Pools /\ (\A q \in FreePools : q \in Pools) /\ \A a \in Arenas : a \in Pools /\ a \notin FreePools
  BY HookAssumption DEF Pools
<1>2. SUFFICES RingInv' /\ HeapInv' /\ \A a \in Arenas : Steady(a) BY SteadyInv
<1>3. ASSUME NEW c \in Chunks, TakesChunk(p, c, 0) PROVE RingInv' /\ HeapInv' /\ \A a \in Arenas : Steady(a)
  <2>1. /\ RingInv' /\ HeapInv'
        /\ \A d \in DOMAIN heap : heap'[d] = heap[d]
        /\ \A q \in Pools \ {p} : list'[q] = list[q]
    BY <1>1, <1>3, StepTakesChunk
  <2>2. \A a \in Arenas : Steady(a) BY <1>1, <2>1 DEF Steady, HeapInv
  <2> QED BY <2>1, <2>2
<1>4. ASSUME NEW c \in Chunks, Deallocates(c) PROVE RingInv' /\ HeapInv' /\ \A a \in Arenas : Steady(a)
  BY <1>4, StepDeallocates
<1>5. ASSUME ClearsPool(p) PROVE RingInv' /\ HeapInv' /\ \A a \in Arenas : Steady(a)
  BY <1>1, <1>5, StepClearsPool
<1>6. ASSUME NEW q \in FreePools \ {p}, MovesPool(p, q) PROVE RingInv' /\ HeapInv' /\ \A a \in Arenas : Steady(a)
  <2>1. q \in Pools /\ p # q BY <1>1
  <2>2. RingInv' /\ HeapInv' /\ \A r \in Pools \ {p, q} : Steady(r)
    BY <1>1, <1>6, <2>1, StepMovesPool
  <2> QED BY <1>1, <2>2
<1> QED BY <1>3, <1>4, <1>5, <1>6 DEF OfFreePool

LEMMA StepOfArena ==
  ASSUME RingInv, HeapInv, ArenaInv, ObjectInv, FreeInv, NEW a \in Arenas, OfArena(a)
  PROVE  RingInv' /\ HeapInv' /\ ArenaInv' /\ ObjectInv' /\ FreeInv'
<1>1. CASE \E n \in Classes : Reuses(a, n) BY <1>1, StepReuses
<1>2. CASE \E n \in Classes : Bumps(a, n) BY <1>2, StepBumps
<1>3. CASE \E n \in Classes, c \in Chunks : Refills(a, n, c)
  BY <1>3, StepRefills
<1>4. CASE \E o \in objects : Returns(o) BY <1>4, StepReturns
<1>5. CASE \E b \in Arenas \ {a} : MovesArena(a, b) BY <1>5, StepMovesArena
<1>6. CASE DestroysArena(a) BY <1>6, StepDestroysArena
<1> QED BY <1>1, <1>2, <1>3, <1>4, <1>5, <1>6 DEF OfArena

LEMMA InvInit ==
  ASSUME Init
  PROVE  Inv
<1> DEFINE none == [p \in FreeHeads |-> <<>>]
<1>1. ASSUME NEW S
      PROVE  /\ <<>> \in Seq(S) /\ Distinct(<<>>) /\ ToSet(<<>>) = {}
             /\ \A p, e : Stop(p, <<>>, e, 0) = p /\ Stop(p, <<>>, e, 1) = e
             /\ \A i \in 0 .. Len(<<>>) : i = 0 /\ i + 1 = 1
  BY DEF Distinct, ToSet, Stop
<1>2. RingInv
  <2>1. Parted(Heads, Elements, list) BY <1>1 DEF Init, Parted
  <2>2. Members(Heads, list) = Heads BY <1>1 DEF Init, Members
  <2>3. Memory(hook, Members(Heads, list)) BY <2>2 DEF Init, Memory, IsMap
  <2>4. ASSUME NEW p \in Heads PROVE Path(hook.next, p, list[p], p) /\ Back(hook.prev, p, list[p], p)
    <3>1. list[p] = <<>> /\ hook.next[p] = p /\ hook.prev[p] = p BY DEF Init
    <3> QED BY <1>1, <3>1 DEF Path, Back
  <2>5. Sorted(list)
    <3>1. \A p \in Heads : list[p] = <<>> BY DEF Init
    <3> QED BY <1>1, <3>1 DEF Sorted, Heads
  <2> QED BY <2>1, <2>3, <2>4, <2>5 DEF RingInv, Owned, Rings
<1>3. ForwardInv
  <2>1. Parted(Forwards, Nodes, forward) BY <1>1 DEF Init, Parted
  <2>2. DOMAIN link = Members(Forwards, forward) BY <1>1 DEF Init, Members
  <2>3. ASSUME NEW p \in Forwards PROVE Path(link, p, forward[p], NULL)
    <3>1. forward[p] = <<>> /\ link[p] = NULL BY DEF Init
    <3> QED BY <1>1, <3>1 DEF Path
  <2> QED BY <2>1, <2>2, <2>3 DEF ForwardInv, Chains
<1>4. HeapInv
  <2>1. \A p \in Pools : list[p] = <<>> BY DEF Init, Heads
  <2> QED BY <1>1, <2>1 DEF Init, HeapInv
<1>5. ArenaInv
  <2>1. DOMAIN arena = Arenas /\ \A a \in Arenas : \E rule \in Rules : arena[a] = NewArena(Cache, rule)
    <3> HIDE DEF NewArena
    <3> QED BY DEF Init
  <2> QED BY <2>1, SizeAssumption, NewArenaIs DEF ArenaInv
<1>6. ObjectInv BY DEF Init, ObjectInv
<1>7. FreeInv
  <2>1. Parted(FreeHeads, Addresses, none) BY <1>1 DEF Parted
  <2>2. DOMAIN freed = Members(FreeHeads, none)
    BY <1>1 DEF Init, Members, FreeHeads
  <2>3. ASSUME NEW p \in FreeHeads PROVE Path(freed, p, none[p], NULL)
    <3>1. none[p] = <<>> /\ freed[p] = NULL BY DEF Init, FreeHeads
    <3> QED BY <1>1, <3>1 DEF Path
  <2>4. \A p \in FreeHeads : ToSet(none[p]) = FreeIn(p, objects)
    BY <1>1 DEF Init, FreeIn
  <2>5. Chains(FreeHeads, Addresses, freed, none) BY <2>1, <2>2, <2>3 DEF Chains
  <2> HIDE DEF none
  <2> QED BY <2>4, <2>5 DEF FreeInv
<1> QED BY <1>2, <1>3, <1>4, <1>5, <1>6, <1>7 DEF Inv

LEMMA InvStep ==
  ASSUME Inv, [Next]_vars
  PROVE  Inv'
<1>0. RingInv /\ ForwardInv /\ HeapInv /\ ArenaInv /\ ObjectInv /\ FreeInv
  BY DEF Inv
<1>1. CASE UNCHANGED vars
  <2>1. UNCHANGED <<hook, list, link, forward, heap, arena, freed, objects>>
    BY <1>1 DEF vars, rings, chains
  <2> QED BY <1>0, <2>1 DEF Inv, RingInv, ForwardInv, HeapInv, ArenaInv, ObjectInv, FreeInv
<1>2. ASSUME NEW l \in Lists, OfList(l), UNCHANGED chains, UNCHANGED <<heap, arena, freed, objects>>
      PROVE  Inv'
  <2>1. ListStep(hook, list, hook', list') BY <1>0, <1>2, StepOfList
  <2>2. RingInv' /\ \A p \in Pools : list'[p] = list[p]
    BY <2>1 DEF ListStep, RingInv
  <2>3. ForwardInv' BY <1>0, <1>2 DEF ForwardInv, chains
  <2>4. HeapInv' BY <1>0, <1>2, <2>2 DEF HeapInv
  <2>5. \A a \in Arenas : Steady(a) BY <1>2, <2>2 DEF Steady, Pools
  <2>6. ArenaInv' /\ ObjectInv' /\ FreeInv' BY <1>0, <1>2, <2>5, SteadyInv
  <2> QED BY <2>2, <2>3, <2>4, <2>6 DEF Inv
<1>3. ASSUME NEW l \in Forwards, OfForward(l), UNCHANGED rings, UNCHANGED <<heap, arena, freed, objects>>
      PROVE  Inv'
  <2>1. ForwardInv' BY <1>0, <1>3, StepOfForward
  <2> QED BY <1>0, <1>3, <2>1 DEF Inv, RingInv, HeapInv, ArenaInv, ObjectInv, FreeInv, rings
<1>4. ASSUME NEW p \in FreePools, OfFreePool(p), UNCHANGED <<arena, freed, objects>>, UNCHANGED chains
      PROVE  Inv'
  <2>1. RingInv' /\ HeapInv' /\ ArenaInv' /\ ObjectInv' /\ FreeInv'
    BY <1>0, <1>4, StepOfFreePool
  <2> QED BY <1>0, <1>4, <2>1 DEF Inv, ForwardInv, chains
<1>5. ASSUME NEW a \in Arenas, OfArena(a), UNCHANGED chains
      PROVE  Inv'
  <2>1. RingInv' /\ HeapInv' /\ ArenaInv' /\ ObjectInv' /\ FreeInv'
    BY <1>0, <1>5, StepOfArena
  <2> QED BY <1>0, <1>5, <2>1 DEF Inv, ForwardInv, chains
<1> QED BY <1>1, <1>2, <1>3, <1>4, <1>5 DEF Next, ListNext, PoolNext

-----------------------------------------------------------------------------
(* The theorems. *)

(* Inv holds in every reachable state: no operation on lists, pools and *)
(* arenas leaves a link, a chunk or an object out of place. *)
THEOREM Invariant == Spec => []Inv
<1>1. Inv /\ [Next]_vars => Inv' BY InvStep
<1> QED BY InvInit, <1>1, PTL DEF Spec

LEMMA InvTypes == Inv => TypeOK
<1> SUFFICES ASSUME Inv PROVE TypeOK OBVIOUS
<1>0. RingInv /\ ForwardInv /\ HeapInv /\ ArenaInv /\ ObjectInv BY DEF Inv
<1>1. /\ list \in [Heads -> Seq(Nodes \cup Chunks)]
      /\ DOMAIN hook.next = Members(Heads, list) /\ DOMAIN hook.prev = Members(Heads, list)
  BY <1>0 DEF RingInv, Owned, Rings, Parted, Memory, Elements
<1>2. forward \in [Forwards -> Seq(Nodes)] /\ DOMAIN link = Members(Forwards, forward)
  BY <1>0 DEF ForwardInv, Chains, Parted
<1>3. DOMAIN heap \subseteq Chunks BY <1>0, OfPool DEF HeapInv
<1>4. \A a \in Arenas :
        arena[a] \in [block : Chunks \cup {NULL}, start : Nat, end : Nat, cache : 0 .. Wrap - 1, rule : Rules]
  BY <1>0, OfArenaBlock
<1>5. \A o \in objects : o.pool \in Arenas /\ o.class \in Classes /\ o.at \in Chunks \X Nat
  BY <1>0, OfObject DEF Addresses
<1> QED BY <1>1, <1>2, <1>3, <1>4, <1>5 DEF TypeOK, Members, Chained

LEMMA InvRings == Inv => RingsExact
<1> SUFFICES ASSUME Inv PROVE RingsExact OBVIOUS
<1>1. Owned(hook, list) /\ Rings(Heads, Elements, hook, list) /\ Apart(Heads, Elements)
  BY Names DEF Inv, RingInv, Owned
<1>2. IsFiniteSet(Members(Heads, list)) BY <1>1, OwnedFinite
<1>3. ASSUME NEW p \in Heads
      PROVE  Walk(hook.next, hook.next[p], p) = list[p] /\ Walk(hook.prev, hook.prev[p], p) = Reverse(list[p])
  BY <1>1, <1>2, RingWalked DEF Walked
<1>4. Chains(Forwards, Nodes, link, forward) /\ Parted(Forwards, Nodes, forward) /\ Apart(Forwards, Nodes)
  BY Names DEF Inv, ForwardInv, Chains
<1>5. IsFiniteSet(Members(Forwards, forward))
  BY <1>4, HookAssumption, FiniteMembers
<1>6. ASSUME NEW l \in Forwards PROVE Chain(link, l) = forward[l]
  BY <1>4, <1>5, Names, ChainWalked
<1> QED BY <1>3, <1>6 DEF RingsExact

LEMMA InvChunks == Inv => ChunksOwned
<1> SUFFICES ASSUME Inv PROVE ChunksOwned OBVIOUS
<1>1. RingInv /\ HeapInv /\ Owned(hook, list) BY DEF Inv, RingInv
<1>2. \A p \in Pools : Walked(hook, p) = list[p]
  BY <1>1, OfPool, Cleared, ZenonT(60)
<1>3. \A p, q \in Pools : p # q => ToSet(list[p]) \cap ToSet(list[q]) = {}
  BY <1>1, OfPool
<1>4. DOMAIN heap = UNION {ToSet(list[p]) : p \in Pools} BY <1>1 DEF HeapInv
<1> HIDE DEF Pools
<1>5. {ToSet(Walked(hook, p)) : p \in Pools} = {ToSet(list[p]) : p \in Pools}
  BY <1>2
<1> QED BY <1>2, <1>3, <1>4, <1>5 DEF ChunksOwned

LEMMA InvObjects == Inv => ObjectsApart
<1> SUFFICES ASSUME Inv PROVE ObjectsApart OBVIOUS
<1>0. RingInv /\ HeapInv /\ ArenaInv /\ ObjectInv BY DEF Inv
<1>1. ASSUME NEW o \in objects
      PROVE  /\ o.at[1] \in ToSet(list[o.pool]) /\ o.at[2] % Align = 0 /\ o.at[2] + o.class <= heap[o.at[1]]
  BY <1>0 DEF ObjectInv, Placed
<1>2. ASSUME NEW o \in objects, NEW u \in objects, o # u /\ o.at[1] = u.at[1]
      PROVE  BytesOf(o) \cap BytesOf(u) = {}
  <2>1. o.at[2] \in Nat /\ o.class \in Nat /\ u.at[2] \in Nat /\ u.class \in Nat
    BY <1>0, OfObject
  <2>2. Clear(o, u) BY <1>0, <1>2 DEF ObjectInv
  <2>3. o.at[2] + o.class <= u.at[2] \/ u.at[2] + u.class <= o.at[2]
    BY <1>2, <2>2 DEF Clear
  <2> QED BY <2>1, <2>3 DEF BytesOf
<1>3. ASSUME NEW o \in objects, NEW a \in Arenas, arena[a].block = o.at[1]
      PROVE  BytesOf(o) \cap Unused(arena[a]) = {}
  <2>1. o.at[2] \in Nat /\ o.class \in Nat BY <1>0, OfObject
  <2>2. arena[a].start \in Nat /\ arena[a].end \in Nat BY <1>0, OfArenaBlock
  <2>3. o.at[2] + o.class <= arena[a].start BY <1>0, <1>3 DEF ObjectInv, Below
  <2> QED BY <2>1, <2>2, <2>3 DEF BytesOf, Unused
<1>4. ASSUME NEW a \in Arenas, arena[a].block # NULL
      PROVE  arena[a].block \in ToSet(list[a]) /\ arena[a].end <= heap[arena[a].block]
  BY <1>0, <1>4, OfArenaBlock
<1> QED BY <1>1, <1>2, <1>3, <1>4 DEF ObjectsApart

LEMMA InvFree == Inv => FreeListsExact
<1> SUFFICES ASSUME Inv PROVE FreeListsExact OBVIOUS
<1>1. PICK F : /\ Chains(FreeHeads, Addresses, freed, F)
               /\ \A p \in FreeHeads : F[p] \in Seq(Addresses) /\ Distinct(F[p]) /\ ToSet(F[p]) = FreeIn(p, objects)
  BY FreeLists DEF Inv
<1>2. IsFiniteSet(Members(FreeHeads, F))
  <2>1. Parted(FreeHeads, Addresses, F) BY <1>1 DEF Chains
  <2> QED BY <2>1, Names, FiniteMembers
<1>3. ASSUME NEW p \in FreeHeads
      PROVE  IsInjective(Chain(freed, p)) /\ ToSet(Chain(freed, p)) = FreeIn(p, objects)
  <2>1. Chain(freed, p) = F[p] BY <1>1, <1>2, Names, ChainWalked
  <2>2. IsInjective(F[p]) BY <1>1 DEF Distinct, IsInjective
  <2> QED BY <1>1, <2>1, <2>2
<1>4. ASSUME NEW a \in Arenas, NEW n \in Classes
      PROVE  /\ IsInjective(Chain(freed, <<a, n>>))
             /\ ToSet(Chain(freed, <<a, n>>))
                  = {o.at : o \in {o \in objects : o.pool = a /\ o.class = n /\ o.free}}
  <2>1. <<a, n>> \in FreeHeads /\ <<a, n>>[1] = a /\ <<a, n>>[2] = n
    BY DEF FreeHeads
  <2>2. FreeIn(<<a, n>>, objects) = {o.at : o \in {o \in objects : o.pool = a /\ o.class = n /\ o.free}}
    BY <2>1 DEF FreeIn
  <2> QED BY <1>3, <2>1, <2>2
<1> QED BY <1>4 DEF FreeListsExact

(* Exactly the heads and the elements of lists have links, every chunk is *)
(* one of the heap's, and no offset or block size leaves its range. *)
THEOREM TypeCorrect == Spec => []TypeOK
BY Invariant, InvTypes, PTL

(* However elements are pushed, spliced, swapped, replaced and removed, a *)
(* walk of a ring in either direction, or of a forward list, sees the *)
(* sequence the operations promise (list.hpp, forward_list.hpp). *)
THEOREM RingsStayExact == Spec => []RingsExact
BY Invariant, InvRings, PTL

(* No chunk is lost, freed twice or in two pools: the ring of each pool *)
(* holds what it will free, also when pools have been moved *)
(* (automatic_free_pool). *)
THEOREM ChunksStayOwned == Spec => []ChunksOwned
BY Invariant, InvChunks, PTL

(* Objects are aligned, inside chunks of their pool, apart from each other *)
(* and from what the arena hands out next, for every size class, growth *)
(* rule and width of the block size (arena::allocate, _allocate_large). *)
THEOREM ObjectsStayApart == Spec => []ObjectsApart
BY Invariant, InvObjects, PTL

(* The free list of a class, threaded through the objects, holds each free *)
(* object of that class and pool once (dynamic_object_pool). *)
THEOREM FreeListsStayExact == Spec => []FreeListsExact
BY Invariant, InvFree, PTL

=============================================================================
