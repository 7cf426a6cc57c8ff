------------------------- MODULE BTreeNodes_proof ---------------------------
(***************************************************************************)
(* What the structural steps of BTree do to its nodes, for every number of *)
(* places of a node and every number of nodes: leaves and inner nodes split, *)
(* borrow and merge, and links, order of the leaves and heights stay those of *)
(* a tree.  Trees are described by their sons alone, level by level, so that *)
(* a step is one replacement of a part of a sequence of sons by another.  At *)
(* the end, the elements: a step on a leaf changes one place of the sequence *)
(* of all elements.                                                        *)
(***************************************************************************)
EXTENDS BTree, SequenceTheorems, FiniteSetTheorems, WellFoundedInduction, TLAPS

-----------------------------------------------------------------------------
(* Induction and recursive definitions. *)

(* A set that has 0 and with each number the next one has them all. *)
LEMMA NatInduct ==
  ASSUME NEW S, 0 \in S, \A n \in Nat : n \in S => n + 1 \in S
  PROVE  Nat \subseteq S
<1> DEFINE T == Nat \ S
<1>1. SUFFICES ASSUME T # {} PROVE FALSE OBVIOUS
<1>2. PICK x \in T : \A y \in T : ~(<<y, x>> \in OpToRel(<, Nat))
  BY <1>1, NatLessThanWellFounded, WFMin, Zenon
<1>3. x \in Nat /\ x # 0 /\ x - 1 \in Nat /\ x - 1 < x OBVIOUS
<1>4. x - 1 \in T BY <1>3
<1>5. <<x - 1, x>> \in OpToRel(<, Nat) BY <1>3 DEF OpToRel
<1> QED BY <1>2, <1>4, <1>5

(* The same from 0 up to a bound. *)
LEMMA Climb ==
  ASSUME NEW m \in Nat, NEW S, 0 \in S, \A n \in 0 .. m - 1 : n \in S => n + 1 \in S
  PROVE  0 .. m \subseteq S
<1> DEFINE T == {n \in Nat : n <= m => n \in S}
<1>1. 0 \in T OBVIOUS
<1>2. \A n \in Nat : n \in T => n + 1 \in T OBVIOUS
<1>3. Nat \subseteq T
  <2> HIDE DEF T
  <2> QED BY <1>1, <1>2, NatInduct
<1> QED BY <1>3

(* A function f of m that is computed from 0 on. *)
Recursive(m, a, F, f) == f = [i \in 0 .. m |-> IF i = 0 THEN a ELSE F[i][f[i - 1]]]

(* There is one: a function that is defined by recursion exists. *)
LEMMA RecursiveExists ==
  ASSUME NEW V, NEW a \in V, NEW m \in Nat, NEW F, \A v \in V, i \in 1 .. m : F[i][v] \in V
  PROVE  \E f \in [0 .. m -> V] : Recursive(m, a, F, f)
<1> DEFINE S == {n \in 0 .. m : \E f \in [0 .. n -> V] : Recursive(n, a, F, f)}
<1>1. 0 \in S
  <2> DEFINE g == [i \in 0 .. 0 |-> a]
  <2>1. g \in [0 .. 0 -> V] /\ g = [i \in 0 .. 0 |-> IF i = 0 THEN a ELSE F[i][g[i - 1]]]
    OBVIOUS
  <2> HIDE DEF g
  <2>2. Recursive(0, a, F, g) BY <2>1 DEF Recursive
  <2> QED BY <2>1, <2>2
<1>2. \A n \in 0 .. m - 1 : n \in S => n + 1 \in S
  <2> TAKE n \in 0 .. m - 1
  <2> HAVE n \in S
  <2> PICK f \in [0 .. n -> V] : Recursive(n, a, F, f) OBVIOUS
  <2> DEFINE g == [i \in 0 .. n + 1 |-> IF i <= n THEN f[i] ELSE F[n + 1][f[n]]]
  <2>1. n \in Nat /\ n + 1 \in 1 .. m /\ n \in 0 .. n OBVIOUS
  <2>2. \A i \in 0 .. n : f[i] = IF i = 0 THEN a ELSE F[i][f[i - 1]]
    BY DEF Recursive
  <2>3. F[n + 1][f[n]] \in V BY <2>1
  <2>4. g \in [0 .. n + 1 -> V] BY <2>1, <2>3
  <2>5. \A i \in 0 .. n + 1 : g[i] = IF i = 0 THEN a ELSE F[i][g[i - 1]]
    <3> TAKE i \in 0 .. n + 1
    <3>1. CASE i = 0 BY <3>1, <2>1, <2>2
    <3>2. CASE i \in 1 .. n
      <4>1. g[i] = f[i] /\ g[i - 1] = f[i - 1] /\ i \in 0 .. n BY <3>2, <2>1
      <4> QED BY <4>1, <3>2, <2>2
    <3>3. CASE i = n + 1
      <4>1. g[i] = F[n + 1][f[n]] /\ g[i - 1] = f[n] /\ i # 0 BY <3>3, <2>1
      <4> QED BY <4>1, <3>3
    <3> QED BY <3>1, <3>2, <3>3, <2>1
  <2>6. Recursive(n + 1, a, F, g)
    <3> HIDE DEF g
    <3>1. DOMAIN g = 0 .. n + 1 /\ g = [i \in 0 .. n + 1 |-> g[i]] BY <2>4
    <3> QED BY <3>1, <2>5 DEF Recursive
  <2> QED BY <2>1, <2>4, <2>6, SMTT(60)
<1>3. 0 .. m \subseteq S
  <2> HIDE DEF S
  <2> QED BY <1>1, <1>2, Climb
<1> QED BY <1>3

-----------------------------------------------------------------------------
(* Sequences. *)

Associate(r, s, t) == (r \o s) \o t = r \o (s \o t)

LEMMA Associative ==
  ASSUME NEW E, NEW r \in Seq(E), NEW s \in Seq(E), NEW t \in Seq(E)
  PROVE  Associate(r, s, t)
BY ConcatAssociative, SMTT(60) DEF Associate

LEMMA ConcatType ==
  ASSUME NEW E, NEW r \in Seq(E), NEW s \in Seq(E)
  PROVE  r \o s \in Seq(E)
BY ConcatProperties

LEMMA SliceIs ==
  ASSUME NEW E, NEW s \in Seq(E), NEW b \in 0 .. Len(s), NEW a \in 0 .. b
  PROVE  /\ Slice(s, a, b) \in Seq(E) /\ Len(Slice(s, a, b)) = b - a
         /\ \A i \in 1 .. b - a : Slice(s, a, b)[i] = s[a + i]
<1>1. Len(s) \in Nat /\ \A i \in 1 .. Len(s) : s[i] \in E BY LenProperties
<1>2. a + 1 \in Int /\ b \in Int /\ \A i \in a + 1 .. b : s[i] \in E BY <1>1
<1> DEFINE t == SubSeq(s, a + 1, b)
<1>3. /\ t \in Seq(E) /\ Len(t) = IF a + 1 <= b THEN b - (a + 1) + 1 ELSE 0
      /\ \A i \in 1 .. b - (a + 1) + 1 : t[i] = s[a + 1 + i - 1]
  BY <1>2, SubSeqProperties
<1> HIDE DEF t
<1>4. Len(t) = b - a BY <1>1, <1>3
<1>5. \A i \in 1 .. b - a : t[i] = s[a + i] BY <1>1, <1>3
<1> QED BY <1>3, <1>4, <1>5 DEF Slice, t

LEMMA SliceAll ==
  ASSUME NEW E, NEW s \in Seq(E)
  PROVE  Slice(s, 0, Len(s)) = s /\ \A i \in 0 .. Len(s) : Slice(s, i, i) = <<>>
<1>1. Len(s) \in Nat BY LenProperties
<1>2. SubSeq(s, 1, Len(s)) = s BY SubSeqFull
<1>3. \A i \in 0 .. Len(s) : SubSeq(s, i + 1, i) = <<>>
  <2> TAKE i \in 0 .. Len(s)
  <2>1. i + 1 \in Int /\ i \in Int /\ i < i + 1 BY <1>1
  <2> QED BY <2>1, SubSeqEmpty
<1> QED BY <1>2, <1>3 DEF Slice

(* A range is two. *)
LEMMA SliceSplit ==
  ASSUME NEW E, NEW s \in Seq(E), NEW c \in 0 .. Len(s), NEW b \in 0 .. c, NEW a \in 0 .. b
  PROVE  Slice(s, a, c) = Slice(s, a, b) \o Slice(s, b, c)
<1>1. Len(s) \in Nat BY LenProperties
<1>2. a + 1 \in 1 .. Len(s) + 1 /\ b \in (a + 1) - 1 .. Len(s) /\ c \in b .. Len(s)
  BY <1>1
<1>3. SubSeq(s, a + 1, b) \o SubSeq(s, b + 1, c) = SubSeq(s, a + 1, c)
  BY <1>2, ConcatAdjacentSubSeq
<1> QED BY <1>3 DEF Slice

(* One element is a range. *)
LEMMA SliceOne ==
  ASSUME NEW E, NEW s \in Seq(E), NEW i \in 0 .. Len(s) - 1
  PROVE  Slice(s, i, i + 1) = <<At(s, i)>> /\ At(s, i) \in E
<1>1. Len(s) \in Nat /\ \A j \in 1 .. Len(s) : s[j] \in E BY LenProperties
<1>2. i + 1 \in 0 .. Len(s) /\ i \in 0 .. i + 1 /\ (i + 1) - i = 1 /\ i + 1 \in 1 .. Len(s)
  BY <1>1
<1>3. s[i + 1] \in E BY <1>1, <1>2
<1> DEFINE t == Slice(s, i, i + 1)
           u == <<s[i + 1]>>
<1>4. t \in Seq(E) /\ Len(t) = (i + 1) - i /\ \A j \in 1 .. (i + 1) - i : t[j] = s[i + j]
  BY <1>2, SliceIs, ZenonT(60)
<1>5. u \in Seq(E) /\ Len(u) = 1 /\ u[1] = s[i + 1] BY <1>3
<1> HIDE DEF t, u
<1>6. Len(t) = Len(u) /\ \A j \in 1 .. Len(t) : t[j] = u[j] BY <1>2, <1>4, <1>5
<1>7. t = u BY <1>4, <1>5, <1>6, SeqEqual
<1> QED BY <1>3, <1>7 DEF t, u, At

(* The parts of a sequence in front of x, and behind it. *)
Joins(A, x, B) == (A \o <<x>>) \o B

LEMMA JoinsIs ==
  ASSUME NEW E, NEW A \in Seq(E), NEW x \in E, NEW B \in Seq(E)
  PROVE  /\ Joins(A, x, B) \in Seq(E) /\ Len(Joins(A, x, B)) = Len(A) + 1 + Len(B)
         /\ \A i \in 1 .. Len(A) : Joins(A, x, B)[i] = A[i]
         /\ Joins(A, x, B)[Len(A) + 1] = x
         /\ \A i \in 1 .. Len(B) : Joins(A, x, B)[Len(A) + 1 + i] = B[i]
<1> DEFINE u == <<x>>
           c == A \o u
           t == c \o B
<1>1. Len(A) \in Nat /\ Len(B) \in Nat BY LenProperties
<1>2. u \in Seq(E) /\ Len(u) = 1 /\ u[1] = x OBVIOUS
<1> HIDE DEF u
<1>3. c \in Seq(E) /\ Len(c) = Len(A) + Len(u) /\ \A i \in 1 .. Len(A) + Len(u) : c[i] = IF i <= Len(A) THEN A[i] ELSE u[i - Len(A)]
  BY <1>2, ConcatProperties
<1> HIDE DEF c
<1>4. t \in Seq(E) /\ Len(t) = Len(c) + Len(B) /\ \A i \in 1 .. Len(c) + Len(B) : t[i] = IF i <= Len(c) THEN c[i] ELSE B[i - Len(c)]
  <2>1. c \in Seq(E) BY <1>3
  <2> QED BY <2>1, ConcatProperties
<1> HIDE DEF t
<1>5. Len(t) = Len(A) + 1 + Len(B) /\ Len(c) = Len(A) + 1
  BY <1>1, <1>2, <1>3, <1>4
<1>6. \A i \in 1 .. Len(A) : t[i] = A[i] BY <1>1, <1>2, <1>3, <1>4, <1>5
<1>7. t[Len(A) + 1] = x BY <1>1, <1>2, <1>3, <1>4, <1>5
<1>8. \A i \in 1 .. Len(B) : t[Len(A) + 1 + i] = B[i]
  <2> SUFFICES ASSUME NEW i \in 1 .. Len(B)
               PROVE  t[Len(A) + 1 + i] = B[i]
    OBVIOUS
  <2>1. Len(A) + 1 + i \in 1 .. Len(c) + Len(B) /\ ~(Len(A) + 1 + i <= Len(c)) /\ (Len(A) + 1 + i) - Len(c) = i
    BY <1>1, <1>5
  <2>2. t[Len(A) + 1 + i] = B[(Len(A) + 1 + i) - Len(c)] BY <1>4, <2>1
  <2> QED BY <2>1, <2>2
<1> QED BY <1>4, <1>5, <1>6, <1>7, <1>8 DEF Joins, t, c, u

LEMMA JoinsWhere ==
  ASSUME NEW E, NEW s \in Seq(E), NEW r \in 1 .. Len(s)
  PROVE  /\ s = Joins(Slice(s, 0, r - 1), s[r], Slice(s, r, Len(s)))
         /\ Slice(s, 0, r - 1) \in Seq(E) /\ s[r] \in E /\ Slice(s, r, Len(s)) \in Seq(E)
         /\ Len(Slice(s, 0, r - 1)) = r - 1 /\ Len(Slice(s, r, Len(s))) = Len(s) - r
<1>1. Len(s) \in Nat BY LenProperties
<1>2. r - 1 \in 0 .. Len(s) /\ r \in 0 .. Len(s) /\ 0 \in 0 .. r - 1 /\ Len(s) \in 0 .. Len(s) /\ r - 1 \in 0 .. r
      /\ r - 1 \in 0 .. Len(s) - 1 /\ (r - 1) + 1 = r /\ 0 \in 0 .. r /\ (r - 1) - 0 = r - 1
  BY <1>1
<1>3. Slice(s, 0, r) = Slice(s, 0, r - 1) \o Slice(s, r - 1, r)
  BY <1>2, SliceSplit
<1>4. Slice(s, r - 1, r) = <<s[r]>> /\ s[r] \in E BY <1>2, SliceOne DEF At
<1>5. s = Slice(s, 0, r) \o Slice(s, r, Len(s))
  <2>1. Slice(s, 0, Len(s)) = Slice(s, 0, r) \o Slice(s, r, Len(s))
    BY <1>2, SliceSplit
  <2> QED BY <2>1, SliceAll
<1>6. s = Joins(Slice(s, 0, r - 1), s[r], Slice(s, r, Len(s)))
  BY <1>3, <1>4, <1>5 DEF Joins
<1>7. Slice(s, 0, r - 1) \in Seq(E) /\ Len(Slice(s, 0, r - 1)) = (r - 1) - 0
  <2>1. r - 1 \in 0 .. Len(s) /\ 0 \in 0 .. r - 1 BY <1>2
  <2> QED BY <2>1, SliceIs, ZenonT(60)
<1>8. Slice(s, r, Len(s)) \in Seq(E) /\ Len(Slice(s, r, Len(s))) = Len(s) - r
  <2>1. Len(s) \in 0 .. Len(s) /\ r \in 0 .. Len(s) BY <1>2
  <2> QED BY <2>1, SliceIs, ZenonT(60)
<1> QED BY <1>2, <1>4, <1>6, <1>7, <1>8

(* The front and the back of a sequence that is put together. *)
LEMMA SliceConcat ==
  ASSUME NEW E, NEW A \in Seq(E), NEW B \in Seq(E)
  PROVE  /\ Slice(A \o B, 0, Len(A)) = A
         /\ Slice(A \o B, Len(A), Len(A \o B)) = B
<1> DEFINE s == A \o B
<1>1. Len(A) \in Nat /\ Len(B) \in Nat BY LenProperties
<1>2. s \in Seq(E) /\ Len(s) = Len(A) + Len(B) /\ \A i \in 1 .. Len(A) + Len(B) : s[i] = IF i <= Len(A) THEN A[i] ELSE B[i - Len(A)]
  BY ConcatProperties
<1> HIDE DEF s
<1>3. Len(A) \in 0 .. Len(s) /\ 0 \in 0 .. Len(A) /\ Len(s) \in 0 .. Len(s) /\ Len(A) \in 0 .. Len(s)
  BY <1>1, <1>2
<1> DEFINE t == Slice(s, 0, Len(A))
           u == Slice(s, Len(A), Len(s))
<1>4. t \in Seq(E) /\ Len(t) = Len(A) - 0 /\ \A i \in 1 .. Len(A) - 0 : t[i] = s[0 + i]
  BY <1>2, <1>3, SliceIs, ZenonT(60)
<1>5. u \in Seq(E) /\ Len(u) = Len(s) - Len(A) /\ \A i \in 1 .. Len(s) - Len(A) : u[i] = s[Len(A) + i]
  BY <1>2, <1>3, SliceIs, ZenonT(60)
<1> HIDE DEF t, u
<1>6. Len(t) = Len(A) /\ \A i \in 1 .. Len(t) : t[i] = A[i] BY <1>1, <1>2, <1>4
<1>7. Len(u) = Len(B) /\ \A i \in 1 .. Len(u) : u[i] = B[i]
  <2>1. Len(u) = Len(B) BY <1>1, <1>2, <1>5
  <2>2. ASSUME NEW i \in 1 .. Len(u) PROVE u[i] = B[i]
    <3>1. Len(A) + i \in 1 .. Len(A) + Len(B) /\ ~(Len(A) + i <= Len(A)) /\ (Len(A) + i) - Len(A) = i /\ i \in 1 .. Len(s) - Len(A)
      BY <1>1, <1>2, <2>1
    <3>2. s[Len(A) + i] = B[(Len(A) + i) - Len(A)] BY <3>1, <1>2
    <3> QED BY <3>1, <3>2, <1>5
  <2> QED BY <2>1, <2>2
<1>8. t = A BY <1>4, <1>6, SeqEqual
<1>9. u = B BY <1>5, <1>7, SeqEqual
<1> QED BY <1>8, <1>9 DEF t, u, s

(* An element put between two parts, or cut out from between them. *)
LEMMA PutBetween ==
  ASSUME NEW E, NEW A \in Seq(E), NEW B \in Seq(E), NEW x
  PROVE  Put(A \o B, Len(A), x) = Joins(A, x, B)
<1>1. Slice(A \o B, 0, Len(A)) = A /\ Slice(A \o B, Len(A), Len(A \o B)) = B
  BY SliceConcat
<1> QED BY <1>1 DEF Put, Joins

LEMMA CutBetween ==
  ASSUME NEW E, NEW A \in Seq(E), NEW B \in Seq(E), NEW x \in E
  PROVE  Cut(Joins(A, x, B), Len(A)) = A \o B
<1> DEFINE u == <<x>>
           c == A \o u
           d == u \o B
           s == c \o B
<1>1. u \in Seq(E) /\ Len(u) = 1 /\ Len(A) \in Nat BY LenProperties
<1> HIDE DEF u
<1>2. c \in Seq(E) /\ d \in Seq(E) /\ Len(c) = Len(A) + 1
  <2>1. c \in Seq(E) /\ Len(c) = Len(A) + Len(u) BY <1>1, ConcatProperties
  <2>2. d \in Seq(E) BY <1>1, ConcatProperties
  <2> QED BY <1>1, <2>1, <2>2
<1>3. s = A \o d BY <1>1, ConcatAssociative, SMTT(60)
<1> HIDE DEF c, d, s
<1>4. Slice(A \o d, 0, Len(A)) = A BY <1>2, SliceConcat
<1>5. Slice(c \o B, Len(c), Len(c \o B)) = B BY <1>2, SliceConcat
<1>6. Slice(s, Len(A) + 1, Len(s)) = B BY <1>2, <1>5 DEF s
<1>7. Cut(s, Len(A)) = A \o B BY <1>3, <1>4, <1>6 DEF Cut
<1> QED BY <1>7 DEF s, c, u, Joins

LEMMA PutIs ==
  ASSUME NEW E, NEW s \in Seq(E), NEW i \in 0 .. Len(s), NEW x \in E
  PROVE  /\ Put(s, i, x) \in Seq(E) /\ Len(Put(s, i, x)) = Len(s) + 1
         /\ \A j \in 1 .. i : Put(s, i, x)[j] = s[j]
         /\ Put(s, i, x)[i + 1] = x
         /\ \A j \in i + 1 .. Len(s) : Put(s, i, x)[j + 1] = s[j]
<1> DEFINE A == Slice(s, 0, i)
           B == Slice(s, i, Len(s))
           t == Joins(A, x, B)
<1>1. Len(s) \in Nat /\ i \in 0 .. Len(s) /\ 0 \in 0 .. i /\ Len(s) \in 0 .. Len(s)
  BY LenProperties
<1>2. A \in Seq(E) /\ Len(A) = i - 0 /\ \A j \in 1 .. i - 0 : A[j] = s[0 + j]
  BY <1>1, SliceIs
<1>3. B \in Seq(E) /\ Len(B) = Len(s) - i /\ \A j \in 1 .. Len(s) - i : B[j] = s[i + j]
  BY <1>1, SliceIs
<1> HIDE DEF A, B
<1>4. /\ t \in Seq(E) /\ Len(t) = Len(A) + 1 + Len(B)
      /\ \A j \in 1 .. Len(A) : t[j] = A[j]
      /\ t[Len(A) + 1] = x
      /\ \A j \in 1 .. Len(B) : t[Len(A) + 1 + j] = B[j]
  <2>1. A \in Seq(E) /\ B \in Seq(E) BY <1>2, <1>3
  <2>2. t \in Seq(E) /\ Len(t) = Len(A) + 1 + Len(B) BY <2>1, JoinsIs
  <2>3. \A j \in 1 .. Len(A) : t[j] = A[j] BY <2>1, JoinsIs
  <2>4. t[Len(A) + 1] = x BY <2>1, JoinsIs
  <2>5. \A j \in 1 .. Len(B) : t[Len(A) + 1 + j] = B[j] BY <2>1, JoinsIs
  <2> QED BY <2>2, <2>3, <2>4, <2>5
<1> HIDE DEF t
<1>5. Len(t) = Len(s) + 1 /\ t[i + 1] = x BY <1>1, <1>2, <1>3, <1>4
<1>6. \A j \in 1 .. i : t[j] = s[j] BY <1>1, <1>2, <1>4
<1>7. \A j \in i + 1 .. Len(s) : t[j + 1] = s[j]
  <2> TAKE j \in i + 1 .. Len(s)
  <2>1. j - i \in 1 .. Len(B) /\ Len(A) + 1 + (j - i) = j + 1 /\ i + (j - i) = j
    BY <1>1, <1>2, <1>3
  <2>2. t[Len(A) + 1 + (j - i)] = B[j - i] /\ B[j - i] = s[i + (j - i)]
    BY <2>1, <1>3, <1>4
  <2> QED BY <2>1, <2>2
<1>8. t = Put(s, i, x) BY DEF t, A, B, Joins, Put
<1> QED BY <1>4, <1>5, <1>6, <1>7, <1>8

LEMMA CutIs ==
  ASSUME NEW E, NEW s \in Seq(E), NEW i \in 0 .. Len(s) - 1
  PROVE  /\ Cut(s, i) \in Seq(E) /\ Len(Cut(s, i)) = Len(s) - 1
         /\ \A j \in 1 .. i : Cut(s, i)[j] = s[j]
         /\ \A j \in i + 1 .. Len(s) - 1 : Cut(s, i)[j] = s[j + 1]
<1> DEFINE A == Slice(s, 0, i)
           B == Slice(s, i + 1, Len(s))
           t == A \o B
<1>1. Len(s) \in Nat /\ i \in 0 .. Len(s) /\ 0 \in 0 .. i /\ Len(s) \in 0 .. Len(s) /\ i + 1 \in 0 .. Len(s)
  BY LenProperties
<1>2. A \in Seq(E) /\ Len(A) = i - 0 /\ \A j \in 1 .. i - 0 : A[j] = s[0 + j]
  BY <1>1, SliceIs
<1>3. B \in Seq(E) /\ Len(B) = Len(s) - (i + 1) /\ \A j \in 1 .. Len(s) - (i + 1) : B[j] = s[i + 1 + j]
  BY <1>1, SliceIs
<1> HIDE DEF A, B
<1>4. /\ t \in Seq(E) /\ Len(t) = Len(A) + Len(B)
      /\ \A j \in 1 .. Len(A) + Len(B) : t[j] = IF j <= Len(A) THEN A[j] ELSE B[j - Len(A)]
  BY <1>2, <1>3, ConcatProperties
<1> HIDE DEF t
<1>5. Len(t) = Len(s) - 1 BY <1>1, <1>2, <1>3, <1>4
<1>6. \A j \in 1 .. i : t[j] = s[j]
  <2> TAKE j \in 1 .. i
  <2>1. j \in 1 .. Len(A) + Len(B) /\ j <= Len(A) /\ j \in 1 .. i - 0 /\ 0 + j = j
    BY <1>1, <1>2, <1>3
  <2> QED BY <2>1, <1>2, <1>4
<1>7. \A j \in i + 1 .. Len(s) - 1 : t[j] = s[j + 1]
  <2> TAKE j \in i + 1 .. Len(s) - 1
  <2>1. j - i \in 1 .. Len(s) - (i + 1) /\ i + 1 + (j - i) = j + 1 /\ j \in 1 .. Len(A) + Len(B) /\ ~(j <= Len(A)) /\ j - Len(A) = j - i
    BY <1>1, <1>2, <1>3
  <2>2. t[j] = B[j - i] /\ B[j - i] = s[i + 1 + (j - i)] BY <2>1, <1>3, <1>4
  <2> QED BY <2>1, <2>2
<1>8. t = Cut(s, i) BY DEF t, A, B, Cut
<1> QED BY <1>4, <1>5, <1>6, <1>7, <1>8

-----------------------------------------------------------------------------
(* Sequences without repetitions. *)

Members(s) == {s[i] : i \in 1 .. Len(s)}
Unique(s) == \A i, j \in 1 .. Len(s) : s[i] = s[j] => i = j

LEMMA RankIs ==
  ASSUME NEW E, NEW s \in Seq(E), NEW x \in Members(s)
  PROVE  RankOf(s, x) \in 1 .. Len(s) /\ s[RankOf(s, x)] = x
BY DEF Members, RankOf

LEMMA RankWhere ==
  ASSUME NEW E, NEW s \in Seq(E), Unique(s), NEW r \in 1 .. Len(s)
  PROVE  RankOf(s, s[r]) = r
<1>1. s[r] \in Members(s) BY DEF Members
<1>2. RankOf(s, s[r]) \in 1 .. Len(s) /\ s[RankOf(s, s[r])] = s[r]
  BY <1>1, RankIs
<1> QED BY <1>2 DEF Unique

LEMMA RankJoins ==
  ASSUME NEW E, NEW A \in Seq(E), NEW x \in E, NEW B \in Seq(E), Unique(Joins(A, x, B))
  PROVE  RankOf(Joins(A, x, B), x) = Len(A) + 1
<1> DEFINE s == Joins(A, x, B)
<1>1. Len(A) \in Nat /\ Len(B) \in Nat BY LenProperties
<1>2. s \in Seq(E) /\ Len(s) = Len(A) + 1 + Len(B) BY JoinsIs
<1>3. s[Len(A) + 1] = x BY JoinsIs
<1> HIDE DEF s
<1>4. Len(A) + 1 \in 1 .. Len(s) BY <1>1, <1>2
<1>5. RankOf(s, s[Len(A) + 1]) = Len(A) + 1 BY <1>2, <1>4, RankWhere DEF s
<1> QED BY <1>3, <1>5 DEF s

(* Every member stands between two parts. *)
LEMMA JoinsAt ==
  ASSUME NEW E, NEW s \in Seq(E), NEW x \in Members(s)
  PROVE  \E A, B \in Seq(E) : s = Joins(A, x, B) /\ x \in E
<1>1. RankOf(s, x) \in 1 .. Len(s) /\ s[RankOf(s, x)] = x BY RankIs
<1> DEFINE r == RankOf(s, x)
<1> HIDE DEF r
<1>2. r \in 1 .. Len(s) /\ s[r] = x BY <1>1 DEF r
<1>3. s = Joins(Slice(s, 0, r - 1), s[r], Slice(s, r, Len(s)))
  BY <1>2, JoinsWhere
<1>4. Slice(s, 0, r - 1) \in Seq(E) /\ s[r] \in E /\ Slice(s, r, Len(s)) \in Seq(E)
  BY <1>2, JoinsWhere
<1> QED BY <1>2, <1>3, <1>4

LEMMA LinkedJoins ==
  ASSUME NEW E, NEW A \in Seq(E), NEW x \in E, NEW B \in Seq(E), Unique(Joins(A, x, B)), NEW y
  PROVE  Linked(Joins(A, x, B), x, y) = Joins(A \o <<x>>, y, B)
<1> DEFINE u == <<x>>
           c == A \o u
<1>1. u \in Seq(E) /\ Len(u) = 1 OBVIOUS
<1>2. c \in Seq(E) /\ Len(c) = Len(A) + Len(u) BY <1>1, ConcatProperties
<1>3. RankOf(Joins(A, x, B), x) = Len(A) + 1 BY RankJoins
<1>4. Put(c \o B, Len(c), y) = Joins(c, y, B) BY <1>2, PutBetween
<1> QED BY <1>1, <1>2, <1>3, <1>4 DEF Linked, Joins

LEMMA UnlinkedJoins ==
  ASSUME NEW E, NEW A \in Seq(E), NEW x \in E, NEW B \in Seq(E), Unique(Joins(A, x, B))
  PROVE  Unlinked(Joins(A, x, B), x) = A \o B
<1>1. RankOf(Joins(A, x, B), x) = Len(A) + 1 /\ Len(A) \in Nat
  BY RankJoins, LenProperties
<1>2. (Len(A) + 1) - 1 = Len(A) BY <1>1
<1>3. Cut(Joins(A, x, B), Len(A)) = A \o B BY CutBetween
<1> QED BY <1>1, <1>2, <1>3 DEF Unlinked

(* A new element behind x, or x taken away. *)
LEMMA LinkedIs ==
  ASSUME NEW E, NEW s \in Seq(E), Unique(s), NEW x \in Members(s), NEW y \in E, y \notin Members(s)
  PROVE  /\ Linked(s, x, y) \in Seq(E)
         /\ Unique(Linked(s, x, y))
         /\ Members(Linked(s, x, y)) = Members(s) \cup {y}
<1> DEFINE r == RankOf(s, x)
           t == Put(s, r, y)
<1>1. Len(s) \in Nat BY LenProperties
<1>2. r \in 1 .. Len(s) /\ s[r] = x BY RankIs
<1>3. r \in 0 .. Len(s) BY <1>1, <1>2
<1> HIDE DEF r
<1>4. t \in Seq(E) /\ Len(t) = Len(s) + 1 BY <1>3, PutIs
<1>5. \A j \in 1 .. r : t[j] = s[j] BY <1>3, PutIs
<1>6. t[r + 1] = y BY <1>3, PutIs
<1>7. \A j \in r + 1 .. Len(s) : t[j + 1] = s[j] BY <1>3, PutIs
<1> HIDE DEF t
<1> DEFINE from(i) == IF i <= r THEN i ELSE i - 1
<1>8. \A i \in 1 .. Len(t) : i # r + 1 => from(i) \in 1 .. Len(s) /\ t[i] = s[from(i)]
  <2> TAKE i \in 1 .. Len(t)
  <2> HAVE i # r + 1
  <2>1. CASE i <= r BY <2>1, <1>1, <1>2, <1>5
  <2>2. CASE ~(i <= r)
    <3>1. i - 1 \in r + 1 .. Len(s) /\ (i - 1) + 1 = i /\ i - 1 \in 1 .. Len(s)
      BY <2>2, <1>1, <1>2, <1>4
    <3>2. t[(i - 1) + 1] = s[i - 1] BY <3>1, <1>7
    <3> QED BY <3>1, <3>2, <2>2
  <2> QED BY <2>1, <2>2
<1>9. \A i, j \in 1 .. Len(t) : i # r + 1 /\ j # r + 1 /\ from(i) = from(j) => i = j
  BY <1>1, <1>2, <1>4
<1>10. Unique(t)
  <2> SUFFICES ASSUME NEW i \in 1 .. Len(t), NEW j \in 1 .. Len(t), t[i] = t[j] PROVE i = j
    BY DEF Unique
  <2>1. \A k \in 1 .. Len(t) : k # r + 1 => t[k] # y BY <1>8 DEF Members
  <2>2. CASE i = r + 1 \/ j = r + 1 BY <2>1, <2>2, <1>6
  <2>3. CASE i # r + 1 /\ j # r + 1
    <3>1. from(i) \in 1 .. Len(s) /\ from(j) \in 1 .. Len(s) /\ s[from(i)] = s[from(j)]
      BY <2>3, <1>8
    <3>2. from(i) = from(j)
      <4> HIDE DEF from
      <4> QED BY <3>1 DEF Unique
    <3> QED BY <3>2, <2>3, <1>9
  <2> QED BY <2>2, <2>3
<1>11. Members(t) = Members(s) \cup {y}
  <2>1. ASSUME NEW i \in 1 .. Len(t) PROVE t[i] \in Members(s) \cup {y}
    BY <1>6, <1>8 DEF Members
  <2>2. ASSUME NEW j \in 1 .. Len(s) PROVE s[j] \in Members(t)
    <3>1. CASE j <= r
      <4>1. j \in 1 .. r /\ j \in 1 .. Len(t) BY <3>1, <1>1, <1>2, <1>4
      <4> QED BY <4>1, <1>5 DEF Members
    <3>2. CASE ~(j <= r)
      <4>1. j \in r + 1 .. Len(s) /\ j + 1 \in 1 .. Len(t)
        BY <3>2, <1>1, <1>2, <1>4
      <4> QED BY <4>1, <1>7 DEF Members
    <3> QED BY <3>1, <3>2
  <2>3. y \in Members(t)
    <3>1. r + 1 \in 1 .. Len(t) BY <1>1, <1>2, <1>4
    <3> QED BY <3>1, <1>6 DEF Members
  <2> QED BY <2>1, <2>2, <2>3 DEF Members
<1> QED BY <1>4, <1>10, <1>11 DEF t, r, Linked

LEMMA UnlinkedIs ==
  ASSUME NEW E, NEW s \in Seq(E), Unique(s), NEW x \in Members(s)
  PROVE  /\ Unlinked(s, x) \in Seq(E)
         /\ Unique(Unlinked(s, x))
         /\ Members(Unlinked(s, x)) = Members(s) \ {x}
<1> DEFINE r == RankOf(s, x)
           t == Cut(s, r - 1)
<1>1. Len(s) \in Nat BY LenProperties
<1>2. r \in 1 .. Len(s) /\ s[r] = x BY RankIs
<1>3. r - 1 \in 0 .. Len(s) - 1 BY <1>1, <1>2
<1> HIDE DEF r
<1>4. t \in Seq(E) /\ Len(t) = Len(s) - 1 BY <1>3, CutIs
<1>5. \A j \in 1 .. r - 1 : t[j] = s[j] BY <1>3, CutIs
<1>6. \A j \in (r - 1) + 1 .. Len(s) - 1 : t[j] = s[j + 1] BY <1>3, CutIs
<1> HIDE DEF t
<1> DEFINE from(i) == IF i < r THEN i ELSE i + 1
<1>7. \A i \in 1 .. Len(t) : from(i) \in 1 .. Len(s) /\ from(i) # r /\ t[i] = s[from(i)]
  <2> TAKE i \in 1 .. Len(t)
  <2>1. CASE i < r BY <2>1, <1>1, <1>2, <1>4, <1>5
  <2>2. CASE ~(i < r)
    <3>1. i \in (r - 1) + 1 .. Len(s) - 1 /\ i + 1 \in 1 .. Len(s) /\ i + 1 # r
      BY <2>2, <1>1, <1>2, <1>4
    <3> QED BY <3>1, <2>2, <1>6
  <2> QED BY <2>1, <2>2
<1>8. \A i, j \in 1 .. Len(t) : from(i) = from(j) => i = j BY <1>1, <1>2, <1>4
<1>9. Unique(t)
  <2> SUFFICES ASSUME NEW i \in 1 .. Len(t), NEW j \in 1 .. Len(t), t[i] = t[j] PROVE i = j
    BY DEF Unique
  <2>1. from(i) \in 1 .. Len(s) /\ from(j) \in 1 .. Len(s) /\ s[from(i)] = s[from(j)]
    BY <1>7
  <2>2. from(i) = from(j)
    <3> HIDE DEF from
    <3> QED BY <2>1 DEF Unique
  <2> QED BY <2>2, <1>8
<1>10. Members(t) = Members(s) \ {x}
  <2>1. ASSUME NEW i \in 1 .. Len(t) PROVE t[i] \in Members(s) \ {x}
    <3>1. from(i) \in 1 .. Len(s) /\ from(i) # r /\ t[i] = s[from(i)] BY <1>7
    <3> HIDE DEF from
    <3>2. s[from(i)] # s[r] BY <3>1, <1>2 DEF Unique
    <3> QED BY <3>1, <3>2, <1>2 DEF Members
  <2>2. ASSUME NEW j \in 1 .. Len(s), s[j] # x PROVE s[j] \in Members(t)
    <3>1. j # r BY <2>2, <1>2
    <3>2. CASE j < r
      <4>1. j \in 1 .. r - 1 /\ j \in 1 .. Len(t) BY <3>2, <1>1, <1>2, <1>4
      <4> QED BY <4>1, <1>5 DEF Members
    <3>3. CASE ~(j < r)
      <4>1. j - 1 \in (r - 1) + 1 .. Len(s) - 1 /\ j - 1 \in 1 .. Len(t) /\ (j - 1) + 1 = j
        BY <3>1, <3>3, <1>1, <1>2, <1>4
      <4>2. t[j - 1] = s[(j - 1) + 1] BY <4>1, <1>6
      <4> QED BY <4>1, <4>2 DEF Members
    <3> QED BY <3>2, <3>3
  <2> QED BY <2>1, <2>2 DEF Members
<1> QED BY <1>4, <1>9, <1>10 DEF t, r, Unlinked

-----------------------------------------------------------------------------
(* Concatenations. *)

(* f has sequences over E for the members of D. *)
Gives(f, D, E) == \A x \in D : f[x] \in Seq(E)

(* g computes the concatenation of f over s. *)
Gathers(g, f, s) ==
  /\ DOMAIN g = 0 .. Len(s) /\ g[0] = <<>>
  /\ \A i \in 1 .. Len(s) : g[i] = g[i - 1] \o f[s[i]]

LEMMA GathersExists ==
  ASSUME NEW E, NEW D, NEW f, Gives(f, D, E), NEW s \in Seq(D)
  PROVE  \E g \in [0 .. Len(s) -> Seq(E)] : Gathers(g, f, s)
<1> DEFINE m == Len(s)
           V == Seq(E)
           a == <<>>
           F == [i \in 1 .. m |-> [v \in V |-> v \o f[s[i]]]]
<1>1. m \in Nat /\ \A i \in 1 .. m : s[i] \in D BY LenProperties
<1>2. a \in V OBVIOUS
<1>3. \A i \in 1 .. m : f[s[i]] \in Seq(E) BY <1>1 DEF Gives
<1>4. \A v \in V, i \in 1 .. m : F[i][v] = v \o f[s[i]] OBVIOUS
<1>5. \A v \in V, i \in 1 .. m : F[i][v] \in V
  <2> TAKE v \in V, i \in 1 .. m
  <2>1. v \o f[s[i]] \in Seq(E) BY <1>3, ConcatProperties
  <2> QED BY <2>1, <1>4
<1> HIDE DEF F, m, V, a
<1>6. \E g \in [0 .. m -> V] : Recursive(m, a, F, g)
  BY <1>1, <1>2, <1>5, RecursiveExists
<1>7. PICK g \in [0 .. m -> V] : Recursive(m, a, F, g) BY <1>6
<1>8. DOMAIN g = 0 .. m /\ \A i \in 0 .. m : g[i] = IF i = 0 THEN a ELSE F[i][g[i - 1]]
  BY <1>7 DEF Recursive
<1>9. 0 \in 0 .. m BY <1>1
<1>10. g[0] = a BY <1>8, <1>9
<1>11. ASSUME NEW i \in 1 .. m PROVE g[i] = g[i - 1] \o f[s[i]]
  <2>1. i \in 0 .. m /\ i # 0 /\ i - 1 \in 0 .. m BY <1>1
  <2>2. g[i - 1] \in V BY <2>1
  <2>3. g[i] = F[i][g[i - 1]] BY <2>1, <1>8
  <2> QED BY <2>2, <2>3, <1>4
<1>12. Gathers(g, f, s) BY <1>8, <1>10, <1>11 DEF Gathers, m, a
<1> QED BY <1>12 DEF m, V

LEMMA GathersSame ==
  ASSUME NEW E, NEW D, NEW f, NEW s \in Seq(D), NEW g, Gathers(g, f, s), NEW h, Gathers(h, f, s)
  PROVE  g[Len(s)] = h[Len(s)]
<1> DEFINE S == {i \in 0 .. Len(s) : g[i] = h[i]}
<1>1. Len(s) \in Nat BY LenProperties
<1>2. 0 \in S BY <1>1 DEF Gathers
<1>3. \A n \in 0 .. Len(s) - 1 : n \in S => n + 1 \in S
  <2> TAKE n \in 0 .. Len(s) - 1
  <2> HAVE n \in S
  <2>1. n + 1 \in 1 .. Len(s) /\ (n + 1) - 1 = n /\ n + 1 \in 0 .. Len(s)
    BY <1>1
  <2>2. g[n + 1] = g[n] \o f[s[n + 1]] /\ h[n + 1] = h[n] \o f[s[n + 1]]
    BY <2>1 DEF Gathers
  <2> QED BY <2>1, <2>2
<1> HIDE DEF S
<1>4. 0 .. Len(s) \subseteq S BY <1>1, <1>2, <1>3, Climb
<1>5. Len(s) \in 0 .. Len(s) BY <1>1
<1> QED BY <1>4, <1>5 DEF S

(* Whatever computes it, the concatenation is Flat. *)
LEMMA FlatBy ==
  ASSUME NEW E, NEW D, NEW f, NEW s \in Seq(D), NEW V, NEW g \in [0 .. Len(s) -> V], Gathers(g, f, s)
  PROVE  Flat(f, s) = g[Len(s)]
<1> DEFINE n == Len(s)
           upto == CHOOSE u : u = [i \in 0 .. n |-> IF i = 0 THEN <<>> ELSE u[i - 1] \o f[s[i]]]
<1>1. n \in Nat BY LenProperties
<1>2. g = [i \in 0 .. n |-> IF i = 0 THEN <<>> ELSE g[i - 1] \o f[s[i]]]
  <2>1. ASSUME NEW i \in 0 .. n PROVE g[i] = IF i = 0 THEN <<>> ELSE g[i - 1] \o f[s[i]]
    <3>1. i = 0 \/ i \in 1 .. n BY <1>1
    <3> QED BY <3>1 DEF Gathers
  <2>2. g = [i \in 0 .. n |-> g[i]] BY SMTT(60)
  <2> QED BY <2>1, <2>2
<1>3. upto = [i \in 0 .. n |-> IF i = 0 THEN <<>> ELSE upto[i - 1] \o f[s[i]]]
  BY <1>2
<1>4. Flat(f, s) = upto[n] BY SMTT(60) DEF Flat
<1> HIDE DEF upto
<1>5. Gathers(upto, f, s) BY <1>1, <1>3, SMTT(60) DEF Gathers
<1> QED BY <1>4, <1>5, GathersSame

LEMMA FlatIs ==
  ASSUME NEW E, NEW D, NEW f, Gives(f, D, E), NEW s \in Seq(D)
  PROVE  \E g \in [0 .. Len(s) -> Seq(E)] : Gathers(g, f, s) /\ Flat(f, s) = g[Len(s)]
<1>1. PICK g \in [0 .. Len(s) -> Seq(E)] : Gathers(g, f, s) BY GathersExists
<1>2. Flat(f, s) = g[Len(s)] BY <1>1, FlatBy
<1> QED BY <1>1, <1>2

LEMMA FlatType ==
  ASSUME NEW E, NEW D, NEW f, Gives(f, D, E), NEW s \in Seq(D)
  PROVE  Flat(f, s) \in Seq(E)
<1>1. PICK g \in [0 .. Len(s) -> Seq(E)] : Flat(f, s) = g[Len(s)] BY FlatIs
<1>2. Len(s) \in 0 .. Len(s) BY LenProperties
<1> QED BY <1>1, <1>2

LEMMA FlatNil ==
  ASSUME NEW f
  PROVE  Flat(f, <<>>) = <<>>
<1> DEFINE s == <<>>
           D == {}
           V == {<<>>}
           g == [i \in 0 .. 0 |-> <<>>]
<1>1. s \in Seq(D) /\ Len(s) = 0 OBVIOUS
<1> HIDE DEF s
<1>2. g \in [0 .. Len(s) -> V] /\ DOMAIN g = 0 .. Len(s) /\ g[0] = <<>> /\ g[Len(s)] = <<>>
  BY <1>1
<1> HIDE DEF g
<1>3. Gathers(g, f, s) BY <1>1, <1>2 DEF Gathers
<1>4. Flat(f, s) = g[Len(s)] BY <1>1, <1>2, <1>3, FlatBy, SMTT(60)
<1> QED BY <1>2, <1>4 DEF s

(* Functions that agree on the members of s. *)
LEMMA FlatAgree ==
  ASSUME NEW E, NEW D, NEW f, Gives(f, D, E), NEW s \in Seq(D), NEW h,
         \A i \in 1 .. Len(s) : h[s[i]] = f[s[i]]
  PROVE  Flat(h, s) = Flat(f, s)
<1>1. PICK g \in [0 .. Len(s) -> Seq(E)] : Gathers(g, f, s) /\ Flat(f, s) = g[Len(s)]
  BY FlatIs
<1>2. Gathers(g, h, s) BY <1>1 DEF Gathers
<1> DEFINE V == Seq(E)
<1>3. g \in [0 .. Len(s) -> V] OBVIOUS
<1> HIDE DEF V
<1>4. Flat(h, s) = g[Len(s)] BY <1>2, <1>3, FlatBy
<1> QED BY <1>1, <1>4

LEMMA FlatConcat ==
  ASSUME NEW E, NEW D, NEW f, Gives(f, D, E), NEW s \in Seq(D), NEW t \in Seq(D)
  PROVE  Flat(f, s \o t) = Flat(f, s) \o Flat(f, t)
<1>1. PICK g \in [0 .. Len(s) -> Seq(E)] : Gathers(g, f, s) /\ Flat(f, s) = g[Len(s)]
  BY FlatIs
<1>2. PICK h \in [0 .. Len(t) -> Seq(E)] : Gathers(h, f, t) /\ Flat(f, t) = h[Len(t)]
  BY FlatIs
<1> DEFINE st == s \o t
           V == Seq(E)
           j == [i \in 0 .. Len(st) |-> IF i <= Len(s) THEN g[i] ELSE g[Len(s)] \o h[i - Len(s)]]
<1>3. Len(s) \in Nat /\ Len(t) \in Nat BY LenProperties
<1>4. st \in Seq(D) /\ Len(st) = Len(s) + Len(t)
      /\ \A i \in 1 .. Len(s) + Len(t) : st[i] = IF i <= Len(s) THEN s[i] ELSE t[i - Len(s)]
  BY ConcatProperties
<1> HIDE DEF st
<1>5. \A i \in 0 .. Len(s) : g[i] \in V OBVIOUS
<1>6. \A i \in 0 .. Len(t) : h[i] \in V OBVIOUS
<1>7. Len(s) \in 0 .. Len(s) BY <1>3
<1>8. \A i \in 1 .. Len(t) : f[t[i]] \in V
  <2>1. \A i \in 1 .. Len(t) : t[i] \in D BY LenProperties
  <2> QED BY <2>1 DEF Gives
<1>9. \A u, v \in V : u \o v \in V BY ConcatType
<1>10. \A u, v, w \in V : Associate(u, v, w) BY Associative
<1>11. \A u \in V : u \o <<>> = u BY ConcatEmptySeq
<1> HIDE DEF V
<1>12. j \in [0 .. Len(st) -> V]
  <2>1. ASSUME NEW i \in 0 .. Len(st) PROVE (IF i <= Len(s) THEN g[i] ELSE g[Len(s)] \o h[i - Len(s)]) \in V
    <3>1. CASE i <= Len(s)
      <4>1. i \in 0 .. Len(s) BY <3>1, <1>3, <1>4
      <4> QED BY <4>1, <3>1, <1>5
    <3>2. CASE ~(i <= Len(s))
      <4>1. i - Len(s) \in 0 .. Len(t) BY <3>2, <1>3, <1>4
      <4> QED BY <4>1, <3>2, <1>5, <1>6, <1>7, <1>9
    <3> QED BY <3>1, <3>2
  <2> QED BY <2>1
<1>13. \A i \in 0 .. Len(s) : j[i] = g[i] BY <1>3, <1>4
<1>14. \A i \in 1 .. Len(t) : j[Len(s) + i] = g[Len(s)] \o h[i]
  <2> TAKE i \in 1 .. Len(t)
  <2>1. Len(s) + i \in 0 .. Len(st) /\ ~(Len(s) + i <= Len(s)) /\ (Len(s) + i) - Len(s) = i
    BY <1>3, <1>4
  <2> QED BY <2>1
<1>15. DOMAIN j = 0 .. Len(st) OBVIOUS
<1> HIDE DEF j
<1>16. j[0] = <<>>
  <2>1. 0 \in 0 .. Len(s) BY <1>3
  <2> QED BY <2>1, <1>1, <1>13 DEF Gathers
<1>17. ASSUME NEW i \in 1 .. Len(st) PROVE j[i] = j[i - 1] \o f[st[i]]
  <2>1. CASE i <= Len(s)
    <3>1. i \in 1 .. Len(s) /\ i \in 0 .. Len(s) /\ i - 1 \in 0 .. Len(s) /\ i \in 1 .. Len(s) + Len(t)
      BY <2>1, <1>3, <1>4
    <3>2. st[i] = s[i] BY <3>1, <2>1, <1>4
    <3>3. g[i] = g[i - 1] \o f[s[i]] BY <3>1, <1>1 DEF Gathers
    <3> QED BY <3>1, <3>2, <3>3, <1>13
  <2>2. CASE i = Len(s) + 1
    <3>1. 1 \in 1 .. Len(t) /\ i = Len(s) + 1 /\ i - 1 = Len(s) /\ i \in 1 .. Len(s) + Len(t) /\ ~(i <= Len(s)) /\ i - Len(s) = 1
      BY <2>2, <1>3, <1>4
    <3>2. st[i] = t[1] /\ f[t[1]] \in V BY <3>1, <1>4, <1>8
    <3>3. j[i] = g[Len(s)] \o h[1] BY <3>1, <1>14
    <3>4. h[1] = h[0] \o f[t[1]] /\ h[0] = <<>>
      <4>1. \A k \in 1 .. Len(t) : h[k] = h[k - 1] \o f[t[k]]
        BY <1>2 DEF Gathers
      <4>2. h[1] = h[1 - 1] \o f[t[1]] /\ 1 - 1 = 0
        <5>1. h[1] = h[1 - 1] \o f[t[1]] BY <3>1, <4>1
        <5> QED BY <5>1
      <4>3. h[0] = <<>> BY <1>2 DEF Gathers
      <4> QED BY <4>2, <4>3
    <3>5. <<>> \o f[t[1]] = f[t[1]] BY <3>2, ConcatEmptySeq DEF V
    <3>6. j[i - 1] = g[Len(s)] BY <3>1, <1>7, <1>13, SMTT(60)
    <3> QED BY <3>2, <3>3, <3>4, <3>5, <3>6
  <2>3. CASE i > Len(s) + 1
    <3> DEFINE k == i - Len(s)
    <3>1. k \in 1 .. Len(t) /\ k - 1 \in 1 .. Len(t) /\ Len(s) + k = i /\ Len(s) + (k - 1) = i - 1
          /\ i \in 1 .. Len(s) + Len(t) /\ ~(i <= Len(s)) /\ k - 1 \in 0 .. Len(t)
      BY <2>3, <1>3, <1>4
    <3>2. st[i] = t[k] BY <3>1, <1>4
    <3> HIDE DEF k
    <3>3. j[i] = g[Len(s)] \o h[k] BY <3>1, <1>14
    <3>4. j[i - 1] = g[Len(s)] \o h[k - 1] BY <3>1, <1>14
    <3>5. h[k] = h[k - 1] \o f[t[k]] BY <3>1, <1>2 DEF Gathers
    <3>6. g[Len(s)] \in V /\ h[k - 1] \in V /\ f[t[k]] \in V
      BY <3>1, <1>5, <1>6, <1>7, <1>8
    <3>7. (g[Len(s)] \o h[k - 1]) \o f[t[k]] = g[Len(s)] \o (h[k - 1] \o f[t[k]])
      BY <3>6, <1>10, ZenonT(60) DEF Associate
    <3> QED BY <3>2, <3>3, <3>4, <3>5, <3>7
  <2>4. i \in Int /\ Len(s) \in Int BY <1>3, <1>4
  <2>5. i <= Len(s) \/ i = Len(s) + 1 \/ i > Len(s) + 1 BY <2>4
  <2> QED BY <2>1, <2>2, <2>3, <2>5, Zenon
<1>18. Gathers(j, f, st)
  <2>1. \A i \in 1 .. Len(st) : j[i] = j[i - 1] \o f[st[i]] BY <1>17
  <2> QED BY <1>15, <1>16, <2>1 DEF Gathers
<1>19. Flat(f, st) = j[Len(st)]
  <2>1. st \in Seq(D) BY <1>4
  <2> QED BY <2>1, <1>12, <1>18, FlatBy
<1>20. j[Len(st)] = Flat(f, s) \o Flat(f, t)
  <2>1. CASE Len(t) = 0
    <3>1. Len(st) = Len(s) /\ h[0] = <<>> BY <2>1, <1>2, <1>3, <1>4 DEF Gathers
    <3>2. g[Len(s)] \o <<>> = g[Len(s)] /\ Len(s) \in 0 .. Len(s)
      BY <1>5, <1>7, <1>11
    <3> QED BY <3>1, <3>2, <2>1, <1>1, <1>2, <1>7, <1>13
  <2>2. CASE Len(t) # 0
    <3>1. Len(t) \in 1 .. Len(t) BY <2>2, <1>3
    <3> QED BY <3>1, <1>1, <1>2, <1>4, <1>14
  <2> QED BY <2>1, <2>2
<1> QED BY <1>19, <1>20 DEF st

LEMMA FlatOne ==
  ASSUME NEW E, NEW D, NEW f, Gives(f, D, E), NEW x \in D
  PROVE  Flat(f, <<x>>) = f[x]
<1> DEFINE s == <<x>>
           V == Seq(E)
           g == [i \in 0 .. 1 |-> IF i = 0 THEN <<>> ELSE f[x]]
<1>1. s \in Seq(D) /\ Len(s) = 1 /\ s[1] = x OBVIOUS
<1> HIDE DEF s
<1>2. f[x] \in V /\ <<>> \in V BY DEF Gives
<1>3. <<>> \o f[x] = f[x] BY <1>2, ConcatEmptySeq
<1> HIDE DEF V
<1>4. g \in [0 .. Len(s) -> V] /\ DOMAIN g = 0 .. Len(s) /\ g[0] = <<>> /\ g[1] = f[x]
  BY <1>1, <1>2
<1> HIDE DEF g
<1>5. Gathers(g, f, s)
  <2>1. \A i \in 1 .. Len(s) : i = 1 /\ i - 1 = 0 BY <1>1
  <2>2. g[1] = g[0] \o f[s[1]] BY <1>1, <1>3, <1>4
  <2> QED BY <2>1, <2>2, <1>4 DEF Gathers
<1>6. Flat(f, s) = g[Len(s)] BY <1>1, <1>4, <1>5, FlatBy, ZenonT(60)
<1> QED BY <1>1, <1>4, <1>6 DEF s

FlatOfJoins(f, A, x, B, D, E) == Flat(f, Joins(A, x, B)) = (Flat(f, A) \o f[x]) \o Flat(f, B)

LEMMA FlatJoins ==
  ASSUME NEW E, NEW D, NEW f, Gives(f, D, E), NEW A \in Seq(D), NEW x \in D, NEW B \in Seq(D)
  PROVE  FlatOfJoins(f, A, x, B, D, E)
<1> DEFINE u == <<x>>
           c == A \o u
<1>1. u \in Seq(D) /\ Flat(f, u) = f[x] BY FlatOne
<1> HIDE DEF u
<1>2. c \in Seq(D) /\ Flat(f, c) = Flat(f, A) \o f[x]
  <2>1. c \in Seq(D) BY <1>1, ConcatProperties
  <2>2. Flat(f, A \o u) = Flat(f, A) \o Flat(f, u)
    <3>1. Gives(f, D, E) /\ A \in Seq(D) /\ u \in Seq(D) BY <1>1
    <3> QED BY <3>1, FlatConcat, SMTT(60)
  <2> QED BY <2>1, <2>2, <1>1
<1> HIDE DEF c
<1>3. Flat(f, c \o B) = Flat(f, c) \o Flat(f, B)
  <2>1. Gives(f, D, E) /\ c \in Seq(D) /\ B \in Seq(D) BY <1>2
  <2> QED BY <2>1, FlatConcat, SMTT(60)
<1> QED BY <1>2, <1>3 DEF c, u, Joins, FlatOfJoins

-----------------------------------------------------------------------------
(* Concatenations of a sequence that changes in one place. *)

(* What is in the parts of a sequence is in the sequence. *)
LEMMA PartOf ==
  ASSUME NEW E, NEW U \in Seq(E), NEW S \in Seq(E), NEW V \in Seq(E)
  PROVE  /\ (U \o S) \o V \in Seq(E) /\ Len((U \o S) \o V) = Len(U) + Len(S) + Len(V)
         /\ \A i \in 1 .. Len(U) : ((U \o S) \o V)[i] = U[i]
         /\ \A i \in 1 .. Len(S) : ((U \o S) \o V)[Len(U) + i] = S[i]
         /\ \A i \in 1 .. Len(V) : ((U \o S) \o V)[Len(U) + Len(S) + i] = V[i]
<1> DEFINE c == U \o S
           t == c \o V
<1>1. Len(U) \in Nat /\ Len(S) \in Nat /\ Len(V) \in Nat BY LenProperties
<1>2. c \in Seq(E) /\ Len(c) = Len(U) + Len(S) /\ \A i \in 1 .. Len(U) + Len(S) : c[i] = IF i <= Len(U) THEN U[i] ELSE S[i - Len(U)]
  BY ConcatProperties
<1> HIDE DEF c
<1>3. t \in Seq(E) /\ Len(t) = Len(c) + Len(V) /\ \A i \in 1 .. Len(c) + Len(V) : t[i] = IF i <= Len(c) THEN c[i] ELSE V[i - Len(c)]
  <2>1. c \in Seq(E) /\ V \in Seq(E) BY <1>2
  <2> QED BY <2>1, ConcatProperties
<1> HIDE DEF t
<1>4. Len(t) = Len(U) + Len(S) + Len(V) BY <1>1, <1>2, <1>3
<1>5. \A i \in 1 .. Len(U) : t[i] = U[i]
  <2> TAKE i \in 1 .. Len(U)
  <2>1. i \in 1 .. Len(c) + Len(V) /\ i <= Len(c) /\ i \in 1 .. Len(U) + Len(S) /\ i <= Len(U)
    BY <1>1, <1>2
  <2> QED BY <2>1, <1>2, <1>3
<1>6. \A i \in 1 .. Len(S) : t[Len(U) + i] = S[i]
  <2> TAKE i \in 1 .. Len(S)
  <2>1. Len(U) + i \in 1 .. Len(c) + Len(V) /\ Len(U) + i <= Len(c) /\ Len(U) + i \in 1 .. Len(U) + Len(S)
        /\ ~(Len(U) + i <= Len(U)) /\ (Len(U) + i) - Len(U) = i
    BY <1>1, <1>2
  <2>2. c[Len(U) + i] = S[(Len(U) + i) - Len(U)] BY <2>1, <1>2
  <2>3. t[Len(U) + i] = c[Len(U) + i] BY <2>1, <1>3
  <2> QED BY <2>1, <2>2, <2>3
<1>7. \A i \in 1 .. Len(V) : t[Len(U) + Len(S) + i] = V[i]
  <2> TAKE i \in 1 .. Len(V)
  <2> DEFINE j == Len(U) + Len(S) + i
  <2>1. j \in 1 .. Len(c) + Len(V) /\ ~(j <= Len(c)) /\ j - Len(c) = i
    BY <1>1, <1>2
  <2>2. t[j] = V[j - Len(c)] BY <2>1, <1>3
  <2> QED BY <2>1, <2>2
<1> QED BY <1>3, <1>4, <1>5, <1>6, <1>7 DEF t, c

LEMMA PartUnique ==
  ASSUME NEW E, NEW U \in Seq(E), NEW S \in Seq(E), NEW V \in Seq(E), Unique((U \o S) \o V)
  PROVE  Unique(S)
<1> DEFINE t == (U \o S) \o V
<1>1. Len(U) \in Nat /\ Len(S) \in Nat /\ Len(V) \in Nat BY LenProperties
<1>2. Len(t) = Len(U) + Len(S) + Len(V) BY PartOf
<1>3. \A i \in 1 .. Len(S) : t[Len(U) + i] = S[i] BY PartOf
<1> HIDE DEF t
<1>4. SUFFICES ASSUME NEW i \in 1 .. Len(S), NEW j \in 1 .. Len(S), S[i] = S[j] PROVE i = j
  BY DEF Unique
<1>5. t[Len(U) + i] = t[Len(U) + j] BY <1>3, <1>4
<1>6. Len(U) + i \in 1 .. Len(t) /\ Len(U) + j \in 1 .. Len(t) BY <1>1, <1>2
<1>7. Len(U) + i = Len(U) + j BY <1>5, <1>6 DEF Unique, t
<1> QED BY <1>1, <1>7

(* Nothing stands twice in a sequence without repetitions. *)
LEMMA PartApart ==
  ASSUME NEW E, NEW A \in Seq(E), NEW x \in E, NEW B \in Seq(E), Unique(Joins(A, x, B))
  PROVE  x \notin Members(A) /\ x \notin Members(B)
<1> DEFINE t == Joins(A, x, B)
<1>1. Len(A) \in Nat /\ Len(B) \in Nat BY LenProperties
<1>2. Len(t) = Len(A) + 1 + Len(B) BY JoinsIs
<1>3. \A i \in 1 .. Len(A) : t[i] = A[i] BY JoinsIs
<1>4. t[Len(A) + 1] = x BY JoinsIs
<1>5. \A i \in 1 .. Len(B) : t[Len(A) + 1 + i] = B[i] BY JoinsIs
<1> HIDE DEF t
<1>6. Unique(t) BY DEF t
<1>7. Len(A) + 1 \in 1 .. Len(t) BY <1>1, <1>2
<1>8. ASSUME NEW i \in 1 .. Len(A) PROVE A[i] # x
  <2>1. i \in 1 .. Len(t) /\ i # Len(A) + 1 BY <1>1, <1>2
  <2> QED BY <2>1, <1>3, <1>4, <1>6, <1>7 DEF Unique
<1>9. ASSUME NEW i \in 1 .. Len(B) PROVE B[i] # x
  <2>1. Len(A) + 1 + i \in 1 .. Len(t) /\ Len(A) + 1 + i # Len(A) + 1
    BY <1>1, <1>2
  <2> QED BY <2>1, <1>4, <1>5, <1>6, <1>7 DEF Unique
<1> QED BY <1>8, <1>9 DEF Members

JoinsOf(t, A, x, B, E) ==
  /\ t \in Seq(E) /\ Len(t) = Len(A) + 1 + Len(B)
  /\ \A i \in 1 .. Len(A) : t[i] = A[i]
  /\ t[Len(A) + 1] = x
  /\ \A i \in 1 .. Len(B) : t[Len(A) + 1 + i] = B[i]

LEMMA JoinsAre ==
  ASSUME NEW E, NEW A \in Seq(E), NEW x \in E, NEW B \in Seq(E)
  PROVE  JoinsOf(Joins(A, x, B), A, x, B, E)
<1>1. Joins(A, x, B) \in Seq(E) /\ Len(Joins(A, x, B)) = Len(A) + 1 + Len(B)
  BY JoinsIs
<1>2. \A i \in 1 .. Len(A) : Joins(A, x, B)[i] = A[i] BY JoinsIs
<1>3. Joins(A, x, B)[Len(A) + 1] = x BY JoinsIs
<1>4. \A i \in 1 .. Len(B) : Joins(A, x, B)[Len(A) + 1 + i] = B[i] BY JoinsIs
<1> QED BY <1>1, <1>2, <1>3, <1>4 DEF JoinsOf

LEMMA MembersJoins ==
  ASSUME NEW E, NEW A \in Seq(E), NEW x \in E, NEW B \in Seq(E)
  PROVE  Members(Joins(A, x, B)) = Members(A) \cup {x} \cup Members(B)
<1> DEFINE t == Joins(A, x, B)
<1>1. Len(A) \in Nat /\ Len(B) \in Nat BY LenProperties
<1> HIDE DEF t
<1>0. /\ Len(t) = Len(A) + 1 + Len(B)
      /\ \A i \in 1 .. Len(A) : t[i] = A[i]
      /\ t[Len(A) + 1] = x
      /\ \A i \in 1 .. Len(B) : t[Len(A) + 1 + i] = B[i]
  <2>1. JoinsOf(t, A, x, B, E) BY JoinsAre DEF t
  <2> QED BY <2>1 DEF JoinsOf
<1>2. Len(t) = Len(A) + 1 + Len(B) BY <1>0
<1>3. \A i \in 1 .. Len(A) : t[i] = A[i] BY <1>0
<1>4. t[Len(A) + 1] = x BY <1>0
<1>5. \A i \in 1 .. Len(B) : t[Len(A) + 1 + i] = B[i] BY <1>0
<1>6. ASSUME NEW i \in 1 .. Len(t) PROVE t[i] \in Members(A) \cup {x} \cup Members(B)
  <2>1. CASE i <= Len(A)
    <3>1. i \in 1 .. Len(A) BY <2>1, <1>1, <1>2
    <3> QED BY <3>1, <1>3 DEF Members
  <2>2. CASE i = Len(A) + 1 BY <2>2, <1>4
  <2>3. CASE i > Len(A) + 1
    <3>1. i - (Len(A) + 1) \in 1 .. Len(B) /\ Len(A) + 1 + (i - (Len(A) + 1)) = i
      BY <2>3, <1>1, <1>2
    <3>2. t[Len(A) + 1 + (i - (Len(A) + 1))] = B[i - (Len(A) + 1)] BY <3>1, <1>5
    <3> QED BY <3>1, <3>2 DEF Members
  <2>4. i \in Int /\ Len(A) \in Int BY <1>1, <1>2
  <2>5. i <= Len(A) \/ i = Len(A) + 1 \/ i > Len(A) + 1 BY <2>4
  <2> QED BY <2>1, <2>2, <2>3, <2>5, Zenon
<1>7. ASSUME NEW i \in 1 .. Len(A) PROVE A[i] \in Members(t)
  <2>1. i \in 1 .. Len(t) BY <1>1, <1>2
  <2> QED BY <2>1, <1>3 DEF Members
<1>8. x \in Members(t)
  <2>1. Len(A) + 1 \in 1 .. Len(t) BY <1>1, <1>2
  <2> QED BY <2>1, <1>4 DEF Members
<1>9. ASSUME NEW i \in 1 .. Len(B) PROVE B[i] \in Members(t)
  <2>1. Len(A) + 1 + i \in 1 .. Len(t) BY <1>1, <1>2
  <2> QED BY <2>1, <1>5 DEF Members
<1> QED BY <1>6, <1>7, <1>8, <1>9, ZenonT(60) DEF Members, t

(* A sequence in front of and one behind the parts around x. *)

JoinedInto(U, P, x, Q, V, E) ==
  /\ (U \o Joins(P, x, Q)) \o V = Joins(U \o P, x, Q \o V)
  /\ U \o P \in Seq(E) /\ Q \o V \in Seq(E)

LEMMA JoinsInto ==
  ASSUME NEW E, NEW U \in Seq(E), NEW P \in Seq(E), NEW x \in E, NEW Q \in Seq(E), NEW V \in Seq(E)
  PROVE  JoinedInto(U, P, x, Q, V, E)
<1> DEFINE w == <<x>>
           c == P \o w

<1>1. w \in Seq(E) OBVIOUS
<1> HIDE DEF w
<1>2. c \in Seq(E) BY <1>1, ConcatProperties
<1>3. Associate(U, P, w) BY <1>1, Associative
<1> HIDE DEF c
<1>4. Associate(U, c, Q) BY <1>2, Associative
<1>5. U \o c \in Seq(E) /\ U \o P \in Seq(E) /\ Q \o V \in Seq(E)
  BY <1>2, ConcatProperties
<1> DEFINE d == U \o c
<1>6. d \in Seq(E) BY <1>5
<1> HIDE DEF d
<1>7. Associate(d, Q, V) BY <1>6, Associative
<1> QED BY <1>3, <1>4, <1>5, <1>7 DEF Associate, d, c, w, Joins, JoinedInto

(* x stands right in front of y. *)
Pairs(A, x, y, B) == Joins(A \o <<x>>, y, B)

PairsTyped(A, x, y, B, E) ==
  /\ A \o <<x>> \in Seq(E) /\ <<y>> \o B \in Seq(E)
  /\ Pairs(A, x, y, B) \in Seq(E)
  /\ Pairs(A, x, y, B) = Joins(A, x, <<y>> \o B)
  /\ Members(Pairs(A, x, y, B)) = Members(A) \cup {x, y} \cup Members(B)

LEMMA PairsType ==
  ASSUME NEW E, NEW A \in Seq(E), NEW x \in E, NEW y \in E, NEW B \in Seq(E)
  PROVE  PairsTyped(A, x, y, B, E)
<1> DEFINE u == <<x>>
           w == <<y>>
           c == A \o u
<1>1. u \in Seq(E) /\ w \in Seq(E) OBVIOUS
<1>2. c \in Seq(E) /\ w \o B \in Seq(E)
  <2> HIDE DEF u, w
  <2> QED BY <1>1, ConcatProperties
<1>3. Members(c) = Members(A) \cup {x}
  <2>1. Len(u) = 1 /\ u[1] = x /\ Len(A) \in Nat BY LenProperties
  <2> HIDE DEF u
  <2>0. u \in Seq(E) /\ A \in Seq(E) BY <1>1 DEF u
  <2>2. Len(c) = Len(A) + Len(u) /\ \A i \in 1 .. Len(A) + Len(u) : c[i] = IF i <= Len(A) THEN A[i] ELSE u[i - Len(A)]
    BY <2>0, ConcatProperties
  <2> HIDE DEF c
  <2>3. \A i \in 1 .. Len(A) : c[i] = A[i] /\ i \in 1 .. Len(c) BY <2>1, <2>2
  <2>4. c[Len(A) + 1] = x /\ Len(A) + 1 \in 1 .. Len(c) BY <2>1, <2>2
  <2>5. \A i \in 1 .. Len(c) : i \in 1 .. Len(A) \/ i = Len(A) + 1 BY <2>1, <2>2
  <2> QED BY <2>3, <2>4, <2>5 DEF Members
<1>4. (c \o w) \o B = c \o (w \o B)
  <2> HIDE DEF c, w
  <2> QED BY <1>1, <1>2, ConcatAssociative, SMTT(60)
<1>5. Pairs(A, x, y, B) = Joins(A, x, w \o B) BY <1>4 DEF Pairs, Joins
<1>6. Pairs(A, x, y, B) \in Seq(E) /\ Members(Pairs(A, x, y, B)) = Members(c) \cup {y} \cup Members(B)
  <2> HIDE DEF c
  <2>1. Joins(c, y, B) \in Seq(E) BY <1>2, JoinsIs
  <2>2. Members(Joins(c, y, B)) = Members(c) \cup {y} \cup Members(B)
    BY <1>2, MembersJoins
  <2> QED BY <2>1, <2>2 DEF Pairs, c
<1> QED BY <1>2, <1>3, <1>5, <1>6 DEF PairsTyped

LEMMA PairsApart ==
  ASSUME NEW E, NEW A \in Seq(E), NEW x \in E, NEW y \in E, NEW B \in Seq(E), Unique(Pairs(A, x, y, B))
  PROVE  /\ x \notin Members(A) /\ x \notin Members(B)
         /\ y \notin Members(A) /\ y \notin Members(B) /\ x # y
<1> DEFINE c == A \o <<x>>
           d == <<y>> \o B
<1>1. c \in Seq(E) /\ d \in Seq(E) /\ Pairs(A, x, y, B) = Joins(c, y, B) /\ Pairs(A, x, y, B) = Joins(A, x, d)
  <2>1. PairsTyped(A, x, y, B, E) BY PairsType
  <2> QED BY <2>1 DEF Pairs, PairsTyped
<1> HIDE DEF c, d
<1>2. y \notin Members(c) /\ y \notin Members(B)
  <2>1. Unique(Joins(c, y, B)) BY <1>1
  <2> QED BY <1>1, <2>1, PartApart
<1>3. x \notin Members(A) /\ x \notin Members(d)
  <2>1. Unique(Joins(A, x, d)) BY <1>1
  <2> QED BY <1>1, <2>1, PartApart
<1>4. Members(c) = Members(A) \cup {x}
  <2> DEFINE nil == <<>>
  <2>1. nil \in Seq(E) /\ Members(nil) = {} BY DEF Members
  <2>2. Joins(A, x, nil) = c
    <3>1. c \o <<>> = c BY <1>1, ConcatEmptySeq
    <3> QED BY <3>1 DEF Joins, c
  <2> HIDE DEF nil
  <2>3. Members(Joins(A, x, nil)) = Members(A) \cup {x} \cup Members(nil)
    BY <2>1, MembersJoins
  <2> QED BY <2>1, <2>2, <2>3
<1>5. Members(d) = {y} \cup Members(B)
  <2> DEFINE nil == <<>>
  <2>1. nil \in Seq(E) /\ Members(nil) = {} BY DEF Members
  <2>2. Joins(nil, y, B) = d
    <3>1. <<>> \o <<y>> = <<y>> BY ConcatEmptySeq
    <3> QED BY <3>1 DEF Joins, d
  <2> HIDE DEF nil
  <2>3. Members(Joins(nil, y, B)) = Members(nil) \cup {y} \cup Members(B)
    BY <2>1, MembersJoins
  <2> QED BY <2>1, <2>2, <2>3
<1> QED BY <1>2, <1>3, <1>4, <1>5

(* The concatenation before and after f changes for x alone. *)
Around(f, h, A, x, B, D, E) ==
  /\ Flat(f, Joins(A, x, B)) = (Flat(f, A) \o f[x]) \o Flat(f, B)
  /\ Flat(h, Joins(A, x, B)) = (Flat(f, A) \o h[x]) \o Flat(f, B)
  /\ Flat(f, A) \in Seq(E) /\ Flat(f, B) \in Seq(E) /\ f[x] \in Seq(E)

LEMMA FlatAround ==
  ASSUME NEW E, NEW D, NEW f, Gives(f, D, E), NEW A \in Seq(D), NEW x \in D, NEW B \in Seq(D),
         Unique(Joins(A, x, B)), NEW h, h[x] \in Seq(E),
         \A z \in Members(A) \cup Members(B) : h[z] = f[z]
  PROVE  Around(f, h, A, x, B, D, E)
<1>1. FlatOfJoins(f, A, x, B, D, E) BY FlatJoins
<1> DEFINE g == [z \in D |-> IF z = x THEN h[x] ELSE f[z]]
           s == Joins(A, x, B)
<1>2. Gives(g, D, E) BY DEF Gives
<1>3. g[x] = h[x] OBVIOUS
<1>4. x \notin Members(A) /\ x \notin Members(B) BY PartApart
<1>5. \A i \in 1 .. Len(A) : A[i] \in D /\ A[i] \in Members(A)
  BY LenProperties DEF Members
<1>6. \A i \in 1 .. Len(B) : B[i] \in D /\ B[i] \in Members(B)
  BY LenProperties DEF Members
<1>7. \A i \in 1 .. Len(A) : g[A[i]] = f[A[i]] BY <1>4, <1>5
<1>8. \A i \in 1 .. Len(B) : g[B[i]] = f[B[i]] BY <1>4, <1>6
<1>9. s \in Seq(D) /\ Members(s) = Members(A) \cup {x} \cup Members(B)
  BY JoinsIs, MembersJoins
<1>10. \A z \in Members(s) : h[z] = g[z]
  <2> TAKE z \in Members(s)
  <2>1. CASE z = x BY <2>1, <1>3
  <2>2. CASE z # x
    <3>1. z \in Members(A) \cup Members(B) BY <2>2, <1>9
    <3>2. z \in D BY <3>1, <1>5, <1>6 DEF Members
    <3> QED BY <3>1, <3>2, <2>2
  <2> QED BY <2>1, <2>2
<1> HIDE DEF g, s
<1>11. Flat(h, s) = Flat(g, s)
  <2>1. \A i \in 1 .. Len(s) : h[s[i]] = g[s[i]] BY <1>10 DEF Members
  <2>2. s \in Seq(D) BY <1>9
  <2> QED BY <1>2, <2>1, <2>2, FlatAgree
<1>12. FlatOfJoins(g, A, x, B, D, E) BY <1>2, FlatJoins
<1>13. Flat(g, A) = Flat(f, A) BY <1>7, FlatAgree
<1>14. Flat(g, B) = Flat(f, B) BY <1>8, FlatAgree
<1>15. Flat(f, A) \in Seq(E) /\ Flat(f, B) \in Seq(E) /\ f[x] \in Seq(E)
  BY FlatType DEF Gives
<1> QED
  BY <1>1, <1>3, <1>11, <1>12, <1>13, <1>14, <1>15 DEF s, Around, FlatOfJoins

FlatOfPairs(f, A, x, y, B, D, E) ==
  Flat(f, Pairs(A, x, y, B)) = (Flat(f, A) \o (f[x] \o f[y])) \o Flat(f, B)

LEMMA FlatPairs ==
  ASSUME NEW E, NEW D, NEW f, Gives(f, D, E), NEW A \in Seq(D), NEW x \in D, NEW y \in D, NEW B \in Seq(D)
  PROVE  FlatOfPairs(f, A, x, y, B, D, E)
<1> DEFINE c == A \o <<x>>
<1>1. c \in Seq(D)
  <2>1. PairsTyped(A, x, y, B, D) BY PairsType
  <2> QED BY <2>1 DEF PairsTyped
<1>2. Flat(f, c) = Flat(f, A) \o f[x]
  <2> DEFINE w == <<x>>
  <2>1. w \in Seq(D) /\ Flat(f, w) = f[x] BY FlatOne
  <2> HIDE DEF w
  <2>2. Gives(f, D, E) /\ A \in Seq(D) /\ w \in Seq(D) BY <2>1
  <2>3. Flat(f, A \o w) = Flat(f, A) \o Flat(f, w) BY <2>2, FlatConcat
  <2> QED BY <2>1, <2>3 DEF w
<1> HIDE DEF c
<1>3. FlatOfJoins(f, c, y, B, D, E) BY <1>1, FlatJoins
<1>4. Flat(f, A) \in Seq(E) /\ f[x] \in Seq(E) /\ f[y] \in Seq(E)
  BY FlatType DEF Gives
<1>5. Associate(Flat(f, A), f[x], f[y]) BY <1>4, Associative
<1> QED BY <1>2, <1>3, <1>5 DEF Associate, Pairs, FlatOfPairs, FlatOfJoins, c

(* The same where f changes for two neighbours. *)
AroundTwo(f, h, A, x, y, B, D, E) ==
  /\ Flat(f, Pairs(A, x, y, B)) = (Flat(f, A) \o (f[x] \o f[y])) \o Flat(f, B)
  /\ Flat(h, Pairs(A, x, y, B)) = (Flat(f, A) \o (h[x] \o h[y])) \o Flat(f, B)
  /\ Flat(f, A) \in Seq(E) /\ Flat(f, B) \in Seq(E) /\ f[x] \in Seq(E) /\ f[y] \in Seq(E)
LEMMA FlatAroundTwo ==
  ASSUME NEW E, NEW D, NEW f, Gives(f, D, E), NEW A \in Seq(D), NEW x \in D, NEW y \in D, NEW B \in Seq(D),
         Unique(Pairs(A, x, y, B)), NEW h, h[x] \in Seq(E), h[y] \in Seq(E),
         \A z \in Members(A) \cup Members(B) : h[z] = f[z]
  PROVE  AroundTwo(f, h, A, x, y, B, D, E)
<1>1. FlatOfPairs(f, A, x, y, B, D, E) BY FlatPairs
<1> DEFINE g == [z \in D |-> IF z = x \/ z = y THEN h[z] ELSE f[z]]
           s == Pairs(A, x, y, B)
<1>2. Gives(g, D, E) BY DEF Gives
<1>3. g[x] = h[x] /\ g[y] = h[y] OBVIOUS
<1>4. /\ x \notin Members(A) /\ x \notin Members(B)
      /\ y \notin Members(A) /\ y \notin Members(B) /\ x # y
  BY PairsApart
<1>5. \A i \in 1 .. Len(A) : A[i] \in D /\ A[i] \in Members(A)
  BY LenProperties DEF Members
<1>6. \A i \in 1 .. Len(B) : B[i] \in D /\ B[i] \in Members(B)
  BY LenProperties DEF Members
<1>7. \A i \in 1 .. Len(A) : g[A[i]] = f[A[i]] BY <1>4, <1>5
<1>8. \A i \in 1 .. Len(B) : g[B[i]] = f[B[i]] BY <1>4, <1>6
<1>9. s \in Seq(D) /\ Members(s) = Members(A) \cup {x, y} \cup Members(B)
  <2>1. PairsTyped(A, x, y, B, D) BY PairsType
  <2> QED BY <2>1 DEF PairsTyped
<1>10. \A z \in Members(s) : h[z] = g[z]
  <2> TAKE z \in Members(s)
  <2>1. CASE z = x \/ z = y BY <2>1, <1>3
  <2>2. CASE z # x /\ z # y
    <3>1. z \in Members(A) \cup Members(B) BY <2>2, <1>9
    <3>2. z \in D BY <3>1, <1>5, <1>6 DEF Members
    <3> QED BY <3>1, <3>2, <2>2
  <2> QED BY <2>1, <2>2
<1> HIDE DEF g, s
<1>11. Flat(h, s) = Flat(g, s)
  <2>1. \A i \in 1 .. Len(s) : h[s[i]] = g[s[i]] BY <1>10 DEF Members
  <2>2. s \in Seq(D) BY <1>9
  <2> QED BY <1>2, <2>1, <2>2, FlatAgree
<1>12. FlatOfPairs(g, A, x, y, B, D, E) BY <1>2, FlatPairs
<1>13. Flat(g, A) = Flat(f, A) BY <1>7, FlatAgree
<1>14. Flat(g, B) = Flat(f, B) BY <1>8, FlatAgree
<1>15. Flat(f, A) \in Seq(E) /\ Flat(f, B) \in Seq(E) /\ f[x] \in Seq(E) /\ f[y] \in Seq(E)
  BY FlatType DEF Gives
<1> QED
  BY <1>1, <1>3, <1>11, <1>12, <1>13, <1>14, <1>15 DEF s, FlatOfPairs, AroundTwo

(* Neighbours that share out what they have had together. *)
ShiftAt(f, h, A, x, y, B, D, E) == Flat(h, Pairs(A, x, y, B)) = Flat(f, Pairs(A, x, y, B))

LEMMA FlatShift ==
  ASSUME NEW E, NEW D, NEW f, Gives(f, D, E), NEW A \in Seq(D), NEW x \in D, NEW y \in D, NEW B \in Seq(D),
         Unique(Pairs(A, x, y, B)), NEW h, h[x] \in Seq(E), h[y] \in Seq(E),
         \A z \in Members(A) \cup Members(B) : h[z] = f[z], h[x] \o h[y] = f[x] \o f[y]
  PROVE  ShiftAt(f, h, A, x, y, B, D, E)
<1>1. AroundTwo(f, h, A, x, y, B, D, E) BY FlatAroundTwo
<1> QED BY <1>1 DEF AroundTwo, ShiftAt

(* One takes the other one's part and the other one goes. *)
MergeAt(f, h, A, x, y, B, D, E) ==
  /\ Unlinked(Pairs(A, x, y, B), y) = Joins(A, x, B)
  /\ Flat(h, Joins(A, x, B)) = Flat(f, Pairs(A, x, y, B))

LEMMA FlatMerge ==
  ASSUME NEW E, NEW D, NEW f, Gives(f, D, E), NEW A \in Seq(D), NEW x \in D, NEW y \in D, NEW B \in Seq(D),
         Unique(Pairs(A, x, y, B)), NEW h, h[x] = f[x] \o f[y],
         \A z \in Members(A) \cup Members(B) : h[z] = f[z]
  PROVE  MergeAt(f, h, A, x, y, B, D, E)
<1> DEFINE s == Pairs(A, x, y, B)
           t == Joins(A, x, B)
           g == [z \in D |-> IF z = x THEN h[x] ELSE f[z]]
<1>1. f[x] \in Seq(E) /\ f[y] \in Seq(E) BY DEF Gives
<1>2. h[x] \in Seq(E) BY <1>1, ConcatProperties
<1>3. A \o <<x>> \in Seq(D)
  <2>1. PairsTyped(A, x, y, B, D) BY PairsType
  <2> QED BY <2>1 DEF PairsTyped
<1>4. Unlinked(s, y) = t
  <2> DEFINE c == A \o <<x>>
  <2>1. c \in Seq(D) /\ Unique(Joins(c, y, B)) BY <1>3 DEF Pairs
  <2>2. t = c \o B BY DEF Joins
  <2> HIDE DEF c
  <2>3. Unlinked(Joins(c, y, B), y) = c \o B BY <2>1, UnlinkedJoins
  <2> QED BY <2>2, <2>3 DEF Pairs, c
<1>5. s \in Seq(D) /\ y \in Members(s)
  <2>1. PairsTyped(A, x, y, B, D) BY PairsType
  <2> QED BY <2>1 DEF PairsTyped
<1>6. Unique(t)
  <2>1. Unique(s) OBVIOUS
  <2> HIDE DEF s
  <2> QED BY <1>4, <1>5, <2>1, UnlinkedIs
<1> HIDE DEF s, t
<1>7. FlatOfPairs(f, A, x, y, B, D, E) BY FlatPairs
<1>8. Around(f, h, A, x, B, D, E)
  <2>1. Unique(Joins(A, x, B)) BY <1>6 DEF t
  <2> QED BY <1>2, <2>1, FlatAround
<1> QED BY <1>4, <1>7, <1>8 DEF s, t, FlatOfPairs, Around, MergeAt

(* A new neighbour takes a part. *)
SplitAt(f, h, A, x, y, B, D, E) ==
  /\ Linked(Joins(A, x, B), x, y) = Pairs(A, x, y, B)
  /\ Flat(h, Pairs(A, x, y, B)) = Flat(f, Joins(A, x, B))

LEMMA FlatSplit ==
  ASSUME NEW E, NEW D, NEW f, Gives(f, D, E), NEW A \in Seq(D), NEW x \in D, NEW y, NEW B \in Seq(D),
         Unique(Joins(A, x, B)), y \notin Members(Joins(A, x, B)), NEW h, h[x] \in Seq(E), h[y] \in Seq(E),
         \A z \in Members(A) \cup Members(B) : h[z] = f[z], h[x] \o h[y] = f[x]
  PROVE  SplitAt(f, h, A, x, y, B, D, E)
<1> DEFINE D2 == Members(Joins(A, x, B)) \cup {y}
           s == Joins(A, x, B)
           t == Pairs(A, x, y, B)
<1>1. Linked(s, x, y) = t BY LinkedJoins DEF Pairs
<1>2. s \in Seq(D) /\ Members(s) = Members(A) \cup {x} \cup Members(B)
  BY JoinsIs, MembersJoins
<1>3. A \in Seq(D2) /\ B \in Seq(D2) /\ x \in D2 /\ y \in D2
  <2>1. \A i \in 1 .. Len(A) : A[i] \in D2 BY <1>2 DEF Members
  <2>2. \A i \in 1 .. Len(B) : B[i] \in D2 BY <1>2 DEF Members
  <2>3. \A q \in Seq(D) : (\A i \in 1 .. Len(q) : q[i] \in D2) => q \in Seq(D2)
    <3> TAKE q \in Seq(D)
    <3> HAVE \A i \in 1 .. Len(q) : q[i] \in D2
    <3>1. q \in [1 .. Len(q) -> D2] BY LenProperties
    <3> QED BY <3>1, LenProperties, IsASeq
  <2> QED BY <2>1, <2>2, <2>3, <1>2
<1> DEFINE g == [z \in D2 |-> h[z]]
           f2 == [z \in D2 |-> IF z = x THEN f[x] ELSE h[z]]
<1>4. \A z \in D : f[z] \in Seq(E) BY DEF Gives
<1>5. Members(A) \subseteq D /\ Members(B) \subseteq D
  BY LenProperties DEF Members
<1>6. Gives(g, D2, E)
  <2>1. \A z \in D2 : z = x \/ z = y \/ z \in Members(A) \cup Members(B) BY <1>2
  <2>2. \A z \in D2 : h[z] \in Seq(E) BY <2>1, <1>4, <1>5
  <2> QED BY <2>2 DEF Gives
<1>7. Unique(t) /\ t \in Seq(D2)
  <2>1. s \in Seq(D2) BY <1>3, JoinsIs
  <2>2. x \in Members(s) /\ y \notin Members(s) /\ Unique(s) BY <1>2
  <2> HIDE DEF s
  <2> QED BY <1>1, <1>3, <2>1, <2>2, LinkedIs
<1>8. FlatOfPairs(g, A, x, y, B, D2, E)
  <2> HIDE DEF D2, g
  <2> QED BY <1>3, <1>6, FlatPairs
<1>9. \A z \in D2 : g[z] = h[z] OBVIOUS
<1>10. Members(A) \cup Members(B) \subseteq D2 BY <1>2
<1> HIDE DEF g, D2
<1>11. Flat(h, t) = Flat(g, t)
  <2>1. \A i \in 1 .. Len(t) : t[i] \in D2 BY <1>7, LenProperties
  <2>2. \A i \in 1 .. Len(t) : h[t[i]] = g[t[i]] BY <2>1, <1>9
  <2>3. t \in Seq(D2) BY <1>7
  <2> HIDE DEF t
  <2> QED BY <1>6, <2>2, <2>3, FlatAgree
<1>12. Flat(g, A) = Flat(f, A) /\ Flat(g, B) = Flat(f, B)
  <2>1. \A i \in 1 .. Len(A) : g[A[i]] = f[A[i]]
    BY <1>9, <1>10, SMTT(60) DEF Members
  <2>2. \A i \in 1 .. Len(B) : g[B[i]] = f[B[i]]
    BY <1>9, <1>10, SMTT(60) DEF Members
  <2>3. Flat(g, A) = Flat(f, A) BY <2>1, FlatAgree
  <2>4. Flat(g, B) = Flat(f, B) BY <2>2, FlatAgree
  <2> QED BY <2>3, <2>4
<1>13. FlatOfJoins(f, A, x, B, D, E) BY FlatJoins
<1>14. g[x] \o g[y] = f[x] BY <1>3, <1>9
<1> QED
  BY <1>1, <1>8, <1>11, <1>12, <1>13, <1>14 DEF FlatOfPairs, FlatOfJoins, SplitAt

(* p gets another son behind x, or loses one: so does the level below. *)
LEMMA FlatLinked ==
  ASSUME NEW E, NEW D, NEW f, Gives(f, D, E), NEW s \in Seq(D), Unique(s), Unique(Flat(f, s)),
         NEW p \in Members(s), NEW x \in Members(f[p]), NEW y \in E, NEW h,
         h[p] = Linked(f[p], x, y), \A z \in Members(s) \ {p} : h[z] = f[z]
  PROVE  Flat(h, s) = Linked(Flat(f, s), x, y) /\ h[p] \in Seq(E)
<1>1. PICK A, B \in Seq(D) : s = Joins(A, p, B) /\ p \in D BY JoinsAt
<1>2. f[p] \in Seq(E) BY <1>1 DEF Gives
<1>3. PICK P, Q \in Seq(E) : f[p] = Joins(P, x, Q) /\ x \in E BY <1>2, JoinsAt
<1>4. Flat(f, A) \in Seq(E) /\ Flat(f, B) \in Seq(E) BY FlatType
<1>5. Flat(f, s) = (Flat(f, A) \o f[p]) \o Flat(f, B)
  <2>1. FlatOfJoins(f, A, p, B, D, E) BY <1>1, FlatJoins
  <2> QED BY <2>1, <1>1 DEF FlatOfJoins
<1> DEFINE U == Flat(f, A)
           V == Flat(f, B)
<1>6. U \in Seq(E) /\ V \in Seq(E) /\ Unique((U \o f[p]) \o V) BY <1>4, <1>5
<1> HIDE DEF U, V
<1>7. Unique(Joins(P, x, Q))
  <2>1. Unique(f[p]) BY <1>2, <1>6, PartUnique
  <2> QED BY <2>1, <1>3
<1>8. h[p] = Joins(P \o <<x>>, y, Q)
  <2>1. Linked(Joins(P, x, Q), x, y) = Joins(P \o <<x>>, y, Q)
    BY <1>3, <1>7, LinkedJoins
  <2> QED BY <2>1, <1>3
<1>9. (U \o Joins(P, x, Q)) \o V = Joins(U \o P, x, Q \o V) /\ U \o P \in Seq(E) /\ Q \o V \in Seq(E)
  <2>1. JoinedInto(U, P, x, Q, V, E) BY <1>3, <1>6, JoinsInto
  <2> QED BY <2>1 DEF JoinedInto
<1>10. Linked(Joins(U \o P, x, Q \o V), x, y) = Joins((U \o P) \o <<x>>, y, Q \o V)
  <2> DEFINE UP == U \o P
             QV == Q \o V
  <2>1. UP \in Seq(E) /\ QV \in Seq(E) /\ x \in E /\ Unique(Joins(UP, x, QV))
    BY <1>3, <1>6, <1>9
  <2> HIDE DEF UP, QV
  <2>2. Linked(Joins(UP, x, QV), x, y) = Joins(UP \o <<x>>, y, QV)
    BY <2>1, LinkedJoins
  <2> QED BY <2>2 DEF UP, QV
<1> DEFINE w == <<x>>
           c == P \o w
<1>11. w \in Seq(E) BY <1>3
<1> HIDE DEF w
<1>12. c \in Seq(E) BY <1>11, ConcatType
<1>13. Associate(U, P, w) BY <1>6, <1>11, Associative
<1> HIDE DEF c
<1>14. (U \o Joins(c, y, Q)) \o V = Joins(U \o c, y, Q \o V)
  <2>1. JoinedInto(U, c, y, Q, V, E) BY <1>6, <1>12, JoinsInto
  <2> QED BY <2>1 DEF JoinedInto
<1>15. h[p] \in Seq(E)
  <2>1. Joins(c, y, Q) \in Seq(E) BY <1>12, JoinsIs
  <2> QED BY <2>1, <1>8 DEF c, w
<1>16. Around(f, h, A, p, B, D, E)
  <2>1. Unique(Joins(A, p, B)) /\ p \in D BY <1>1
  <2>2. Members(s) = Members(A) \cup {p} \cup Members(B) BY <1>1, MembersJoins
  <2>3. p \notin Members(A) /\ p \notin Members(B) BY <2>1, PartApart
  <2>4. \A z \in Members(A) \cup Members(B) : h[z] = f[z] BY <2>2, <2>3
  <2> QED BY <2>1, <2>4, <1>15, FlatAround
<1>17. Flat(h, s) = (U \o h[p]) \o V BY <1>1, <1>16 DEF Around, U, V
<1>18. U \o c = (U \o P) \o <<x>> BY <1>13 DEF Associate, c, w
<1>19. h[p] = Joins(c, y, Q) BY <1>8 DEF c, w
<1>20. Flat(f, s) = (U \o Joins(P, x, Q)) \o V BY <1>3, <1>5 DEF U, V
<1> QED BY <1>9, <1>10, <1>14, <1>15, <1>17, <1>18, <1>19, <1>20

UnlinkedIn(f, h, s, p, x, D, E) == Flat(h, s) = Unlinked(Flat(f, s), x) /\ h[p] \in Seq(E)

LEMMA FlatUnlinked ==
  ASSUME NEW E, NEW D, NEW f, Gives(f, D, E), NEW s \in Seq(D), Unique(s), Unique(Flat(f, s)),
         NEW p \in Members(s), NEW x \in Members(f[p]), NEW h,
         h[p] = Unlinked(f[p], x), \A z \in Members(s) \ {p} : h[z] = f[z]
  PROVE  UnlinkedIn(f, h, s, p, x, D, E)
<1>1. PICK A, B \in Seq(D) : s = Joins(A, p, B) /\ p \in D BY JoinsAt
<1>2. f[p] \in Seq(E) BY <1>1 DEF Gives
<1>3. PICK P, Q \in Seq(E) : f[p] = Joins(P, x, Q) /\ x \in E BY <1>2, JoinsAt
<1>4. Flat(f, A) \in Seq(E) /\ Flat(f, B) \in Seq(E) BY FlatType
<1>5. Flat(f, s) = (Flat(f, A) \o f[p]) \o Flat(f, B)
  <2>1. FlatOfJoins(f, A, p, B, D, E) BY <1>1, FlatJoins
  <2> QED BY <2>1, <1>1 DEF FlatOfJoins
<1> DEFINE U == Flat(f, A)
           V == Flat(f, B)
<1>6. U \in Seq(E) /\ V \in Seq(E) /\ Unique((U \o f[p]) \o V) BY <1>4, <1>5
<1> HIDE DEF U, V
<1>7. Unique(Joins(P, x, Q))
  <2>1. Unique(f[p]) BY <1>2, <1>6, PartUnique
  <2> QED BY <2>1, <1>3
<1>8. h[p] = P \o Q
  <2>1. Unlinked(Joins(P, x, Q), x) = P \o Q BY <1>3, <1>7, UnlinkedJoins
  <2> QED BY <2>1, <1>3
<1>9. (U \o Joins(P, x, Q)) \o V = Joins(U \o P, x, Q \o V) /\ U \o P \in Seq(E) /\ Q \o V \in Seq(E)
  <2>1. JoinedInto(U, P, x, Q, V, E) BY <1>3, <1>6, JoinsInto
  <2> QED BY <2>1 DEF JoinedInto
<1>10. Unlinked(Joins(U \o P, x, Q \o V), x) = (U \o P) \o (Q \o V)
  <2> DEFINE UP == U \o P
             QV == Q \o V
  <2>1. UP \in Seq(E) /\ QV \in Seq(E) /\ x \in E /\ Unique(Joins(UP, x, QV))
    BY <1>3, <1>6, <1>9
  <2> HIDE DEF UP, QV
  <2>2. Unlinked(Joins(UP, x, QV), x) = UP \o QV BY <2>1, UnlinkedJoins
  <2> QED BY <2>2 DEF UP, QV
<1>11. P \o Q \in Seq(E) BY ConcatType
<1>12. Associate(U, P, Q) BY <1>6, Associative
<1> DEFINE UP == U \o P
<1>13. UP \in Seq(E) BY <1>9
<1> HIDE DEF UP
<1>14. Associate(UP, Q, V) BY <1>6, <1>13, Associative
<1>15. h[p] \in Seq(E) BY <1>8, <1>11
<1>16. Around(f, h, A, p, B, D, E)
  <2>1. Unique(Joins(A, p, B)) /\ p \in D BY <1>1
  <2>2. Members(s) = Members(A) \cup {p} \cup Members(B) BY <1>1, MembersJoins
  <2>3. p \notin Members(A) /\ p \notin Members(B) BY <2>1, PartApart
  <2>4. \A z \in Members(A) \cup Members(B) : h[z] = f[z] BY <2>2, <2>3
  <2> QED BY <2>1, <2>4, <1>15, FlatAround
<1>17. Flat(h, s) = (U \o h[p]) \o V BY <1>1, <1>16 DEF Around, U, V
<1>18. Flat(f, s) = (U \o Joins(P, x, Q)) \o V BY <1>3, <1>5 DEF U, V
<1>19. (U \o (P \o Q)) \o V = (U \o P) \o (Q \o V)
  BY <1>12, <1>14 DEF Associate, UP
<1> QED BY <1>8, <1>9, <1>10, <1>15, <1>17, <1>18, <1>19 DEF UnlinkedIn

LEMMA SeqSub ==
  ASSUME NEW D, NEW s \in Seq(D), NEW E, Members(s) \subseteq E
  PROVE  s \in Seq(E)
<1>1. \A i \in 1 .. Len(s) : s[i] \in E BY DEF Members
<1>2. Len(s) \in Nat /\ s = [i \in 1 .. Len(s) |-> s[i]] BY LenProperties
<1>3. [i \in 1 .. Len(s) |-> s[i]] \in Seq(E) BY <1>1, <1>2, IsASeq
<1> QED BY <1>2, <1>3

LEMMA MembersIn ==
  ASSUME NEW D, NEW s \in Seq(D)
  PROVE  Members(s) \subseteq D
BY LenProperties DEF Members

(* What is in a concatenation. *)
LEMMA FlatHas ==
  ASSUME NEW E, NEW D, NEW f, Gives(f, D, E), NEW s \in Seq(D), NEW p \in Members(s), NEW x \in Members(f[p])
  PROVE  x \in Members(Flat(f, s))
<1>1. PICK A, B \in Seq(D) : s = Joins(A, p, B) /\ p \in D BY JoinsAt
<1>2. FlatOfJoins(f, A, p, B, D, E) BY <1>1, FlatJoins
<1> DEFINE U == Flat(f, A)
           S == f[p]
           V == Flat(f, B)
           t == (U \o S) \o V
<1>3. U \in Seq(E) /\ S \in Seq(E) /\ V \in Seq(E) BY <1>1, FlatType DEF Gives
<1>4. Flat(f, s) = t BY <1>1, <1>2 DEF FlatOfJoins
<1> HIDE DEF U, V, S
<1>5. Len(U) \in Nat /\ Len(S) \in Nat /\ Len(V) \in Nat BY <1>3, LenProperties
<1>6. Len(t) = Len(U) + Len(S) + Len(V) BY <1>3, PartOf
<1>7. \A i \in 1 .. Len(S) : t[Len(U) + i] = S[i] BY <1>3, PartOf
<1>8. PICK i \in 1 .. Len(S) : S[i] = x BY DEF Members, S
<1> HIDE DEF t
<1>9. Len(U) + i \in 1 .. Len(t) BY <1>5, <1>6
<1> QED BY <1>4, <1>7, <1>8, <1>9 DEF Members

LEMMA FlatFrom ==
  ASSUME NEW E, NEW D, NEW f, Gives(f, D, E), NEW s \in Seq(D), NEW x \in Members(Flat(f, s))
  PROVE  \E p \in Members(s) : x \in Members(f[p])
<1>1. PICK g \in [0 .. Len(s) -> Seq(E)] : Gathers(g, f, s) /\ Flat(f, s) = g[Len(s)]
  BY FlatIs
<1> DEFINE S == {n \in 0 .. Len(s) : \A z \in Members(g[n]) : \E p \in Members(s) : z \in Members(f[p])}
<1>2. Len(s) \in Nat BY LenProperties
<1>3. 0 \in S
  <2>1. g[0] = <<>> /\ 0 \in 0 .. Len(s) BY <1>1, <1>2 DEF Gathers
  <2>2. Len(<<>>) = 0 OBVIOUS
  <2> QED BY <2>1, <2>2 DEF Members
<1>4. \A n \in 0 .. Len(s) - 1 : n \in S => n + 1 \in S
  <2> TAKE n \in 0 .. Len(s) - 1
  <2> HAVE n \in S
  <2>1. n + 1 \in 1 .. Len(s) /\ (n + 1) - 1 = n /\ n + 1 \in 0 .. Len(s) /\ n \in 0 .. Len(s)
    BY <1>2
  <2>2. g[n + 1] = g[n] \o f[s[n + 1]] BY <2>1, <1>1 DEF Gathers
  <2>3. s[n + 1] \in D /\ s[n + 1] \in Members(s)
    BY <2>1, LenProperties DEF Members
  <2> DEFINE a == g[n]
             b == f[s[n + 1]]
  <2>4. a \in Seq(E) /\ b \in Seq(E) BY <2>1, <2>3 DEF Gives
  <2>5. \A z \in Members(a) : \E p \in Members(s) : z \in Members(f[p]) OBVIOUS
  <2> HIDE DEF a, S
  <2>6. Len(a) \in Nat /\ Len(b) \in Nat BY <2>4, LenProperties
  <2>7. Len(a \o b) = Len(a) + Len(b)
        /\ \A i \in 1 .. Len(a) + Len(b) : (a \o b)[i] = IF i <= Len(a) THEN a[i] ELSE b[i - Len(a)]
    <3> HIDE DEF b
    <3> QED BY <2>4, ConcatProperties
  <2>8. ASSUME NEW i \in 1 .. Len(a \o b) PROVE \E p \in Members(s) : (a \o b)[i] \in Members(f[p])
    <3>1. i \in 1 .. Len(a) + Len(b) BY <2>7
    <3>2. CASE i <= Len(a)
      <4>1. (a \o b)[i] = a[i] /\ i \in 1 .. Len(a) BY <3>1, <3>2, <2>6, <2>7
      <4>2. a[i] \in Members(a) BY <4>1 DEF Members
      <4> QED BY <4>1, <4>2, <2>5
    <3>3. CASE ~(i <= Len(a))
      <4>1. (a \o b)[i] = b[i - Len(a)] /\ i - Len(a) \in 1 .. Len(b)
        BY <3>1, <3>3, <2>6, <2>7
      <4>2. b[i - Len(a)] \in Members(f[s[n + 1]]) BY <4>1 DEF Members
      <4> QED BY <4>1, <4>2, <2>3
    <3> QED BY <3>2, <3>3
  <2>9. \A z \in Members(g[n + 1]) : \E p \in Members(s) : z \in Members(f[p])
    <3>1. g[n + 1] = a \o b BY <2>2 DEF a
    <3> HIDE DEF b
    <3>2. ASSUME NEW z \in Members(a \o b) PROVE \E p \in Members(s) : z \in Members(f[p])
      <4>1. PICK i \in 1 .. Len(a \o b) : (a \o b)[i] = z BY <3>2 DEF Members
      <4> QED BY <4>1, <2>8
    <3> QED BY <3>1, <3>2
  <2> QED BY <2>1, <2>9 DEF S
<1> HIDE DEF S
<1>5. 0 .. Len(s) \subseteq S BY <1>2, <1>3, <1>4, Climb
<1>6. Len(s) \in 0 .. Len(s) BY <1>2
<1> QED BY <1>1, <1>5, <1>6 DEF S

-----------------------------------------------------------------------------
(* The levels of a tree. *)

(* The nodes O, leaves L and inner nodes with the sons K, are on m levels. *)
(* The lowest level is the list C, the highest one is T, and every other *)
(* one has the sons of the one above. *)
Levels(O, L, K, T, C, m, lev, ht) ==
  /\ m \in Nat /\ m >= 1
  /\ O = L \cup DOMAIN K
  /\ ht \in [O -> 1 .. m]
  /\ \A x \in L : ht[x] = 1
  /\ \A x \in DOMAIN K : ht[x] # 1
  /\ Gives(K, DOMAIN K, O)
  /\ lev[1] = C /\ lev[m] = T
  /\ \A k \in 1 .. m : lev[k] \in Seq(O) /\ Unique(lev[k]) /\ Members(lev[k]) = {x \in O : ht[x] = k}
  /\ \A k \in 1 .. m - 1 : lev[k] = Flat(K, lev[k + 1])

Tree(O, L, K, T, C) == \E m, lev, ht : Levels(O, L, K, T, C, m, lev, ht)

(* One level above the other. *)
LEMMA LevelAbove ==
  ASSUME NEW O, NEW L, NEW K, NEW T, NEW C, NEW m, NEW lev, NEW ht, Levels(O, L, K, T, C, m, lev, ht),
         NEW k \in 2 .. m
  PROVE  /\ lev[k] \in Seq(DOMAIN K) /\ Unique(lev[k]) /\ Unique(lev[k - 1])
         /\ lev[k - 1] = Flat(K, lev[k]) /\ k - 1 \in 1 .. m /\ k \in 1 .. m
         /\ Unique(Flat(K, lev[k]))
<1>1. m \in Nat /\ k \in 1 .. m /\ k - 1 \in 1 .. m /\ k - 1 \in 1 .. m - 1 /\ (k - 1) + 1 = k /\ k # 1
  BY DEF Levels
<1>2. lev[k] \in Seq(O) /\ Unique(lev[k]) /\ Unique(lev[k - 1]) /\ Members(lev[k]) = {x \in O : ht[x] = k}
  BY <1>1 DEF Levels
<1>3. lev[k - 1] = Flat(K, lev[k]) BY <1>1 DEF Levels
<1>4. Members(lev[k]) \subseteq DOMAIN K
  <2>1. O = L \cup DOMAIN K /\ \A x \in L : ht[x] = 1 BY DEF Levels
  <2> QED BY <2>1, <1>1, <1>2
<1>5. lev[k] \in Seq(DOMAIN K) BY <1>2, <1>4, SeqSub
<1> QED BY <1>1, <1>2, <1>3, <1>5

(* A son is one level below its parent. *)
LEMMA SonBelow ==
  ASSUME NEW O, NEW L, NEW K, NEW T, NEW C, NEW m, NEW lev, NEW ht, Levels(O, L, K, T, C, m, lev, ht),
         NEW p \in DOMAIN K, NEW x \in Members(K[p])
  PROVE  /\ ht[p] \in 2 .. m /\ ht[x] = ht[p] - 1 /\ p \in Members(lev[ht[p]])
         /\ x \in O /\ p \in O /\ x # p /\ x \in Members(lev[ht[x]]) /\ ht[x] \in 1 .. m - 1
         /\ K[p] \in Seq(O) /\ Unique(K[p])
<1> DEFINE k == ht[p]
<1>1. p \in O /\ k \in 1 .. m /\ k # 1 /\ m \in Nat /\ Gives(K, DOMAIN K, O)
  BY DEF Levels
<1> HIDE DEF k
<1>2. k \in 2 .. m BY <1>1
<1>3. p \in Members(lev[k])
  <2>1. Members(lev[k]) = {z \in O : ht[z] = k} BY <1>1 DEF Levels
  <2> QED BY <2>1, <1>1 DEF k
<1>4. lev[k] \in Seq(DOMAIN K) /\ lev[k - 1] = Flat(K, lev[k]) /\ k - 1 \in 1 .. m /\ Unique(Flat(K, lev[k]))
  BY <1>2, LevelAbove
<1>5. x \in Members(lev[k - 1])
  <2>1. x \in Members(Flat(K, lev[k])) BY <1>1, <1>3, <1>4, FlatHas
  <2> QED BY <2>1, <1>4
<1>6. x \in O /\ ht[x] = k - 1
  <2>1. Members(lev[k - 1]) = {z \in O : ht[z] = k - 1} BY <1>4 DEF Levels
  <2> QED BY <2>1, <1>5
<1>7. K[p] \in Seq(O) BY <1>1 DEF Gives
<1>8. Unique(K[p])
  <2>1. PICK A, B \in Seq(DOMAIN K) : lev[k] = Joins(A, p, B)
    BY <1>3, <1>4, JoinsAt
  <2>2. FlatOfJoins(K, A, p, B, DOMAIN K, O) BY <1>1, <2>1, FlatJoins
  <2>3. Flat(K, A) \in Seq(O) BY <1>1, FlatType
  <2>4. Flat(K, B) \in Seq(O) BY <1>1, FlatType
  <2>5. Unique((Flat(K, A) \o K[p]) \o Flat(K, B))
    BY <2>1, <2>2, <1>4 DEF FlatOfJoins
  <2> QED BY <2>3, <2>4, <2>5, <1>7, PartUnique
<1>9. x # p /\ k - 1 \in 1 .. m - 1 BY <1>1, <1>2, <1>6 DEF k
<1>10. x \in Members(lev[ht[x]]) BY <1>5, <1>6
<1> QED BY <1>1, <1>2, <1>3, <1>6, <1>7, <1>8, <1>9, <1>10 DEF k

(* Every node below the highest level is a son. *)
LEMMA SonOf ==
  ASSUME NEW O, NEW L, NEW K, NEW T, NEW C, NEW m, NEW lev, NEW ht, Levels(O, L, K, T, C, m, lev, ht),
         NEW x \in O, x \notin Members(T)
  PROVE  \E p \in DOMAIN K : x \in Members(K[p])
<1> DEFINE k == ht[x]
<1>1. k \in 1 .. m /\ m \in Nat /\ lev[m] = T /\ Gives(K, DOMAIN K, O) /\ m \in 1 .. m
  BY DEF Levels
<1> HIDE DEF k
<1>2. Members(lev[k]) = {z \in O : ht[z] = k} BY <1>1 DEF Levels
<1>3. x \in Members(lev[k]) BY <1>2 DEF k
<1>4. k # m BY <1>1, <1>3
<1>5. k + 1 \in 2 .. m /\ (k + 1) - 1 = k BY <1>1, <1>4
<1>6. lev[k + 1] \in Seq(DOMAIN K) /\ lev[k] = Flat(K, lev[k + 1])
  <2>1. lev[k + 1] \in Seq(DOMAIN K) /\ lev[(k + 1) - 1] = Flat(K, lev[k + 1])
    BY <1>5, LevelAbove
  <2> QED BY <2>1, <1>5
<1>7. PICK p \in Members(lev[k + 1]) : x \in Members(K[p])
  BY <1>1, <1>3, <1>6, FlatFrom
<1>8. p \in DOMAIN K BY <1>6, MembersIn
<1> QED BY <1>7, <1>8

(* Neighbours among the sons of a node are neighbours on their level. *)
LEMMA Neighbours ==
  ASSUME NEW O, NEW L, NEW K, NEW T, NEW C, NEW m, NEW lev, NEW ht, Levels(O, L, K, T, C, m, lev, ht),
         NEW p \in DOMAIN K, NEW P \in Seq(O), NEW x \in O, NEW y \in O, NEW Q \in Seq(O), K[p] = Pairs(P, x, y, Q)
  PROVE  ht[x] = ht[y] /\ \E A, B \in Seq(O) : lev[ht[x]] = Pairs(A, x, y, B)
<1>1. Members(K[p]) = Members(P) \cup {x, y} \cup Members(Q)
  <2>1. PairsTyped(P, x, y, Q, O) BY PairsType
  <2> QED BY <2>1 DEF PairsTyped
<1>2. x \in Members(K[p]) /\ y \in Members(K[p]) BY <1>1
<1>3. ht[p] \in 2 .. m /\ ht[x] = ht[p] - 1 /\ p \in Members(lev[ht[p]])
  BY <1>2, SonBelow
<1>4. ht[y] = ht[p] - 1 BY <1>2, SonBelow
<1> DEFINE k == ht[p]
<1> HIDE DEF k
<1>5. lev[k] \in Seq(DOMAIN K) /\ lev[k - 1] = Flat(K, lev[k])
  BY <1>3, LevelAbove DEF k
<1>6. PICK A, B \in Seq(DOMAIN K) : lev[k] = Joins(A, p, B)
  BY <1>3, <1>5, JoinsAt DEF k
<1>7. Gives(K, DOMAIN K, O) BY DEF Levels
<1>8. FlatOfJoins(K, A, p, B, DOMAIN K, O) BY <1>6, <1>7, FlatJoins
<1> DEFINE U == Flat(K, A)
           V == Flat(K, B)
           w == <<x>>
           c == P \o w
<1>9. U \in Seq(O) /\ V \in Seq(O) /\ w \in Seq(O) BY <1>7, FlatType
<1>10. lev[k - 1] = (U \o Joins(c, y, Q)) \o V
  BY <1>5, <1>6, <1>8 DEF FlatOfJoins, Pairs
<1> HIDE DEF U, V, w
<1>11. c \in Seq(O) BY <1>9, ConcatType
<1>12. Associate(U, P, w) BY <1>9, Associative
<1> HIDE DEF c
<1>13. JoinedInto(U, c, y, Q, V, O) BY <1>9, <1>11, JoinsInto
<1>14. U \o P \in Seq(O) BY <1>9, ConcatType
<1>15. Q \o V \in Seq(O) BY <1>9, ConcatType
<1>16. lev[k - 1] = Pairs(U \o P, x, y, Q \o V)
  BY <1>10, <1>12, <1>13 DEF Associate, JoinedInto, Pairs, c, w
<1> QED BY <1>3, <1>4, <1>14, <1>15, <1>16 DEF k

LEMMA GivesMore ==
  ASSUME NEW f, NEW D, NEW E, NEW E2, Gives(f, D, E), E \subseteq E2
  PROVE  Gives(f, D, E2)
<1> SUFFICES ASSUME NEW x \in D PROVE f[x] \in Seq(E2) BY DEF Gives
<1>1. f[x] \in Seq(E) BY DEF Gives
<1>2. Members(f[x]) \subseteq E2 BY <1>1, MembersIn
<1> QED BY <1>1, <1>2, SeqSub

(* What happens to a level apart from the ones that change. *)
LEMMA LevelSame ==
  ASSUME NEW O, NEW L, NEW K, NEW T, NEW C, NEW m, NEW lev, NEW ht, Levels(O, L, K, T, C, m, lev, ht),
         NEW j \in 1 .. m - 1, NEW K2, \A z \in Members(lev[j + 1]) : K2[z] = K[z]
  PROVE  Flat(K2, lev[j + 1]) = lev[j]
<1>1. j + 1 \in 2 .. m /\ (j + 1) - 1 = j /\ Gives(K, DOMAIN K, O) BY DEF Levels
<1>2. lev[j + 1] \in Seq(DOMAIN K) /\ lev[(j + 1) - 1] = Flat(K, lev[j + 1])
  BY <1>1, LevelAbove
<1>3. \A i \in 1 .. Len(lev[j + 1]) : K2[lev[j + 1][i]] = K[lev[j + 1][i]]
  BY DEF Members
<1>4. Flat(K2, lev[j + 1]) = Flat(K, lev[j + 1])
  <2> DEFINE s == lev[j + 1]
  <2>1. s \in Seq(DOMAIN K) /\ \A i \in 1 .. Len(s) : K2[s[i]] = K[s[i]]
    BY <1>2, <1>3
  <2> HIDE DEF s
  <2>2. Flat(K2, s) = Flat(K, s) BY <1>1, <2>1, FlatAgree
  <2> QED BY <2>2 DEF s
<1> QED BY <1>1, <1>2, <1>4

(* A new node y stands behind x, on the highest level or among the sons of *)
(* p, and if x is no leaf, shares the sons x has had. *)
Behind(O, L, K, T, x, y, p, K2, T2) ==
  \/ /\ p \in DOMAIN K /\ x \in Members(K[p]) /\ K2[p] = Linked(K[p], x, y) /\ T2 = T
  \/ /\ p \notin DOMAIN K /\ x \in Members(T) /\ T2 = Linked(T, x, y)

Shares(O, L, K, C, x, y, L2, K2, C2) ==
  \/ /\ x \in L /\ L2 = L \cup {y} /\ DOMAIN K2 = DOMAIN K /\ C2 = Linked(C, x, y)
  \/ /\ x \notin L /\ L2 = L /\ DOMAIN K2 = DOMAIN K \cup {y} /\ C2 = C
     /\ K2[x] \in Seq(O) /\ K2[y] \in Seq(O) /\ K2[x] \o K2[y] = K[x]

LEMMA Grow ==
  ASSUME NEW O, NEW L, NEW K, NEW T, NEW C, Tree(O, L, K, T, C),
         NEW x \in O, NEW y, y \notin O, NEW p, NEW L2, NEW K2, NEW T2, NEW C2,
         Behind(O, L, K, T, x, y, p, K2, T2), Shares(O, L, K, C, x, y, L2, K2, C2),
         \A z \in DOMAIN K : z # p /\ ~(z = x /\ x \notin L) => K2[z] = K[z]
  PROVE  Tree(O \cup {y}, L2, K2, T2, C2)
<1>1. PICK m, lev, ht : Levels(O, L, K, T, C, m, lev, ht) BY DEF Tree
<1> DEFINE k == ht[x]
           O2 == O \cup {y}
           lev2 == [j \in 1 .. m |-> IF j = k THEN Linked(lev[j], x, y) ELSE lev[j]]
           ht2 == [z \in O2 |-> IF z = y THEN k ELSE ht[z]]
<1>2. /\ m \in Nat /\ m >= 1 /\ O = L \cup DOMAIN K /\ ht \in [O -> 1 .. m]
      /\ \A z \in L : ht[z] = 1
      /\ \A z \in DOMAIN K : ht[z] # 1
      /\ Gives(K, DOMAIN K, O) /\ lev[1] = C /\ lev[m] = T
  BY <1>1 DEF Levels
<1>3. \A j \in 1 .. m : lev[j] \in Seq(O) /\ Unique(lev[j]) /\ Members(lev[j]) = {z \in O : ht[z] = j}
  BY <1>1 DEF Levels
<1>4. k \in 1 .. m /\ x \in Members(lev[k]) /\ (x \in L <=> k = 1) /\ y \notin L /\ y \notin DOMAIN K
  BY <1>2, <1>3
<1> HIDE DEF k
<1>5. /\ Linked(lev[k], x, y) \in Seq(O2) /\ Unique(Linked(lev[k], x, y))
      /\ Members(Linked(lev[k], x, y)) = Members(lev[k]) \cup {y}
  <2>1. Members(lev[k]) \subseteq O2 /\ lev[k] \in Seq(O) /\ Unique(lev[k])
    BY <1>3, <1>4
  <2>2. lev[k] \in Seq(O2) BY <2>1, SeqSub
  <2>3. x \in Members(lev[k]) /\ y \in O2 /\ y \notin Members(lev[k])
    BY <2>1, <1>3, <1>4
  <2> QED BY <2>1, <2>2, <2>3, LinkedIs
<1>6. \A j \in 1 .. m : lev2[j] \in Seq(O2) /\ Unique(lev2[j]) /\ Members(lev2[j]) = {z \in O2 : ht2[z] = j}
  <2> TAKE j \in 1 .. m
  <2>1. CASE j = k
    <3>1. Members(lev2[j]) = {z \in O : ht[z] = k} \cup {y} BY <2>1, <1>3, <1>5
    <3>2. {z \in O2 : ht2[z] = j} = {z \in O : ht[z] = k} \cup {y} BY <2>1
    <3> QED BY <3>1, <3>2, <2>1, <1>5
  <2>2. CASE j # k
    <3>1. lev2[j] = lev[j] BY <2>2
    <3>2. {z \in O2 : ht2[z] = j} = {z \in O : ht[z] = j} BY <2>2
    <3>3. Members(lev[j]) \subseteq O2 /\ lev[j] \in Seq(O) BY <1>3
    <3>4. lev[j] \in Seq(O2) BY <3>3, SeqSub
    <3> QED BY <3>1, <3>2, <3>4, <1>3
  <2> QED BY <2>1, <2>2
<1>7. p \in DOMAIN K => /\ x \in Members(K[p]) /\ K2[p] = Linked(K[p], x, y) /\ T2 = T
                         /\ ht[p] = k + 1 /\ k \in 1 .. m - 1 /\ p \in Members(lev[k + 1]) /\ x # p
                         /\ K[p] \in Seq(O) /\ Unique(K[p])
  <2> HAVE p \in DOMAIN K
  <2>1. x \in Members(K[p]) /\ K2[p] = Linked(K[p], x, y) /\ T2 = T
    BY DEF Behind
  <2>2. ht[p] \in 2 .. m /\ ht[x] = ht[p] - 1 /\ p \in Members(lev[ht[p]]) /\ x # p
    BY <1>1, <2>1, SonBelow
  <2>3. K[p] \in Seq(O) /\ Unique(K[p]) BY <1>1, <2>1, SonBelow
  <2>4. ht[p] = k + 1 /\ k \in 1 .. m - 1 BY <1>2, <2>2 DEF k
  <2> QED BY <2>1, <2>2, <2>3, <2>4
<1>8. p \notin DOMAIN K => k = m /\ T2 = Linked(T, x, y)
  <2> HAVE p \notin DOMAIN K
  <2>1. x \in Members(T) /\ T2 = Linked(T, x, y) BY DEF Behind
  <2>2. m \in 1 .. m BY <1>2
  <2> QED BY <1>2, <1>3, <2>1, <2>2 DEF k
<1>9. \A j \in 2 .. m : lev[j] \in Seq(DOMAIN K) /\ Unique(lev[j]) /\ lev[j - 1] = Flat(K, lev[j])
  <2> TAKE j \in 2 .. m
  <2> QED BY <1>1, LevelAbove
<1>10. \A j \in 2 .. m : j # k /\ j # k + 1 => \A z \in Members(lev[j]) : K2[z] = K[z]
  <2> TAKE j \in 2 .. m
  <2> HAVE j # k /\ j # k + 1
  <2>1. Members(lev[j]) \subseteq DOMAIN K BY <1>9, MembersIn
  <2>2. j \in 1 .. m BY <1>2
  <2>3. p \notin Members(lev[j]) /\ x \notin Members(lev[j])
    BY <2>1, <2>2, <1>3, <1>7 DEF k
  <2> QED BY <2>1, <2>3
<1>11. ASSUME NEW j \in 1 .. m - 1, j # k, j + 1 # k PROVE lev2[j] = Flat(K2, lev2[j + 1])
  <2>1. j \in 1 .. m /\ j + 1 \in 1 .. m /\ j + 1 # k + 1 /\ j + 1 \in 2 .. m
    BY <1>2, <1>4, <1>11
  <2>2. lev2[j] = lev[j] /\ lev2[j + 1] = lev[j + 1] BY <2>1, <1>11
  <2>3. \A z \in Members(lev[j + 1]) : K2[z] = K[z] BY <1>10, <1>11, <2>1
  <2>4. Flat(K2, lev[j + 1]) = lev[j] BY <1>1, <2>3, LevelSame
  <2> QED BY <2>2, <2>4
<1>12. ASSUME NEW j \in 1 .. m - 1, j = k PROVE lev2[j] = Flat(K2, lev2[j + 1]) /\ K2[p] \in Seq(O2)
  <2>1. k + 1 \in 2 .. m /\ k + 1 # k /\ k # m /\ (k + 1) - 1 = k /\ k + 1 \in 1 .. m
    BY <1>2, <1>4, <1>12
  <2>2. p \in DOMAIN K BY <1>8, <2>1
  <2>3. Gives(K, DOMAIN K, O2) BY <1>2, GivesMore
  <2>4. lev[k + 1] \in Seq(DOMAIN K) /\ Unique(lev[k + 1]) /\ lev[k] = Flat(K, lev[k + 1]) /\ Unique(lev[k])
    BY <1>3, <1>4, <1>9, <2>1
  <2>5. \A z \in Members(lev[k + 1]) \ {p} : K2[z] = K[z]
    <3>1. Members(lev[k + 1]) \subseteq DOMAIN K BY <2>4, MembersIn
    <3>2. x \notin Members(lev[k + 1]) BY <2>1, <1>3 DEF k
    <3> QED BY <3>1, <3>2
  <2>6. p \in Members(lev[k + 1]) /\ x \in Members(K[p]) /\ y \in O2 /\ K2[p] = Linked(K[p], x, y)
    BY <1>7, <2>2
  <2>7. Flat(K2, lev[k + 1]) = Linked(Flat(K, lev[k + 1]), x, y) /\ K2[p] \in Seq(O2)
    <3> DEFINE s == lev[k + 1]
    <3>1. s \in Seq(DOMAIN K) /\ Unique(s) /\ Unique(Flat(K, s)) /\ p \in Members(s) /\ \A z \in Members(s) \ {p} : K2[z] = K[z]
      BY <2>4, <2>5, <2>6
    <3> HIDE DEF O2, s
    <3>2. Flat(K2, s) = Linked(Flat(K, s), x, y) /\ K2[p] \in Seq(O2)
      BY <2>3, <2>6, <3>1, FlatLinked
    <3> QED BY <3>2 DEF s
  <2>8. lev2[j] = Linked(lev[k], x, y) /\ lev2[j + 1] = lev[k + 1]
    BY <1>4, <1>12, <2>1
  <2> QED BY <2>4, <2>7, <2>8
<1>13. ASSUME NEW j \in 1 .. m - 1, j + 1 = k PROVE lev2[j] = Flat(K2, lev2[j + 1])
  <2>1. k \in 2 .. m /\ k # 1 /\ j = k - 1 /\ j # k /\ j \in 1 .. m
    BY <1>2, <1>4, <1>13
  <2>2. lev[k] \in Seq(DOMAIN K) /\ Unique(lev[k]) /\ lev[k - 1] = Flat(K, lev[k])
    BY <2>1, <1>9
  <2>3. PICK A, B \in Seq(DOMAIN K) : lev[k] = Joins(A, x, B) /\ x \in DOMAIN K
    BY <1>4, <2>2, JoinsAt
  <2>4. x \notin L /\ K2[x] \in Seq(O) /\ K2[y] \in Seq(O) /\ K2[x] \o K2[y] = K[x]
    BY <1>4, <2>1 DEF Shares
  <2>5. \A z \in Members(A) \cup Members(B) : K2[z] = K[z]
    <3>1. Members(lev[k]) = Members(A) \cup {x} \cup Members(B)
      BY <2>3, MembersJoins
    <3>2. Unique(Joins(A, x, B)) BY <2>2, <2>3
    <3>3. x \notin Members(A) /\ x \notin Members(B) BY <2>3, <3>2, PartApart
    <3>4. Members(lev[k]) \subseteq DOMAIN K BY <2>2, MembersIn
    <3>5. p \notin Members(lev[k]) BY <1>3, <1>4, <1>7, <3>4
    <3> QED BY <3>1, <3>3, <3>4, <3>5
  <2>6. y \notin Members(Joins(A, x, B)) /\ Unique(Joins(A, x, B))
    BY <1>3, <1>4, <2>2, <2>3
  <2>9. SplitAt(K, K2, A, x, y, B, DOMAIN K, O)
    BY <1>2, <2>3, <2>4, <2>5, <2>6, FlatSplit
  <2>7. Linked(Joins(A, x, B), x, y) = Pairs(A, x, y, B) /\ Flat(K2, Pairs(A, x, y, B)) = Flat(K, Joins(A, x, B))
    BY <2>9 DEF SplitAt
  <2>8. lev2[j] = lev[k - 1] /\ lev2[j + 1] = Linked(lev[k], x, y)
    BY <2>1, <1>4, <1>13
  <2> QED BY <2>2, <2>3, <2>7, <2>8
<1>14. \A j \in 1 .. m - 1 : lev2[j] = Flat(K2, lev2[j + 1])
  <2> TAKE j \in 1 .. m - 1
  <2> HIDE DEF lev2
  <2> QED BY <1>11, <1>12, <1>13
<1>15. lev2[m] = T2
  <2>1. m \in 1 .. m BY <1>2
  <2>2. CASE p \in DOMAIN K BY <1>2, <1>7, <2>1, <2>2
  <2>3. CASE p \notin DOMAIN K BY <1>2, <1>8, <2>1, <2>3
  <2> QED BY <2>2, <2>3
<1>16. lev2[1] = C2
  <2>1. 1 \in 1 .. m BY <1>2
  <2>2. CASE x \in L BY <1>2, <1>4, <2>1, <2>2 DEF Shares
  <2>3. CASE x \notin L BY <1>2, <1>4, <2>1, <2>3 DEF Shares
  <2> QED BY <2>2, <2>3
<1>17. Gives(K2, DOMAIN K2, O2)
  <2>1. Gives(K, DOMAIN K, O2) BY <1>2, GivesMore
  <2>2. p \in DOMAIN K => K2[p] \in Seq(O2) BY <1>7, <1>12
  <2>3. x \notin L => K2[x] \in Seq(O2) /\ K2[y] \in Seq(O2)
    <3> HAVE x \notin L
    <3>1. K2[x] \in Seq(O) /\ K2[y] \in Seq(O) BY DEF Shares
    <3>2. Members(K2[x]) \subseteq O2 /\ Members(K2[y]) \subseteq O2
      BY <3>1, MembersIn
    <3>3. K2[x] \in Seq(O2) BY <3>1, <3>2, SeqSub
    <3>4. K2[y] \in Seq(O2) BY <3>1, <3>2, SeqSub
    <3> QED BY <3>3, <3>4
  <2>4. \A z \in DOMAIN K2 : z \in DOMAIN K \/ (z = y /\ x \notin L)
    BY DEF Shares
  <2> HIDE DEF O2
  <2> QED BY <2>1, <2>2, <2>3, <2>4 DEF Gives
<1>18. O2 = L2 \cup DOMAIN K2 BY <1>2 DEF Shares
<1>19. ht2 \in [O2 -> 1 .. m] BY <1>2, <1>4
<1>20. (\A z \in L2 : ht2[z] = 1) /\ \A z \in DOMAIN K2 : ht2[z] # 1
  <2>1. ht2[y] = k /\ \A z \in O : ht2[z] = ht[z] BY <1>4
  <2>2. CASE x \in L
    <3>1. L2 = L \cup {y} /\ DOMAIN K2 = DOMAIN K BY <2>2 DEF Shares
    <3> HIDE DEF ht2
    <3> QED BY <2>1, <2>2, <3>1, <1>2, <1>4
  <2>3. CASE x \notin L
    <3>1. L2 = L /\ DOMAIN K2 = DOMAIN K \cup {y} BY <2>3 DEF Shares
    <3> HIDE DEF ht2
    <3> QED BY <2>1, <2>3, <3>1, <1>2, <1>4
  <2> QED BY <2>2, <2>3
<1>21. Levels(O2, L2, K2, T2, C2, m, lev2, ht2)
  <2> HIDE DEF O2, lev2, ht2
  <2> QED BY <1>2, <1>6, <1>14, <1>15, <1>16, <1>17, <1>18, <1>19, <1>20 DEF Levels
<1> QED BY <1>21 DEF Tree

(* Node y goes, and if it is no leaf, x in front of it takes its sons. *)
Leaves(O, L, K, C, x, y, p, L2, K2, C2) ==
  \/ /\ y \in L /\ L2 = L \ {y} /\ DOMAIN K2 = DOMAIN K /\ C2 = Unlinked(C, y)
  \/ /\ y \notin L /\ L2 = L /\ DOMAIN K2 = DOMAIN K \ {y} /\ C2 = C
     /\ x \in O /\ K2[x] = K[x] \o K[y] /\ \E P, Q \in Seq(O) : K[p] = Pairs(P, x, y, Q)

LEMMA Shrink ==
  ASSUME NEW O, NEW L, NEW K, NEW T, NEW C, Tree(O, L, K, T, C),
         NEW y \in O, NEW x, NEW p \in DOMAIN K, y \in Members(K[p]), NEW L2, NEW K2, NEW C2,
         K2[p] = Unlinked(K[p], y), Leaves(O, L, K, C, x, y, p, L2, K2, C2),
         \A z \in DOMAIN K \ {p, y} : ~(z = x /\ y \notin L) => K2[z] = K[z]
  PROVE  Tree(O \ {y}, L2, K2, T, C2)
<1>1. PICK m, lev, ht : Levels(O, L, K, T, C, m, lev, ht) BY DEF Tree
<1> DEFINE k == ht[y]
           O2 == O \ {y}
           lev2 == [j \in 1 .. m |-> IF j = k THEN Unlinked(lev[j], y) ELSE lev[j]]
           ht2 == [z \in O2 |-> ht[z]]
<1>2. /\ m \in Nat /\ m >= 1 /\ O = L \cup DOMAIN K /\ ht \in [O -> 1 .. m]
      /\ \A z \in L : ht[z] = 1
      /\ \A z \in DOMAIN K : ht[z] # 1
      /\ Gives(K, DOMAIN K, O) /\ lev[1] = C /\ lev[m] = T
  BY <1>1 DEF Levels
<1>3. \A j \in 1 .. m : lev[j] \in Seq(O) /\ Unique(lev[j]) /\ Members(lev[j]) = {z \in O : ht[z] = j}
  BY <1>1 DEF Levels
<1>4. /\ ht[p] = k + 1 /\ k \in 1 .. m - 1 /\ p \in Members(lev[k + 1]) /\ y # p
      /\ K[p] \in Seq(O) /\ Unique(K[p]) /\ p \in O
  <2>1. ht[p] \in 2 .. m /\ ht[y] = ht[p] - 1 /\ p \in Members(lev[ht[p]]) /\ y # p
    BY <1>1, SonBelow
  <2>2. K[p] \in Seq(O) /\ Unique(K[p]) BY <1>1, SonBelow
  <2>3. ht[p] = k + 1 /\ k \in 1 .. m - 1 BY <1>2, <2>1 DEF k
  <2>4. p \in O BY <1>2
  <2> QED BY <2>1, <2>2, <2>3, <2>4
<1>5. k \in 1 .. m /\ y \in Members(lev[k]) /\ (y \in L <=> k = 1) BY <1>2, <1>3
<1> HIDE DEF k
<1>6. /\ Unlinked(lev[k], y) \in Seq(O) /\ Unique(Unlinked(lev[k], y))
      /\ Members(Unlinked(lev[k], y)) = Members(lev[k]) \ {y}
  <2>1. lev[k] \in Seq(O) /\ Unique(lev[k]) BY <1>3, <1>5
  <2> QED BY <1>5, <2>1, UnlinkedIs
<1>7. \A j \in 1 .. m : lev2[j] \in Seq(O2) /\ Unique(lev2[j]) /\ Members(lev2[j]) = {z \in O2 : ht2[z] = j}
  <2> TAKE j \in 1 .. m
  <2>1. lev2[j] \in Seq(O) /\ Unique(lev2[j]) /\ Members(lev2[j]) = {z \in O2 : ht2[z] = j}
    <3>1. CASE j = k BY <1>3, <1>5, <1>6, <3>1
    <3>2. CASE j # k BY <1>3, <1>5, <3>2 DEF k
    <3> QED BY <3>1, <3>2
  <2> HIDE DEF lev2
  <2>2. lev2[j] \in Seq(O2) BY <2>1, SeqSub
  <2> QED BY <2>1, <2>2
<1>8. \A j \in 2 .. m : lev[j] \in Seq(DOMAIN K) /\ Unique(lev[j]) /\ lev[j - 1] = Flat(K, lev[j])
  <2> TAKE j \in 2 .. m
  <2> QED BY <1>1, LevelAbove
<1>9. y \notin L => /\ x \in DOMAIN K /\ ht[x] = k /\ k \in 2 .. m /\ x # p
                    /\ \E A, B \in Seq(DOMAIN K) : lev[k] = Pairs(A, x, y, B) /\ Unique(Pairs(A, x, y, B))
  <2> HAVE y \notin L
  <2>1. x \in O /\ \E P, Q \in Seq(O) : K[p] = Pairs(P, x, y, Q) BY DEF Leaves
  <2>2. PICK P, Q \in Seq(O) : K[p] = Pairs(P, x, y, Q) BY <2>1
  <2>3. ht[x] = ht[y] /\ \E A, B \in Seq(O) : lev[ht[x]] = Pairs(A, x, y, B)
    BY <1>1, <2>1, <2>2, Neighbours
  <2>4. PICK A, B \in Seq(O) : lev[k] = Pairs(A, x, y, B) BY <2>3 DEF k
  <2>5. k \in 2 .. m /\ ht[x] = k BY <1>2, <1>5, <2>3 DEF k
  <2>6. lev[k] \in Seq(DOMAIN K) /\ Unique(lev[k]) BY <1>8, <2>5
  <2>7. PairsTyped(A, x, y, B, O) BY <2>1, PairsType
  <2>8. Members(A) \subseteq DOMAIN K /\ Members(B) \subseteq DOMAIN K /\ x \in DOMAIN K
    <3>1. Members(lev[k]) \subseteq DOMAIN K BY <2>6, MembersIn
    <3> QED BY <2>4, <2>7, <3>1 DEF PairsTyped
  <2>9. A \in Seq(DOMAIN K) BY <2>8, SeqSub
  <2>10. B \in Seq(DOMAIN K) BY <2>8, SeqSub
  <2>11. x # p BY <1>2, <1>4, <2>5
  <2> QED BY <2>4, <2>5, <2>6, <2>8, <2>9, <2>10, <2>11
<1>10. \A j \in 2 .. m : j # k /\ j # k + 1 => \A z \in Members(lev[j]) : K2[z] = K[z]
  <2> TAKE j \in 2 .. m
  <2> HAVE j # k /\ j # k + 1
  <2>1. Members(lev[j]) \subseteq DOMAIN K BY <1>8, MembersIn
  <2>2. j \in 1 .. m BY <1>2
  <2>3. p \notin Members(lev[j]) /\ y \notin Members(lev[j])
    BY <2>2, <1>3, <1>4 DEF k
  <2>4. y \notin L => x \notin Members(lev[j]) BY <2>2, <1>3, <1>9
  <2> QED BY <2>1, <2>3, <2>4
<1>11. ASSUME NEW j \in 1 .. m - 1, j # k, j + 1 # k PROVE lev2[j] = Flat(K2, lev2[j + 1])
  <2>1. j \in 1 .. m /\ j + 1 \in 1 .. m /\ j + 1 # k + 1 /\ j + 1 \in 2 .. m
    BY <1>2, <1>4, <1>11
  <2>2. lev2[j] = lev[j] /\ lev2[j + 1] = lev[j + 1] BY <2>1, <1>11
  <2>3. \A z \in Members(lev[j + 1]) : K2[z] = K[z] BY <1>10, <1>11, <2>1
  <2>4. Flat(K2, lev[j + 1]) = lev[j] BY <1>1, <2>3, LevelSame
  <2> QED BY <2>2, <2>4
<1>12. k + 1 \in 2 .. m /\ k + 1 # k /\ (k + 1) - 1 = k /\ k + 1 \in 1 .. m /\ 1 \in 1 .. m /\ m \in 1 .. m /\ k # m
  BY <1>2, <1>4
<1>13. Flat(K2, lev[k + 1]) = Unlinked(lev[k], y) /\ K2[p] \in Seq(O)
  <2> DEFINE s == lev[k + 1]
  <2>1. s \in Seq(DOMAIN K) /\ Unique(s) /\ lev[k] = Flat(K, s) /\ Unique(lev[k]) /\ p \in Members(s)
    BY <1>3, <1>4, <1>5, <1>8, <1>12
  <2>2. \A z \in Members(s) \ {p} : K2[z] = K[z]
    <3>1. Members(s) \subseteq DOMAIN K BY <2>1, MembersIn
    <3>2. y \notin Members(s) BY <1>3, <1>12 DEF k
    <3>3. y \notin L => x \notin Members(s) BY <1>3, <1>9, <1>12
    <3> QED BY <3>1, <3>2, <3>3
  <2> HIDE DEF s
  <2>3. Unique(Flat(K, s)) BY <2>1
  <2>4. UnlinkedIn(K, K2, s, p, y, DOMAIN K, O)
    BY <1>2, <2>1, <2>2, <2>3, FlatUnlinked
  <2> QED BY <2>1, <2>4 DEF s, UnlinkedIn
<1>14. ASSUME NEW j \in 1 .. m - 1, j = k PROVE lev2[j] = Flat(K2, lev2[j + 1])
  <2>1. lev2[j] = Unlinked(lev[k], y) /\ lev2[j + 1] = lev[k + 1]
    BY <1>5, <1>12, <1>14
  <2> QED BY <1>13, <2>1
<1>15. ASSUME NEW j \in 1 .. m - 1, j + 1 = k PROVE lev2[j] = Flat(K2, lev2[j + 1])
  <2>1. k \in 2 .. m /\ k # 1 /\ j = k - 1 /\ j # k /\ j \in 1 .. m
    BY <1>2, <1>4, <1>15
  <2>2. y \notin L /\ lev[k - 1] = Flat(K, lev[k]) /\ Unique(lev[k]) /\ lev[k] \in Seq(DOMAIN K)
    BY <1>5, <1>8, <2>1
  <2>3. PICK A, B \in Seq(DOMAIN K) : lev[k] = Pairs(A, x, y, B) /\ Unique(Pairs(A, x, y, B))
    BY <1>9, <2>2
  <2>4. x \in DOMAIN K /\ y \in DOMAIN K /\ K2[x] = K[x] \o K[y]
    <3>1. x \in DOMAIN K /\ K2[x] = K[x] \o K[y] BY <1>9, <2>2 DEF Leaves
    <3> QED BY <1>2, <2>2, <3>1
  <2>5. \A z \in Members(A) \cup Members(B) : K2[z] = K[z]
    <3>1. x \notin Members(A) /\ x \notin Members(B) /\ y \notin Members(A) /\ y \notin Members(B)
      BY <2>3, <2>4, PairsApart
    <3>2. PairsTyped(A, x, y, B, DOMAIN K) BY <2>4, PairsType
    <3>3. Members(A) \cup Members(B) \subseteq Members(lev[k])
      BY <2>3, <3>2 DEF PairsTyped
    <3>4. Members(lev[k]) \subseteq DOMAIN K BY <2>2, MembersIn
    <3>5. p \notin Members(lev[k]) BY <1>3, <1>4, <1>5
    <3> QED BY <3>1, <3>3, <3>4, <3>5
  <2>6. MergeAt(K, K2, A, x, y, B, DOMAIN K, O)
    BY <1>2, <2>3, <2>4, <2>5, FlatMerge
  <2>7. Unlinked(lev[k], y) = Joins(A, x, B) /\ Flat(K2, Joins(A, x, B)) = Flat(K, lev[k])
    BY <2>3, <2>6 DEF MergeAt
  <2>8. lev2[j] = lev[k - 1] /\ lev2[j + 1] = Unlinked(lev[k], y)
    BY <2>1, <1>5, <1>15
  <2> QED BY <2>2, <2>7, <2>8
<1>16. \A j \in 1 .. m - 1 : lev2[j] = Flat(K2, lev2[j + 1])
  <2> TAKE j \in 1 .. m - 1
  <2> HIDE DEF lev2
  <2> QED BY <1>11, <1>14, <1>15
<1>17. lev2[m] = T BY <1>2, <1>12
<1>18. lev2[1] = C2
  <2>2. CASE y \in L BY <1>2, <1>5, <1>12, <2>2 DEF Leaves
  <2>3. CASE y \notin L BY <1>2, <1>5, <1>12, <2>3 DEF Leaves
  <2> QED BY <2>2, <2>3
<1>19. O2 = L2 \cup DOMAIN K2 /\ DOMAIN K2 \subseteq DOMAIN K /\ L2 \subseteq L /\ (y \notin L => y \notin DOMAIN K2) /\ y \notin L2
       /\ y \notin DOMAIN K2
  <2>1. y \in L => y \notin DOMAIN K BY <1>2
  <2> QED BY <1>2, <2>1, ZenonT(60) DEF Leaves
<1>20. Gives(K2, DOMAIN K2, O)
  <2>1. \A z \in DOMAIN K2 : z = p \/ (z = x /\ y \notin L) \/ K2[z] = K[z]
    BY <1>19
  <2>2. \A z \in DOMAIN K2 : K[z] \in Seq(O) BY <1>2, <1>19 DEF Gives
  <2>3. y \notin L => K2[x] \in Seq(O)
    <3> HAVE y \notin L
    <3>1. K2[x] = K[x] \o K[y] /\ x \in DOMAIN K /\ y \in DOMAIN K
      BY <1>2, <1>9 DEF Leaves
    <3>2. K[x] \in Seq(O) /\ K[y] \in Seq(O) BY <1>2, <3>1 DEF Gives
    <3>3. K[x] \o K[y] \in Seq(O) BY <3>2, ConcatType
    <3> QED BY <3>1, <3>3
  <2> QED BY <2>1, <2>2, <2>3, <1>13 DEF Gives
<1>21. ht2 \in [O2 -> 1 .. m] /\ (\A z \in L2 : ht2[z] = 1) /\ \A z \in DOMAIN K2 : ht2[z] # 1
  BY <1>2, <1>19
<1>22. \A j \in 1 .. m : Members(lev2[j]) \subseteq O2 BY <1>7, MembersIn
<1>23. ASSUME NEW z \in DOMAIN K2 PROVE K2[z] \in Seq(O2)
  <2> DEFINE j == ht2[z]
  <2>1. z \in O2 /\ j \in 1 .. m /\ j # 1 BY <1>19, <1>21
  <2> HIDE DEF j
  <2>2. z \in Members(lev2[j])
    <3> HIDE DEF lev2
    <3> QED BY <1>7, <2>1 DEF j
  <2>3. j - 1 \in 1 .. m - 1 /\ (j - 1) + 1 = j /\ j - 1 \in 1 .. m
    BY <1>2, <2>1
  <2> HIDE DEF lev2, O2
  <2>4. lev2[j - 1] = Flat(K2, lev2[j]) BY <1>16, <2>3
  <2>5. lev2[j] \in Seq(DOMAIN K2)
    <3>1. \A q \in Members(lev2[j]) : q \in DOMAIN K2
      <4>1. \A q \in Members(lev2[j]) : q \in O2 /\ ht2[q] = j BY <1>7, <2>1
      <4> QED BY <4>1, <1>19, <1>21, <2>1
    <3>2. lev2[j] \in Seq(O2) BY <1>7, <2>1
    <3> QED BY <3>1, <3>2, SeqSub
  <2>6. ASSUME NEW q \in Members(K2[z]) PROVE q \in O2
    <3>1. q \in Members(Flat(K2, lev2[j])) BY <1>20, <2>2, <2>5, FlatHas
    <3> QED BY <3>1, <2>4, <2>3, <1>22
  <2>7. K2[z] \in Seq(O) BY <1>20 DEF Gives
  <2> QED BY <2>6, <2>7, SeqSub
<1>24. Levels(O2, L2, K2, T, C2, m, lev2, ht2)
  <2>1. Gives(K2, DOMAIN K2, O2) BY <1>23 DEF Gives
  <2> HIDE DEF O2, lev2, ht2
  <2> QED BY <1>2, <1>7, <1>16, <1>17, <1>18, <1>19, <1>21, <2>1 DEF Levels
<1> QED BY <1>24 DEF Tree

(* Neighbours x and y share out the sons they have had together. *)
Exchange(O, K, x, y, p, K2) ==
  /\ x \in DOMAIN K /\ y \in DOMAIN K /\ p \in DOMAIN K /\ DOMAIN K2 = DOMAIN K
  /\ \A z \in DOMAIN K \ {x, y} : K2[z] = K[z]
  /\ K2[x] \in Seq(O) /\ K2[y] \in Seq(O) /\ K2[x] \o K2[y] = K[x] \o K[y]
  /\ \E P, Q \in Seq(O) : K[p] = Pairs(P, x, y, Q)

LEMMA Shift ==
  ASSUME NEW O, NEW L, NEW K, NEW T, NEW C, Tree(O, L, K, T, C),
         NEW x, NEW y, NEW p, NEW K2, Exchange(O, K, x, y, p, K2)
  PROVE  Tree(O, L, K2, T, C)
<1>1. PICK m, lev, ht : Levels(O, L, K, T, C, m, lev, ht) BY DEF Tree
<1>2. /\ m \in Nat /\ m >= 1 /\ O = L \cup DOMAIN K /\ ht \in [O -> 1 .. m]
      /\ \A z \in L : ht[z] = 1
      /\ \A z \in DOMAIN K : ht[z] # 1
      /\ Gives(K, DOMAIN K, O) /\ lev[1] = C /\ lev[m] = T
  BY <1>1 DEF Levels
<1>3. \A j \in 1 .. m : lev[j] \in Seq(O) /\ Unique(lev[j]) /\ Members(lev[j]) = {z \in O : ht[z] = j}
  BY <1>1 DEF Levels
<1>0. /\ x \in DOMAIN K /\ y \in DOMAIN K /\ p \in DOMAIN K /\ DOMAIN K2 = DOMAIN K
      /\ \A z \in DOMAIN K \ {x, y} : K2[z] = K[z]
  BY DEF Exchange
<1> DEFINE k == ht[x]
<1>5. x \in O /\ y \in O BY <1>0, <1>2
<1>6. k = ht[y] /\ \E A, B \in Seq(O) : lev[k] = Pairs(A, x, y, B)
  <2>1. PICK P, Q \in Seq(O) : K[p] = Pairs(P, x, y, Q) BY DEF Exchange
  <2> QED BY <1>0, <1>1, <1>5, <2>1, Neighbours
<1>7. k \in 2 .. m BY <1>0, <1>2, <1>5
<1> HIDE DEF k
<1>8. ASSUME NEW j \in 1 .. m - 1, j + 1 # k PROVE lev[j] = Flat(K2, lev[j + 1])
  <2>1. j + 1 \in 1 .. m /\ j + 1 \in 2 .. m BY <1>2
  <2>2. lev[j + 1] \in Seq(DOMAIN K) BY <1>1, <2>1, LevelAbove
  <2>3. Members(lev[j + 1]) \subseteq DOMAIN K BY <2>2, MembersIn
  <2>4. x \notin Members(lev[j + 1]) /\ y \notin Members(lev[j + 1])
    BY <1>3, <1>6, <1>8, <2>1 DEF k
  <2>5. \A z \in Members(lev[j + 1]) : K2[z] = K[z] BY <1>0, <2>3, <2>4
  <2>6. Flat(K2, lev[j + 1]) = lev[j] BY <1>1, <2>5, LevelSame
  <2> QED BY <2>6
<1>9. ASSUME NEW j \in 1 .. m - 1, j + 1 = k PROVE lev[j] = Flat(K2, lev[j + 1])
  <2>1. j = k - 1 BY <1>7, <1>9
  <2>2. lev[k] \in Seq(DOMAIN K) /\ Unique(lev[k]) /\ lev[k - 1] = Flat(K, lev[k])
    BY <1>1, <1>7, LevelAbove
  <2>3. PICK A, B \in Seq(O) : lev[k] = Pairs(A, x, y, B) BY <1>6
  <2>4. PairsTyped(A, x, y, B, O) BY <1>5, PairsType
  <2>5. Members(A) \subseteq DOMAIN K /\ Members(B) \subseteq DOMAIN K
    <3>1. Members(lev[k]) \subseteq DOMAIN K BY <2>2, MembersIn
    <3> QED BY <2>3, <2>4, <3>1 DEF PairsTyped
  <2>6. A \in Seq(DOMAIN K) BY <2>5, SeqSub
  <2>7. B \in Seq(DOMAIN K) BY <2>5, SeqSub
  <2>8. Unique(Pairs(A, x, y, B)) BY <2>2, <2>3
  <2>9. \A z \in Members(A) \cup Members(B) : K2[z] = K[z]
    <3>1. x \notin Members(A) /\ x \notin Members(B) /\ y \notin Members(A) /\ y \notin Members(B)
      BY <1>0, <2>6, <2>7, <2>8, PairsApart
    <3> QED BY <1>0, <2>5, <3>1
  <2>11. ShiftAt(K, K2, A, x, y, B, DOMAIN K, O)
    <3>1. K2[x] \in Seq(O) /\ K2[y] \in Seq(O) /\ K2[x] \o K2[y] = K[x] \o K[y]
      BY DEF Exchange
    <3> QED BY <1>0, <1>2, <2>6, <2>7, <2>8, <2>9, <3>1, FlatShift
  <2>10. Flat(K2, Pairs(A, x, y, B)) = Flat(K, Pairs(A, x, y, B))
    BY <2>11 DEF ShiftAt
  <2> QED BY <1>9, <2>1, <2>2, <2>3, <2>10
<1>10. \A j \in 1 .. m - 1 : lev[j] = Flat(K2, lev[j + 1]) BY <1>8, <1>9
<1>11. Gives(K2, DOMAIN K2, O) BY <1>0, <1>2 DEF Gives, Exchange
<1>12. Levels(O, L, K2, T, C, m, lev, ht)
  BY <1>0, <1>2, <1>3, <1>10, <1>11 DEF Levels
<1> QED BY <1>12 DEF Tree

(* The same sons. *)
LEMMA SameTree ==
  ASSUME NEW O, NEW L, NEW K, NEW T, NEW C, Tree(O, L, K, T, C),
         NEW K2, DOMAIN K2 = DOMAIN K, \A z \in DOMAIN K : K2[z] = K[z]
  PROVE  Tree(O, L, K2, T, C)
<1>1. PICK m, lev, ht : Levels(O, L, K, T, C, m, lev, ht) BY DEF Tree
<1>2. ASSUME NEW j \in 1 .. m - 1 PROVE lev[j] = Flat(K2, lev[j + 1])
  <2>1. j + 1 \in 2 .. m BY <1>1 DEF Levels
  <2>2. lev[j + 1] \in Seq(DOMAIN K) BY <1>1, <2>1, LevelAbove
  <2>3. Members(lev[j + 1]) \subseteq DOMAIN K BY <2>2, MembersIn
  <2> QED BY <1>1, <2>3, LevelSame
<1>3. Gives(K2, DOMAIN K2, O) BY <1>1 DEF Levels, Gives
<1>4. Levels(O, L, K2, T, C, m, lev, ht) BY <1>1, <1>2, <1>3 DEF Levels
<1> QED BY <1>4 DEF Tree

(* A new root above the highest level. *)
LEMMA AddRoot ==
  ASSUME NEW O, NEW L, NEW K, NEW T, NEW C, Tree(O, L, K, T, C),
         NEW r, r \notin O, NEW K2, DOMAIN K2 = DOMAIN K \cup {r}, K2[r] = T,
         \A z \in DOMAIN K : K2[z] = K[z]
  PROVE  Tree(O \cup {r}, L, K2, <<r>>, C)
<1>1. PICK m, lev, ht : Levels(O, L, K, T, C, m, lev, ht) BY DEF Tree
<1>2. /\ m \in Nat /\ m >= 1 /\ O = L \cup DOMAIN K /\ ht \in [O -> 1 .. m]
      /\ \A z \in L : ht[z] = 1
      /\ \A z \in DOMAIN K : ht[z] # 1
      /\ Gives(K, DOMAIN K, O) /\ lev[1] = C /\ lev[m] = T
  BY <1>1 DEF Levels
<1>3. \A j \in 1 .. m : lev[j] \in Seq(O) /\ Unique(lev[j]) /\ Members(lev[j]) = {z \in O : ht[z] = j}
  BY <1>1 DEF Levels
<1> DEFINE O2 == O \cup {r}
           m2 == m + 1
           lev2 == [j \in 1 .. m2 |-> IF j = m2 THEN <<r>> ELSE lev[j]]
           ht2 == [z \in O2 |-> IF z = r THEN m2 ELSE ht[z]]
<1>4. m2 \in Nat /\ m2 >= 1 /\ m2 # 1 /\ m2 \in 1 .. m2 /\ m2 - 1 = m /\ m2 \notin 1 .. m /\ 1 \in 1 .. m /\ 1 \in 1 .. m2
      /\ m \in 1 .. m
  BY <1>2
<1>5. \A j \in 1 .. m2 : j = m2 \/ j \in 1 .. m BY <1>2
<1>6. \A j \in 1 .. m : j \in 1 .. m2 /\ j # m2 BY <1>2
<1>7. \A j \in 1 .. m2 - 1 : j \in 1 .. m /\ (j = m \/ (j \in 1 .. m - 1 /\ j + 1 \in 1 .. m))
  BY <1>2
<1> HIDE DEF m2
<1>8. r \notin L /\ r \notin DOMAIN K BY <1>2
<1>9. <<r>> \in Seq(O2) /\ Unique(<<r>>) /\ Members(<<r>>) = {r} /\ <<r>> \in Seq(DOMAIN K2)
  <2>1. Len(<<r>>) = 1 /\ <<r>>[1] = r OBVIOUS
  <2>2. \A i \in 1 .. 1 : i = 1 OBVIOUS
  <2>3. 1 \in 1 .. 1 OBVIOUS
  <2> QED BY <2>1, <2>2, <2>3 DEF Unique, Members
<1>10. \A j \in 1 .. m2 : lev2[j] \in Seq(O2) /\ Unique(lev2[j]) /\ Members(lev2[j]) = {z \in O2 : ht2[z] = j}
  <2> TAKE j \in 1 .. m2
  <2>1. CASE j = m2
    <3>1. lev2[j] = <<r>> BY <2>1
    <3>2. {z \in O2 : ht2[z] = j} = {r} BY <1>2, <1>4, <2>1
    <3> QED BY <1>9, <3>1, <3>2
  <2>2. CASE j # m2
    <3>1. lev2[j] = lev[j] /\ j \in 1 .. m BY <1>5, <2>2
    <3>2. {z \in O2 : ht2[z] = j} = {z \in O : ht[z] = j} BY <2>2
    <3>3. lev[j] \in Seq(O) /\ Members(lev[j]) \subseteq O2 BY <1>3, <3>1
    <3>4. lev[j] \in Seq(O2) BY <3>3, SeqSub
    <3> QED BY <1>3, <3>1, <3>2, <3>4
  <2> QED BY <2>1, <2>2
<1>11. Gives(K2, DOMAIN K2, O2)
  <2>1. Gives(K, DOMAIN K, O2) BY <1>2, GivesMore
  <2>2. T \in Seq(O2)
    <3>1. lev2[m] = T BY <1>2, <1>4, <1>6
    <3> HIDE DEF lev2
    <3> QED BY <3>1, <1>4, <1>6, <1>10
  <2> HIDE DEF O2
  <2> QED BY <2>1, <2>2 DEF Gives
<1>12. \A j \in 1 .. m2 - 1 : lev2[j] = Flat(K2, lev2[j + 1])
  <2> TAKE j \in 1 .. m2 - 1
  <2>1. CASE j = m
    <3>1. Flat(K2, <<r>>) = K2[r] BY <1>11, FlatOne
    <3>2. j + 1 = m2 BY <1>2, <1>4, <2>1 DEF m2
    <3> QED BY <1>2, <1>4, <1>6, <2>1, <3>1, <3>2
  <2>2. CASE j # m
    <3>1. j \in 1 .. m - 1 /\ j + 1 \in 1 .. m /\ j \in 1 .. m BY <1>7, <2>2
    <3>2. lev2[j] = lev[j] /\ lev2[j + 1] = lev[j + 1] BY <3>1, <1>6
    <3>3. j + 1 \in 2 .. m BY <1>2, <3>1
    <3>4. lev[j + 1] \in Seq(DOMAIN K) BY <1>1, <3>3, LevelAbove
    <3>5. Members(lev[j + 1]) \subseteq DOMAIN K BY <3>4, MembersIn
    <3>6. Flat(K2, lev[j + 1]) = lev[j] BY <1>1, <3>1, <3>5, LevelSame
    <3> QED BY <3>2, <3>6
  <2> QED BY <2>1, <2>2
<1>13. lev2[1] = C /\ lev2[m2] = <<r>> BY <1>2, <1>4
<1>14. ht2 \in [O2 -> 1 .. m2] /\ (\A z \in L : ht2[z] = 1) /\ \A z \in DOMAIN K2 : ht2[z] # 1
  BY <1>2, <1>4, <1>6, <1>8
<1>15. O2 = L \cup DOMAIN K2 BY <1>2
<1>16. Levels(O2, L, K2, <<r>>, C, m2, lev2, ht2)
  <2> HIDE DEF O2, lev2, ht2
  <2> QED BY <1>4, <1>10, <1>11, <1>12, <1>13, <1>14, <1>15 DEF Levels
<1> QED BY <1>16 DEF Tree

(* The root goes, and its sons are the highest level. *)
LEMMA DropRoot ==
  ASSUME NEW O, NEW L, NEW K, NEW C, NEW r, Tree(O, L, K, <<r>>, C), r \in DOMAIN K,
         NEW K2, DOMAIN K2 = DOMAIN K \ {r}, \A z \in DOMAIN K2 : K2[z] = K[z]
  PROVE  Tree(O \ {r}, L, K2, K[r], C)
<1>1. PICK m, lev, ht : Levels(O, L, K, <<r>>, C, m, lev, ht) BY DEF Tree
<1>2. /\ m \in Nat /\ m >= 1 /\ O = L \cup DOMAIN K /\ ht \in [O -> 1 .. m]
      /\ \A z \in L : ht[z] = 1
      /\ \A z \in DOMAIN K : ht[z] # 1
      /\ Gives(K, DOMAIN K, O) /\ lev[1] = C /\ lev[m] = <<r>>
  BY <1>1 DEF Levels
<1>3. \A j \in 1 .. m : lev[j] \in Seq(O) /\ Unique(lev[j]) /\ Members(lev[j]) = {z \in O : ht[z] = j}
  BY <1>1 DEF Levels
<1> DEFINE O2 == O \ {r}
           m2 == m - 1
           ht2 == [z \in O2 |-> ht[z]]
<1>4. Members(<<r>>) = {r}
  <2>1. Len(<<r>>) = 1 /\ <<r>>[1] = r OBVIOUS
  <2>2. \A i \in 1 .. 1 : i = 1 OBVIOUS
  <2>3. 1 \in 1 .. 1 OBVIOUS
  <2> QED BY <2>1, <2>2, <2>3 DEF Members
<1>5. {z \in O : ht[z] = m} = {r} /\ r \in O /\ ht[r] = m /\ m # 1
  <2>1. m \in 1 .. m BY <1>2
  <2>2. {z \in O : ht[z] = m} = {r} BY <1>2, <1>3, <1>4, <2>1
  <2> QED BY <1>2, <2>2
<1>6. m2 \in Nat /\ m2 >= 1 /\ m2 \in 1 .. m - 1 /\ m2 + 1 = m /\ m \notin 1 .. m2 /\ m \in 2 .. m /\ m - 1 = m2
  BY <1>2, <1>5
<1>7. \A j \in 1 .. m2 : j \in 1 .. m /\ j # m BY <1>2
<1>8. \A j \in 1 .. m2 - 1 : j \in 1 .. m - 1 /\ j + 1 \in 1 .. m /\ j + 1 \in 2 .. m /\ j + 1 # m
  BY <1>2
<1>9. \A j \in 1 .. m : j = m \/ j \in 1 .. m2 BY <1>2
<1> HIDE DEF m2
<1>10. r \notin L BY <1>2, <1>5
<1>11. \A j \in 1 .. m2 : lev[j] \in Seq(O2) /\ Unique(lev[j]) /\ Members(lev[j]) = {z \in O2 : ht2[z] = j}
  <2> TAKE j \in 1 .. m2
  <2>1. {z \in O2 : ht2[z] = j} = {z \in O : ht[z] = j} BY <1>5, <1>7
  <2>2. lev[j] \in Seq(O) /\ Unique(lev[j]) /\ Members(lev[j]) = {z \in O : ht[z] = j}
    BY <1>3, <1>7
  <2>3. Members(lev[j]) \subseteq O2 BY <2>1, <2>2
  <2>4. lev[j] \in Seq(O2) BY <2>2, <2>3, SeqSub
  <2> QED BY <2>1, <2>2, <2>4
<1>12. \A j \in 1 .. m2 - 1 : lev[j] = Flat(K2, lev[j + 1])
  <2> TAKE j \in 1 .. m2 - 1
  <2>1. j \in 1 .. m - 1 /\ j + 1 \in 1 .. m /\ j + 1 \in 2 .. m /\ j + 1 # m
    BY <1>8
  <2>2. lev[j + 1] \in Seq(DOMAIN K) BY <1>1, <2>1, LevelAbove
  <2>3. Members(lev[j + 1]) \subseteq DOMAIN K BY <2>2, MembersIn
  <2>4. r \notin Members(lev[j + 1]) BY <1>3, <1>5, <2>1
  <2>5. \A z \in Members(lev[j + 1]) : K2[z] = K[z] BY <2>3, <2>4
  <2> QED BY <1>1, <2>1, <2>5, LevelSame
<1>13. lev[1] = C /\ lev[m2] = K[r]
  <2>1. lev[m2] = Flat(K, <<r>>)
    <3>1. lev[m2] = Flat(K, lev[m2 + 1]) BY <1>1, <1>6 DEF Levels
    <3> QED BY <1>2, <1>6, <3>1
  <2>2. Flat(K, <<r>>) = K[r] BY <1>2, FlatOne
  <2> QED BY <1>2, <2>1, <2>2
<1>14. ht2 \in [O2 -> 1 .. m2] /\ (\A z \in L : ht2[z] = 1) /\ \A z \in DOMAIN K2 : ht2[z] # 1
  <2>1. \A z \in O2 : ht[z] \in 1 .. m2 BY <1>2, <1>5, <1>9
  <2> QED BY <2>1, <1>2, <1>10
<1>15. O2 = L \cup DOMAIN K2 BY <1>2, <1>10
<1>16. Gives(K2, DOMAIN K2, O2)
  <2>1. ASSUME NEW z \in DOMAIN K2 PROVE K2[z] \in Seq(O2)
    <3>1. z \in DOMAIN K /\ K2[z] = K[z] /\ K[z] \in Seq(O) BY <1>2 DEF Gives
    <3>2. ASSUME NEW q \in Members(K[z]) PROVE q \in O2
      <4>1. q \in O /\ ht[q] \in 1 .. m - 1 BY <1>1, <3>1, SonBelow
      <4> QED BY <4>1, <1>5, <1>6
    <3>3. K[z] \in Seq(O2) BY <3>1, <3>2, SeqSub
    <3> QED BY <3>1, <3>3
  <2> QED BY <2>1 DEF Gives
<1>17. Levels(O2, L, K2, K[r], C, m2, lev, ht2)
  <2> HIDE DEF O2, ht2
  <2> QED BY <1>6, <1>11, <1>12, <1>13, <1>14, <1>15, <1>16 DEF Levels
<1> QED BY <1>17 DEF Tree

(* A leaf alone. *)
LEMMA OneLeaf ==
  ASSUME NEW l, NEW K, DOMAIN K = {}
  PROVE  Tree({l}, {l}, K, <<l>>, <<l>>)
<1> DEFINE lev == [j \in 1 .. 1 |-> <<l>>]
           ht == [z \in {l} |-> 1]
<1>1. Len(<<l>>) = 1 /\ <<l>>[1] = l /\ <<l>> \in Seq({l}) OBVIOUS
<1>2. \A i \in 1 .. 1 : i = 1 OBVIOUS
<1>3. 1 \in 1 .. 1 /\ 1 - 1 = 0 /\ 1 .. 0 = {} /\ 1 \in Nat /\ 1 >= 1 OBVIOUS
<1>4. Unique(<<l>>) /\ Members(<<l>>) = {l}
  BY <1>1, <1>2, <1>3 DEF Unique, Members
<1>5. Gives(K, DOMAIN K, {l}) BY DEF Gives
<1>6. lev[1] = <<l>> /\ ht \in [{l} -> 1 .. 1] /\ ht[l] = 1 BY <1>3
<1>7. \A j \in 1 .. 1 : lev[j] \in Seq({l}) /\ Unique(lev[j]) /\ Members(lev[j]) = {z \in {l} : ht[z] = j}
  <2> TAKE j \in 1 .. 1
  <2>1. j = 1 BY <1>2
  <2> HIDE DEF lev, ht
  <2> QED BY <2>1, <1>1, <1>4, <1>6
<1> HIDE DEF lev, ht
<1>8. Levels({l}, {l}, K, <<l>>, <<l>>, 1, lev, ht)
  BY <1>3, <1>5, <1>6, <1>7 DEF Levels
<1> QED BY <1>8 DEF Tree

(* Every son knows its parent, and the nodes of the highest level have none.*)
Parents(K, T, U) ==
  /\ \A q \in DOMAIN K : \A z \in Members(K[q]) : U[z] = q
  /\ \A z \in Members(T) : U[z] = NULL

(* What a concatenation has, it has from one of the two. *)
ConcatHas(r, s, E) == Members(r \o s) = Members(r) \cup Members(s)

LEMMA MembersConcat ==
  ASSUME NEW E, NEW r \in Seq(E), NEW s \in Seq(E)
  PROVE  ConcatHas(r, s, E)
<1>1. Len(r) \in Nat /\ Len(s) \in Nat BY LenProperties
<1>2. Len(r \o s) = Len(r) + Len(s)
      /\ \A i \in 1 .. Len(r) + Len(s) : (r \o s)[i] = IF i <= Len(r) THEN r[i] ELSE s[i - Len(r)]
  BY ConcatProperties
<1> DEFINE t == r \o s
<1> HIDE DEF t
<1>3. \A i \in 1 .. Len(r) : i \in 1 .. Len(t) /\ t[i] = r[i]
  BY <1>1, <1>2 DEF t
<1>4. \A i \in 1 .. Len(s) : Len(r) + i \in 1 .. Len(t) /\ t[Len(r) + i] = s[i]
  BY <1>1, <1>2 DEF t
<1>5. \A i \in 1 .. Len(t) : (i \in 1 .. Len(r) /\ t[i] = r[i]) \/ (i - Len(r) \in 1 .. Len(s) /\ t[i] = s[i - Len(r)])
  BY <1>1, <1>2 DEF t
<1>6. \A z \in Members(t) : z \in Members(r) \/ z \in Members(s)
  BY <1>5 DEF Members
<1>7. \A z \in Members(r) : z \in Members(t) BY <1>3 DEF Members
<1>8. \A z \in Members(s) : z \in Members(t) BY <1>4 DEF Members
<1> QED BY <1>6, <1>7, <1>8 DEF t, ConcatHas

(* The two parts of a sequence without repetitions have nothing in common. *)
LEMMA PartsApart ==
  ASSUME NEW E, NEW r \in Seq(E), NEW s \in Seq(E), Unique(r \o s)
  PROVE  Members(r) \cap Members(s) = {} /\ Unique(r) /\ Unique(s)
<1>1. Len(r) \in Nat /\ Len(s) \in Nat BY LenProperties
<1>2. Len(r \o s) = Len(r) + Len(s)
      /\ \A i \in 1 .. Len(r) + Len(s) : (r \o s)[i] = IF i <= Len(r) THEN r[i] ELSE s[i - Len(r)]
  BY ConcatProperties
<1> DEFINE t == r \o s
<1> HIDE DEF t
<1>3. \A i \in 1 .. Len(r) : i \in 1 .. Len(t) /\ t[i] = r[i]
  BY <1>1, <1>2 DEF t
<1>4. \A i \in 1 .. Len(s) : Len(r) + i \in 1 .. Len(t) /\ t[Len(r) + i] = s[i]
  BY <1>1, <1>2 DEF t
<1>5. \A i, j \in 1 .. Len(t) : t[i] = t[j] => i = j BY DEF t, Unique
<1>6. ASSUME NEW i \in 1 .. Len(r), NEW j \in 1 .. Len(s), r[i] = s[j] PROVE FALSE
  <2>1. i = Len(r) + j BY <1>3, <1>4, <1>5, <1>6
  <2> QED BY <1>1, <2>1
<1>7. Members(r) \cap Members(s) = {} BY <1>6 DEF Members
<1>8. Unique(r) BY <1>3, <1>5 DEF Unique
<1>9. Unique(s)
  <2>1. ASSUME NEW i \in 1 .. Len(s), NEW j \in 1 .. Len(s), s[i] = s[j] PROVE i = j
    <3>1. Len(r) + i = Len(r) + j BY <1>4, <1>5, <2>1
    <3> QED BY <1>1, <3>1
  <2> QED BY <2>1 DEF Unique
<1> QED BY <1>7, <1>8, <1>9

LEMMA SonsOf ==
  ASSUME NEW O, NEW L, NEW K, NEW T, NEW C, Tree(O, L, K, T, C)
  PROVE  /\ O = L \cup DOMAIN K /\ T \in Seq(O) /\ C \in Seq(O) /\ Unique(C) /\ Members(C) = L
         /\ L \cap DOMAIN K = {} /\ Unique(T)
         /\ \A q \in DOMAIN K : K[q] \in Seq(O) /\ Unique(K[q]) /\ q \notin Members(K[q])
<1>1. PICK m, lev, ht : Levels(O, L, K, T, C, m, lev, ht) BY DEF Tree
<1>2. /\ m \in Nat /\ m >= 1 /\ O = L \cup DOMAIN K /\ ht \in [O -> 1 .. m]
      /\ \A z \in L : ht[z] = 1
      /\ \A z \in DOMAIN K : ht[z] # 1
      /\ Gives(K, DOMAIN K, O) /\ lev[1] = C /\ lev[m] = T
  BY <1>1 DEF Levels
<1>3. \A j \in 1 .. m : lev[j] \in Seq(O) /\ Unique(lev[j]) /\ Members(lev[j]) = {z \in O : ht[z] = j}
  BY <1>1 DEF Levels
<1>4. 1 \in 1 .. m /\ m \in 1 .. m BY <1>2
<1>5. Members(C) = L
  <2>1. Members(C) = {z \in O : ht[z] = 1} BY <1>2, <1>3, <1>4
  <2> QED BY <2>1, <1>2
<1>6. L \cap DOMAIN K = {} BY <1>2
<1>7. ASSUME NEW q \in DOMAIN K PROVE K[q] \in Seq(O) /\ Unique(K[q]) /\ q \notin Members(K[q])
  <2>1. K[q] \in Seq(O) BY <1>2 DEF Gives
  <2>2. CASE Members(K[q]) = {}
    <3>1. \A i \in 1 .. Len(K[q]) : FALSE BY <2>2 DEF Members
    <3>2. Unique(K[q]) BY <3>1 DEF Unique
    <3> QED BY <2>1, <2>2, <3>2
  <2>3. CASE Members(K[q]) # {}
    <3>1. PICK z : z \in Members(K[q]) BY <2>3
    <3>2. Unique(K[q]) BY <1>1, <3>1, SonBelow
    <3>3. \A w \in Members(K[q]) : w # q
      <4> TAKE w \in Members(K[q])
      <4> QED BY <1>1, SonBelow
    <3> QED BY <2>1, <3>2, <3>3
  <2> QED BY <2>2, <2>3
<1> QED BY <1>2, <1>3, <1>4, <1>5, <1>6, <1>7

LEMMA GrowParents ==
  ASSUME NEW O, NEW L, NEW K, NEW T, NEW C, Tree(O, L, K, T, C), NULL \notin O,
         NEW x \in O, NEW y, y \notin O, NEW p, NEW L2, NEW K2, NEW T2, NEW C2,
         Behind(O, L, K, T, x, y, p, K2, T2), Shares(O, L, K, C, x, y, L2, K2, C2),
         \A z \in DOMAIN K : z # p /\ ~(z = x /\ x \notin L) => K2[z] = K[z],
         NEW U, Parents(K, T, U), NEW U2, U2[y] = U[x],
         \A z \in O : U2[z] = IF x \notin L /\ z \in Members(K2[y]) THEN y ELSE U[z]
  PROVE  Parents(K2, T2, U2)
<1>1. /\ O = L \cup DOMAIN K /\ T \in Seq(O) /\ Unique(T) /\ L \cap DOMAIN K = {}
      /\ \A q \in DOMAIN K : K[q] \in Seq(O) /\ Unique(K[q]) /\ q \notin Members(K[q])
  BY SonsOf
<1>2. \A q \in DOMAIN K : Members(K[q]) \subseteq O BY <1>1, MembersIn
<1>3. Members(T) \subseteq O BY <1>1, MembersIn
<1>4. \A q \in DOMAIN K : \A z \in Members(K[q]) : U[z] = q BY DEF Parents
<1>5. \A z \in Members(T) : U[z] = NULL BY DEF Parents
<1>6. x \notin L => /\ Members(K[x]) = Members(K2[x]) \cup Members(K2[y]) /\ Members(K2[x]) \cap Members(K2[y]) = {}
                    /\ x \in DOMAIN K
  <2> HAVE x \notin L
  <2>1. K2[x] \in Seq(O) /\ K2[y] \in Seq(O) /\ K2[x] \o K2[y] = K[x] /\ x \in DOMAIN K
    BY <1>1 DEF Shares
  <2>2. Unique(K2[x] \o K2[y]) BY <1>1, <2>1
  <2>5. ConcatHas(K2[x], K2[y], O) BY <2>1, MembersConcat
  <2>3. Members(K2[x] \o K2[y]) = Members(K2[x]) \cup Members(K2[y])
    BY <2>5 DEF ConcatHas
  <2>4. Members(K2[x]) \cap Members(K2[y]) = {} BY <2>1, <2>2, PartsApart
  <2> QED BY <2>1, <2>3, <2>4
<1>7. ASSUME NEW q \in DOMAIN K, q # p, ~(q = x /\ x \notin L), NEW z \in Members(K2[q]) PROVE U2[z] = q
  <2>1. K2[q] = K[q] /\ z \in O /\ U[z] = q BY <1>2, <1>4, <1>7
  <2>2. ~(x \notin L /\ z \in Members(K2[y])) BY <1>4, <1>6, <1>7, <2>1
  <2> QED BY <2>1, <2>2
<1>8. p \in DOMAIN K => /\ x \in Members(K[p]) /\ T2 = T /\ x # p
                        /\ Members(K2[p]) = Members(K[p]) \cup {y}
  <2> HAVE p \in DOMAIN K
  <2>1. x \in Members(K[p]) /\ K2[p] = Linked(K[p], x, y) /\ T2 = T
    BY DEF Behind
  <2> DEFINE s == K[p]
             D == O \cup {y}
  <2>2. s \in Seq(O) /\ Unique(s) /\ Members(s) \subseteq D /\ y \notin Members(s) /\ y \in D /\ x \in Members(s)
    BY <1>1, <1>2, <2>1
  <2> HIDE DEF D, s
  <2>3. s \in Seq(D) BY <2>2, SeqSub
  <2>4. Members(Linked(s, x, y)) = Members(s) \cup {y} BY <2>2, <2>3, LinkedIs
  <2>5. x # p BY <1>1, <2>1
  <2> QED BY <2>1, <2>4, <2>5 DEF s
<1>9. ASSUME p \in DOMAIN K, NEW z \in Members(K2[p]) PROVE U2[z] = p
  <2>1. U[x] = p BY <1>4, <1>8, <1>9
  <2>2. CASE z = y BY <2>1, <2>2
  <2>3. CASE z # y
    <3>1. z \in Members(K[p]) BY <1>8, <1>9, <2>3
    <3>2. z \in O /\ U[z] = p BY <1>2, <1>4, <1>9, <3>1
    <3>3. ~(x \notin L /\ z \in Members(K2[y])) BY <1>4, <1>6, <1>8, <1>9, <3>2
    <3> QED BY <3>2, <3>3
  <2> QED BY <2>2, <2>3
<1>10. ASSUME x \notin L, NEW z \in Members(K2[x]) PROVE U2[z] = x
  <2>1. z \in Members(K[x]) /\ z \notin Members(K2[y]) /\ x \in DOMAIN K
    BY <1>6, <1>10
  <2>2. z \in O /\ U[z] = x BY <1>2, <1>4, <2>1
  <2> QED BY <2>1, <2>2
<1>11. ASSUME x \notin L, NEW z \in Members(K2[y]) PROVE U2[z] = y
  <2>1. z \in O BY <1>2, <1>6, <1>11
  <2> QED BY <1>11, <2>1
<1>12. \A q \in DOMAIN K2 : q \in DOMAIN K \/ (q = y /\ x \notin L)
  BY DEF Shares
<1>13. \A q \in DOMAIN K2 : \A z \in Members(K2[q]) : U2[z] = q
  <2> TAKE q \in DOMAIN K2
  <2> TAKE z \in Members(K2[q])
  <2>1. CASE q = y /\ x \notin L BY <1>11, <2>1
  <2>2. CASE q = x /\ x \notin L BY <1>10, <2>2
  <2>3. CASE q \in DOMAIN K /\ q = p BY <1>9, <2>3
  <2>4. CASE q \in DOMAIN K /\ q # p /\ ~(q = x /\ x \notin L) BY <1>7, <2>4
  <2> QED BY <1>12, <2>1, <2>2, <2>3, <2>4
<1>14. ASSUME NEW z \in Members(T) PROVE U2[z] = NULL
  <2>1. z \in O /\ U[z] = NULL BY <1>3, <1>5
  <2>2. ~(x \notin L /\ z \in Members(K2[y])) BY <1>1, <1>4, <1>6, <2>1
  <2> QED BY <2>1, <2>2
<1>15. \A z \in Members(T2) : U2[z] = NULL
  <2>1. CASE p \in DOMAIN K BY <1>8, <1>14, <2>1
  <2>2. CASE p \notin DOMAIN K
    <3>1. x \in Members(T) /\ T2 = Linked(T, x, y) BY <2>2 DEF Behind
    <3> DEFINE D == O \cup {y}
    <3>2. Members(T) \subseteq D /\ y \notin Members(T) /\ y \in D BY <1>3
    <3> HIDE DEF D
    <3>3. T \in Seq(D) BY <1>1, <3>2, SeqSub
    <3>4. Members(Linked(T, x, y)) = Members(T) \cup {y}
      BY <1>1, <3>1, <3>2, <3>3, LinkedIs
    <3>5. U2[y] = NULL BY <1>5, <3>1
    <3> QED BY <1>14, <3>1, <3>4, <3>5
  <2> QED BY <2>1, <2>2
<1> QED BY <1>13, <1>15 DEF Parents

LEMMA ShrinkParents ==
  ASSUME NEW O, NEW L, NEW K, NEW T, NEW C, Tree(O, L, K, T, C), NULL \notin O,
         NEW y \in O, NEW x, NEW p \in DOMAIN K, y \in Members(K[p]), NEW L2, NEW K2, NEW C2,
         K2[p] = Unlinked(K[p], y), Leaves(O, L, K, C, x, y, p, L2, K2, C2),
         \A z \in DOMAIN K \ {p, y} : ~(z = x /\ y \notin L) => K2[z] = K[z],
         NEW U, Parents(K, T, U), NEW U2,
         \A z \in O \ {y} : U2[z] = IF y \notin L /\ z \in Members(K[y]) THEN x ELSE U[z]
  PROVE  Parents(K2, T, U2)
<1>1. /\ O = L \cup DOMAIN K /\ T \in Seq(O) /\ Unique(T) /\ L \cap DOMAIN K = {}
      /\ \A q \in DOMAIN K : K[q] \in Seq(O) /\ Unique(K[q]) /\ q \notin Members(K[q])
  BY SonsOf
<1>2. \A q \in DOMAIN K : Members(K[q]) \subseteq O BY <1>1, MembersIn
<1>3. Members(T) \subseteq O BY <1>1, MembersIn
<1>4. \A q \in DOMAIN K : \A z \in Members(K[q]) : U[z] = q BY DEF Parents
<1>5. \A z \in Members(T) : U[z] = NULL BY DEF Parents
<1>6. Members(K2[p]) = Members(K[p]) \ {y} /\ y # p /\ U[y] = p
  <2>1. K[p] \in Seq(O) /\ Unique(K[p]) BY <1>1
  <2>2. Members(Unlinked(K[p], y)) = Members(K[p]) \ {y} BY <2>1, UnlinkedIs
  <2> QED BY <2>2, <1>1, <1>4
<1>7. y \notin L => /\ y \in DOMAIN K /\ x \in DOMAIN K /\ x # y /\ Members(K2[x]) = Members(K[x]) \cup Members(K[y])
                    /\ x \in Members(K[p]) /\ x # p
  <2> HAVE y \notin L
  <2>1. y \in DOMAIN K /\ x \in O /\ K2[x] = K[x] \o K[y] BY <1>1 DEF Leaves
  <2>2. PICK P, Q \in Seq(O) : K[p] = Pairs(P, x, y, Q) BY DEF Leaves
  <2>3. PairsTyped(P, x, y, Q, O) BY <2>1, PairsType
  <2>4. x \in Members(K[p]) /\ x # p BY <1>1, <2>2, <2>3 DEF PairsTyped
  <2>5. Unique(Pairs(P, x, y, Q)) BY <1>1, <2>2
  <2>6. x # y BY <2>1, <2>5, PairsApart
  <2>7. x \in DOMAIN K
    <3>1. PICK m, lev, ht : Levels(O, L, K, T, C, m, lev, ht) BY DEF Tree
    <3>2. ht[x] = ht[p] - 1 BY <2>4, <3>1, SonBelow
    <3>3. ht[y] = ht[p] - 1 BY <3>1, SonBelow
    <3>4. ht[y] # 1 /\ \A z \in L : ht[z] = 1 BY <2>1, <3>1 DEF Levels
    <3> QED BY <1>1, <2>1, <3>2, <3>3, <3>4
  <2>8. K[x] \in Seq(O) /\ K[y] \in Seq(O) BY <1>1, <2>1, <2>7
  <2>10. ConcatHas(K[x], K[y], O) BY <2>8, MembersConcat
  <2>9. Members(K[x] \o K[y]) = Members(K[x]) \cup Members(K[y])
    BY <2>10 DEF ConcatHas
  <2> QED BY <2>1, <2>4, <2>6, <2>7, <2>9
<1>8. DOMAIN K2 \subseteq DOMAIN K /\ y \notin DOMAIN K2 BY <1>1 DEF Leaves
<1>9. ASSUME NEW q \in DOMAIN K2, NEW z \in Members(K2[q]) PROVE U2[z] = q
  <2>1. q \in DOMAIN K /\ q # y BY <1>8
  <2>2. CASE q = x /\ y \notin L
    <3>1. z \in Members(K[x]) \/ z \in Members(K[y]) BY <1>7, <1>9, <2>2
    <3>2. z \in O /\ z # y
      <4>1. z \in O BY <1>2, <1>7, <2>2, <3>1
      <4>2. U[z] # p BY <1>4, <1>6, <1>7, <2>2, <3>1
      <4> QED BY <4>1, <4>2, <1>6
    <3> QED BY <1>4, <1>7, <2>2, <3>1, <3>2
  <2>3. CASE q = p
    <3>1. z \in Members(K[p]) /\ z # y BY <1>6, <1>9, <2>3
    <3>2. z \in O /\ U[z] = p BY <1>2, <1>4, <3>1
    <3>3. ~(y \notin L /\ z \in Members(K[y])) BY <1>4, <1>6, <1>7, <3>2
    <3> QED BY <2>3, <3>1, <3>2, <3>3
  <2>4. CASE q # p /\ ~(q = x /\ y \notin L)
    <3>1. z \in Members(K[q]) BY <1>9, <2>1, <2>4
    <3>2. z \in O /\ U[z] = q /\ z # y BY <1>2, <1>4, <1>6, <2>1, <2>4, <3>1
    <3>3. ~(y \notin L /\ z \in Members(K[y])) BY <1>4, <1>7, <2>1, <3>2
    <3> QED BY <3>2, <3>3
  <2> QED BY <2>2, <2>3, <2>4
<1>10. ASSUME NEW z \in Members(T) PROVE U2[z] = NULL
  <2>1. z \in O /\ U[z] = NULL BY <1>3, <1>5
  <2>2. z # y BY <1>1, <1>6, <2>1
  <2>3. ~(y \notin L /\ z \in Members(K[y])) BY <1>1, <1>4, <1>7, <2>1
  <2> QED BY <2>1, <2>2, <2>3
<1> QED BY <1>9, <1>10 DEF Parents

LEMMA ShiftParents ==
  ASSUME NEW O, NEW L, NEW K, NEW T, NEW C, Tree(O, L, K, T, C), NULL \notin O,
         NEW x, NEW y, NEW p, NEW K2, Exchange(O, K, x, y, p, K2),
         NEW U, Parents(K, T, U), NEW U2,
         \A z \in Members(K2[x]) : U2[z] = x, \A z \in Members(K2[y]) : U2[z] = y,
         \A z \in O : z \notin Members(K2[x]) /\ z \notin Members(K2[y]) => U2[z] = U[z]
  PROVE  Parents(K2, T, U2)
<1>1. /\ O = L \cup DOMAIN K /\ T \in Seq(O) /\ Unique(T) /\ L \cap DOMAIN K = {}
      /\ \A q \in DOMAIN K : K[q] \in Seq(O) /\ Unique(K[q]) /\ q \notin Members(K[q])
  BY SonsOf
<1>2. \A q \in DOMAIN K : Members(K[q]) \subseteq O BY <1>1, MembersIn
<1>3. Members(T) \subseteq O BY <1>1, MembersIn
<1>4. \A q \in DOMAIN K : \A z \in Members(K[q]) : U[z] = q BY DEF Parents
<1>5. \A z \in Members(T) : U[z] = NULL BY DEF Parents
<1>6. /\ x \in DOMAIN K /\ y \in DOMAIN K /\ DOMAIN K2 = DOMAIN K
      /\ \A z \in DOMAIN K \ {x, y} : K2[z] = K[z]
  BY DEF Exchange
<1>7. Members(K2[x]) \cup Members(K2[y]) = Members(K[x]) \cup Members(K[y])
  <2>1. K2[x] \in Seq(O) /\ K2[y] \in Seq(O) /\ K2[x] \o K2[y] = K[x] \o K[y]
    BY DEF Exchange
  <2>2. ConcatHas(K2[x], K2[y], O) BY <2>1, MembersConcat
  <2>3. K[x] \in Seq(O) /\ K[y] \in Seq(O) BY <1>1, <1>6
  <2>4. ConcatHas(K[x], K[y], O) BY <2>3, MembersConcat
  <2> QED BY <2>1, <2>2, <2>4 DEF ConcatHas
<1>8. ASSUME NEW q \in DOMAIN K2, NEW z \in Members(K2[q]) PROVE U2[z] = q
  <2>1. CASE q = x \/ q = y BY <2>1, <1>8
  <2>2. CASE q # x /\ q # y
    <3>1. z \in Members(K[q]) /\ q \in DOMAIN K BY <1>6, <1>8, <2>2
    <3>2. z \in O /\ U[z] = q BY <1>2, <1>4, <3>1
    <3>3. z \notin Members(K[x]) /\ z \notin Members(K[y])
      BY <1>4, <1>6, <2>2, <3>2
    <3> QED BY <1>7, <3>2, <3>3
  <2> QED BY <2>1, <2>2
<1>9. ASSUME NEW z \in Members(T) PROVE U2[z] = NULL
  <2>1. z \in O /\ U[z] = NULL BY <1>3, <1>5
  <2>2. z \notin Members(K[x]) /\ z \notin Members(K[y])
    BY <1>1, <1>4, <1>6, <2>1
  <2> QED BY <1>7, <2>1, <2>2
<1> QED BY <1>8, <1>9 DEF Parents

LEMMA AddRootParents ==
  ASSUME NEW O, NEW L, NEW K, NEW T, NEW C, Tree(O, L, K, T, C), NULL \notin O,
         NEW r, r \notin O, NEW K2, DOMAIN K2 = DOMAIN K \cup {r}, K2[r] = T,
         \A z \in DOMAIN K : K2[z] = K[z],
         NEW U, Parents(K, T, U), NEW U2, U2[r] = NULL,
         \A z \in O : U2[z] = IF z \in Members(T) THEN r ELSE U[z]
  PROVE  Parents(K2, <<r>>, U2)
<1>1. O = L \cup DOMAIN K /\ T \in Seq(O) /\ \A q \in DOMAIN K : K[q] \in Seq(O)
  BY SonsOf
<1>2. \A q \in DOMAIN K : Members(K[q]) \subseteq O BY <1>1, MembersIn
<1>3. Members(T) \subseteq O BY <1>1, MembersIn
<1>4. \A q \in DOMAIN K : \A z \in Members(K[q]) : U[z] = q BY DEF Parents
<1>5. \A z \in Members(T) : U[z] = NULL BY DEF Parents
<1>6. ASSUME NEW q \in DOMAIN K2, NEW z \in Members(K2[q]) PROVE U2[z] = q
  <2>1. CASE q = r BY <1>3, <1>6, <2>1
  <2>2. CASE q # r
    <3>1. z \in Members(K[q]) /\ q \in DOMAIN K BY <1>6, <2>2
    <3>2. z \in O /\ U[z] = q /\ q # NULL BY <1>1, <1>2, <1>4, <3>1
    <3> QED BY <1>5, <3>2
  <2> QED BY <2>1, <2>2
<1>7. \A z \in Members(<<r>>) : z = r
  <2>1. Len(<<r>>) = 1 /\ <<r>>[1] = r OBVIOUS
  <2>2. \A i \in 1 .. 1 : i = 1 OBVIOUS
  <2> QED BY <2>1, <2>2 DEF Members
<1> QED BY <1>6, <1>7 DEF Parents

DroppedParents(O, L, K, C, r, T, K2, U, U2) == Parents(K2, K[r], U2)

LEMMA DropRootParents ==
  ASSUME NEW O, NEW L, NEW K, NEW C, NEW r, NEW T, T = <<r>>, Tree(O, L, K, T, C), NULL \notin O, r \in DOMAIN K,
         NEW K2, DOMAIN K2 = DOMAIN K \ {r}, \A z \in DOMAIN K \ {r} : K2[z] = K[z],
         NEW U, Parents(K, T, U), NEW U2,
         \A z \in O \ {r} : U2[z] = IF z \in Members(K[r]) THEN NULL ELSE U[z]
  PROVE  DroppedParents(O, L, K, C, r, T, K2, U, U2)
<1>1. /\ O = L \cup DOMAIN K
      /\ \A q \in DOMAIN K : K[q] \in Seq(O) /\ q \notin Members(K[q])
  BY SonsOf
<1>2. \A q \in DOMAIN K : Members(K[q]) \subseteq O BY <1>1, MembersIn
<1>3. \A q \in DOMAIN K : \A z \in Members(K[q]) : U[z] = q BY DEF Parents
<1>4. U[r] = NULL
  <2>1. Len(<<r>>) = 1 /\ <<r>>[1] = r /\ 1 \in 1 .. 1 OBVIOUS
  <2>2. r \in Members(<<r>>) BY <2>1 DEF Members
  <2> QED BY <2>2 DEF Parents
<1>5. ASSUME NEW q \in DOMAIN K2, NEW z \in Members(K2[q]) PROVE U2[z] = q
  <2>1. z \in Members(K[q]) /\ q \in DOMAIN K /\ q # r BY <1>5
  <2>2. z \in O /\ U[z] = q /\ q # NULL BY <1>1, <1>2, <1>3, <2>1
  <2>3. z # r /\ z \notin Members(K[r]) BY <1>3, <1>4, <2>1, <2>2
  <2> QED BY <2>2, <2>3
<1>6. ASSUME NEW z \in Members(K[r]) PROVE U2[z] = NULL
  <2>1. z \in O /\ z # r BY <1>1, <1>2
  <2> QED BY <2>1
<1> QED BY <1>5, <1>6 DEF Parents, DroppedParents

-----------------------------------------------------------------------------
(* Where a node stands among its parent's sons. *)

LEMMA LinkedAt ==
  ASSUME NEW E, NEW s \in Seq(E), Unique(s), NEW i \in 0 .. Len(s) - 1, NEW x, At(s, i) = x, NEW y
  PROVE  Put(s, i + 1, y) = Linked(s, x, y) /\ Cut(s, i) = Unlinked(s, x) /\ x \in Members(s)
<1>1. i + 1 \in 1 .. Len(s) /\ (i + 1) - 1 = i BY LenProperties
<1>2. RankOf(s, s[i + 1]) = i + 1 BY <1>1, RankWhere
<1> QED BY <1>1, <1>2 DEF Linked, Unlinked, At, Members

LEMMA PairsAt ==
  ASSUME NEW E, NEW s \in Seq(E), NEW i \in 0 .. Len(s) - 2
  PROVE  \E P, Q \in Seq(E) : s = Pairs(P, At(s, i), At(s, i + 1), Q)
<1> DEFINE P == Slice(s, 0, i)
           x == At(s, i)
           y == At(s, i + 1)
           Q == Slice(s, i + 2, Len(s))
<1>1. Len(s) \in Nat /\ i \in Nat /\ i + 1 \in 0 .. Len(s) - 1 /\ i \in 0 .. Len(s) - 1 /\ 0 \in 0 .. i /\ 0 \in 0 .. i + 1
      /\ (i + 1) + 1 = i + 2 /\ i \in 0 .. i + 1 /\ i + 1 \in 0 .. Len(s) /\ i \in 0 .. Len(s)
      /\ i + 2 \in 1 .. Len(s) /\ (i + 2) - 1 = i + 1
  BY LenProperties
<1>2. s = Joins(Slice(s, 0, (i + 2) - 1), s[i + 2], Slice(s, i + 2, Len(s)))
      /\ Slice(s, i + 2, Len(s)) \in Seq(E)
  BY <1>1, JoinsWhere
<1>3. s = Joins(Slice(s, 0, i + 1), y, Q) /\ Q \in Seq(E) BY <1>1, <1>2 DEF At
<1>4. Slice(s, 0, i + 1) = Slice(s, 0, i) \o Slice(s, i, i + 1)
  <2> DEFINE l == 0
  <2>1. l \in 0 .. i BY <1>1
  <2> HIDE DEF l
  <2>2. Slice(s, l, i + 1) = Slice(s, l, i) \o Slice(s, i, i + 1)
    BY <1>1, <2>1, SliceSplit
  <2> QED BY <2>2 DEF l
<1>5. Slice(s, i, i + 1) = <<x>> BY <1>1, SliceOne
<1>6. P \in Seq(E)
  <2> DEFINE l == 0
  <2>1. l \in 0 .. i BY <1>1
  <2> HIDE DEF l
  <2>2. Slice(s, l, i) \in Seq(E) BY <1>1, <2>1, SliceIs
  <2> QED BY <2>2 DEF l
<1>7. s = Pairs(P, x, y, Q) BY <1>3, <1>4, <1>5 DEF Pairs
<1> QED BY <1>3, <1>6, <1>7

(* The sons at the indices from a to b know their parent. *)
AdoptedSlice(q, s, a, b, par, E) ==
  LET r == Adopted(q, s, a .. b - 1, par)
  IN  DOMAIN r = DOMAIN q /\ \A n \in DOMAIN q : r[n] = IF n \in Members(Slice(s, a, b)) THEN par ELSE q[n]

LEMMA AdoptedIs ==
  ASSUME NEW E, NEW s \in Seq(E), NEW b \in 0 .. Len(s), NEW a \in 0 .. b, NEW q, NEW par
  PROVE  AdoptedSlice(q, s, a, b, par, E)
<1> DEFINE r == Slice(s, a, b)
<1>1. r \in Seq(E) /\ Len(r) = b - a /\ \A i \in 1 .. b - a : r[i] = s[a + i]
  BY SliceIs
<1> HIDE DEF r
<1>2. Len(s) \in Nat /\ a \in Nat /\ b \in Nat BY LenProperties
<1>3. ASSUME NEW n PROVE (\E i \in a .. b - 1 : At(s, i) = n) <=> n \in Members(r)
  <2>1. ASSUME NEW i \in a .. b - 1, At(s, i) = n PROVE n \in Members(r)
    <3>1. (i - a) + 1 \in 1 .. b - a /\ a + ((i - a) + 1) = i + 1 BY <1>2
    <3>2. r[(i - a) + 1] = s[i + 1] BY <1>1, <3>1
    <3> QED BY <1>1, <2>1, <3>1, <3>2 DEF Members, At
  <2>2. ASSUME n \in Members(r) PROVE \E i \in a .. b - 1 : At(s, i) = n
    <3>1. PICK j \in 1 .. b - a : r[j] = n BY <1>1, <2>2 DEF Members
    <3>2. (a + j) - 1 \in a .. b - 1 /\ ((a + j) - 1) + 1 = a + j BY <1>2
    <3>3. At(s, (a + j) - 1) = n BY <1>1, <3>1, <3>2 DEF At
    <3> QED BY <3>2, <3>3
  <2> QED BY <2>1, <2>2
<1> QED BY <1>3 DEF Adopted, r, AdoptedSlice

(* Renumbering tells the members of a list their indices, and no one else. *)
Renumbered(P, s, I, E) ==
  /\ DOMAIN Numbered(P, s, I) = DOMAIN P
  /\ \A i \in I : Numbered(P, s, I)[At(s, i)] = i
  /\ \A i \in 0 .. Len(s) - 1 : i \notin I => Numbered(P, s, I)[At(s, i)] = P[At(s, i)]
  /\ \A n \in DOMAIN P : n \notin Members(s) => Numbered(P, s, I)[n] = P[n]

LEMMA NumberedIs ==
  ASSUME NEW E, NEW s \in Seq(E), Unique(s), NEW I, I \subseteq 0 .. Len(s) - 1, NEW P, Members(s) \subseteq DOMAIN P
  PROVE  Renumbered(P, s, I, E)
<1>1. Len(s) \in Nat BY LenProperties
<1>2. \A i, j \in 0 .. Len(s) - 1 : At(s, i) = At(s, j) => i = j
  <2> TAKE i, j \in 0 .. Len(s) - 1
  <2>1. i + 1 \in 1 .. Len(s) /\ j + 1 \in 1 .. Len(s) BY <1>1
  <2>2. s[i + 1] = s[j + 1] => i + 1 = j + 1 BY <2>1 DEF Unique
  <2> QED BY <1>1, <2>2 DEF At
<1>3. \A i \in 0 .. Len(s) - 1 : At(s, i) \in Members(s)
  <2> TAKE i \in 0 .. Len(s) - 1
  <2>1. i + 1 \in 1 .. Len(s) BY <1>1
  <2> QED BY <2>1 DEF At, Members
<1>4. ASSUME NEW i \in I PROVE Numbered(P, s, I)[At(s, i)] = i
  <2>1. At(s, i) \in DOMAIN P /\ i \in 0 .. Len(s) - 1 BY <1>3
  <2>2. (CHOOSE j \in I : At(s, j) = At(s, i)) = i
    <3>1. \A j \in I : At(s, j) = At(s, i) => j = i BY <1>2, <2>1
    <3> QED BY <3>1
  <2> QED BY <2>1, <2>2 DEF Numbered
<1>5. ASSUME NEW i \in 0 .. Len(s) - 1, i \notin I PROVE Numbered(P, s, I)[At(s, i)] = P[At(s, i)]
  <2>1. ~ \E j \in I : At(s, j) = At(s, i) BY <1>2, <1>5
  <2>2. At(s, i) \in DOMAIN P BY <1>3
  <2> QED BY <2>1, <2>2 DEF Numbered
<1>6. ASSUME NEW n \in DOMAIN P, n \notin Members(s) PROVE Numbered(P, s, I)[n] = P[n]
  <2>1. ~ \E j \in I : At(s, j) = n BY <1>3, <1>6
  <2> QED BY <2>1 DEF Numbered
<1>7. DOMAIN Numbered(P, s, I) = DOMAIN P BY DEF Numbered
<1> QED BY <1>4, <1>5, <1>6, <1>7 DEF Renumbered

Pcs == {"idle", "ascend", "rebalance", "range"}

(* The sons, highest level and parents of the tree a running loop is about *)
(* to complete: the new node stands behind the split one already, and the *)
(* node that is gone is no son any more. *)
Kids ==
  [n \in DOMAIN sons |->
     IF work.pc = "ascend" /\ n = parent[work.cur] THEN Put(sons[n], pos[work.cur] + 1, work.inst)
     ELSE IF work.pc = "rebalance" /\ n = work.cur THEN Cut(sons[n], work.at)
     ELSE sons[n]]
Tops == IF work.pc = "ascend" /\ parent[work.cur] = NULL THEN <<work.cur, work.inst>> ELSE <<root>>
Up == IF work.pc = "ascend" THEN [parent EXCEPT ![work.inst] = parent[work.cur]] ELSE parent

Typed ==
  /\ use \in Uses
  /\ IsFiniteSet(Nodes) /\ Nodes \subseteq Nat
  /\ Nodes = DOMAIN vals \cup Inners /\ DOMAIN vals \cap Inners = {}
  /\ DOMAIN sons = Inners /\ DOMAIN pos = Nodes
  /\ \A n \in Nodes : parent[n] \in Inners \cup {NULL} /\ pos[n] \in 0 .. N
  /\ \A n \in Inners : sons[n] \in Seq(Nat)
  /\ root \in Nodes \cup {NULL}

NoTree == root = NULL => Nodes = {} /\ chain = <<>> /\ work.pc \in {"idle", "range"}

Shape ==
  root # NULL => Tree(Nodes, DOMAIN vals, Kids, Tops, chain) /\ Parents(Kids, Tops, Up)

Placed ==
  \A n \in Inners : \A i \in 1 .. Len(sons[n]) :
     (work.pc = "rebalance" /\ n = work.cur /\ i = work.at + 1) \/ pos[sons[n][i]] = i - 1

Ascending ==
  work.pc = "ascend" =>
    /\ work.cur \in Nodes /\ work.inst \in Nodes /\ work.inst # work.cur /\ work.inst # root
    /\ parent[work.inst] = NULL
    /\ parent[work.cur] = NULL => work.cur = root
    /\ parent[work.cur] # NULL => /\ pos[work.cur] \in 0 .. Len(sons[parent[work.cur]]) - 1
                                  /\ At(sons[parent[work.cur]], pos[work.cur]) = work.cur

Rebalancing == work.pc = "rebalance" => work.cur \in Inners /\ work.at \in 1 .. Len(sons[work.cur]) - 1

ShapeInv == Typed /\ NoTree /\ Shape /\ Placed /\ Ascending /\ Rebalancing

LEMMA Halves ==
  ASSUME use \in Uses
  PROVE  /\ N \in Nat /\ N >= 4 /\ FloorHalf \in Nat /\ CeilHalf \in Nat /\ FloorHalf >= 2
         /\ FloorHalf + CeilHalf = N /\ FloorHalf <= CeilHalf /\ CeilHalf <= FloorHalf + 1
<1>1. N \in 4 .. 64 BY UsesAssumption DEF N
<1> QED BY <1>1 DEF FloorHalf, CeilHalf

LEMMA FreshIs ==
  ASSUME IsFiniteSet(Nodes)
  PROVE  Fresh \in Nat /\ Fresh \notin Nodes
<1> DEFINE c == Cardinality(Nodes)
<1>1. c \in Nat BY FS_CardinalityType
<1>2. \E n \in 1 .. c + 1 : n \notin Nodes
  <2> SUFFICES ASSUME 1 .. c + 1 \subseteq Nodes PROVE FALSE OBVIOUS
  <2>1. Cardinality(1 .. c + 1) <= c BY FS_Subset
  <2>2. Cardinality(1 .. c + 1) = c + 1
    <3>1. 1 \in Int /\ c + 1 \in Int /\ (c + 1) - 1 + 1 = c + 1 /\ ~(1 > c + 1)
      BY <1>1
    <3> QED BY <3>1, FS_Interval
  <2> QED BY <1>1, <2>1, <2>2
<1>3. Fresh \in 1 .. c + 1 /\ Fresh \notin Nodes BY <1>2 DEF Fresh, Nodes
<1> QED BY <1>1, <1>3

LEMMA KidsAre ==
  ASSUME Typed
  PROVE  /\ DOMAIN Kids = Inners /\ NULL \notin Nodes
         /\ work.pc \in {"idle", "range"} => Tops = <<root>> /\ Up = parent /\ \A n \in Inners : Kids[n] = sons[n]
         /\ work.pc = "rebalance" => /\ Tops = <<root>> /\ Up = parent /\ \A n \in Inners \ {work.cur} : Kids[n] = sons[n]
                                     /\ work.cur \in Inners => Kids[work.cur] = Cut(sons[work.cur], work.at)
BY NullAssumption DEF Typed, Kids, Tops, Up

LEMMA OneMember ==
  ASSUME NEW r
  PROVE  Members(<<r>>) = {r} /\ Unique(<<r>>) /\ Len(<<r>>) = 1
<1>1. Len(<<r>>) = 1 /\ <<r>>[1] = r OBVIOUS
<1>2. \A i \in 1 .. 1 : i = 1 OBVIOUS
<1>3. 1 \in 1 .. 1 OBVIOUS
<1> QED BY <1>1, <1>2, <1>3 DEF Unique, Members

LEMMA Homes ==
  ASSUME ShapeInv, root # NULL, NEW z \in Nodes
  PROVE  /\ Up[z] = NULL => z \in Members(Tops)
         /\ Up[z] # NULL => Up[z] \in Inners /\ z \in Members(Kids[Up[z]])
<1>1. Tree(Nodes, DOMAIN vals, Kids, Tops, chain) /\ Parents(Kids, Tops, Up) /\ Typed
  BY DEF ShapeInv, Shape
<1>2. DOMAIN Kids = Inners /\ NULL \notin Nodes BY <1>1, KidsAre
<1>3. z \in Members(Tops) \/ \E p \in DOMAIN Kids : z \in Members(Kids[p])
  <2>1. PICK m, lev, ht : Levels(Nodes, DOMAIN vals, Kids, Tops, chain, m, lev, ht)
    BY <1>1 DEF Tree
  <2>2. CASE z \notin Members(Tops)
    <3>1. \E p \in DOMAIN Kids : z \in Members(Kids[p]) BY <2>1, <2>2, SonOf
    <3> QED BY <3>1
  <2> QED BY <2>2
<1>4. CASE z \in Members(Tops) BY <1>1, <1>4 DEF Parents
<1>5. ASSUME NEW p \in DOMAIN Kids, z \in Members(Kids[p])
      PROVE  Up[z] = p /\ p # NULL
  <2>1. p \in Nodes BY <1>1, <1>2 DEF Typed
  <2> QED BY <1>1, <1>2, <1>5, <2>1 DEF Parents
<1> QED BY <1>2, <1>3, <1>4, <1>5

(* Where the children of a node that no loop works on stand. *)
LEMMA Sited ==
  ASSUME ShapeInv, NEW p \in Inners, ~(work.pc = "rebalance" /\ p = work.cur), NEW z \in Members(sons[p])
  PROVE  pos[z] \in 0 .. Len(sons[p]) - 1 /\ At(sons[p], pos[z]) = z
<1>1. sons[p] \in Seq(Nat) BY DEF ShapeInv, Typed
<1>2. PICK i \in 1 .. Len(sons[p]) : sons[p][i] = z BY DEF Members
<1>3. pos[z] = i - 1 BY <1>2 DEF ShapeInv, Placed
<1>4. Len(sons[p]) \in Nat BY <1>1, LenProperties
<1>5. i - 1 \in 0 .. Len(sons[p]) - 1 /\ (i - 1) + 1 = i BY <1>4
<1> QED BY <1>2, <1>3, <1>5 DEF At

LEMMA SonsUnique ==
  ASSUME ShapeInv, root # NULL, NEW p \in Inners, Kids[p] = sons[p]
  PROVE  /\ sons[p] \in Seq(Nodes) /\ Unique(sons[p]) /\ p \notin Members(sons[p])
         /\ \A z \in Members(sons[p]) : Up[z] = p
<1>1. Tree(Nodes, DOMAIN vals, Kids, Tops, chain) /\ Parents(Kids, Tops, Up) /\ Typed
  BY DEF ShapeInv, Shape
<1>2. DOMAIN Kids = Inners BY <1>1, KidsAre
<1>3. Kids[p] \in Seq(Nodes) /\ Unique(Kids[p]) /\ p \notin Members(Kids[p])
  BY <1>1, <1>2, SonsOf
<1>4. \A z \in Members(Kids[p]) : Up[z] = p BY <1>1, <1>2 DEF Parents
<1> QED BY <1>3, <1>4

(* A node with a parent, while no loop is adding to or removing from it. *)
IsSon(z, par) ==
  /\ par \in Inners /\ par # NULL /\ z # par /\ Kids[par] = sons[par] /\ z \in Members(sons[par])
  /\ sons[par] \in Seq(Nodes) /\ Unique(sons[par]) /\ par \notin Members(sons[par])
  /\ pos[z] \in 0 .. Len(sons[par]) - 1 /\ At(sons[par], pos[z]) = z
  /\ \A w \in Members(sons[par]) : parent[w] = par

LEMMA SonHome ==
  ASSUME ShapeInv, root # NULL, work.pc # "ascend", work.pc \in Pcs, NEW z \in Nodes, parent[z] # NULL,
         ~(work.pc = "rebalance" /\ parent[z] = work.cur)
  PROVE  IsSon(z, parent[z])
<1>1. Typed BY DEF ShapeInv
<1>2. Up = parent /\ \A n \in Inners : ~(work.pc = "rebalance" /\ n = work.cur) => Kids[n] = sons[n]
  BY <1>1, KidsAre DEF Pcs
<1>3. parent[z] \in Inners /\ z \in Members(Kids[parent[z]]) BY <1>2, Homes
<1>4. Kids[parent[z]] = sons[parent[z]] BY <1>2, <1>3
<1>5. /\ sons[parent[z]] \in Seq(Nodes) /\ Unique(sons[parent[z]]) /\ parent[z] \notin Members(sons[parent[z]])
      /\ \A w \in Members(sons[parent[z]]) : Up[w] = parent[z]
  BY <1>3, <1>4, SonsUnique
<1>6. pos[z] \in 0 .. Len(sons[parent[z]]) - 1 /\ At(sons[parent[z]], pos[z]) = z
  BY <1>3, <1>4, Sited
<1> QED BY <1>2, <1>3, <1>4, <1>5, <1>6 DEF IsSon

(* A node without one is the root. *)
LEMMA RootHome ==
  ASSUME ShapeInv, root # NULL, work.pc # "ascend", work.pc \in Pcs, NEW z \in Nodes, parent[z] = NULL
  PROVE  z = root
<1>1. Typed BY DEF ShapeInv
<1>2. Up = parent /\ Tops = <<root>> BY <1>1, KidsAre DEF Pcs
<1>3. z \in Members(Tops) BY <1>2, Homes
<1> QED BY <1>2, <1>3, OneMember

LEMMA RootHas ==
  ASSUME ShapeInv, root # NULL, work.pc # "ascend", work.pc \in Pcs
  PROVE  parent[root] = NULL /\ root \in Nodes
<1>1. Typed BY DEF ShapeInv
<1>2. Up = parent /\ Tops = <<root>> BY <1>1, KidsAre DEF Pcs
<1>3. root \in Members(Tops) BY <1>2, OneMember
<1> QED BY <1>1, <1>2, <1>3 DEF ShapeInv, Shape, Parents, Typed

LEMMA SameShape ==
  ASSUME ShapeInv, work.pc \in {"idle", "range"}, work'.pc \in {"idle", "range"},
         use' = use, root' = root, sons' = sons, parent' = parent, pos' = pos, chain' = chain,
         DOMAIN vals' = DOMAIN vals, DOMAIN keys' = DOMAIN keys
  PROVE  ShapeInv'
<1>1. Kids' = Kids BY DEF Kids
<1>2. Tops' = Tops /\ Up' = Up BY DEF Tops, Up
<1>3. Typed' BY DEF ShapeInv, Typed, Nodes, Inners, N
<1>4. NoTree' /\ Ascending' /\ Rebalancing'
  BY DEF ShapeInv, NoTree, Ascending, Rebalancing, Nodes
<1>5. Shape' BY <1>1, <1>2 DEF ShapeInv, Shape, Nodes
<1>6. Placed' BY DEF ShapeInv, Placed, Inners
<1> QED BY <1>3, <1>4, <1>5, <1>6 DEF ShapeInv

LEMMA NoShape ==
  ASSUME use' \in Uses, root' = NULL, DOMAIN sons' = {}, DOMAIN parent' = {}, DOMAIN pos' = {},
         chain' = <<>>, DOMAIN vals' = {}, DOMAIN keys' = {}, work'.pc \in {"idle", "range"}
  PROVE  ShapeInv'
<1>1. Typed' BY FS_EmptySet DEF Typed, Nodes, Inners
<1> QED
  BY <1>1 DEF ShapeInv, NoTree, Shape, Placed, Ascending, Rebalancing, Nodes, Inners

(* A root that is a leaf is the only node. *)
LEMMA LoneLeaf ==
  ASSUME ShapeInv, root # NULL, work.pc # "ascend", work.pc \in Pcs, NEW l \in DOMAIN vals, parent[l] = NULL
  PROVE  l = root /\ Nodes = {l} /\ DOMAIN vals = {l} /\ Inners = {} /\ chain = <<l>>
<1>1. Tree(Nodes, DOMAIN vals, Kids, Tops, chain) /\ Parents(Kids, Tops, Up) /\ Typed
  BY DEF ShapeInv, Shape
<1>2. DOMAIN Kids = Inners /\ Tops = <<root>> BY <1>1, KidsAre DEF Pcs
<1>3. l \in Nodes /\ l = root
  <2>1. l \in Nodes BY <1>1 DEF Typed
  <2> QED BY <2>1, RootHome
<1>4. PICK m, lev, ht : Levels(Nodes, DOMAIN vals, Kids, Tops, chain, m, lev, ht)
  BY <1>1 DEF Tree
<1>5. /\ m \in Nat /\ m >= 1 /\ ht \in [Nodes -> 1 .. m] /\ lev[1] = chain /\ lev[m] = Tops /\ ht[l] = 1
      /\ \A z \in DOMAIN Kids : ht[z] # 1
  BY <1>4 DEF Levels
<1>6. \A j \in 1 .. m : Members(lev[j]) = {z \in Nodes : ht[z] = j}
  BY <1>4 DEF Levels
<1>7. Members(Tops) = {l} /\ 1 \in 1 .. m /\ m \in 1 .. m
  BY <1>2, <1>3, <1>5, OneMember
<1>8. m = 1 BY <1>5, <1>6, <1>7
<1>9. \A z \in Nodes : ht[z] = 1 BY <1>5, <1>8
<1>10. Nodes = {l} /\ chain = <<l>> BY <1>2, <1>3, <1>5, <1>6, <1>7, <1>8, <1>9
<1>11. Inners = {} BY <1>1, <1>2, <1>5, <1>9 DEF Typed
<1> QED BY <1>1, <1>3, <1>10, <1>11 DEF Typed

LEMMA LinkedOne ==
  ASSUME NEW x, NEW y
  PROVE  Linked(<<x>>, x, y) = <<x, y>>
<1> DEFINE E == {x, y}
           A == <<x>>
           B == <<>>
           w == <<y>>
<1>1. A \in Seq(E) /\ B \in Seq(E) /\ w \in Seq(E) /\ Len(A) = 1 /\ A[1] = x /\ A \o B = A /\ A \o w = <<x, y>>
      /\ <<x, y>> \o B = <<x, y>>
  <2>1. A \in Seq(E) /\ B \in Seq(E) /\ w \in Seq(E) /\ Len(A) = 1 /\ A[1] = x /\ <<x, y>> \in Seq(E)
    OBVIOUS
  <2>2. A \o w = <<x, y>>
    <3>1. Len(A) = 1 /\ Len(w) = 1 /\ A[1] = x /\ w[1] = y OBVIOUS
    <3>2. A \o w \in Seq(E) /\ Len(A \o w) = 2 /\ (A \o w)[1] = A[1] /\ (A \o w)[2] = w[1]
      <4> HIDE DEF A, w
      <4> QED BY <2>1, <3>1, ConcatProperties, SMTT(60)
    <3>3. Len(<<x, y>>) = 2 /\ <<x, y>>[1] = x /\ <<x, y>>[2] = y OBVIOUS
    <3> HIDE DEF A, w
    <3>4. \A j \in 1 .. 2 : (A \o w)[j] = <<x, y>>[j] BY <3>1, <3>2, <3>3
    <3> QED BY <2>1, <3>2, <3>3, <3>4, SeqEqual, ZenonT(60)
  <2>3. \A s \in Seq(E) : s \o <<>> = s BY ConcatEmptySeq
  <2> QED BY <2>1, <2>2, <2>3
<1>2. Unique(A) BY OneMember
<1>3. RankOf(A, A[1]) = 1
  <2>1. 1 \in 1 .. Len(A) BY <1>1
  <2> HIDE DEF A
  <2> QED BY <1>1, <1>2, <2>1, RankWhere
<1>4. Put(A \o B, Len(A), y) = Joins(A, y, B)
  <2> HIDE DEF A, B
  <2> QED BY <1>1, PutBetween
<1> QED BY <1>1, <1>3, <1>4 DEF Linked, Joins

LEMMA ThirdShape ==
  ASSUME ShapeInv, root = NULL, NEW l \in Nat, use' = use, root' = l, DOMAIN vals' = {l}, parent' = Only(l, NULL),
         pos' = Only(l, 0), chain' = <<l>>, keys' = keys, sons' = sons, work'.pc = "idle"
  PROVE  ShapeInv'
<1>1. Nodes = {} /\ Typed BY DEF ShapeInv, NoTree
<1>2. Inners = {} /\ DOMAIN sons = {} BY <1>1 DEF Typed
<1>3. DOMAIN parent' = {l} /\ parent'[l] = NULL /\ DOMAIN pos' = {l} /\ pos'[l] = 0 /\ l # NULL
  BY NullAssumption DEF Only
<1>4. Typed'
  <2>1. N \in Nat /\ IsFiniteSet({l}) BY <1>1, Halves, FS_Singleton DEF Typed
  <2>2. N' = N BY DEF N
  <2> QED BY <1>1, <1>2, <1>3, <2>1, <2>2 DEF Typed, Nodes, Inners
<1>5. DOMAIN Kids' = {} /\ Tops' = <<l>> /\ Up' = parent'
  BY <1>2 DEF Kids, Tops, Up
<1>6. Tree({l}, {l}, Kids', <<l>>, <<l>>) BY <1>5, OneLeaf
<1>7. Parents(Kids', Tops', Up') BY <1>3, <1>5, OneMember DEF Parents
<1>8. Shape' BY <1>3, <1>5, <1>6, <1>7 DEF Shape, Nodes
<1> QED
  BY <1>2, <1>3, <1>4, <1>8 DEF ShapeInv, NoTree, Placed, Ascending, Rebalancing, Inners

LEMMA SplitShape ==
  ASSUME ShapeInv, root # NULL, work.pc \in {"idle", "range"}, NEW l \in DOMAIN vals, NEW inst, inst = Fresh,
         use' = use, root' = root, DOMAIN vals' = DOMAIN vals \cup {inst}, keys' = keys, sons' = sons,
         parent' = With(parent, Only(inst, NULL)), pos' = With(pos, Only(inst, 0)), chain' = Linked(chain, l, inst),
         work'.pc = "ascend", work'.cur = l, work'.inst = inst
  PROVE  ShapeInv'
<1>1. Tree(Nodes, DOMAIN vals, Kids, Tops, chain) /\ Parents(Kids, Tops, Up) /\ Typed /\ Placed
  BY DEF ShapeInv, Shape
<1>2. /\ DOMAIN Kids = Inners /\ NULL \notin Nodes /\ Tops = <<root>> /\ Up = parent
      /\ \A n \in Inners : Kids[n] = sons[n]
  BY <1>1, KidsAre
<1>3. /\ Nodes = DOMAIN vals \cup Inners /\ DOMAIN vals \cap Inners = {} /\ DOMAIN sons = Inners /\ DOMAIN pos = Nodes
      /\ l \in Nodes /\ IsFiniteSet(Nodes) /\ Nodes \subseteq Nat /\ use \in Uses
  BY <1>1 DEF Typed
<1>4. inst \in Nat /\ inst \notin Nodes BY <1>3, FreshIs
<1>5. /\ DOMAIN parent' = Nodes \cup {inst} /\ parent'[inst] = NULL /\ \A z \in Nodes : parent'[z] = parent[z]
      /\ DOMAIN pos' = Nodes \cup {inst} /\ pos'[inst] = 0 /\ \A z \in Nodes : pos'[z] = pos[z]
  BY <1>3, <1>4 DEF With, Only, Nodes
<1>6. root \in Nodes /\ parent[root] = NULL BY RootHas DEF Pcs
<1>7. parent[l] = NULL => l = root
  <2> HAVE parent[l] = NULL
  <2> QED BY <1>3, RootHome DEF Pcs
<1>8. parent[l] # NULL => IsSon(l, parent[l])
  <2> HAVE parent[l] # NULL
  <2> QED BY <1>3, SonHome DEF Pcs
<1> DEFINE par == parent[l]
<1>9. /\ DOMAIN Kids' = Inners
      /\ par \in Inners => Kids'[par] = Put(sons[par], pos[l] + 1, inst)
      /\ \A n \in Inners : n # par => Kids'[n] = Kids[n]
  BY <1>2, <1>3, <1>5 DEF Kids
<1>10. Tops' = (IF par = NULL THEN <<l, inst>> ELSE <<root>>)
  BY <1>3, <1>5 DEF Tops
<1>11. Up'[inst] = Up[l] /\ \A z \in Nodes : Up'[z] = Up[z]
  BY <1>2, <1>3, <1>4, <1>5 DEF Up
<1>12. par # NULL => par \in Inners /\ l \in Members(sons[par]) /\ Put(sons[par], pos[l] + 1, inst) = Linked(sons[par], l, inst)
  <2> HAVE par # NULL
  <2> DEFINE s == sons[par]
             i == pos[l]
  <2>1. par \in Inners /\ s \in Seq(Nodes) /\ Unique(s) /\ l \in Members(s) /\ i \in 0 .. Len(s) - 1 /\ At(s, i) = l
    BY <1>8 DEF IsSon
  <2> HIDE DEF s, i
  <2>2. Put(s, i + 1, inst) = Linked(s, l, inst) BY <2>1, LinkedAt
  <2> QED BY <2>1, <2>2 DEF s, i
<1> HIDE DEF par
<1>13. Behind(Nodes, DOMAIN vals, Kids, Tops, l, inst, par, Kids', Tops')
  <2>1. CASE par = NULL
    <3>1. Tops = <<l>> /\ l \in Members(<<l>>)
      BY <1>2, <1>7, <2>1, OneMember DEF par
    <3>2. Tops' = Linked(Tops, l, inst) BY <1>10, <2>1, <3>1, LinkedOne
    <3>3. par \notin DOMAIN Kids BY <1>2, <1>3, <2>1
    <3> QED BY <3>1, <3>2, <3>3 DEF Behind
  <2>2. CASE par # NULL BY <1>2, <1>9, <1>10, <1>12, <2>2 DEF Behind
  <2> QED BY <2>1, <2>2
<1>14. Shares(Nodes, DOMAIN vals, Kids, chain, l, inst, DOMAIN vals', Kids', chain')
  BY <1>2, <1>9 DEF Shares
<1>15. \A z \in DOMAIN Kids : z # par /\ ~(z = l /\ l \notin DOMAIN vals) => Kids'[z] = Kids[z]
  BY <1>2, <1>9
<1>16. Tree(Nodes \cup {inst}, DOMAIN vals', Kids', Tops', chain')
  BY <1>1, <1>3, <1>4, <1>13, <1>14, <1>15, Grow
<1>17. Parents(Kids', Tops', Up')
  BY <1>1, <1>2, <1>3, <1>4, <1>11, <1>13, <1>14, <1>15, GrowParents
<1>18. Typed'
  <2>1. IsFiniteSet(Nodes \cup {inst}) BY <1>3, FS_AddElement
  <2>2. N' = N /\ N \in Nat BY <1>3, Halves DEF N
  <2>3. \A n \in Nodes : parent[n] \in Inners \cup {NULL} /\ pos[n] \in 0 .. N
    BY <1>1 DEF Typed
  <2>4. Nodes' = Nodes \cup {inst} /\ Inners' = Inners BY <1>5 DEF Nodes, Inners
  <2>5. \A n \in Inners : sons[n] \in Seq(Nat) BY <1>1 DEF Typed
  <2> QED BY <1>3, <1>4, <1>5, <1>6, <2>1, <2>2, <2>3, <2>4, <2>5, SMTT(60) DEF Typed
<1>19. Placed'
  <2>1. ASSUME NEW n \in Inners, NEW i \in 1 .. Len(sons[n]) PROVE pos'[sons[n][i]] = i - 1
    <3>1. Kids[n] = sons[n] /\ sons[n] \in Seq(Nodes) BY <1>2, SonsUnique
    <3>2. sons[n][i] \in Nodes BY <3>1, LenProperties
    <3> QED BY <1>1, <1>5, <2>1, <3>2 DEF Placed
  <2> QED BY <2>1 DEF Placed, Inners
<1>20. Ascending'
  <2>1. par # NULL => pos[l] \in 0 .. Len(sons[par]) - 1 /\ At(sons[par], pos[l]) = l
    BY <1>8 DEF par, IsSon
  <2> QED BY <1>3, <1>4, <1>5, <1>6, <1>7, <2>1 DEF Ascending, Nodes, par
<1>21. Shape'
  <2>1. Nodes' = Nodes \cup {inst} BY <1>5 DEF Nodes
  <2> QED BY <1>16, <1>17, <2>1 DEF Shape
<1> QED BY <1>18, <1>19, <1>20, <1>21 DEF ShapeInv, NoTree, Rebalancing

PutIn(s, i, x, E) ==
  /\ Put(s, i, x) \in Seq(E) /\ Len(Put(s, i, x)) = Len(s) + 1
  /\ \A j \in 1 .. i : Put(s, i, x)[j] = s[j]
  /\ Put(s, i, x)[i + 1] = x
  /\ \A j \in i + 1 .. Len(s) : Put(s, i, x)[j + 1] = s[j]

LEMMA PutInto ==
  ASSUME NEW E, NEW s \in Seq(E), NEW i \in 0 .. Len(s), NEW x \in E
  PROVE  PutIn(s, i, x, E)
<1>1. Put(s, i, x) \in Seq(E) /\ Len(Put(s, i, x)) = Len(s) + 1 BY PutIs
<1>2. \A j \in 1 .. i : Put(s, i, x)[j] = s[j] BY PutIs, SMTT(60)
<1>3. Put(s, i, x)[i + 1] = x BY PutIs
<1>4. \A j \in i + 1 .. Len(s) : Put(s, i, x)[j + 1] = s[j] BY PutIs
<1> QED BY <1>1, <1>2, <1>3, <1>4 DEF PutIn

CutFrom(s, i, E) ==
  /\ Cut(s, i) \in Seq(E) /\ Len(Cut(s, i)) = Len(s) - 1
  /\ \A j \in 1 .. i : Cut(s, i)[j] = s[j]
  /\ \A j \in i + 1 .. Len(s) - 1 : Cut(s, i)[j] = s[j + 1]

LEMMA CutOff ==
  ASSUME NEW E, NEW s \in Seq(E), NEW i \in 0 .. Len(s) - 1
  PROVE  CutFrom(s, i, E)
<1>1. Cut(s, i) \in Seq(E) /\ Len(Cut(s, i)) = Len(s) - 1 BY CutIs
<1>2. \A j \in 1 .. i : Cut(s, i)[j] = s[j] BY CutIs
<1>3. \A j \in i + 1 .. Len(s) - 1 : Cut(s, i)[j] = s[j + 1] BY CutIs
<1> QED BY <1>1, <1>2, <1>3 DEF CutFrom

Putless(s, i, y, O, E) ==
  /\ s \in Seq(O) /\ Unique(s) /\ y \in Members(Put(s, i, y)) /\ y \notin Members(s)
  /\ Members(s) = Members(Put(s, i, y)) \ {y}

LEMMA UnPut ==
  ASSUME NEW E, NEW s \in Seq(E), NEW i \in 0 .. Len(s), NEW y \in E, NEW O, Put(s, i, y) \in Seq(O), Unique(Put(s, i, y))
  PROVE  Putless(s, i, y, O, E)
<1> DEFINE A == Slice(s, 0, i)
           B == Slice(s, i, Len(s))
           t == Put(s, i, y)
<1>1. A \in Seq(E) /\ B \in Seq(E) /\ s = A \o B
  <2> DEFINE l == 0
             n == Len(s)
  <2>1. l \in 0 .. i /\ n \in 0 .. Len(s) /\ i \in 0 .. n BY LenProperties
  <2> HIDE DEF l
  <2>2. Slice(s, l, i) \in Seq(E) BY <2>1, SliceIs
  <2>3. Slice(s, i, n) \in Seq(E) BY <2>1, SliceIs
  <2>4. Slice(s, l, n) = Slice(s, l, i) \o Slice(s, i, n) BY <2>1, SliceSplit
  <2>5. Slice(s, 0, Len(s)) = s BY SliceAll
  <2> QED BY <2>2, <2>3, <2>4, <2>5 DEF l
<1>2. t = Joins(A, y, B) BY DEF Put, Joins
<1> HIDE DEF A, B, t
<1>3. Members(t) = Members(A) \cup {y} \cup Members(B)
  BY <1>1, <1>2, MembersJoins
<1>4. t \in Seq(O) /\ Unique(t) BY DEF t
<1>5. Unlinked(t, y) = s BY <1>1, <1>2, <1>4, UnlinkedJoins, SMTT(60)
<1>6. Unlinked(t, y) \in Seq(O) /\ Unique(Unlinked(t, y)) /\ Members(Unlinked(t, y)) = Members(t) \ {y}
  BY <1>3, <1>4, UnlinkedIs
<1> QED BY <1>3, <1>5, <1>6 DEF t, Putless

LEMMA TwoMembers ==
  ASSUME NEW a, NEW b
  PROVE  Members(<<a, b>>) = {a, b} /\ Len(<<a, b>>) = 2
<1>1. Len(<<a, b>>) = 2 /\ <<a, b>>[1] = a /\ <<a, b>>[2] = b OBVIOUS
<1>2. \A i \in 1 .. 2 : i = 1 \/ i = 2 OBVIOUS
<1>3. 1 \in 1 .. 2 /\ 2 \in 1 .. 2 OBVIOUS
<1> QED BY <1>1, <1>2, <1>3 DEF Members

(* What is known while a new node waits to be linked behind a split one *)
(* that has a parent. *)
Waiting(x, y, par) ==
  /\ root # NULL /\ x \in Nodes /\ y \in Nodes /\ x # y /\ par \in Inners /\ par \in Nodes /\ par # NULL
  /\ Tops = <<root>> /\ root # y
  /\ Up[y] = par /\ \A z \in Nodes : z # y => Up[z] = parent[z]
  /\ sons[par] \in Seq(Nodes) /\ Unique(sons[par])
  /\ pos[x] + 1 \in 1 .. Len(sons[par]) /\ At(sons[par], pos[x]) = x
  /\ Kids[par] = Put(sons[par], pos[x] + 1, y) /\ Kids[par] \in Seq(Nodes) /\ Unique(Kids[par])
  /\ Members(Kids[par]) = Members(sons[par]) \cup {y} /\ y \notin Members(sons[par]) /\ par \notin Members(Kids[par])
  /\ \A z \in Members(Kids[par]) : Up[z] = par
  /\ DOMAIN Kids = Inners /\ \A n \in Inners \ {par} : Kids[n] = sons[n]

LEMMA WaitingIs ==
  ASSUME ShapeInv, work.pc = "ascend", parent[work.cur] # NULL
  PROVE  Waiting(work.cur, work.inst, parent[work.cur])
<1> DEFINE x == work.cur
           y == work.inst
           par == parent[x]
           s == sons[par]
           i == pos[x] + 1
<1>1. root # NULL BY DEF ShapeInv, NoTree
<1>2. Tree(Nodes, DOMAIN vals, Kids, Tops, chain) /\ Parents(Kids, Tops, Up) /\ Typed /\ Placed
  BY <1>1 DEF ShapeInv, Shape
<1>3. /\ x \in Nodes /\ y \in Nodes /\ y # x /\ y # root /\ pos[x] \in 0 .. Len(s) - 1 /\ At(s, pos[x]) = x
  BY DEF ShapeInv, Ascending
<1>4. par \in Inners /\ Nodes = DOMAIN vals \cup Inners /\ DOMAIN sons = Inners /\ DOMAIN Kids = Inners /\ Nodes \subseteq Nat
      /\ s \in Seq(Nat) /\ NULL \notin Nodes
  BY <1>2, <1>3, KidsAre DEF Typed
<1>5. Kids[par] = Put(s, i, y) /\ \A n \in Inners \ {par} : Kids[n] = sons[n]
  BY <1>4 DEF Kids
<1>6. Tops = <<root>> BY DEF Tops
<1>7. Up[y] = par /\ \A z \in Nodes : z # y => Up[z] = parent[z]
  BY <1>3 DEF Up, Nodes
<1>8. Kids[par] \in Seq(Nodes) /\ Unique(Kids[par]) /\ par \notin Members(Kids[par])
  BY <1>2, <1>4, SonsOf
<1>9. \A z \in Members(Kids[par]) : Up[z] = par BY <1>2, <1>4 DEF Parents
<1>10. i \in 1 .. Len(s) /\ i \in 0 .. Len(s)
  BY <1>3, <1>4, LenProperties, SMTT(60)
<1>11. /\ s \in Seq(Nodes) /\ Unique(s) /\ y \in Members(Kids[par]) /\ y \notin Members(s)
       /\ Members(s) = Members(Kids[par]) \ {y}
  <2> HIDE DEF s, i, y, par, x
  <2>1. y \in Nat BY <1>3, <1>4
  <2>2. Put(s, i, y) \in Seq(Nodes) /\ Unique(Put(s, i, y)) BY <1>5, <1>8
  <2>3. Putless(s, i, y, Nodes, Nat) BY <1>4, <1>10, <2>1, <2>2, UnPut
  <2> QED BY <1>5, <2>3 DEF Putless
<1>12. par \in Nodes /\ par # NULL BY <1>4
<1>13. Members(Kids[par]) = Members(s) \cup {y} BY <1>11
<1> HIDE DEF s, i, y, par, x
<1>14. Waiting(x, y, par)
  BY <1>1, <1>3, <1>4, <1>5, <1>6, <1>7, <1>8, <1>9, <1>10, <1>11, <1>12, <1>13 DEF Waiting, s, i
<1> QED BY <1>14 DEF x, y, par

(* The parent takes the new node in. *)
LEMMA RoomShape ==
  ASSUME ShapeInv, AscendRoom, Len(sons[parent[work.cur]]) <= N
  PROVE  ShapeInv'
<1> DEFINE x == work.cur
           y == work.inst
           par == parent[x]
           i == pos[x] + 1
           s == Put(sons[par], i, y)
           I == i .. Len(s) - 1
<1>1. /\ work.pc = "ascend" /\ par # NULL /\ use' = use /\ root' = root /\ vals' = vals /\ chain' = chain
      /\ Len(keys[par]) < N
      /\ keys' = [keys EXCEPT ![par] = Put(@, i - 1, work.key)]
      /\ sons' = [sons EXCEPT ![par] = s]
      /\ parent' = [parent EXCEPT ![y] = par]
      /\ pos' = Numbered(pos, s, I)
      /\ work'.pc = "idle"
  BY DEF AscendRoom, In, Returned
<1>2. Waiting(x, y, par) BY <1>1, WaitingIs
<1>3. Tree(Nodes, DOMAIN vals, Kids, Tops, chain) /\ Parents(Kids, Tops, Up) /\ Typed /\ Placed
  BY <1>2 DEF ShapeInv, Shape, Waiting
<1>4. /\ Nodes = DOMAIN vals \cup Inners /\ DOMAIN sons = Inners /\ DOMAIN pos = Nodes /\ root \in Nodes \cup {NULL}
      /\ use \in Uses /\ Nodes \subseteq Nat /\ IsFiniteSet(Nodes) /\ DOMAIN vals \cap Inners = {}
      /\ \A n \in Nodes : parent[n] \in Inners \cup {NULL} /\ pos[n] \in 0 .. N
      /\ \A n \in Inners : sons[n] \in Seq(Nat)
  BY <1>3 DEF Typed
<1>5. /\ x \in Nodes /\ y \in Nodes /\ x # y /\ par \in Inners /\ par \in Nodes /\ root # NULL
      /\ s = Kids[par] /\ s \in Seq(Nodes) /\ Unique(s) /\ sons[par] \in Seq(Nodes)
      /\ i \in 1 .. Len(sons[par]) /\ Tops = <<root>> /\ Up[y] = par /\ \A z \in Nodes : z # y => Up[z] = parent[z]
      /\ DOMAIN Kids = Inners /\ \A n \in Inners \ {par} : Kids[n] = sons[n]
  BY <1>2 DEF Waiting
<1> HIDE DEF x, y, par, i, s, I
<1>6. /\ Nodes' = Nodes /\ Inners' = Inners /\ DOMAIN sons' = Inners
      /\ \A z \in Nodes : parent'[z] = Up[z]
      /\ sons'[par] = s /\ \A n \in Inners \ {par} : sons'[n] = sons[n]
  BY <1>1, <1>4, <1>5 DEF Nodes, Inners
<1>7. DOMAIN Kids' = Inners /\ \A n \in Inners : Kids'[n] = Kids[n]
  BY <1>1, <1>5, <1>6 DEF Kids
<1>8. Tops' = Tops /\ Up' = parent' BY <1>1, <1>5 DEF Tops, Up
<1>9. Tree(Nodes, DOMAIN vals, Kids', Tops, chain) BY <1>3, <1>5, <1>7, SameTree
<1>10. \A n \in Inners : Members(Kids[n]) \subseteq Nodes
  <2> TAKE n \in Inners
  <2>1. Kids[n] \in Seq(Nodes) BY <1>3, <1>5, SonsOf
  <2> QED BY <2>1, MembersIn
<1>11. Parents(Kids', Tops, parent')
  <2>1. \A z \in Members(Tops) : parent'[z] = NULL
    <3>1. Tree(Nodes, DOMAIN vals, Kids, Tops, chain) /\ Parents(Kids, Tops, Up)
      BY <1>3
    <3>2. Members(Tops) \subseteq Nodes
      <4>1. Tops \in Seq(Nodes) BY <3>1, SonsOf
      <4> QED BY <4>1, MembersIn
    <3> QED BY <1>6, <3>1, <3>2 DEF Parents
  <2>2. \A q \in Inners : \A z \in Members(Kids[q]) : parent'[z] = q
    BY <1>3, <1>5, <1>6, <1>10 DEF Parents
  <2> QED BY <1>7, <2>1, <2>2 DEF Parents
<1>12. Shape' BY <1>1, <1>6, <1>8, <1>9, <1>11 DEF Shape
<1>13. Len(s) = Len(sons[par]) + 1 /\ \A j \in 1 .. i : s[j] = sons[par][j]
  <2>1. i \in 0 .. Len(sons[par]) BY <1>5
  <2>2. PutIn(sons[par], i, y, Nodes) BY <1>5, <2>1, PutInto
  <2> QED BY <2>2 DEF s, PutIn
<1>14. Len(sons[par]) \in Nat /\ i \in Nat /\ I \subseteq 0 .. Len(s) - 1 /\ 0 .. Len(s) - 1 = (0 .. i - 1) \cup I
  <2>1. Len(sons[par]) \in Nat BY <1>5, LenProperties
  <2> QED BY <2>1, <1>5, <1>13 DEF I
<1>15. Members(s) \subseteq DOMAIN pos BY <1>4, <1>5, <1>10
<1>16. /\ DOMAIN pos' = Nodes
       /\ \A j \in I : pos'[At(s, j)] = j
       /\ \A j \in 0 .. Len(s) - 1 : j \notin I => pos'[At(s, j)] = pos[At(s, j)]
       /\ \A n \in Nodes : n \notin Members(s) => pos'[n] = pos[n]
  <2>1. Renumbered(pos, s, I, Nodes) BY <1>5, <1>14, <1>15, NumberedIs
  <2> QED BY <1>1, <1>4, <2>1 DEF Renumbered
<1>17. ASSUME NEW j \in 1 .. Len(s) PROVE pos'[s[j]] = j - 1
  <2>1. j - 1 \in 0 .. Len(s) - 1 /\ (j - 1) + 1 = j BY <1>13, <1>14
  <2>2. CASE j - 1 \in I BY <1>16, <2>1, <2>2 DEF At
  <2>3. CASE j - 1 \notin I
    <3>1. j \in 1 .. i /\ j \in 1 .. Len(sons[par])
      BY <1>5, <1>13, <1>14, <2>1, <2>3 DEF I
    <3>2. pos[sons[par][j]] = j - 1 BY <1>1, <1>3, <1>5, <3>1 DEF Placed
    <3> QED BY <1>13, <1>16, <2>1, <2>3, <3>1, <3>2, SMTT(60) DEF At
  <2> QED BY <2>2, <2>3
<1>18. Placed'
  <2>1. ASSUME NEW n \in Inners, NEW j \in 1 .. Len(sons'[n]) PROVE pos'[sons'[n][j]] = j - 1
    <3>1. CASE n = par BY <1>6, <1>17, <2>1, <3>1
    <3>2. CASE n # par
      <4>1. sons'[n] = sons[n] /\ sons[n] = Kids[n] BY <1>5, <1>6, <3>2
      <4>2. sons[n][j] \in Members(Kids[n]) BY <2>1, <4>1 DEF Members
      <4>3. sons[n][j] \notin Members(s) /\ sons[n][j] \in Nodes
        BY <1>3, <1>5, <1>10, <3>2, <4>2, SMTT(60) DEF Parents
      <4>4. pos[sons[n][j]] = j - 1 BY <1>1, <1>3, <2>1, <4>1 DEF Placed
      <4> QED BY <1>16, <4>1, <4>3, <4>4
    <3> QED BY <3>1, <3>2
  <2> QED BY <1>1, <1>6, <2>1 DEF Placed
<1>19. Typed'
  <2>1. N' = N /\ N \in Nat BY <1>1, <1>4, Halves DEF N
  <2>2. \A n \in Nodes : parent'[n] \in Inners \cup {NULL}
    BY <1>4, <1>5, <1>6, ZenonT(60)
  <2>3. \A n \in Nodes : pos'[n] \in 0 .. N
    <3> TAKE n \in Nodes
    <3>1. CASE n \notin Members(s) BY <1>4, <1>16, <3>1
    <3>2. CASE n \in Members(s)
      <4>1. PICK j \in 1 .. Len(s) : s[j] = n BY <3>2 DEF Members
      <4>2. j - 1 \in 0 .. Len(s) - 1 /\ (j - 1) + 1 = j /\ At(s, j - 1) = n
        BY <1>13, <1>14, <4>1 DEF At
      <4>3. CASE j - 1 \notin I BY <1>4, <1>16, <4>2, <4>3
      <4>4. CASE j - 1 \in I
        <5>1. Len(s) - 1 <= N BY <1>13, <1>14, <2>1 DEF par, x
        <5> QED BY <1>13, <1>14, <1>16, <2>1, <4>2, <4>4, <5>1
      <4> QED BY <4>3, <4>4
    <3> QED BY <3>1, <3>2
  <2>4. \A n \in Inners : sons'[n] \in Seq(Nat)
    <3>1. s \in Seq(Nat) BY <1>4, <1>5, <1>10, SeqSub
    <3> QED BY <1>4, <1>6, <3>1
  <2>5. DOMAIN vals' = DOMAIN vals /\ root' = root /\ use' = use BY <1>1
  <2> QED BY <1>4, <1>6, <1>16, <2>1, <2>2, <2>3, <2>4, <2>5 DEF Typed
<1> QED
  BY <1>1, <1>5, <1>12, <1>18, <1>19 DEF ShapeInv, NoTree, Ascending, Rebalancing

(* A sequence that takes y in at i is cut at c, in front of y or behind it. *)
PutLow(s, c, i, y, E) ==
  LET t == Put(Slice(s, 0, c), i, y)
  IN  /\ t \in Seq(E) /\ Len(t) = c + 1 /\ Slice(s, c, Len(s)) \in Seq(E) /\ Len(Slice(s, c, Len(s))) = Len(s) - c
      /\ t \o Slice(s, c, Len(s)) = Put(s, i, y)
      /\ \A j \in 0 .. i - 1 : At(t, j) = At(s, j)

LEMMA PutsLow ==
  ASSUME NEW E, NEW s \in Seq(E), NEW c \in 0 .. Len(s), NEW i \in 0 .. c, NEW y \in E
  PROVE  PutLow(s, c, i, y, E)
<1> DEFINE z == 0
           n == Len(s)
           A == Slice(s, z, i)
           B == Slice(s, i, c)
           C == Slice(s, c, n)
           w == <<y>>
           t == Put(Slice(s, z, c), i, y)
<1>1. n \in Nat /\ c \in 0 .. n /\ i \in 0 .. c /\ i \in 0 .. n /\ z \in 0 .. i /\ z \in 0 .. c /\ n \in 0 .. Len(s) /\ i \in 0 .. Len(s) /\ i - z = i
      /\ c - z = c
  BY LenProperties
<1> HIDE DEF z, n
<1>2. A \in Seq(E) /\ Len(A) = i
  <2>1. A \in Seq(E) /\ Len(A) = i - z BY <1>1, SliceIs, ZenonT(60)
  <2> QED BY <1>1, <2>1
<1>3. B \in Seq(E) BY <1>1, SliceIs
<1>4. C \in Seq(E) /\ Len(C) = n - c BY <1>1, SliceIs
<1>5. Slice(s, z, c) = A \o B /\ Slice(s, z, c) \in Seq(E) /\ Len(Slice(s, z, c)) = c - z
  <2>1. Slice(s, z, c) = A \o B BY <1>1, SliceSplit
  <2>2. Slice(s, z, c) \in Seq(E) /\ Len(Slice(s, z, c)) = c - z
    BY <1>1, SliceIs
  <2> QED BY <2>1, <2>2
<1>6. Slice(s, z, n) = Slice(s, z, c) \o C BY <1>1, SliceSplit
<1>7. Slice(s, z, n) = s BY SliceAll DEF z, n
<1>8. w \in Seq(E) OBVIOUS
<1>9. B \o C \in Seq(E) /\ A \o w \in Seq(E)
  <2>1. B \o C \in Seq(E) BY <1>3, <1>4, ConcatType
  <2>2. A \o w \in Seq(E) BY <1>2, <1>8, ConcatType
  <2> QED BY <2>1, <2>2
<1> HIDE DEF A, B, C
<1>10. Associate(A, B, C) BY <1>2, <1>3, <1>4, Associative
<1>11. s = A \o (B \o C) BY <1>5, <1>6, <1>7, <1>10 DEF Associate
<1>12. t = Joins(A, y, B)
  <2>1. Put(A \o B, Len(A), y) = Joins(A, y, B) BY <1>2, <1>3, PutBetween
  <2> QED BY <1>2, <1>5, <2>1
<1>13. Put(s, i, y) = Joins(A, y, B \o C)
  <2>1. Put(A \o (B \o C), Len(A), y) = Joins(A, y, B \o C)
    BY <1>2, <1>9, PutBetween
  <2> QED BY <1>2, <1>11, <2>1
<1>14. Associate(A \o w, B, C) BY <1>3, <1>4, <1>9, Associative
<1>15. t \o C = Put(s, i, y) BY <1>12, <1>13, <1>14 DEF Joins, Associate
<1>16. PutIn(Slice(s, z, c), i, y, E)
  <2>1. i \in 0 .. Len(Slice(s, z, c)) BY <1>1, <1>5
  <2> QED BY <1>5, <2>1, PutInto
<1>17. t \in Seq(E) /\ Len(t) = c + 1 /\ \A j \in 1 .. i : t[j] = Slice(s, z, c)[j]
  BY <1>1, <1>5, <1>16 DEF PutIn
<1>18. \A j \in 1 .. c - z : Slice(s, z, c)[j] = s[z + j]
  BY <1>1, SliceIs, ZenonT(60)
<1>19. \A j \in 0 .. i - 1 : At(t, j) = At(s, j)
  <2> TAKE j \in 0 .. i - 1
  <2>1. j + 1 \in 1 .. i /\ j + 1 \in 1 .. c - z /\ z + (j + 1) = j + 1
    BY <1>1 DEF z
  <2> QED BY <1>17, <1>18, <2>1 DEF At
<1> QED BY <1>4, <1>15, <1>17, <1>19 DEF PutLow, z, n, C

PutHigh(s, c, i, y, E) ==
  LET t == (Slice(s, c, i) \o <<y>>) \o Slice(s, i, Len(s))
  IN  /\ t \in Seq(E) /\ Len(t) = Len(s) - c + 1 /\ Slice(s, 0, c) \in Seq(E) /\ Len(Slice(s, 0, c)) = c
      /\ Slice(s, 0, c) \o t = Put(s, i, y)
      /\ \A j \in 0 .. c - 1 : At(Slice(s, 0, c), j) = At(s, j)

LEMMA PutsHigh ==
  ASSUME NEW E, NEW s \in Seq(E), NEW i \in 0 .. Len(s), NEW c \in 0 .. i, NEW y \in E
  PROVE  PutHigh(s, c, i, y, E)
<1> DEFINE z == 0
           n == Len(s)
           A == Slice(s, z, c)
           B == Slice(s, c, i)
           C == Slice(s, i, n)
           w == <<y>>
           t == (B \o w) \o C
<1>1. n \in Nat /\ c \in 0 .. n /\ i \in 0 .. n /\ c \in 0 .. i /\ z \in 0 .. i /\ z \in 0 .. c /\ n \in 0 .. Len(s) /\ c \in 0 .. Len(s) /\ c - z = c
      /\ \A j \in Nat : z + j = j
  BY LenProperties
<1> HIDE DEF z, n
<1>2. A \in Seq(E) /\ Len(A) = c - z /\ \A j \in 1 .. c - z : A[j] = s[z + j]
  BY <1>1, SliceIs, ZenonT(60)
<1>3. B \in Seq(E) /\ Len(B) = i - c BY <1>1, SliceIs
<1>4. C \in Seq(E) /\ Len(C) = n - i BY <1>1, SliceIs
<1>5. Slice(s, z, i) = A \o B BY <1>1, SliceSplit
<1>6. Slice(s, z, n) = Slice(s, z, i) \o C BY <1>1, SliceSplit
<1>7. Slice(s, z, n) = s BY SliceAll DEF z, n
<1>8. w \in Seq(E) OBVIOUS
<1>9. B \o w \in Seq(E) BY <1>3, <1>8, ConcatType
<1> HIDE DEF A, B, C
<1>10. Associate(A, B, w) BY <1>2, <1>3, <1>8, Associative
<1>11. Associate(A, B \o w, C) BY <1>2, <1>4, <1>9, Associative
<1>12. Put(s, i, y) = ((A \o B) \o w) \o C BY <1>5 DEF Put, z, n, C
<1>13. A \o t = Put(s, i, y) BY <1>10, <1>11, <1>12 DEF Associate
<1>14. JoinsOf(Joins(B, y, C), B, y, C, E) BY <1>3, <1>4, JoinsAre
<1>15. t \in Seq(E) /\ Len(t) = n - c + 1
  BY <1>1, <1>3, <1>4, <1>14, SMTT(60) DEF JoinsOf, Joins
<1>16. \A j \in 0 .. c - 1 : At(A, j) = At(s, j)
  <2> TAKE j \in 0 .. c - 1
  <2>1. j + 1 \in 1 .. c - z /\ z + (j + 1) = j + 1 BY <1>1
  <2> QED BY <1>2, <2>1 DEF At
<1> QED BY <1>1, <1>2, <1>13, <1>15, <1>16 DEF PutHigh, z, n, A, B, C

(* What a split does to the sons: the halves, one behind the other, are the *)
(* sons with the new one, and the first ones of the lower half stay where *)
(* they were. *)
Halved(s, i, y, low, high, E) ==
  /\ low \in Seq(E) /\ high \in Seq(E) /\ Len(low) = CeilHalf + 1 /\ Len(high) = FloorHalf + 1
  /\ low \o high = Put(s, i, y)
  /\ \A j \in 0 .. CeilHalf : j \notin Told(i) => At(low, j) = At(s, j)

LEMMA SplitSons ==
  ASSUME use \in Uses, NEW E, NEW s \in Seq(E), Len(s) = N + 1, NEW i \in 1 .. N + 1, NEW y \in E, NEW k, NEW key
  PROVE  Halved(s, i, y, Split(k, s, i, key, y).lowSons, Split(k, s, i, key, y).highSons, E)
<1> DEFINE low == Split(k, s, i, key, y).lowSons
           high == Split(k, s, i, key, y).highSons
           c == CeilHalf
           f == FloorHalf
<1>1. /\ N \in Nat /\ N >= 4 /\ f \in Nat /\ c \in Nat /\ f >= 2
      /\ f + c = N /\ f <= c /\ c <= f + 1
  BY Halves
<1>2. CASE i <= c
  <2>1. low = Put(Slice(s, 0, c), i, y) /\ high = Slice(s, c, Len(s)) /\ Told(i) = i .. c
    BY <1>2 DEF Split, Told
  <2>2. c \in 0 .. Len(s) /\ i \in 0 .. c /\ Len(s) - c = f + 1 BY <1>1, <1>2
  <2> HIDE DEF low, high, c, f
  <2>3. PutLow(s, c, i, y, E) BY <2>2, PutsLow
  <2>4. \A j \in 0 .. c : j \notin i .. c => j \in 0 .. i - 1 BY <2>2
  <2> QED BY <2>1, <2>2, <2>3, <2>4 DEF PutLow, Halved, c, f, low, high
<1>3. CASE i = c + 1
  <2>1. low = Slice(s, 0, c + 1) /\ high = <<y>> \o Slice(s, c + 1, Len(s)) /\ Told(i) = {}
    BY <1>1, <1>3 DEF Split, Told
  <2>2. i \in 0 .. Len(s) /\ c + 1 \in 0 .. i /\ Len(s) - (c + 1) + 1 = f + 1 /\ \A j \in 0 .. c : j \in 0 .. (c + 1) - 1
    BY <1>1, <1>3
  <2>3. PutHigh(s, c + 1, i, y, E) BY <2>2, PutsHigh
  <2>4. Slice(s, i, i) = <<>> BY <2>2, SliceAll
  <2>5. <<>> \o <<y>> = <<y>> OBVIOUS
  <2>6. (Slice(s, c + 1, i) \o <<y>>) \o Slice(s, i, Len(s)) = high
    BY <1>3, <2>1, <2>4, <2>5
  <2> HIDE DEF low, high, c, f
  <2>7. low \in Seq(E) /\ high \in Seq(E) /\ Len(low) = c + 1 /\ Len(high) = f + 1 /\ low \o high = Put(s, i, y)
    BY <2>1, <2>2, <2>3, <2>6 DEF PutHigh
  <2>8. \A j \in 0 .. c : At(low, j) = At(s, j) BY <2>1, <2>2, <2>3 DEF PutHigh
  <2> QED BY <2>7, <2>8 DEF Halved, c, f, low, high
<1>4. CASE i > c + 1
  <2>1. low = Slice(s, 0, c + 1) /\ high = (Slice(s, c + 1, i) \o <<y>>) \o Slice(s, i, Len(s)) /\ Told(i) = {}
    BY <1>1, <1>4 DEF Split, Told
  <2>2. i \in 0 .. Len(s) /\ c + 1 \in 0 .. i /\ Len(s) - (c + 1) + 1 = f + 1 /\ \A j \in 0 .. c : j \in 0 .. (c + 1) - 1
    BY <1>1, <1>4
  <2>3. PutHigh(s, c + 1, i, y, E) BY <2>2, PutsHigh
  <2> HIDE DEF low, high, c, f
  <2>7. low \in Seq(E) /\ high \in Seq(E) /\ Len(low) = c + 1 /\ Len(high) = f + 1 /\ low \o high = Put(s, i, y)
    BY <2>1, <2>2, <2>3 DEF PutHigh
  <2>8. \A j \in 0 .. c : At(low, j) = At(s, j) BY <2>1, <2>2, <2>3 DEF PutHigh
  <2> QED BY <2>7, <2>8 DEF Halved, c, f, low, high
<1>5. i <= c \/ i = c + 1 \/ i > c + 1 BY <1>1
<1> QED BY <1>2, <1>3, <1>4, <1>5

(* Two sequences without common members renumbered, one after the other. *)
RenumberedTwo(P, s, I, t, J, E) ==
  LET Q == Numbered(Numbered(P, s, I), t, J)
  IN  /\ DOMAIN Q = DOMAIN P
      /\ \A j \in I : Q[At(s, j)] = j
      /\ \A j \in 0 .. Len(s) - 1 : j \notin I => Q[At(s, j)] = P[At(s, j)]
      /\ \A j \in J : Q[At(t, j)] = j
      /\ \A j \in 0 .. Len(t) - 1 : j \notin J => Q[At(t, j)] = P[At(t, j)]
      /\ \A n \in DOMAIN P : n \notin Members(s) /\ n \notin Members(t) => Q[n] = P[n]

LEMMA AtMember ==
  ASSUME NEW E, NEW s \in Seq(E), NEW j \in 0 .. Len(s) - 1
  PROVE  At(s, j) \in Members(s) /\ At(s, j) \in E
<1>1. j + 1 \in 1 .. Len(s) BY LenProperties
<1>2. Members(s) \subseteq E BY MembersIn
<1> QED BY <1>1, <1>2 DEF At, Members

LEMMA MemberAt ==
  ASSUME NEW E, NEW s \in Seq(E), NEW z \in Members(s)
  PROVE  \E j \in 0 .. Len(s) - 1 : At(s, j) = z
<1>1. PICK i \in 1 .. Len(s) : s[i] = z BY DEF Members
<1>2. i - 1 \in 0 .. Len(s) - 1 /\ (i - 1) + 1 = i BY LenProperties
<1> QED BY <1>1, <1>2 DEF At

LEMMA NumberedTwo ==
  ASSUME NEW E, NEW s \in Seq(E), NEW t \in Seq(E), Unique(s), Unique(t), Members(s) \cap Members(t) = {},
         NEW I, I \subseteq 0 .. Len(s) - 1, NEW J, J \subseteq 0 .. Len(t) - 1,
         NEW P, Members(s) \subseteq DOMAIN P, Members(t) \subseteq DOMAIN P
  PROVE  RenumberedTwo(P, s, I, t, J, E)
<1> DEFINE P1 == Numbered(P, s, I)
           Q == Numbered(P1, t, J)
<1>1. Renumbered(P, s, I, E) BY NumberedIs
<1>2. DOMAIN P1 = DOMAIN P BY <1>1 DEF Renumbered
<1> HIDE DEF P1
<1>3. Members(t) \subseteq DOMAIN P1 BY <1>2
<1>4. Renumbered(P1, t, J, E) BY <1>3, NumberedIs
<1> HIDE DEF Q
<1>5. DOMAIN Q = DOMAIN P BY <1>2, <1>4 DEF Renumbered, Q
<1>6. \A n \in DOMAIN P : n \notin Members(t) => Q[n] = P1[n]
  BY <1>2, <1>4 DEF Renumbered, Q
<1>7. \A n \in DOMAIN P : n \notin Members(s) => P1[n] = P[n]
  BY <1>1 DEF Renumbered, P1
<1>8. \A j \in 0 .. Len(s) - 1 : At(s, j) \in Members(s) /\ At(s, j) \notin Members(t) /\ At(s, j) \in DOMAIN P
  BY AtMember
<1>9. \A j \in 0 .. Len(t) - 1 : At(t, j) \in Members(t) /\ At(t, j) \notin Members(s) /\ At(t, j) \in DOMAIN P
  BY AtMember
<1>10. \A j \in I : Q[At(s, j)] = j
  <2>1. \A j \in I : P1[At(s, j)] = j BY <1>1 DEF Renumbered, P1
  <2> QED BY <1>6, <1>8, <2>1
<1>11. \A j \in 0 .. Len(s) - 1 : j \notin I => Q[At(s, j)] = P[At(s, j)]
  <2>1. \A j \in 0 .. Len(s) - 1 : j \notin I => P1[At(s, j)] = P[At(s, j)]
    BY <1>1 DEF Renumbered, P1
  <2> QED BY <1>6, <1>8, <2>1
<1>12. \A j \in J : Q[At(t, j)] = j BY <1>4 DEF Renumbered, Q
<1>13. \A j \in 0 .. Len(t) - 1 : j \notin J => Q[At(t, j)] = P[At(t, j)]
  <2>1. \A j \in 0 .. Len(t) - 1 : j \notin J => Q[At(t, j)] = P1[At(t, j)]
    BY <1>4 DEF Renumbered, Q
  <2> QED BY <1>7, <1>9, <2>1
<1> QED BY <1>5, <1>6, <1>7, <1>10, <1>11, <1>12, <1>13 DEF RenumberedTwo, Q, P1

(* All of s told its parent. *)
AdoptedAll(q, s, m, par, E) ==
  LET r == Adopted(q, s, 0 .. m - 1, par)
  IN  DOMAIN r = DOMAIN q /\ \A n \in DOMAIN q : r[n] = IF n \in Members(s) THEN par ELSE q[n]

LEMMA AdoptsAll ==
  ASSUME NEW E, NEW s \in Seq(E), NEW m, m = Len(s), NEW q, NEW par
  PROVE  AdoptedAll(q, s, m, par, E)
<1> DEFINE z == 0
<1>1. z \in 0 .. m /\ m \in 0 .. Len(s) BY LenProperties
<1>2. Slice(s, z, m) = s BY SliceAll
<1> HIDE DEF z
<1>3. AdoptedSlice(q, s, z, m, par, E) BY <1>1, AdoptedIs
<1> QED BY <1>2, <1>3 DEF AdoptedAll, AdoptedSlice, z

(* The parent, full, is split: what the step does to the sons, the parents *)
(* and the positions. *)
Divides(x, y, par, new, low, high, i) ==
  /\ new \in Nat /\ new \notin Nodes
  /\ low \in Seq(Nodes) /\ high \in Seq(Nodes) /\ Unique(low) /\ Unique(high) /\ Members(low) \cap Members(high) = {}
  /\ Members(low) \cup Members(high) = Members(Kids[par])
  /\ Len(low) = CeilHalf + 1 /\ Len(high) = FloorHalf + 1 /\ low \o high = Kids[par]
  /\ DOMAIN sons' = Inners \cup {new} /\ DOMAIN keys' = Inners \cup {new}
  /\ sons'[par] = low /\ sons'[new] = high /\ \A n \in Inners \ {par} : sons'[n] = sons[n]
  /\ DOMAIN parent' = Nodes \cup {new} /\ parent'[new] = NULL
  /\ \A z \in Nodes : parent'[z] = IF z \in Members(high) THEN new ELSE Up[z]
  /\ DOMAIN pos' = Nodes \cup {new} /\ pos'[new] = 0
  /\ \A j \in 0 .. CeilHalf : pos'[At(low, j)] = j
  /\ \A j \in 0 .. FloorHalf : pos'[At(high, j)] = j
  /\ \A z \in Nodes : z \notin Members(Kids[par]) => pos'[z] = pos[z]
  /\ work'.pc = "ascend" /\ work'.cur = par /\ work'.inst = new
  /\ use' = use /\ root' = root /\ vals' = vals /\ chain' = chain

LEMMA SplitDivides ==
  ASSUME ShapeInv, AscendSplit, Len(sons[parent[work.cur]]) = N + 1,
         NEW x, x = work.cur, NEW y, y = work.inst, NEW par, par = parent[x], NEW i, i = pos[x] + 1
  PROVE  Divides(x, y, par, Fresh, Split(keys[par], sons[par], i, work.key, y).lowSons,
                 Split(keys[par], sons[par], i, work.key, y).highSons, i)
<1> DEFINE new == Fresh
           s == sons[par]
           d == Split(keys[par], s, i, work.key, y)
           low == d.lowSons
           high == d.highSons
           m == FloorHalf + 1
           all == 0 .. m - 1
           q1 == With(parent, Two(y, par, new, NULL))
           p1 == With(pos, Only(new, 0))
<1>1. /\ work.pc = "ascend" /\ par # NULL
      /\ keys' = With(keys, Two(par, d.low, new, d.high))
      /\ sons' = With(sons, Two(par, low, new, high))
      /\ parent' = Adopted(q1, high, 0 .. FloorHalf, new)
      /\ pos' = Numbered(Numbered(p1, low, Told(i)), high, 0 .. FloorHalf)
      /\ work' = [work EXCEPT !.cur = par, !.inst = new, !.key = UpKey(keys[par], i, work.key)]
      /\ use' = use /\ root' = root /\ vals' = vals /\ chain' = chain
  BY DEF AscendSplit, In
<1> HIDE DEF d
<1>2. Waiting(x, y, par) BY <1>1, WaitingIs
<1>3. Typed /\ Placed BY DEF ShapeInv
<1>4. /\ Nodes = DOMAIN vals \cup Inners /\ DOMAIN sons = Inners /\ DOMAIN pos = Nodes /\ DOMAIN parent = Nodes
      /\ DOMAIN keys = Inners /\ use \in Uses /\ IsFiniteSet(Nodes)
  BY <1>3 DEF Typed, Nodes, Inners
<1>5. new \in Nat /\ new \notin Nodes BY <1>4, FreshIs, SMTT(60)
<1>6. /\ x \in Nodes /\ y \in Nodes /\ x # y /\ par \in Inners /\ par \in Nodes
      /\ s \in Seq(Nodes) /\ i \in 1 .. Len(s) /\ Kids[par] = Put(s, i, y) /\ Unique(Kids[par])
      /\ Up[y] = par /\ \A z \in Nodes : z # y => Up[z] = parent[z]
      /\ \A z \in Members(Kids[par]) : Up[z] = par
  BY <1>2 DEF Waiting
<1>7. /\ N \in Nat /\ FloorHalf \in Nat /\ CeilHalf \in Nat /\ m \in Nat /\ m - 1 = FloorHalf
      /\ FloorHalf <= CeilHalf
  BY <1>4, Halves, SMTT(60)
<1>8. Halved(s, i, y, low, high, Nodes)
  <2>1. Len(s) = N + 1 /\ i \in 1 .. N + 1 BY <1>6
  <2> HIDE DEF s
  <2>2. Halved(s, i, y, Split(keys[par], s, i, work.key, y).lowSons,
               Split(keys[par], s, i, work.key, y).highSons, Nodes)
    BY <1>4, <1>6, <2>1, SplitSons
  <2> QED BY <2>2 DEF d
<1> HIDE DEF low, high, s, m, new
<1>9. /\ low \in Seq(Nodes) /\ high \in Seq(Nodes) /\ Len(low) = CeilHalf + 1 /\ Len(high) = m
      /\ low \o high = Kids[par] /\ \A j \in 0 .. CeilHalf : j \notin Told(i) => At(low, j) = At(s, j)
  BY <1>6, <1>8 DEF Halved, m
<1>10. Members(low) \cap Members(high) = {} /\ Unique(low) /\ Unique(high)
  <2>1. Unique(low \o high) BY <1>6, <1>9
  <2> QED BY <1>9, <2>1, PartsApart
<1>11. Members(low) \cup Members(high) = Members(Kids[par])
  <2>1. ConcatHas(low, high, Nodes) BY <1>9, MembersConcat
  <2> QED BY <1>9, <2>1 DEF ConcatHas
<1>12. Members(low) \subseteq Nodes /\ Members(high) \subseteq Nodes
  BY <1>9, MembersIn
<1>13. /\ DOMAIN q1 = Nodes \cup {new} /\ q1[y] = par /\ q1[new] = NULL
       /\ \A z \in Nodes : z # y => q1[z] = parent[z]
  BY <1>4, <1>5, <1>6 DEF With, Two
<1>14. DOMAIN p1 = Nodes \cup {new} /\ p1[new] = 0 /\ \A z \in Nodes : p1[z] = pos[z]
  BY <1>4, <1>5 DEF With, Only
<1> HIDE DEF q1, p1
<1>15. DOMAIN parent' = Nodes \cup {new} /\ \A n \in DOMAIN q1 : parent'[n] = IF n \in Members(high) THEN new ELSE q1[n]
  <2>1. AdoptedAll(q1, high, m, new, Nodes) BY <1>9, AdoptsAll
  <2>2. parent' = Adopted(q1, high, 0 .. m - 1, new) BY <1>1, <1>7
  <2> QED BY <1>13, <2>1, <2>2 DEF AdoptedAll
<1>16. parent'[new] = NULL /\ \A z \in Nodes : parent'[z] = IF z \in Members(high) THEN new ELSE Up[z]
  BY <1>5, <1>6, <1>12, <1>13, <1>15
<1>17. Told(i) \subseteq 0 .. Len(low) - 1 /\ 0 .. FloorHalf \subseteq 0 .. Len(high) - 1 /\ Len(low) - 1 = CeilHalf
       /\ Len(high) = FloorHalf + 1
  <2>1. Len(low) - 1 = CeilHalf /\ Len(high) = FloorHalf + 1 /\ Len(high) - 1 = FloorHalf
    BY <1>7, <1>9 DEF m
  <2>2. i >= 1 /\ i \in Int BY <1>6
  <2>3. Told(i) \subseteq 0 .. CeilHalf BY <1>7, <2>2 DEF Told
  <2> QED BY <2>1, <2>3
<1>18. RenumberedTwo(p1, low, Told(i), high, 0 .. FloorHalf, Nodes)
  BY <1>9, <1>10, <1>12, <1>14, <1>17, NumberedTwo
<1>19. /\ DOMAIN pos' = DOMAIN p1
       /\ \A j \in Told(i) : pos'[At(low, j)] = j
       /\ \A j \in 0 .. CeilHalf : j \notin Told(i) => pos'[At(low, j)] = p1[At(low, j)]
       /\ \A j \in 0 .. FloorHalf : pos'[At(high, j)] = j
       /\ \A n \in DOMAIN p1 : n \notin Members(low) /\ n \notin Members(high) => pos'[n] = p1[n]
  BY <1>1, <1>17, <1>18 DEF RenumberedTwo
<1>20. \A j \in 0 .. CeilHalf : pos'[At(low, j)] = j
  <2> TAKE j \in 0 .. CeilHalf
  <2>1. CASE j \in Told(i) BY <1>19, <2>1
  <2>2. CASE j \notin Told(i)
    <3>1. At(low, j) = At(s, j) /\ pos'[At(low, j)] = p1[At(low, j)]
      BY <1>9, <1>19, <2>2
    <3>2. j + 1 \in 1 .. Len(s)
      <4>1. Len(s) = N + 1 BY DEF s
      <4>2. CeilHalf <= N BY <1>4, Halves
      <4> QED BY <1>7, <4>1, <4>2
    <3>3. s[j + 1] \in Nodes BY <1>6, <3>2, LenProperties
    <3>4. pos[sons[par][j + 1]] = (j + 1) - 1
      BY <1>1, <1>3, <1>6, <3>2 DEF Placed, s
    <3> QED BY <1>14, <3>1, <3>3, <3>4 DEF At, s
  <2> QED BY <2>1, <2>2
<1>21. pos'[new] = 0 /\ \A z \in Nodes : z \notin Members(Kids[par]) => pos'[z] = pos[z]
  BY <1>5, <1>11, <1>12, <1>14, <1>19
<1>22. DOMAIN sons' = Inners \cup {new} /\ DOMAIN keys' = Inners \cup {new}
       /\ sons'[par] = low /\ sons'[new] = high /\ \A n \in Inners \ {par} : sons'[n] = sons[n]
  BY <1>1, <1>4, <1>5, <1>6 DEF With, Two
<1>23. work'.pc = "ascend" /\ work'.cur = par /\ work'.inst = new
  <2>1. DOMAIN work = DOMAIN work BY SMTT(60)
  <2> QED BY <1>1
<1>24. Divides(x, y, par, new, low, high, i)
  BY <1>1, <1>5, <1>9, <1>10, <1>11, <1>14, <1>15, <1>16, <1>17, <1>19, <1>20, <1>21, <1>22, <1>23 DEF Divides
<1> QED BY <1>24, SMTT(60) DEF new, low, high, d, s

LEMMA DividedShape ==
  ASSUME ShapeInv, work.pc = "ascend", NEW x, NEW y, NEW par, Waiting(x, y, par), NEW new, NEW low, NEW high, NEW i,
         Divides(x, y, par, new, low, high, i)
  PROVE  ShapeInv'
<1> DEFINE q == Up[par]
           s == Kids[par]
<1>1. /\ new \in Nat /\ new \notin Nodes
      /\ low \in Seq(Nodes) /\ high \in Seq(Nodes) /\ Unique(low) /\ Unique(high) /\ Members(low) \cap Members(high) = {}
      /\ Members(low) \cup Members(high) = Members(s)
      /\ Len(low) = CeilHalf + 1 /\ Len(high) = FloorHalf + 1 /\ low \o high = s
  BY DEF Divides
<1>2. /\ DOMAIN sons' = Inners \cup {new} /\ DOMAIN keys' = Inners \cup {new}
      /\ sons'[par] = low /\ sons'[new] = high /\ \A n \in Inners \ {par} : sons'[n] = sons[n]
  BY DEF Divides
<1>3. /\ DOMAIN parent' = Nodes \cup {new} /\ parent'[new] = NULL
      /\ \A z \in Nodes : parent'[z] = IF z \in Members(high) THEN new ELSE Up[z]
  BY DEF Divides
<1>4. /\ DOMAIN pos' = Nodes \cup {new} /\ pos'[new] = 0
      /\ \A j \in 0 .. CeilHalf : pos'[At(low, j)] = j
      /\ \A j \in 0 .. FloorHalf : pos'[At(high, j)] = j
      /\ \A z \in Nodes : z \notin Members(s) => pos'[z] = pos[z]
  BY DEF Divides
<1>5. /\ work'.pc = "ascend" /\ work'.cur = par /\ work'.inst = new
      /\ use' = use /\ root' = root /\ vals' = vals /\ chain' = chain
  BY DEF Divides
<1>6. /\ par \in Inners /\ par \in Nodes /\ root # NULL /\ Tops = <<root>> /\ Unique(s)
      /\ par \notin Members(s) /\ \A z \in Members(s) : Up[z] = par
      /\ DOMAIN Kids = Inners /\ \A n \in Inners \ {par} : Kids[n] = sons[n]
  BY DEF Waiting
<1>7. /\ Tree(Nodes, DOMAIN vals, Kids, Tops, chain) /\ Parents(Kids, Tops, Up) /\ Typed /\ Placed
  BY <1>6 DEF ShapeInv, Shape
<1>8. /\ Nodes = DOMAIN vals \cup Inners /\ DOMAIN vals \cap Inners = {} /\ DOMAIN sons = Inners /\ DOMAIN pos = Nodes
      /\ use \in Uses /\ Nodes \subseteq Nat /\ IsFiniteSet(Nodes) /\ NULL \notin Nodes /\ root \in Nodes \cup {NULL}
      /\ \A n \in Nodes : pos[n] \in 0 .. N
  BY <1>7, NullAssumption DEF Typed
<1>9. /\ N \in Nat /\ FloorHalf \in Nat /\ CeilHalf \in Nat /\ FloorHalf <= CeilHalf /\ CeilHalf <= N
  BY <1>8, Halves
<1>10. Members(s) \subseteq Nodes /\ Members(low) \subseteq Nodes /\ Members(high) \subseteq Nodes
  BY <1>1, MembersIn
<1>11. parent'[par] = q /\ pos'[par] = pos[par] BY <1>1, <1>3, <1>4, <1>6
<1>12. /\ q = NULL => par = root
       /\ q # NULL => /\ q \in Inners /\ par \in Members(Kids[q]) /\ q # par /\ Kids[q] = sons[q]
                      /\ pos[par] \in 0 .. Len(sons[q]) - 1 /\ At(sons[q], pos[par]) = par
                      /\ sons[q] \in Seq(Nodes) /\ Unique(sons[q])
  <2>1. q = NULL => par \in Members(Tops) BY <1>6, Homes
  <2>2. q # NULL => q \in Inners /\ par \in Members(Kids[q]) BY <1>6, Homes
  <2>3. ASSUME q # NULL PROVE q # par /\ Kids[q] = sons[q] /\ Kids[q] \in Seq(Nodes) /\ Unique(Kids[q])
    <3>1. q # par BY <1>6, <2>2, <2>3
    <3>2. Kids[q] \in Seq(Nodes) /\ Unique(Kids[q])
      BY <1>6, <1>7, <2>2, <2>3, SonsOf
    <3> QED BY <1>6, <2>2, <2>3, <3>1, <3>2
  <2>4. ASSUME q # NULL PROVE pos[par] \in 0 .. Len(sons[q]) - 1 /\ At(sons[q], pos[par]) = par
    <3>1. q \in Inners /\ par \in Members(sons[q]) /\ work.pc # "rebalance"
      BY <2>2, <2>3, <2>4
    <3> QED BY <3>1, Sited
  <2> QED BY <1>6, <2>1, <2>2, <2>3, <2>4, OneMember
<1> HIDE DEF q, s
<1>13. /\ DOMAIN Kids' = Inners \cup {new} /\ Kids'[par] = low /\ Kids'[new] = high
       /\ q # NULL => Kids'[q] = Linked(Kids[q], par, new)
       /\ \A n \in Inners : n # par /\ n # q => Kids'[n] = Kids[n]
  <2>1. ASSUME NEW n \in Inners \cup {new}
        PROVE  Kids'[n] = IF n = q THEN Put(sons'[n], pos[par] + 1, new) ELSE sons'[n]
    BY <1>2, <1>5, <1>11 DEF Kids
  <2>2. DOMAIN Kids' = Inners \cup {new} BY <1>2 DEF Kids
  <2>3. ASSUME q # NULL PROVE Kids'[q] = Linked(Kids[q], par, new)
    <3>1. q \in Inners /\ sons'[q] = sons[q] BY <1>2, <1>12, <2>3
    <3>2. Put(sons[q], pos[par] + 1, new) = Linked(sons[q], par, new)
      BY <1>12, <2>3, LinkedAt
    <3> QED BY <1>12, <2>1, <2>3, <3>1, <3>2
  <2>4. par # q /\ new # q /\ new \notin Inners
    BY <1>1, <1>8, <1>12, <1>6, NullAssumption
  <2> QED BY <1>2, <1>6, <2>1, <2>2, <2>3, <2>4
<1>14. Tops' = (IF q = NULL THEN <<par, new>> ELSE <<root>>)
  BY <1>5, <1>11 DEF Tops
<1>15. Up'[new] = q /\ \A z \in Nodes : Up'[z] = IF z \in Members(high) THEN new ELSE Up[z]
  <2>1. Up' = [parent' EXCEPT ![new] = q] BY <1>5, <1>11 DEF Up
  <2> QED BY <1>1, <1>3, <2>1
<1>16. Behind(Nodes, DOMAIN vals, Kids, Tops, par, new, q, Kids', Tops')
  <2>1. CASE q = NULL
    <3>1. Tops = <<par>> /\ par \in Members(<<par>>)
      BY <1>6, <1>12, <2>1, OneMember
    <3>2. Tops' = Linked(Tops, par, new) BY <1>14, <2>1, <3>1, LinkedOne
    <3>3. q \notin DOMAIN Kids BY <1>6, <1>8, <2>1
    <3> QED BY <3>1, <3>2, <3>3 DEF Behind
  <2>2. CASE q # NULL BY <1>6, <1>12, <1>13, <1>14, <2>2 DEF Behind
  <2> QED BY <2>1, <2>2
<1>17. Shares(Nodes, DOMAIN vals, Kids, chain, par, new, DOMAIN vals, Kids', chain)
  <2>1. par \notin DOMAIN vals BY <1>6, <1>8
  <2> QED BY <1>1, <1>6, <1>13, <2>1 DEF Shares, s
<1>18. \A z \in DOMAIN Kids : z # q /\ ~(z = par /\ par \notin DOMAIN vals) => Kids'[z] = Kids[z]
  <2>1. par \notin DOMAIN vals BY <1>6, <1>8
  <2> QED BY <1>6, <1>13, <2>1
<1>19. Tree(Nodes \cup {new}, DOMAIN vals, Kids', Tops', chain)
  BY <1>1, <1>6, <1>7, <1>16, <1>17, <1>18, Grow
<1>20. Parents(Kids', Tops', Up')
  <2>1. par \notin DOMAIN vals /\ Up'[new] = Up[par] BY <1>6, <1>8, <1>15 DEF q
  <2>2. \A z \in Nodes : Up'[z] = IF par \notin DOMAIN vals /\ z \in Members(Kids'[new]) THEN new ELSE Up[z]
    BY <1>13, <1>15, <2>1
  <2>3. /\ Tree(Nodes, DOMAIN vals, Kids, Tops, chain) /\ NULL \notin Nodes /\ par \in Nodes /\ new \notin Nodes
        /\ Parents(Kids, Tops, Up)
    BY <1>1, <1>6, <1>7, <1>8
  <2> QED BY <1>16, <1>17, <1>18, <2>1, <2>2, <2>3, GrowParents
<1>21. Nodes' = Nodes \cup {new} /\ Inners' = Inners \cup {new}
  BY <1>2, <1>3 DEF Nodes, Inners
<1>22. Typed'
  <2>1. IsFiniteSet(Nodes \cup {new}) BY <1>8, FS_AddElement
  <2>2. N' = N BY <1>5 DEF N
  <2>3. \A n \in Nodes : parent'[n] \in Inners \cup {new, NULL}
    <3> TAKE n \in Nodes
    <3>1. Up[n] # NULL => Up[n] \in Inners BY <1>6, Homes
    <3> QED BY <1>3, <3>1
  <2>4. \A n \in Nodes : pos'[n] \in 0 .. N
    <3> TAKE n \in Nodes
    <3>1. CASE n \notin Members(s) BY <1>4, <1>8, <3>1
    <3>2. CASE n \in Members(low)
      <4>1. PICK j \in 0 .. Len(low) - 1 : At(low, j) = n
        BY <1>1, <3>2, MemberAt
      <4>2. j \in 0 .. CeilHalf BY <1>1, <1>9
      <4> QED BY <1>4, <1>9, <4>1, <4>2
    <3>3. CASE n \in Members(high)
      <4>1. PICK j \in 0 .. Len(high) - 1 : At(high, j) = n
        BY <1>1, <3>3, MemberAt
      <4>2. j \in 0 .. FloorHalf BY <1>1, <1>9
      <4> QED BY <1>4, <1>9, <4>1, <4>2
    <3> QED BY <1>1, <3>1, <3>2, <3>3
  <2>5. \A n \in Inners \cup {new} : sons'[n] \in Seq(Nat)
    <3>1. low \in Seq(Nat) BY <1>1, <1>8, <1>10, SeqSub
    <3>2. high \in Seq(Nat) BY <1>1, <1>8, <1>10, SeqSub
    <3>3. \A n \in Inners : sons[n] \in Seq(Nat) BY <1>7 DEF Typed
    <3> QED BY <1>2, <3>1, <3>2, <3>3
  <2>6. new \notin DOMAIN vals /\ new \notin Inners BY <1>1, <1>8
  <2>7. use' \in Uses /\ IsFiniteSet(Nodes') /\ Nodes' \subseteq Nat /\ root' \in Nodes' \cup {NULL}
    BY <1>1, <1>5, <1>8, <1>21, <2>1
  <2>8. Nodes' = DOMAIN vals' \cup Inners' /\ DOMAIN vals' \cap Inners' = {}
    BY <1>5, <1>8, <1>21, <2>6
  <2>9. DOMAIN sons' = Inners' /\ DOMAIN pos' = Nodes' /\ \A n \in Inners' : sons'[n] \in Seq(Nat)
    BY <1>2, <1>4, <1>21, <2>5
  <2>10. \A n \in Nodes' : parent'[n] \in Inners' \cup {NULL} /\ pos'[n] \in 0 .. N'
    <3>1. pos'[new] \in 0 .. N BY <1>4, <1>9
    <3> QED BY <1>3, <1>21, <2>2, <2>3, <2>4, <3>1
  <2> QED BY <2>7, <2>8, <2>9, <2>10 DEF Typed
<1>23. Placed'
  <2>1. ASSUME NEW n \in Inners \cup {new}, NEW j \in 1 .. Len(sons'[n]) PROVE pos'[sons'[n][j]] = j - 1
    <3>1. CASE n = par
      <4>1. j - 1 \in 0 .. CeilHalf /\ (j - 1) + 1 = j /\ sons'[n] = low
        BY <1>1, <1>2, <1>9, <3>1, SMTT(60)
      <4> QED BY <1>4, <4>1 DEF At
    <3>2. CASE n = new
      <4>1. j - 1 \in 0 .. FloorHalf /\ (j - 1) + 1 = j /\ sons'[n] = high
        BY <1>1, <1>2, <1>9, <3>2
      <4> QED BY <1>4, <4>1 DEF At
    <3>3. CASE n # par /\ n # new
      <4>1. sons'[n] = sons[n] /\ sons[n] = Kids[n] /\ n \in Inners
        BY <1>2, <1>6, <3>3
      <4>2. Kids[n] \in Seq(Nodes) BY <1>6, <1>7, <4>1, SonsOf
      <4>3. sons[n][j] \in Members(Kids[n]) /\ sons[n][j] \in Nodes
        BY <4>1, <4>2, LenProperties DEF Members
      <4>4. sons[n][j] \notin Members(s)
        BY <1>6, <1>7, <3>3, <4>1, <4>3 DEF Parents
      <4>5. pos[sons[n][j]] = j - 1 BY <1>7, <4>1 DEF Placed
      <4> QED BY <1>4, <4>1, <4>3, <4>4, <4>5
    <3> QED BY <3>1, <3>2, <3>3
  <2> QED BY <1>21, <2>1 DEF Placed
<1>24. Ascending'
  <2>1. q # NULL => sons'[q] = sons[q] BY <1>2, <1>12
  <2>2. new # par /\ new # root /\ parent'[new] = NULL BY <1>1, <1>3, <1>6, <1>8
  <2> QED BY <1>5, <1>6, <1>11, <1>12, <1>21, <2>1, <2>2 DEF Ascending
<1>25. Shape' BY <1>5, <1>19, <1>20, <1>21 DEF Shape
<1> QED
  BY <1>5, <1>6, <1>22, <1>23, <1>24, <1>25 DEF ShapeInv, NoTree, Rebalancing

LEMMA AscendSplitShape ==
  ASSUME ShapeInv, AscendSplit, Len(sons[parent[work.cur]]) = N + 1
  PROVE  ShapeInv'
<1> DEFINE x == work.cur
           y == work.inst
           par == parent[x]
           i == pos[x] + 1
           d == Split(keys[par], sons[par], i, work.key, y)
<1>1. work.pc = "ascend" /\ parent[work.cur] # NULL BY DEF AscendSplit, In
<1>2. Divides(x, y, par, Fresh, d.lowSons, d.highSons, i) BY SplitDivides
<1>3. Waiting(x, y, par) BY <1>1, WaitingIs
<1> HIDE DEF x, y, par, i, d
<1> QED BY <1>1, <1>2, <1>3, DividedShape, SMTT(60)

(* The new root stands above both halves of the old one. *)
LEMMA AscendRootShape ==
  ASSUME ShapeInv, AscendRoot
  PROVE  ShapeInv'
<1> DEFINE x == work.cur
           y == work.inst
           r == Fresh
           T == <<x, y>>
<1>1. /\ work.pc = "ascend" /\ parent[x] = NULL /\ work'.pc = "idle" /\ root' = r
      /\ keys' = With(keys, Only(r, <<work.key>>))
      /\ sons' = With(sons, Only(r, T))
      /\ parent' = With(With(parent, Two(x, r, y, r)), Only(r, NULL))
      /\ pos' = With(With(pos, Two(x, 0, y, 1)), Only(r, 0))
      /\ use' = use /\ vals' = vals /\ chain' = chain
  BY DEF AscendRoot, In, Returned
<1>2. root # NULL BY <1>1 DEF ShapeInv, NoTree
<1>3. Tree(Nodes, DOMAIN vals, Kids, Tops, chain) /\ Parents(Kids, Tops, Up) /\ Typed /\ Placed
  BY <1>2 DEF ShapeInv, Shape
<1>4. x \in Nodes /\ y \in Nodes /\ x # y /\ parent[y] = NULL
  BY <1>1 DEF ShapeInv, Ascending
<1>5. /\ Nodes = DOMAIN vals \cup Inners /\ DOMAIN vals \cap Inners = {} /\ DOMAIN sons = Inners /\ DOMAIN pos = Nodes
      /\ DOMAIN keys = Inners /\ DOMAIN parent = Nodes
      /\ use \in Uses /\ Nodes \subseteq Nat /\ IsFiniteSet(Nodes) /\ NULL \notin Nodes
      /\ \A n \in Nodes : parent[n] \in Inners \cup {NULL} /\ pos[n] \in 0 .. N
      /\ \A n \in Inners : sons[n] \in Seq(Nat)
  BY <1>3, NullAssumption DEF Typed, Nodes, Inners
<1>6. r \in Nat /\ r \notin Nodes BY <1>5, FreshIs
<1> HIDE DEF r, x, y
<1>7. Tops = T /\ DOMAIN Kids = Inners /\ (\A n \in Inners : Kids[n] = sons[n]) /\ \A z \in Nodes : Up[z] = parent[z]
  <2>1. Tops = T BY <1>1 DEF Tops, x, y
  <2>2. \A n \in Inners : n # NULL BY <1>5
  <2>3. DOMAIN Kids = Inners /\ \A n \in Inners : Kids[n] = sons[n]
    BY <1>1, <1>5, <2>2 DEF Kids, x
  <2>4. Up = [parent EXCEPT ![y] = NULL] BY <1>1 DEF Up, x, y
  <2>5. \A z \in Nodes : Up[z] = parent[z] BY <1>4, <1>5, <2>4
  <2> QED BY <2>1, <2>3, <2>5
<1>8. Members(T) = {x, y} /\ Len(T) = 2 /\ T[1] = x /\ T[2] = y BY TwoMembers
<1>9. /\ DOMAIN sons' = Inners \cup {r} /\ DOMAIN keys' = Inners \cup {r} /\ sons'[r] = T
      /\ \A n \in Inners : sons'[n] = sons[n]
  BY <1>1, <1>5, <1>6 DEF With, Only
<1>10. /\ DOMAIN parent' = Nodes \cup {r} /\ parent'[r] = NULL
       /\ \A z \in Nodes : parent'[z] = IF z \in {x, y} THEN r ELSE parent[z]
  BY <1>1, <1>4, <1>5, <1>6 DEF With, Only, Two
<1>11. /\ DOMAIN pos' = Nodes \cup {r} /\ pos'[r] = 0 /\ pos'[x] = 0 /\ pos'[y] = 1
       /\ \A z \in Nodes \ {x, y} : pos'[z] = pos[z]
  BY <1>1, <1>4, <1>5, <1>6, SMTT(60) DEF With, Only, Two
<1>12. Nodes' = Nodes \cup {r} /\ Inners' = Inners \cup {r}
  BY <1>9, <1>10 DEF Nodes, Inners
<1>13. DOMAIN Kids' = Inners \cup {r} /\ Kids'[r] = T /\ \A n \in Inners : Kids'[n] = Kids[n]
  <2>1. \A n \in Inners \cup {r} : Kids'[n] = sons'[n] BY <1>1, <1>9 DEF Kids
  <2>2. DOMAIN Kids' = Inners \cup {r} BY <1>9 DEF Kids
  <2> QED BY <1>7, <1>9, <2>1, <2>2
<1>14. Tops' = <<r>> /\ Up' = parent' BY <1>1 DEF Tops, Up
<1> HIDE DEF T
<1>15. Tree(Nodes \cup {r}, DOMAIN vals, Kids', <<r>>, chain)
  BY <1>3, <1>6, <1>7, <1>13, AddRoot
<1>16. Parents(Kids', <<r>>, parent')
  <2>1. \A z \in Nodes : parent'[z] = IF z \in Members(T) THEN r ELSE Up[z]
    BY <1>7, <1>8, <1>10
  <2>2. Tree(Nodes, DOMAIN vals, Kids, T, chain) /\ NULL \notin Nodes /\ r \notin Nodes /\ Parents(Kids, T, Up)
        /\ DOMAIN Kids' = DOMAIN Kids \cup {r} /\ Kids'[r] = T /\ \A z \in DOMAIN Kids : Kids'[z] = Kids[z]
    BY <1>3, <1>5, <1>6, <1>7, <1>13
  <2> QED BY <1>10, <2>1, <2>2, AddRootParents
<1>17. Typed'
  <2>1. IsFiniteSet(Nodes \cup {r}) BY <1>5, FS_AddElement
  <2>2. N' = N /\ N \in Nat /\ N >= 4 BY <1>1, <1>5, Halves DEF N
  <2>3. T \in Seq(Nat) BY <1>4, <1>5 DEF T
  <2>4. \A n \in Nodes \cup {r} : pos'[n] \in 0 .. N
    BY <1>5, <1>11, <2>2, SMTT(60)
  <2>5. \A n \in Nodes \cup {r} : parent'[n] \in Inners \cup {r, NULL}
    BY <1>5, <1>10
  <2>6. DOMAIN vals' = DOMAIN vals /\ r \notin DOMAIN vals BY <1>1, <1>5, <1>6
  <2> QED BY <1>1, <1>5, <1>6, <1>9, <1>11, <1>12, <2>1, <2>2, <2>3, <2>4, <2>5, <2>6 DEF Typed
<1>18. Placed'
  <2>1. ASSUME NEW n \in Inners \cup {r}, NEW j \in 1 .. Len(sons'[n]) PROVE pos'[sons'[n][j]] = j - 1
    <3>1. CASE n = r
      <4>1. j = 1 \/ j = 2 BY <1>8, <1>9, <3>1
      <4> QED BY <1>8, <1>9, <1>11, <3>1, <4>1
    <3>2. CASE n # r
      <4>1. sons'[n] = sons[n] /\ sons[n] = Kids[n] /\ n \in Inners
        BY <1>7, <1>9, <3>2
      <4>2. Kids[n] \in Seq(Nodes) BY <1>3, <1>7, <4>1, SonsOf
      <4>3. sons[n][j] \in Members(Kids[n]) /\ sons[n][j] \in Nodes
        BY <4>1, <4>2, LenProperties DEF Members
      <4>4. Up[sons[n][j]] = n /\ n # NULL
        BY <1>3, <1>5, <1>7, <4>1, <4>3 DEF Parents
      <4>5. sons[n][j] \notin {x, y} BY <1>1, <1>4, <1>7, <4>4 DEF x
      <4>6. pos[sons[n][j]] = j - 1 BY <1>1, <1>3, <4>1 DEF Placed
      <4> QED BY <1>11, <4>1, <4>3, <4>5, <4>6
    <3> QED BY <3>1, <3>2
  <2> QED BY <1>12, <2>1 DEF Placed
<1>19. Shape' BY <1>1, <1>12, <1>14, <1>15, <1>16 DEF Shape
<1>20. r # NULL BY <1>6, NullAssumption
<1> QED
  BY <1>1, <1>17, <1>18, <1>19, <1>20 DEF ShapeInv, NoTree, Ascending, Rebalancing

(* A leaf goes, and its place among its parent's sons is about to. *)
LeafLeaves(r, par) ==
  /\ root # NULL /\ r \in DOMAIN vals /\ par = parent[r] /\ par # NULL
  /\ use' = use /\ root' = root
  /\ DOMAIN vals' = DOMAIN vals \ {r} /\ DOMAIN keys' = DOMAIN keys /\ parent' = Without(parent, r)
  /\ chain' = Unlinked(chain, r)
  /\ DOMAIN sons' = DOMAIN sons /\ sons'[par] \in Seq(Nat) /\ \A n \in Inners \ {par} : sons'[n] = sons[n]
  /\ work'.pc = "rebalance" /\ work'.cur = par /\ work'.at \in 1 .. Len(sons'[par]) - 1
  /\ Cut(sons'[par], work'.at) = Cut(sons[par], pos[r])
  /\ DOMAIN pos' = Nodes \ {r} /\ \A z \in Nodes \ {r} : pos'[z] \in 0 .. N
  /\ \A i \in 1 .. Len(sons'[par]) : i = work'.at + 1 \/ pos'[sons'[par][i]] = i - 1
  /\ \A z \in Nodes \ {r} : z \notin Members(sons[par]) => pos'[z] = pos[z]

LEMMA LeafGoneShape ==
  ASSUME ShapeInv, work.pc \in {"idle", "range"}, NEW r, NEW par, LeafLeaves(r, par)
  PROVE  ShapeInv'
<1>1. /\ root # NULL /\ r \in DOMAIN vals /\ par = parent[r] /\ par # NULL
      /\ use' = use /\ root' = root
      /\ DOMAIN vals' = DOMAIN vals \ {r} /\ DOMAIN keys' = Inners /\ parent' = Without(parent, r)
      /\ chain' = Unlinked(chain, r)
      /\ DOMAIN sons' = DOMAIN sons /\ sons'[par] \in Seq(Nat) /\ \A n \in Inners \ {par} : sons'[n] = sons[n]
      /\ work'.pc = "rebalance" /\ work'.cur = par /\ work'.at \in 1 .. Len(sons'[par]) - 1
      /\ Cut(sons'[par], work'.at) = Cut(sons[par], pos[r])
  BY DEF LeafLeaves, Inners
<1>2. /\ DOMAIN pos' = Nodes \ {r} /\ \A z \in Nodes \ {r} : pos'[z] \in 0 .. N
      /\ \A i \in 1 .. Len(sons'[par]) : i = work'.at + 1 \/ pos'[sons'[par][i]] = i - 1
      /\ \A z \in Nodes \ {r} : z \notin Members(sons[par]) => pos'[z] = pos[z]
  BY DEF LeafLeaves
<1>3. Tree(Nodes, DOMAIN vals, Kids, Tops, chain) /\ Parents(Kids, Tops, Up) /\ Typed /\ Placed
  BY <1>1 DEF ShapeInv, Shape
<1>4. /\ Nodes = DOMAIN vals \cup Inners /\ DOMAIN vals \cap Inners = {} /\ DOMAIN sons = Inners /\ DOMAIN parent = Nodes
      /\ use \in Uses /\ Nodes \subseteq Nat /\ IsFiniteSet(Nodes) /\ NULL \notin Nodes
      /\ \A n \in Nodes : parent[n] \in Inners \cup {NULL}
      /\ \A n \in Inners : sons[n] \in Seq(Nat)
  BY <1>3, NullAssumption DEF Typed, Nodes
<1>5. Tops = <<root>> /\ Up = parent /\ DOMAIN Kids = Inners /\ \A n \in Inners : Kids[n] = sons[n]
  BY <1>3, KidsAre
<1>6. root \in Nodes /\ parent[root] = NULL BY <1>1, RootHas DEF Pcs
<1>7. IsSon(r, par)
  <2>1. r \in Nodes /\ parent[r] # NULL /\ work.pc # "ascend" /\ work.pc \in Pcs /\ work.pc # "rebalance"
    BY <1>1, <1>4 DEF Pcs
  <2> QED BY <1>1, <2>1, SonHome
<1>8. /\ par \in Inners /\ r # par /\ r \in Members(sons[par]) /\ sons[par] \in Seq(Nodes) /\ Unique(sons[par])
      /\ pos[r] \in 0 .. Len(sons[par]) - 1 /\ At(sons[par], pos[r]) = r
  BY <1>7 DEF IsSon
<1>9. Cut(sons[par], pos[r]) = Unlinked(sons[par], r) BY <1>8, LinkedAt
<1>10. /\ DOMAIN parent' = Nodes \ {r} /\ (\A z \in Nodes \ {r} : parent'[z] = parent[z])
       /\ Nodes' = Nodes \ {r} /\ Inners' = Inners
  BY <1>1, <1>4 DEF Without, Nodes, Inners
<1>11. DOMAIN Kids' = Inners /\ Kids'[par] = Unlinked(Kids[par], r) /\ \A n \in Inners \ {par} : Kids'[n] = Kids[n]
  <2>1. DOMAIN sons' = Inners BY <1>1, <1>4
  <2>2. \A n \in Inners : Kids'[n] = IF n = par THEN Cut(sons'[n], work'.at) ELSE sons'[n]
    BY <1>1, <2>1 DEF Kids
  <2>3. DOMAIN Kids' = Inners BY <2>1 DEF Kids
  <2> QED BY <1>1, <1>5, <1>8, <1>9, <2>2, <2>3
<1>12. Tops' = Tops /\ Up' = parent' BY <1>1, <1>5 DEF Tops, Up
<1>13. Leaves(Nodes, DOMAIN vals, Kids, chain, r, r, par, DOMAIN vals', Kids', chain')
  BY <1>1, <1>5, <1>11 DEF Leaves
<1>14. /\ Tree(Nodes, DOMAIN vals, Kids, Tops, chain) /\ NULL \notin Nodes /\ r \in Nodes /\ par \in DOMAIN Kids
       /\ r \in Members(Kids[par]) /\ Kids'[par] = Unlinked(Kids[par], r) /\ Parents(Kids, Tops, Up)
       /\ \A z \in DOMAIN Kids \ {par, r} : ~(z = r /\ r \notin DOMAIN vals) => Kids'[z] = Kids[z]
  BY <1>1, <1>3, <1>4, <1>5, <1>8, <1>11
<1>15. Tree(Nodes \ {r}, DOMAIN vals', Kids', Tops, chain')
  BY <1>13, <1>14, Shrink
<1>16. Parents(Kids', Tops, parent')
  <2>1. \A z \in Nodes \ {r} : parent'[z] = IF r \notin DOMAIN vals /\ z \in Members(Kids[r]) THEN r ELSE Up[z]
    BY <1>1, <1>5, <1>10
  <2> QED BY <1>13, <1>14, <2>1, ShrinkParents
<1>17. Typed'
  <2>1. IsFiniteSet(Nodes \ {r}) BY <1>4, FS_RemoveElement
  <2>2. N' = N BY <1>1 DEF N
  <2>3. root' \in Nodes \ {r} BY <1>1, <1>6
  <2>4. Nodes \ {r} = (DOMAIN vals \ {r}) \cup Inners BY <1>1, <1>4
  <2>5. \A n \in Inners : sons'[n] \in Seq(Nat) BY <1>1, <1>4
  <2> QED BY <1>1, <1>2, <1>4, <1>10, <2>1, <2>2, <2>3, <2>4, <2>5 DEF Typed
<1>18. Placed'
  <2>1. ASSUME NEW n \in Inners, NEW j \in 1 .. Len(sons'[n]), ~(n = par /\ j = work'.at + 1)
        PROVE  pos'[sons'[n][j]] = j - 1
    <3>1. CASE n = par BY <1>2, <2>1, <3>1
    <3>2. CASE n # par
      <4>1. sons'[n] = sons[n] /\ sons[n] = Kids[n] BY <1>1, <1>5, <3>2
      <4>2. Kids[n] \in Seq(Nodes) BY <1>3, <1>5, SonsOf
      <4>3. sons[n][j] \in Members(Kids[n]) /\ sons[n][j] \in Nodes
        BY <4>1, <4>2, LenProperties DEF Members
      <4>4. sons[n][j] \notin Members(sons[par])
        BY <1>3, <1>5, <1>8, <3>2, <4>3 DEF Parents
      <4>5. pos[sons[n][j]] = j - 1 BY <1>3, <4>1 DEF Placed
      <4>6. sons[n][j] # r BY <1>8, <4>4
      <4> QED BY <1>2, <4>1, <4>3, <4>4, <4>5, <4>6
    <3> QED BY <3>1, <3>2
  <2> QED BY <1>1, <1>10, <2>1, ZenonT(60) DEF Placed
<1>19. Shape' BY <1>1, <1>10, <1>12, <1>15, <1>16 DEF Shape
<1> QED
  BY <1>1, <1>8, <1>10, <1>17, <1>18, <1>19 DEF ShapeInv, NoTree, Ascending, Rebalancing

(* Two neighbouring sons. *)
Beside(x, y, par, i) ==
  /\ IsSon(x, par) /\ IsSon(y, par) /\ parent[x] = par /\ parent[y] = par /\ pos[x] = i /\ pos[y] = i + 1 /\ x # y
  /\ i \in 0 .. Len(sons[par]) - 2 /\ x \in Nodes /\ y \in Nodes
  /\ At(sons[par], i) = x /\ At(sons[par], i + 1) = y

LEMMA BesideIs ==
  ASSUME ShapeInv, root # NULL, work.pc # "ascend", work.pc \in Pcs, NEW z \in Nodes, parent[z] # NULL,
         ~(work.pc = "rebalance" /\ parent[z] = work.cur),
         NEW i \in 0 .. Len(sons[parent[z]]) - 2, i = pos[z] \/ i + 1 = pos[z]
  PROVE  Beside(At(sons[parent[z]], i), At(sons[parent[z]], i + 1), parent[z], i)
<1> DEFINE par == parent[z]
           s == sons[par]
           x == At(s, i)
           y == At(s, i + 1)
<1>1. IsSon(z, par) BY SonHome
<1>2. /\ par \in Inners /\ par # NULL /\ Kids[par] = s /\ s \in Seq(Nodes) /\ Unique(s) /\ par \notin Members(s)
      /\ \A w \in Members(s) : parent[w] = par
  BY <1>1 DEF IsSon
<1>3. i \in 0 .. Len(s) - 1 /\ i + 1 \in 0 .. Len(s) - 1 /\ Len(s) \in Nat
  BY <1>2, LenProperties
<1> HIDE DEF par, s
<1>4. x \in Members(s) /\ y \in Members(s) /\ x \in Nodes /\ y \in Nodes
  BY <1>2, <1>3, AtMember
<1>5. Placed BY DEF ShapeInv
<1>6. pos[x] = i /\ pos[y] = i + 1
  <2>1. i + 1 \in 1 .. Len(s) /\ (i + 1) + 1 \in 1 .. Len(s) /\ (i + 1) - 1 = i /\ ((i + 1) + 1) - 1 = i + 1
    BY <1>3
  <2>2. \A j \in 1 .. Len(sons[par]) : pos[sons[par][j]] = j - 1
    BY <1>2, <1>5 DEF Placed, par
  <2> QED BY <2>1, <2>2 DEF At, s
<1>7. IsSon(x, par) /\ IsSon(y, par) BY <1>2, <1>3, <1>4, <1>6 DEF IsSon, s
<1>8. Beside(x, y, par, i) BY <1>2, <1>3, <1>4, <1>6, <1>7 DEF Beside, s
<1> QED BY <1>8 DEF par, s

(* The right one of two neighbouring leaves goes into the left one. *)
LEMMA MergedShape ==
  ASSUME ShapeInv, work.pc \in {"idle", "range"}, root # NULL, NEW x, NEW y, NEW par, NEW i, Beside(x, y, par, i),
         x \in DOMAIN vals, y \in DOMAIN vals, use' = use, DOMAIN keys' = DOMAIN keys,
         NEW v, NEW it, NEW left, NEW want, LeafMerged(x, v, y, par, i + 1, it, left, want)
  PROVE  ShapeInv'
<1>1. /\ vals' = Without([vals EXCEPT ![x] = v], y)
      /\ parent' = Without(parent, y) /\ pos' = Without(pos, y) /\ chain' = Unlinked(chain, y)
      /\ work'.pc = "rebalance" /\ work'.cur = par /\ work'.at = i + 1
      /\ root' = root /\ sons' = sons
  BY DEF LeafMerged, Erased, Returned
<1>2. /\ par # NULL /\ par \in Inners /\ parent[y] = par /\ y \in Members(sons[par]) /\ sons[par] \in Seq(Nodes)
      /\ pos[y] = i + 1 /\ i \in 0 .. Len(sons[par]) - 2 /\ y \in Nodes /\ Unique(sons[par]) /\ At(sons[par], i + 1) = y
      /\ Kids[par] = sons[par]
  BY DEF Beside, IsSon
<1>3. Typed /\ Placed BY DEF ShapeInv
<1>4. /\ DOMAIN pos = Nodes /\ \A n \in Nodes : pos[n] \in 0 .. N
      /\ Nodes \subseteq Nat /\ sons[par] \in Seq(Nat)
  BY <1>2, <1>3 DEF Typed
<1>5. DOMAIN vals' = DOMAIN vals \ {y} BY <1>1 DEF Without
<1>6. DOMAIN pos' = Nodes \ {y} /\ \A z \in Nodes \ {y} : pos'[z] = pos[z]
  BY <1>1, <1>4 DEF Without
<1>7. i + 1 \in 1 .. Len(sons[par]) - 1 /\ Len(sons[par]) \in Nat /\ i \in Nat
  BY <1>2, LenProperties
<1>8. ASSUME NEW j \in 1 .. Len(sons[par]) PROVE j = (i + 1) + 1 \/ pos'[sons[par][j]] = j - 1
  <2>1. sons[par][j] \in Nodes /\ pos[sons[par][j]] = j - 1
    BY <1>2, <1>3, LenProperties DEF Placed
  <2>2. CASE sons[par][j] = y
    <3>1. j = (i + 1) + 1 BY <1>2, <1>7, <2>1, <2>2
    <3> QED BY <3>1
  <2> QED BY <1>6, <2>1, <2>2
<1>9. LeafLeaves(y, par)
  BY <1>1, <1>2, <1>4, <1>5, <1>6, <1>7, <1>8 DEF LeafLeaves
<1> QED BY <1>9, LeafGoneShape

(* Doubling the second element and cutting the second of them drops the *)
(* first. *)
LEMMA DoubledCut ==
  ASSUME NEW E, NEW s \in Seq(E), Len(s) >= 2, NEW t, t = [s EXCEPT ![1] = At(s, 1)]
  PROVE  t \in Seq(E) /\ Len(t) = Len(s) /\ Cut(t, 1) = Cut(s, 0)
<1> DEFINE z == 0
           o == 1
<1>1. Len(s) \in Nat /\ DOMAIN s = 1 .. Len(s) /\ \A j \in 1 .. Len(s) : s[j] \in E
  BY LenProperties
<1>2. At(s, 1) = s[2] /\ s[2] \in E BY <1>1 DEF At
<1>3. t \in Seq(E) /\ Len(t) = Len(s) /\ t[1] = s[2] /\ \A j \in 2 .. Len(s) : t[j] = s[j]
  <2>1. DOMAIN t = 1 .. Len(s) BY <1>1
  <2>2. t[1] = s[2] /\ \A j \in 2 .. Len(s) : t[j] = s[j] BY <1>1, <1>2
  <2>3. t \in Seq(E) BY <1>2, ExceptSeq
  <2>4. Len(t) = Len(s) BY <1>2, ExceptSeq
  <2> QED BY <2>2, <2>3, <2>4
<1> HIDE DEF z, o
<1>4. CutFrom(s, z, E)
  <2>1. z \in 0 .. Len(s) - 1 BY <1>1 DEF z
  <2> QED BY <2>1, CutOff
<1>5. CutFrom(t, o, E)
  <2>1. o \in 0 .. Len(t) - 1 BY <1>1, <1>3 DEF o
  <2> QED BY <1>3, <2>1, CutOff
<1>6. Cut(s, z) \in Seq(E) /\ Len(Cut(s, z)) = Len(s) - 1 BY <1>4 DEF CutFrom
<1>7. \A j \in 1 .. Len(s) - 1 : Cut(s, z)[j] = s[j + 1]
  <2>1. z + 1 = 1 BY DEF z
  <2> QED BY <1>4, <2>1 DEF CutFrom
<1>8. Cut(t, o) \in Seq(E) /\ Len(Cut(t, o)) = Len(t) - 1 BY <1>5 DEF CutFrom
<1>9. \A j \in 1 .. Len(s) - 1 : Cut(t, o)[j] = s[j + 1]
  <2> DEFINE a == Cut(t, o)
  <2>1. \A k \in 1 .. o : a[k] = t[k] BY <1>5 DEF CutFrom
  <2>2. \A k \in o + 1 .. Len(t) - 1 : a[k] = t[k + 1] BY <1>5 DEF CutFrom
  <2> HIDE DEF a
  <2>3. a[1] = t[1] /\ \A k \in 2 .. Len(s) - 1 : a[k] = t[k + 1]
    <3>1. 1 \in 1 .. o /\ o + 1 = 2 /\ Len(t) = Len(s) BY <1>3 DEF o
    <3> QED BY <2>1, <2>2, <3>1
  <2>4. ASSUME NEW j \in 1 .. Len(s) - 1 PROVE a[j] = s[j + 1]
    <3>1. j = 1 \/ (j \in 2 .. Len(s) - 1 /\ j + 1 \in 2 .. Len(s)) BY <1>1
    <3>2. CASE j = 1
      <4>1. a[j] = t[1] /\ j + 1 = 2 BY <2>3, <3>2
      <4> QED BY <1>3, <4>1
    <3>3. CASE j \in 2 .. Len(s) - 1 /\ j + 1 \in 2 .. Len(s)
      BY <1>3, <2>3, <3>3
    <3> QED BY <3>1, <3>2, <3>3
  <2> QED BY <2>4 DEF a
<1>10. Cut(t, o) = Cut(s, z)
  <2> DEFINE a == Cut(t, o)
             b == Cut(s, z)
  <2>1. a \in Seq(E) /\ b \in Seq(E) /\ Len(a) = Len(b) BY <1>3, <1>6, <1>8
  <2>2. \A j \in 1 .. Len(b) : a[j] = b[j] BY <1>6, <1>7, <1>9
  <2> HIDE DEF a, b
  <2>3. a = b BY <2>1, <2>2, SeqEqual
  <2> QED BY <2>3, SMTT(60) DEF a, b
<1> QED BY <1>3, <1>10 DEF z, o

(* The whole leaf is in the range. *)
LEMMA WholeLeafShape ==
  ASSUME ShapeInv, EraseWholeLeaf, NEW l, l = work.it.leaf, l \in DOMAIN vals, Len(sons[parent[l]]) >= 2
  PROVE  ShapeInv'
<1> DEFINE par == parent[l]
           s == sons[par]
           succ == At(s, 1)
           t == sons'[par]
<1>1. /\ work.pc = "range" /\ root # NULL /\ par # NULL /\ use' = use /\ root' = root
      /\ IF pos[l] = 0
           THEN /\ keys' = Reseparated(keys, par, KeyOf(vals[succ][1]))
                /\ sons' = [sons EXCEPT ![par] = [@ EXCEPT ![1] = succ]]
                /\ pos' = Without([pos EXCEPT ![succ] = 0], l)
           ELSE pos' = Without(pos, l) /\ keys' = keys /\ sons' = sons
      /\ vals' = Without(vals, l) /\ parent' = Without(parent, l) /\ chain' = Unlinked(chain, l)
      /\ work'.pc = "rebalance" /\ work'.cur = par /\ work'.at = IF pos[l] = 0 THEN 1 ELSE pos[l]
  BY DEF EraseWholeLeaf, In, WholeLeafDue, Erased, Returned
<1>2. Typed /\ Placed BY DEF ShapeInv
<1>3. /\ Nodes = DOMAIN vals \cup Inners /\ DOMAIN pos = Nodes /\ DOMAIN sons = Inners /\ use \in Uses
      /\ Nodes \subseteq Nat /\ \A n \in Nodes : pos[n] \in 0 .. N
  BY <1>2 DEF Typed
<1>4. IsSon(l, par)
  <2>1. l \in Nodes /\ work.pc \in Pcs /\ work.pc # "ascend" /\ work.pc # "rebalance"
    BY <1>1, <1>3 DEF Pcs
  <2> QED BY <1>1, <2>1, SonHome
<1>5. /\ par \in Inners /\ l # par /\ l \in Members(s) /\ s \in Seq(Nodes) /\ Unique(s)
      /\ pos[l] \in 0 .. Len(s) - 1 /\ At(s, pos[l]) = l
  BY <1>4 DEF IsSon
<1>6. Len(s) \in Nat /\ Len(s) >= 2 /\ pos[l] \in Nat
  BY <1>5, LenProperties, SMTT(60)
<1>7. DOMAIN keys' = DOMAIN keys
  <2>1. \A k, n, key : DOMAIN k = DOMAIN Reseparated(k, n, key)
    BY DEF Reseparated
  <2> QED BY <1>1, <2>1
<1>8. DOMAIN vals' = DOMAIN vals \ {l} BY <1>1 DEF Without
<1> HIDE DEF par, s, succ, t
<1>9. s \in Seq(Nat) BY <1>3, <1>5, MembersIn, SeqSub
<1>10. CASE pos[l] # 0
  <2>1. sons' = sons /\ t = s /\ work'.at = pos[l] BY <1>1, <1>10 DEF t, s
  <2>2. DOMAIN pos' = Nodes \ {l} /\ \A z \in Nodes \ {l} : pos'[z] = pos[z]
    BY <1>1, <1>3, <1>10 DEF Without
  <2>3. pos[l] \in 1 .. Len(s) - 1 BY <1>5, <1>6, <1>10
  <2>4. ASSUME NEW j \in 1 .. Len(s) PROVE j = pos[l] + 1 \/ pos'[s[j]] = j - 1
    <3>1. s[j] \in Nodes /\ pos[s[j]] = j - 1
      BY <1>1, <1>2, <1>5, LenProperties DEF Placed, s
    <3>2. CASE s[j] = l
      <4>1. j = pos[l] + 1 BY <1>6, <3>1, <3>2, SMTT(60)
      <4> QED BY <4>1
    <3> QED BY <2>2, <3>1, <3>2
  <2>5. LeafLeaves(l, par)
    BY <1>1, <1>3, <1>5, <1>7, <1>8, <1>9, <2>1, <2>2, <2>3, <2>4, ZenonT(60) DEF LeafLeaves, par, s, t
  <2> QED BY <1>1, <2>5, LeafGoneShape
<1>11. CASE pos[l] = 0
  <2>1. sons' = [sons EXCEPT ![par] = [@ EXCEPT ![1] = succ]] /\ pos' = Without([pos EXCEPT ![succ] = 0], l) /\ work'.at = 1
    BY <1>1, <1>11
  <2>2. DOMAIN sons' = DOMAIN sons /\ t = [s EXCEPT ![1] = At(s, 1)] /\ \A n \in Inners \ {par} : sons'[n] = sons[n]
    BY <1>3, <1>5, <2>1 DEF t, s, succ
  <2>3. t \in Seq(Nat) /\ Len(t) = Len(s) /\ Cut(t, 1) = Cut(s, 0)
    BY <1>6, <1>9, <2>2, DoubledCut
  <2>4. s[1] = l /\ s[2] = succ /\ l # succ /\ succ \in Members(s) /\ succ \in Nodes
    <3>1. s[1] = l /\ s[2] = succ BY <1>5, <1>11 DEF At, succ
    <3>2. 1 \in 1 .. Len(s) /\ 2 \in 1 .. Len(s) BY <1>6
    <3> QED BY <1>5, <3>1, <3>2, LenProperties DEF Unique, Members
  <2>5. DOMAIN pos' = Nodes \ {l} /\ pos'[succ] = 0 /\ \A z \in Nodes \ {l} : z # succ => pos'[z] = pos[z]
    BY <1>3, <2>1, <2>4 DEF Without
  <2>6. \A z \in Nodes \ {l} : pos'[z] \in 0 .. N
    <3>1. N \in Nat BY <1>3, Halves
    <3> QED BY <1>3, <2>5, <3>1
  <2>7. ASSUME NEW j \in 1 .. Len(t) PROVE j = 1 + 1 \/ pos'[t[j]] = j - 1
    <3>1. j = 1 \/ j = 2 \/ j \in 3 .. Len(s) BY <1>6, <2>3
    <3>2. CASE j = 1
      <4>1. t[1] = succ BY <1>5, <1>6, <2>2, <2>4, LenProperties DEF At
      <4> QED BY <2>5, <3>2, <4>1
    <3>3. CASE j \in 3 .. Len(s)
      <4>1. j \in 1 .. Len(s) /\ 2 \in 1 .. Len(s) /\ 1 \in 1 .. Len(s) /\ j # 1 /\ j # 2
        BY <1>6, <3>3
      <4>2. t[j] = s[j] BY <1>5, <2>2, <4>1, LenProperties
      <4>3. s[j] # succ /\ s[j] # l /\ s[j] \in Nodes
        BY <1>5, <2>4, <4>1, LenProperties DEF Unique
      <4>4. pos[s[j]] = j - 1 BY <1>1, <1>2, <1>5, <4>1 DEF Placed, s
      <4> QED BY <2>5, <4>2, <4>3, <4>4
    <3> QED BY <3>1, <3>2, <3>3
  <2>8. \A z \in Nodes \ {l} : z \notin Members(s) => pos'[z] = pos[z]
    BY <2>4, <2>5
  <2>9. 1 \in 1 .. Len(t) - 1 BY <1>6, <2>3
  <2>10. LeafLeaves(l, par)
    <3>1. t \in Seq(Nat) /\ Cut(t, 1) = Cut(s, pos[l]) BY <1>11, <2>3
    <3>2. par # NULL BY <1>1 DEF par
    <3>3. /\ root # NULL /\ use' = use /\ root' = root /\ parent' = Without(parent, l) /\ chain' = Unlinked(chain, l)
          /\ work'.pc = "rebalance" /\ work'.cur = par /\ work'.at = 1 /\ par = parent[l]
      BY <1>1, <2>1 DEF par
    <3> QED
      BY <1>7, <1>8, <2>2, <2>5, <2>6, <2>7, <2>8, <2>9, <3>1, <3>2, <3>3, ZenonT(60) DEF LeafLeaves, s, t
  <2> QED BY <1>1, <2>10, LeafGoneShape
<1> QED BY <1>10, <1>11, SMTT(60)

(* An inner node that is about to lose a son, and its other sons. *)
Losing(n, s) ==
  /\ n \in Inners /\ n \in Nodes /\ work.at \in 1 .. Len(sons[n]) - 1 /\ Len(sons[n]) \in Nat /\ sons[n] \in Seq(Nat)
  /\ s = Cut(sons[n], work.at) /\ s = Kids[n] /\ s \in Seq(Nodes) /\ Unique(s) /\ Len(s) = Len(sons[n]) - 1
  /\ n \notin Members(s) /\ Members(s) \subseteq Nodes
  /\ \A j \in 0 .. work.at - 1 : At(s, j) = At(sons[n], j) /\ pos[At(s, j)] = j
  /\ \A j \in work.at .. Len(s) - 1 : At(s, j) = At(sons[n], j + 1) /\ pos[At(s, j)] = j + 1
  /\ \A z \in Members(s) : parent[z] = n

LEMMA LosingIs ==
  ASSUME ShapeInv, work.pc = "rebalance"
  PROVE  Losing(work.cur, Cut(sons[work.cur], work.at))
<1> DEFINE n == work.cur
           a == work.at
           s == Cut(sons[n], a)
<1>1. n \in Inners /\ a \in 1 .. Len(sons[n]) - 1 /\ root # NULL
  BY DEF ShapeInv, Rebalancing, NoTree
<1>2. Tree(Nodes, DOMAIN vals, Kids, Tops, chain) /\ Parents(Kids, Tops, Up) /\ Typed /\ Placed
  BY <1>1 DEF ShapeInv, Shape
<1>3. DOMAIN Kids = Inners /\ Up = parent /\ Kids[n] = s BY <1>1, <1>2, KidsAre
<1>4. n \in Nodes /\ sons[n] \in Seq(Nat) BY <1>1, <1>2 DEF Typed
<1>5. Len(sons[n]) \in Nat /\ a \in Nat BY <1>1, <1>4, LenProperties
<1>6. Kids[n] \in Seq(Nodes) /\ Unique(Kids[n]) /\ n \notin Members(Kids[n])
  BY <1>1, <1>2, <1>3, SonsOf
<1>7. \A z \in Members(Kids[n]) : Up[z] = n BY <1>1, <1>2, <1>3 DEF Parents
<1> HIDE DEF n, a
<1>8. CutFrom(sons[n], a, Nat)
  <2>1. a \in 0 .. Len(sons[n]) - 1 BY <1>1, <1>5
  <2> QED BY <1>4, <2>1, CutOff
<1>9. Len(s) = Len(sons[n]) - 1 /\ (\A j \in 1 .. a : s[j] = sons[n][j])
      /\ \A j \in a + 1 .. Len(sons[n]) - 1 : s[j] = sons[n][j + 1]
  BY <1>8 DEF CutFrom
<1> HIDE DEF s
<1>10. \A i \in 1 .. Len(sons[n]) : i = a + 1 \/ pos[sons[n][i]] = i - 1
  BY <1>1, <1>2 DEF Placed, n, a
<1>11. \A j \in 0 .. a - 1 : At(s, j) = At(sons[n], j) /\ pos[At(s, j)] = j
  <2> TAKE j \in 0 .. a - 1
  <2>1. j + 1 \in 1 .. a /\ j + 1 \in 1 .. Len(sons[n]) /\ j + 1 # a + 1 /\ (j + 1) - 1 = j
    BY <1>1, <1>5
  <2> QED BY <1>9, <1>10, <2>1 DEF At
<1>12. \A j \in a .. Len(s) - 1 : At(s, j) = At(sons[n], j + 1) /\ pos[At(s, j)] = j + 1
  <2> TAKE j \in a .. Len(s) - 1
  <2>1. j + 1 \in a + 1 .. Len(sons[n]) - 1 /\ (j + 1) + 1 \in 1 .. Len(sons[n]) /\ (j + 1) + 1 # a + 1
        /\ ((j + 1) + 1) - 1 = j + 1
    BY <1>1, <1>5, <1>9
  <2> QED BY <1>9, <1>10, <2>1 DEF At
<1>13. Members(s) \subseteq Nodes BY <1>3, <1>6, MembersIn
<1>14. Losing(n, s)
  BY <1>1, <1>3, <1>4, <1>5, <1>6, <1>7, <1>9, <1>11, <1>12, <1>13 DEF Losing, s, a
<1> QED BY <1>14 DEF n, s, a

(* A node loses the son, and nothing else happens to the tree. *)
Loses(n, s) ==
  /\ use' = use /\ root' = root /\ vals' = vals /\ chain' = chain /\ parent' = parent /\ DOMAIN keys' = DOMAIN keys
  /\ sons' = [sons EXCEPT ![n] = s] /\ pos' = Numbered(pos, s, work.at .. Len(s) - 1)
  /\ work'.pc \in {"idle", "range"}

LEMMA LosesShape ==
  ASSUME ShapeInv, work.pc = "rebalance", NEW n, n = work.cur, NEW s, Losing(n, s), Loses(n, s), Len(sons[n]) <= N + 1
  PROVE  ShapeInv'
<1> DEFINE I == work.at .. Len(s) - 1
<1>1. /\ use' = use /\ root' = root /\ vals' = vals /\ chain' = chain /\ parent' = parent /\ DOMAIN keys' = DOMAIN keys
      /\ sons' = [sons EXCEPT ![n] = s] /\ pos' = Numbered(pos, s, I) /\ work'.pc \in {"idle", "range"}
  BY DEF Loses
<1>2. /\ n \in Inners /\ work.at \in 1 .. Len(sons[n]) - 1 /\ Len(sons[n]) \in Nat
      /\ s = Kids[n] /\ s \in Seq(Nodes) /\ Unique(s) /\ Len(s) = Len(sons[n]) - 1 /\ Members(s) \subseteq Nodes
      /\ \A j \in 0 .. work.at - 1 : pos[At(s, j)] = j
  BY DEF Losing
<1>3. root # NULL BY DEF ShapeInv, NoTree
<1>4. Tree(Nodes, DOMAIN vals, Kids, Tops, chain) /\ Parents(Kids, Tops, Up) /\ Typed /\ Placed
  BY <1>3 DEF ShapeInv, Shape
<1>5. /\ Nodes = DOMAIN vals \cup Inners /\ DOMAIN vals \cap Inners = {} /\ DOMAIN sons = Inners /\ DOMAIN pos = Nodes
      /\ use \in Uses /\ Nodes \subseteq Nat /\ IsFiniteSet(Nodes) /\ root \in Nodes \cup {NULL}
      /\ \A m \in Nodes : parent[m] \in Inners \cup {NULL} /\ pos[m] \in 0 .. N
      /\ \A m \in Inners : sons[m] \in Seq(Nat)
  BY <1>4 DEF Typed
<1>6. DOMAIN Kids = Inners /\ Tops = <<root>> /\ Up = parent /\ \A m \in Inners \ {n} : Kids[m] = sons[m]
  BY <1>4, KidsAre
<1> HIDE DEF I
<1>7. Nodes' = Nodes /\ Inners' = Inners /\ DOMAIN sons' = Inners /\ sons'[n] = s /\ \A m \in Inners \ {n} : sons'[m] = sons[m]
  BY <1>1, <1>2, <1>5 DEF Nodes, Inners
<1>8. DOMAIN Kids' = Inners /\ \A m \in Inners : Kids'[m] = Kids[m]
  <2>1. \A m \in Inners : Kids'[m] = sons'[m] BY <1>1, <1>7 DEF Kids
  <2>2. DOMAIN Kids' = Inners BY <1>7 DEF Kids
  <2> QED BY <1>2, <1>6, <1>7, <2>1, <2>2
<1>9. Tops' = Tops /\ Up' = Up BY <1>1, <1>6 DEF Tops, Up
<1>10. Shape'
  <2>1. Tree(Nodes, DOMAIN vals, Kids', Tops, chain)
    BY <1>4, <1>6, <1>8, SameTree
  <2>2. Parents(Kids', Tops, Up) BY <1>4, <1>6, <1>8 DEF Parents
  <2> QED BY <1>1, <1>7, <1>9, <2>1, <2>2 DEF Shape
<1>11. I \subseteq 0 .. Len(s) - 1 /\ (\A j \in 0 .. Len(s) - 1 : j \in I \/ j \in 0 .. work.at - 1) /\ Len(s) - 1 <= N
       /\ N \in Nat /\ I \subseteq Nat
  <2>1. N \in Nat BY <1>5, Halves
  <2> QED BY <1>2, <2>1 DEF I
<1>12. Renumbered(pos, s, I, Nodes) BY <1>2, <1>5, <1>11, NumberedIs
<1>13. /\ DOMAIN pos' = Nodes
       /\ \A j \in I : pos'[At(s, j)] = j
       /\ \A j \in 0 .. Len(s) - 1 : j \notin I => pos'[At(s, j)] = pos[At(s, j)]
       /\ \A z \in Nodes : z \notin Members(s) => pos'[z] = pos[z]
  BY <1>1, <1>5, <1>12 DEF Renumbered
<1>14. \A j \in 0 .. Len(s) - 1 : pos'[At(s, j)] = j
  BY <1>2, <1>11, <1>13, SMTT(60)
<1>15. Typed'
  <2>1. N' = N BY <1>1 DEF N
  <2>2. \A z \in Nodes : pos'[z] \in 0 .. N
    <3> TAKE z \in Nodes
    <3>1. CASE z \notin Members(s) BY <1>5, <1>13, <3>1
    <3>2. CASE z \in Members(s)
      <4>1. PICK j \in 0 .. Len(s) - 1 : At(s, j) = z BY <1>2, <3>2, MemberAt
      <4> QED BY <1>2, <1>11, <1>14, <4>1
    <3> QED BY <3>1, <3>2
  <2>3. s \in Seq(Nat) BY <1>2, <1>5, SeqSub
  <2> QED BY <1>1, <1>2, <1>5, <1>7, <1>13, <2>1, <2>2, <2>3, ZenonT(60) DEF Typed
<1>16. Placed'
  <2>1. ASSUME NEW m \in Inners, NEW j \in 1 .. Len(sons'[m]) PROVE pos'[sons'[m][j]] = j - 1
    <3>1. CASE m = n
      <4>1. j - 1 \in 0 .. Len(s) - 1 /\ (j - 1) + 1 = j BY <1>2, <1>7, <3>1
      <4> QED BY <1>7, <1>14, <3>1, <4>1 DEF At
    <3>2. CASE m # n
      <4>1. sons'[m] = sons[m] /\ sons[m] = Kids[m] BY <1>6, <1>7, <3>2
      <4>2. Kids[m] \in Seq(Nodes) BY <1>4, <1>6, SonsOf
      <4>3. sons[m][j] \in Members(Kids[m]) /\ sons[m][j] \in Nodes
        BY <4>1, <4>2, LenProperties DEF Members
      <4>4. sons[m][j] \notin Members(s)
        BY <1>2, <1>4, <1>6, <3>2, <4>3 DEF Parents
      <4>5. pos[sons[m][j]] = j - 1 BY <1>4, <3>2, <4>1 DEF Placed
      <4> QED BY <1>13, <4>1, <4>3, <4>4, <4>5
    <3> QED BY <3>1, <3>2
  <2> QED BY <1>7, <2>1 DEF Placed
<1> QED
  BY <1>1, <1>3, <1>10, <1>15, <1>16 DEF ShapeInv, NoTree, Ascending, Rebalancing

LEMMA RebalanceRoomShape ==
  ASSUME ShapeInv, RebalanceRoom, Len(sons[work.cur]) <= N + 1
  PROVE  ShapeInv'
<1> DEFINE n == work.cur
           s == Cut(sons[n], work.at)
<1>1. work.pc = "rebalance" /\ Loses(n, s)
  BY DEF RebalanceRoom, In, Loses, Resume, Erased, Returned
<1>2. Losing(n, s) BY <1>1, LosingIs
<1> HIDE DEF s
<1> QED BY <1>1, <1>2, LosesShape

(* The root goes with its second to last son. *)
LEMMA RootDrops ==
  ASSUME ShapeInv, work.pc = "rebalance", NEW n, n = work.cur, parent[n] = NULL, NEW s, Losing(n, s), Len(sons[n]) = 2,
         NEW top, top = At(sons[n], 0), use' = use, root' = top, vals' = vals, chain' = chain, keys' = Without(keys, n),
         sons' = Without(sons, n), parent' = Without([parent EXCEPT ![top] = NULL], n), pos' = Without(pos, n),
         work'.pc \in {"idle", "range"}
  PROVE  ShapeInv'
<1>1. /\ n \in Inners /\ n \in Nodes /\ work.at \in 1 .. Len(sons[n]) - 1
      /\ s = Kids[n] /\ s \in Seq(Nodes) /\ Unique(s) /\ Len(s) = Len(sons[n]) - 1 /\ Members(s) \subseteq Nodes
      /\ n \notin Members(s) /\ \A j \in 0 .. work.at - 1 : At(s, j) = At(sons[n], j)
      /\ \A z \in Members(s) : parent[z] = n
  BY DEF Losing
<1>2. root # NULL BY DEF ShapeInv, NoTree
<1>3. Tree(Nodes, DOMAIN vals, Kids, Tops, chain) /\ Parents(Kids, Tops, Up) /\ Typed /\ Placed
  BY <1>2 DEF ShapeInv, Shape
<1>4. /\ Nodes = DOMAIN vals \cup Inners /\ DOMAIN vals \cap Inners = {} /\ DOMAIN sons = Inners /\ DOMAIN pos = Nodes
      /\ DOMAIN parent = Nodes /\ DOMAIN keys = Inners /\ NULL \notin Nodes
      /\ use \in Uses /\ Nodes \subseteq Nat /\ IsFiniteSet(Nodes)
      /\ \A m \in Nodes : parent[m] \in Inners \cup {NULL} /\ pos[m] \in 0 .. N
      /\ \A m \in Inners : sons[m] \in Seq(Nat)
  BY <1>3, NullAssumption DEF Typed, Nodes, Inners
<1>5. DOMAIN Kids = Inners /\ Tops = <<root>> /\ Up = parent /\ \A m \in Inners \ {n} : Kids[m] = sons[m]
  BY <1>3, KidsAre
<1>6. n = root
  <2>1. work.pc \in Pcs /\ work.pc # "ascend" BY DEF Pcs
  <2> QED BY <1>1, <1>2, <2>1, RootHome
<1>7. s = <<top>> /\ Members(s) = {top} /\ top \in Nodes /\ top # n
  <2>1. Len(s) = 1 /\ 0 \in 0 .. work.at - 1 BY <1>1
  <2>2. s[1] = top BY <1>1, <2>1 DEF At
  <2>3. s = <<top>> BY <1>1, <2>1, <2>2
  <2>4. Members(s) = {top} BY <2>3, OneMember
  <2> QED BY <1>1, <2>3, <2>4
<1>8. /\ DOMAIN parent' = Nodes \ {n} /\ DOMAIN pos' = Nodes \ {n} /\ DOMAIN sons' = Inners \ {n} /\ DOMAIN keys' = Inners \ {n}
      /\ (\A z \in Nodes \ {n} : parent'[z] = (IF z = top THEN NULL ELSE parent[z]) /\ pos'[z] = pos[z])
      /\ \A m \in Inners \ {n} : sons'[m] = sons[m]
  BY <1>4, <1>7 DEF Without
<1>9. Nodes' = Nodes \ {n} /\ Inners' = Inners \ {n} BY <1>8 DEF Nodes, Inners
<1>10. DOMAIN Kids' = Inners \ {n} /\ \A m \in Inners \ {n} : Kids'[m] = Kids[m]
  <2>1. \A m \in Inners \ {n} : Kids'[m] = sons'[m] BY <1>8 DEF Kids
  <2>2. DOMAIN Kids' = Inners \ {n} BY <1>8 DEF Kids
  <2> QED BY <1>5, <1>8, <2>1, <2>2
<1>11. Tops' = Kids[n] /\ Up' = parent' BY <1>1, <1>7 DEF Tops, Up
<1>12. /\ Tops = <<n>> /\ Tree(Nodes, DOMAIN vals, Kids, Tops, chain) /\ n \in DOMAIN Kids /\ NULL \notin Nodes
       /\ Parents(Kids, Tops, Up)
       /\ DOMAIN Kids' = DOMAIN Kids \ {n} /\ \A m \in DOMAIN Kids \ {n} : Kids'[m] = Kids[m]
  BY <1>1, <1>3, <1>4, <1>5, <1>6, <1>10
<1>13. Tree(Nodes \ {n}, DOMAIN vals, Kids', Kids[n], chain)
  <2>1. Tree(Nodes, DOMAIN vals, Kids, <<n>>, chain) BY <1>12
  <2>2. \A m \in DOMAIN Kids' : Kids'[m] = Kids[m] BY <1>12
  <2> QED BY <1>12, <2>1, <2>2, DropRoot
<1>14. Parents(Kids', Kids[n], parent')
  <2>1. \A z \in Nodes \ {n} : parent'[z] = IF z \in Members(Kids[n]) THEN NULL ELSE Up[z]
    <3>1. Members(Kids[n]) = {top} BY <1>1, <1>7
    <3> QED BY <1>5, <1>8, <3>1
  <2>2. DroppedParents(Nodes, DOMAIN vals, Kids, chain, n, Tops, Kids', Up, parent')
    BY <1>12, <2>1, DropRootParents, ZenonT(60)
  <2> QED BY <2>2 DEF DroppedParents
<1>15. Shape' BY <1>9, <1>11, <1>13, <1>14 DEF Shape
<1>16. Typed'
  <2>1. IsFiniteSet(Nodes \ {n}) BY <1>4, FS_RemoveElement
  <2>2. N' = N BY DEF N
  <2>3. \A z \in Nodes \ {n} : parent'[z] \in (Inners \ {n}) \cup {NULL}
    <3> TAKE z \in Nodes \ {n}
    <3>1. CASE z = top BY <1>8, <3>1
    <3>2. CASE z # top
      <4>1. parent[z] # n
        <5> SUFFICES ASSUME parent[z] = n PROVE FALSE OBVIOUS
        <5>1. Up[z] # NULL /\ Up[z] = n BY <1>1, <1>4, <1>5
        <5>2. z \in Members(Kids[n]) BY <1>2, <5>1, Homes
        <5> QED BY <1>1, <1>7, <3>2, <5>2
      <4> QED BY <1>4, <1>8, <3>2, <4>1
    <3> QED BY <3>1, <3>2
  <2>4. Nodes \ {n} = DOMAIN vals \cup (Inners \ {n}) BY <1>1, <1>4
  <2> QED BY <1>4, <1>7, <1>8, <1>9, <2>1, <2>2, <2>3, <2>4, ZenonT(60) DEF Typed
<1>17. Placed'
  <2>1. ASSUME NEW m \in Inners \ {n}, NEW j \in 1 .. Len(sons'[m]) PROVE pos'[sons'[m][j]] = j - 1
    <3>1. sons'[m] = sons[m] /\ sons[m] = Kids[m] BY <1>5, <1>8
    <3>2. Kids[m] \in Seq(Nodes) BY <1>3, <1>5, SonsOf
    <3>3. sons[m][j] \in Members(Kids[m]) /\ sons[m][j] \in Nodes
      BY <3>1, <3>2, LenProperties DEF Members
    <3>4. Up[sons[m][j]] = m /\ m # NULL BY <1>3, <1>4, <1>5, <3>3 DEF Parents
    <3>5. sons[m][j] # n BY <1>5, <3>4
    <3>6. pos[sons[m][j]] = j - 1 BY <1>3, <3>1 DEF Placed
    <3> QED BY <1>8, <3>1, <3>3, <3>5, <3>6
  <2> QED BY <1>9, <2>1 DEF Placed
<1>18. root' # NULL BY <1>4, <1>7
<1> QED
  BY <1>15, <1>16, <1>17, <1>18 DEF ShapeInv, NoTree, Ascending, Rebalancing

LEMMA RebalanceRootShape ==
  ASSUME ShapeInv, RebalanceRoot, Len(sons[work.cur]) = Len(keys[work.cur]) + 1, Len(keys[work.cur]) <= N,
         Len(keys[work.cur]) \in Nat
  PROVE  ShapeInv'
<1> DEFINE n == work.cur
           s == Cut(sons[n], work.at)
           top == At(sons[n], 0)
<1>1. work.pc = "rebalance" /\ parent[n] = NULL /\ work'.pc \in {"idle", "range"} /\ use' = use /\ vals' = vals /\ chain' = chain
  BY DEF RebalanceRoot, In, Resume, Erased, Returned
<1>2. Losing(n, s) BY <1>1, LosingIs
<1>3. CASE Len(keys[n]) = 1
  <2>1. /\ root' = top /\ keys' = Without(keys, n) /\ sons' = Without(sons, n)
        /\ parent' = Without([parent EXCEPT ![top] = NULL], n) /\ pos' = Without(pos, n)
    BY <1>3 DEF RebalanceRoot
  <2>2. Len(sons[n]) = 2 BY <1>3
  <2> HIDE DEF s, top, n
  <2>3. top = At(sons[n], 0) /\ n = work.cur BY DEF top, n
  <2> QED BY <1>1, <1>2, <2>1, <2>2, <2>3, RootDrops
<1>4. CASE Len(keys[n]) # 1
  <2>1. Loses(n, s) BY <1>1, <1>4 DEF RebalanceRoot, Loses
  <2>2. Len(sons[n]) <= N + 1
    <3>1. use \in Uses BY DEF ShapeInv, Typed
    <3>2. N \in Nat BY <3>1, Halves
    <3> QED BY <3>2
  <2> HIDE DEF s
  <2> QED BY <1>1, <1>2, <2>1, <2>2, LosesShape
<1> QED BY <1>3, <1>4

(* The right one of two neighbouring inner nodes goes into the left one. *)
InnerLeaves(x, y, par, i, s) ==
  /\ x \in Inners /\ y \in Inners /\ x # y /\ par \in Inners /\ par # work.cur /\ s \in Seq(Nodes) /\ s = Kids[x] \o Kids[y]
  /\ Unique(s) /\ y \notin Members(s)
  /\ use' = use /\ root' = root /\ vals' = vals /\ chain' = chain /\ DOMAIN keys' = DOMAIN keys \ {y}
  /\ DOMAIN sons' = DOMAIN sons \ {y} /\ sons'[x] = s /\ \A n \in Inners \ {x, y} : sons'[n] = sons[n]
  /\ DOMAIN parent' = Nodes \ {y}
  /\ \A z \in Nodes \ {y} : parent'[z] = IF z \in Members(Kids[y]) THEN x ELSE parent[z]
  /\ DOMAIN pos' = Nodes \ {y} /\ \A j \in 0 .. Len(s) - 1 : pos'[At(s, j)] = j
  /\ \A z \in Nodes \ {y} : z \notin Members(s) => pos'[z] = pos[z]
  /\ work'.pc = "rebalance" /\ work'.cur = par /\ work'.at = i + 1 /\ Len(s) <= N + 1

LEMMA InnerGoneShape ==
  ASSUME ShapeInv, work.pc = "rebalance", NEW x, NEW y, NEW par, NEW i, Beside(x, y, par, i),
         work.cur = x \/ work.cur = y, NEW s, InnerLeaves(x, y, par, i, s)
  PROVE  ShapeInv'
<1>1. /\ x \in Inners /\ y \in Inners /\ x # y /\ s \in Seq(Nodes) /\ s = Kids[x] \o Kids[y] /\ par # work.cur
      /\ Unique(s) /\ y \notin Members(s)
      /\ use' = use /\ root' = root /\ vals' = vals /\ chain' = chain /\ DOMAIN keys' = Inners \ {y}
      /\ DOMAIN sons' = DOMAIN sons \ {y} /\ sons'[x] = s /\ \A n \in Inners \ {x, y} : sons'[n] = sons[n]
  BY DEF InnerLeaves, Inners
<1>2. /\ DOMAIN parent' = Nodes \ {y}
      /\ \A z \in Nodes \ {y} : parent'[z] = IF z \in Members(Kids[y]) THEN x ELSE parent[z]
      /\ DOMAIN pos' = Nodes \ {y} /\ \A j \in 0 .. Len(s) - 1 : pos'[At(s, j)] = j
      /\ \A z \in Nodes \ {y} : z \notin Members(s) => pos'[z] = pos[z]
      /\ work'.pc = "rebalance" /\ work'.cur = par /\ work'.at = i + 1 /\ Len(s) <= N + 1
  BY DEF InnerLeaves
<1>3. /\ par # NULL /\ par \in Inners /\ sons[par] \in Seq(Nodes) /\ Unique(sons[par]) /\ i \in 0 .. Len(sons[par]) - 2
      /\ x \in Members(sons[par]) /\ y \in Members(sons[par]) /\ parent[x] = par /\ parent[y] = par
      /\ At(sons[par], i) = x /\ At(sons[par], i + 1) = y /\ x # par /\ y # par /\ Kids[par] = sons[par]
      /\ x \in Nodes /\ y \in Nodes /\ pos[y] = i + 1
  BY DEF Beside, IsSon
<1>4. root # NULL BY DEF ShapeInv, NoTree
<1>5. Tree(Nodes, DOMAIN vals, Kids, Tops, chain) /\ Parents(Kids, Tops, Up) /\ Typed /\ Placed
  BY <1>4 DEF ShapeInv, Shape
<1>6. /\ Nodes = DOMAIN vals \cup Inners /\ DOMAIN vals \cap Inners = {} /\ DOMAIN sons = Inners /\ DOMAIN pos = Nodes
      /\ NULL \notin Nodes /\ use \in Uses /\ Nodes \subseteq Nat /\ IsFiniteSet(Nodes)
      /\ \A m \in Nodes : parent[m] \in Inners \cup {NULL} /\ pos[m] \in 0 .. N
      /\ \A m \in Inners : sons[m] \in Seq(Nat)
  BY <1>5, NullAssumption DEF Typed
<1>7. DOMAIN Kids = Inners /\ Tops = <<root>> /\ Up = parent /\ \A m \in Inners \ {x, y} : Kids[m] = sons[m]
  BY <1>5, KidsAre
<1>8. root \in Nodes /\ root # y
  <2>1. work.pc \in Pcs /\ work.pc # "ascend" BY DEF Pcs
  <2>2. root \in Nodes /\ parent[root] = NULL BY <1>4, <2>1, RootHas
  <2> QED BY <1>3, <2>2
<1>9. Nodes' = Nodes \ {y} /\ Inners' = Inners \ {y}
  BY <1>1, <1>2 DEF Nodes, Inners
<1>10. Cut(sons[par], i + 1) = Unlinked(sons[par], y)
  <2>1. i + 1 \in 0 .. Len(sons[par]) - 1 BY <1>3, LenProperties
  <2> QED BY <1>3, <2>1, LinkedAt
<1>11. /\ DOMAIN Kids' = Inners \ {y} /\ Kids'[x] = Kids[x] \o Kids[y] /\ Kids'[par] = Unlinked(Kids[par], y)
       /\ \A m \in Inners \ {x, y, par} : Kids'[m] = Kids[m]
  <2>1. DOMAIN sons' = Inners \ {y} BY <1>1, <1>6
  <2>2. \A n \in Inners \ {y} : Kids'[n] = IF n = par THEN Cut(sons'[n], i + 1) ELSE sons'[n]
    BY <1>2, <2>1 DEF Kids
  <2>3. DOMAIN Kids' = Inners \ {y} BY <2>1 DEF Kids
  <2> QED BY <1>1, <1>3, <1>7, <1>10, <2>2, <2>3, ZenonT(60)
<1>12. Tops' = Tops /\ Up' = parent' BY <1>1, <1>2, <1>7 DEF Tops, Up
<1>13. Leaves(Nodes, DOMAIN vals, Kids, chain, x, y, par, DOMAIN vals, Kids', chain)
  <2>1. y \notin DOMAIN vals BY <1>1, <1>6
  <2>2. \E P, Q \in Seq(Nodes) : sons[par] = Pairs(P, At(sons[par], i), At(sons[par], i + 1), Q)
    BY <1>3, PairsAt, SMTT(60)
  <2>3. \E P, Q \in Seq(Nodes) : Kids[par] = Pairs(P, x, y, Q) BY <1>3, <2>2
  <2> QED BY <1>3, <1>7, <1>11, <2>1, <2>3 DEF Leaves
<1>14. /\ Tree(Nodes, DOMAIN vals, Kids, Tops, chain) /\ NULL \notin Nodes /\ y \in Nodes /\ par \in DOMAIN Kids
       /\ y \in Members(Kids[par]) /\ Kids'[par] = Unlinked(Kids[par], y) /\ Parents(Kids, Tops, Up)
       /\ \A z \in DOMAIN Kids \ {par, y} : ~(z = x /\ y \notin DOMAIN vals) => Kids'[z] = Kids[z]
  <2>1. y \notin DOMAIN vals BY <1>1, <1>6
  <2> QED BY <1>3, <1>5, <1>6, <1>7, <1>11, <2>1
<1>15. Tree(Nodes \ {y}, DOMAIN vals, Kids', Tops, chain)
  BY <1>13, <1>14, Shrink
<1>16. Parents(Kids', Tops, parent')
  <2>1. y \notin DOMAIN vals BY <1>1, <1>6
  <2>2. \A z \in Nodes \ {y} : parent'[z] = IF y \notin DOMAIN vals /\ z \in Members(Kids[y]) THEN x ELSE Up[z]
    BY <1>2, <1>7, <2>1
  <2> QED BY <1>13, <1>14, <2>2, ShrinkParents
<1>17. Typed'
  <2>1. IsFiniteSet(Nodes \ {y}) BY <1>6, FS_RemoveElement
  <2>2. N' = N /\ N \in Nat BY <1>1, <1>6, Halves DEF N
  <2>3. \A z \in Nodes \ {y} : parent'[z] \in (Inners \ {y}) \cup {NULL}
    <3> TAKE z \in Nodes \ {y}
    <3>1. CASE z \in Members(Kids[y]) BY <1>1, <1>2, <3>1
    <3>2. CASE z \notin Members(Kids[y])
      <4>1. parent[z] # y
        <5> SUFFICES ASSUME parent[z] = y PROVE FALSE OBVIOUS
        <5>1. Up[z] # NULL /\ Up[z] = y BY <1>3, <1>6, <1>7, ZenonT(60)
        <5>2. z \in Members(Kids[y]) BY <1>4, <5>1, Homes
        <5> QED BY <3>2, <5>2
      <4> QED BY <1>2, <1>6, <3>2, <4>1
    <3> QED BY <3>1, <3>2
  <2>4. Nodes \ {y} = DOMAIN vals \cup (Inners \ {y}) BY <1>1, <1>6
  <2>5. \A n \in Inners \ {y} : sons'[n] \in Seq(Nat)
    <3>1. s \in Seq(Nat) BY <1>1, <1>6, MembersIn, SeqSub
    <3> QED BY <1>1, <1>6, <3>1
  <2>6. \A z \in Nodes \ {y} : pos'[z] \in 0 .. N
    <3> TAKE z \in Nodes \ {y}
    <3>1. CASE z \notin Members(s) BY <1>2, <1>6, <3>1
    <3>2. CASE z \in Members(s)
      <4>1. PICK j \in 0 .. Len(s) - 1 : At(s, j) = z BY <1>1, <3>2, MemberAt
      <4>2. Len(s) \in Nat BY <1>1, LenProperties
      <4>3. j \in 0 .. N BY <1>2, <2>2, <4>2
      <4> QED BY <1>2, <4>1, <4>3
    <3> QED BY <3>1, <3>2
  <2> QED BY <1>1, <1>2, <1>6, <1>8, <1>9, <2>1, <2>2, <2>3, <2>4, <2>5, <2>6 DEF Typed
<1>18. Placed'
  <2>1. ASSUME NEW n \in Inners \ {y}, NEW j \in 1 .. Len(sons'[n]), ~(n = par /\ j = (i + 1) + 1)
        PROVE  pos'[sons'[n][j]] = j - 1
    <3>1. CASE n = x
      <4>1. j - 1 \in 0 .. Len(s) - 1 /\ (j - 1) + 1 = j
        <5>1. Len(s) \in Nat BY <1>1, LenProperties
        <5>2. j \in 1 .. Len(s) BY <1>1, <3>1
        <5> QED BY <5>1, <5>2
      <4> QED BY <1>1, <1>2, <3>1, <4>1 DEF At
    <3>2. CASE n # x
      <4>1. sons'[n] = sons[n] /\ sons[n] = Kids[n] /\ n \in Inners
        BY <1>1, <1>7, <3>2
      <4>2. Kids[n] \in Seq(Nodes) BY <1>5, <1>7, <4>1, SonsOf
      <4>3. sons[n][j] \in Members(Kids[n]) /\ sons[n][j] \in Nodes
        BY <4>1, <4>2, LenProperties DEF Members
      <4>4. sons[n][j] \notin Members(s)
        <5>1. Kids[x] \in Seq(Nodes) /\ Kids[y] \in Seq(Nodes)
          BY <1>1, <1>5, <1>7, SonsOf
        <5>2. ConcatHas(Kids[x], Kids[y], Nodes) BY <5>1, MembersConcat
        <5>4. \A q \in Inners : \A z \in Members(Kids[q]) : Up[z] = q
          BY <1>5, <1>7 DEF Parents
        <5>5. Up[sons[n][j]] = n /\ n # x /\ n # y BY <3>2, <4>1, <4>3, <5>4
        <5>3. sons[n][j] \notin Members(Kids[x]) /\ sons[n][j] \notin Members(Kids[y])
          BY <1>1, <5>4, <5>5
        <5> QED BY <1>1, <5>2, <5>3 DEF ConcatHas
      <4>5. pos[sons[n][j]] = j - 1
        <5>1. n # work.cur BY <2>1, <3>2
        <5> QED BY <1>5, <4>1, <5>1 DEF Placed
      <4>6. sons[n][j] # y
        <5> SUFFICES ASSUME sons[n][j] = y PROVE FALSE OBVIOUS
        <5>1. Up[y] = n BY <1>5, <1>7, <4>1, <4>3 DEF Parents
        <5>2. n = par BY <1>3, <1>7, <5>1
        <5>3. j - 1 = i + 1 BY <1>3, <4>5
        <5>4. j = (i + 1) + 1 BY <1>3, <5>3
        <5> QED BY <2>1, <5>2, <5>4
      <4> QED BY <1>2, <4>1, <4>3, <4>4, <4>5, <4>6
    <3> QED BY <3>1, <3>2
  <2> QED BY <1>2, <1>9, <2>1 DEF Placed
<1>19. Shape' BY <1>1, <1>9, <1>12, <1>15, <1>16 DEF Shape
<1>20. Rebalancing'
  <2>1. sons'[par] = sons[par] /\ par \in Inners \ {y} /\ Len(sons[par]) \in Nat
    BY <1>1, <1>3, LenProperties
  <2>2. i + 1 \in 1 .. Len(sons[par]) - 1 BY <1>3, <2>1
  <2> QED BY <1>2, <1>9, <2>1, <2>2 DEF Rebalancing
<1> QED
  BY <1>1, <1>2, <1>4, <1>17, <1>18, <1>19, <1>20 DEF ShapeInv, NoTree, Ascending

(* The sons behind the first m told their parent, which the first ones have *)
(* already. *)
TailAdopted(A, B, m, q, par, E) ==
  LET s == A \o B
      r == Adopted(q, s, m .. Len(s) - 1, par)
  IN  DOMAIN r = DOMAIN q /\ \A n \in DOMAIN q : r[n] = IF n \in Members(B) THEN par ELSE q[n]

LEMMA AdoptsTail ==
  ASSUME NEW E, NEW A \in Seq(E), NEW B \in Seq(E), NEW m \in 0 .. Len(A), NEW q, NEW par,
         \A z \in Members(A) : q[z] = par
  PROVE  TailAdopted(A, B, m, q, par, E)
<1> DEFINE s == A \o B
           I == m .. Len(s) - 1
<1>1. ConcatHas(A, B, E) BY MembersConcat
<1>2. s \in Seq(E) BY ConcatType
<1>3. Len(A) \in Nat /\ Len(B) \in Nat /\ Len(s) = Len(A) + Len(B) /\ \A j \in 1 .. Len(B) : s[Len(A) + j] = B[j]
  BY LenProperties, ConcatProperties
<1>4. Members(s) = Members(A) \cup Members(B) BY <1>1 DEF ConcatHas
<1> HIDE DEF s, I
<1>5. ASSUME NEW n \in Members(B) PROVE \E i \in I : At(s, i) = n
  <2>1. PICK j \in 1 .. Len(B) : B[j] = n BY <1>5 DEF Members
  <2>2. (Len(A) + j) - 1 \in I /\ ((Len(A) + j) - 1) + 1 = Len(A) + j
    BY <1>3 DEF I
  <2>3. At(s, (Len(A) + j) - 1) = n BY <1>3, <2>1, <2>2 DEF At
  <2> QED BY <2>2, <2>3
<1>6. ASSUME NEW n, NEW i \in I, At(s, i) = n PROVE n \in Members(A) \/ n \in Members(B)
  <2>1. i \in 0 .. Len(s) - 1 BY <1>3 DEF I
  <2>2. At(s, i) \in Members(s) BY <1>2, <2>1, AtMember
  <2> QED BY <1>4, <1>6, <2>2
<1>7. \A n \in DOMAIN q : (IF \E i \in I : At(s, i) = n THEN par ELSE q[n]) = IF n \in Members(B) THEN par ELSE q[n]
  BY <1>5, <1>6
<1> QED BY <1>7 DEF TailAdopted, Adopted, I, s

LEMMA ConcatUnique ==
  ASSUME NEW E, NEW A \in Seq(E), NEW B \in Seq(E), Unique(A), Unique(B), Members(A) \cap Members(B) = {}
  PROVE  Unique(A \o B)
<1> DEFINE a == Len(A)
           b == Len(B)
           s == A \o B
<1>1. a \in Nat /\ b \in Nat BY LenProperties
<1>2. Len(s) = a + b /\ (\A j \in 1 .. a : s[j] = A[j]) /\ \A j \in 1 .. b : s[a + j] = B[j]
  BY ConcatProperties, LenProperties
<1> HIDE DEF a, b, s
<1>3. ASSUME NEW j \in 1 .. Len(s) PROVE j \in 1 .. a \/ (j - a \in 1 .. b /\ a + (j - a) = j)
  BY <1>1, <1>2
<1>4. \A j \in 1 .. a : A[j] \in Members(A) BY DEF Members, a
<1>5. \A j \in 1 .. b : B[j] \in Members(B) BY DEF Members, b
<1>6. ASSUME NEW j \in 1 .. Len(s), NEW h \in 1 .. Len(s), s[j] = s[h] PROVE j = h
  <2>1. CASE j \in 1 .. a /\ h \in 1 .. a BY <1>2, <1>6, <2>1 DEF Unique, a
  <2>2. CASE j \in 1 .. a /\ h - a \in 1 .. b /\ a + (h - a) = h
    BY <1>2, <1>4, <1>5, <1>6, <2>2
  <2>3. CASE h \in 1 .. a /\ j - a \in 1 .. b /\ a + (j - a) = j
    BY <1>2, <1>4, <1>5, <1>6, <2>3
  <2>4. CASE j - a \in 1 .. b /\ a + (j - a) = j /\ h - a \in 1 .. b /\ a + (h - a) = h
    <3>1. B[j - a] = B[h - a] BY <1>2, <1>6, <2>4
    <3>2. j - a = h - a BY <2>4, <3>1 DEF Unique, b
    <3> QED BY <2>4, <3>2
  <2> QED BY <1>3, <2>1, <2>2, <2>3, <2>4
<1> QED BY <1>6 DEF Unique, s

(* Neighbours are leaves both, or inner nodes both. *)
LEMMA SameKind ==
  ASSUME ShapeInv, root # NULL, NEW x, NEW y, NEW par, NEW i, Beside(x, y, par, i)
  PROVE  x \in Inners <=> y \in Inners
<1>1. Tree(Nodes, DOMAIN vals, Kids, Tops, chain) /\ Typed
  BY DEF ShapeInv, Shape
<1>2. DOMAIN Kids = Inners BY <1>1, KidsAre
<1>3. /\ par \in Inners /\ sons[par] \in Seq(Nodes) /\ i \in 0 .. Len(sons[par]) - 2 /\ x \in Nodes /\ y \in Nodes
      /\ At(sons[par], i) = x /\ At(sons[par], i + 1) = y /\ Kids[par] = sons[par]
  BY DEF Beside, IsSon
<1>4. \E P, Q \in Seq(Nodes) : sons[par] = Pairs(P, At(sons[par], i), At(sons[par], i + 1), Q)
  BY <1>3, PairsAt
<1>5. PICK P \in Seq(Nodes), Q \in Seq(Nodes) : Kids[par] = Pairs(P, x, y, Q)
  BY <1>3, <1>4
<1>6. PICK m, lev, ht : Levels(Nodes, DOMAIN vals, Kids, Tops, chain, m, lev, ht)
  BY <1>1 DEF Tree
<1>7. ht[x] = ht[y] BY <1>2, <1>3, <1>5, <1>6, Neighbours
<1>8. (\A z \in DOMAIN vals : ht[z] = 1) /\ \A z \in Inners : ht[z] # 1
  BY <1>2, <1>6 DEF Levels
<1>9. Nodes = DOMAIN vals \cup Inners BY <1>1, SMTT(60) DEF Typed
<1> QED BY <1>3, <1>7, <1>8, <1>9

LEMMA MergeLeaves ==
  ASSUME ShapeInv, work.pc = "rebalance", NEW x, NEW y, NEW par, NEW i, Beside(x, y, par, i), x \in Inners, y \in Inners,
         work.cur = x \/ work.cur = y, NEW s, s = Kids[x] \o Kids[y], Len(s) = 2 * FloorHalf + 1,
         FloorHalf <= Len(Kids[x]), NEW I, I \subseteq 0 .. Len(s) - 1,
         \A j \in 0 .. Len(s) - 1 : j \notin I => pos[At(s, j)] = j,
         use' = use, NEW k, InnerMerged(x, k, s, y, I, par, i + 1)
  PROVE  InnerLeaves(x, y, par, i, s)
<1> DEFINE A == Kids[x]
           B == Kids[y]
           q == Adopted(parent, s, FloorHalf .. Len(s) - 1, x)
           p == Numbered(pos, s, I)
<1>1. root # NULL BY DEF ShapeInv, NoTree
<1>2. Tree(Nodes, DOMAIN vals, Kids, Tops, chain) /\ Parents(Kids, Tops, Up) /\ Typed /\ Placed
  BY <1>1 DEF ShapeInv, Shape
<1>3. DOMAIN Kids = Inners /\ Up = parent BY <1>2, KidsAre
<1>4. /\ Nodes = DOMAIN vals \cup Inners /\ DOMAIN pos = Nodes /\ DOMAIN parent = Nodes /\ DOMAIN keys = Inners
      /\ DOMAIN sons = Inners /\ NULL \notin Nodes /\ use \in Uses
  BY <1>2, NullAssumption DEF Typed, Nodes, Inners
<1>5. /\ N \in Nat /\ FloorHalf \in Nat /\ CeilHalf \in Nat /\ FloorHalf + CeilHalf = N /\ FloorHalf <= CeilHalf
  BY <1>4, Halves
<1>6. x \in Nodes /\ y \in Nodes /\ x # y /\ par \in Inners /\ par # x /\ par # y /\ parent[x] = par /\ parent[y] = par
  BY DEF Beside, IsSon
<1>7. A \in Seq(Nodes) /\ B \in Seq(Nodes) /\ Unique(A) /\ Unique(B)
  BY <1>2, <1>3, SonsOf
<1>8. (\A z \in Members(A) : parent[z] = x) /\ \A z \in Members(B) : parent[z] = y
  BY <1>2, <1>3 DEF Parents
<1>9. /\ keys' = Without([keys EXCEPT ![x] = k], y) /\ sons' = Without([sons EXCEPT ![x] = s], y)
      /\ parent' = Without(q, y) /\ pos' = Without(p, y)
      /\ work' = [work EXCEPT !.cur = par, !.at = i + 1]
      /\ root' = root /\ vals' = vals /\ chain' = chain
  <2>1. FloorHalf .. 2 * FloorHalf = FloorHalf .. Len(s) - 1 BY <1>5
  <2> QED BY <2>1 DEF InnerMerged
<1>10. work'.pc = "rebalance" /\ work'.cur = par /\ work'.at = i + 1 BY <1>9
<1>11. s \in Seq(Nodes) /\ Members(s) = Members(A) \cup Members(B)
  <2>1. ConcatHas(A, B, Nodes) BY <1>7, MembersConcat
  <2>2. A \o B \in Seq(Nodes) BY <1>7, ConcatType
  <2> QED BY <2>1, <2>2 DEF ConcatHas
<1>12. Unique(s)
  <2>1. Members(A) \cap Members(B) = {} BY <1>6, <1>8
  <2>2. Unique(A \o B) BY <1>7, <2>1, ConcatUnique
  <2> QED BY <2>2
<1>13. y \notin Members(s) BY <1>6, <1>8, <1>11
<1>14. Members(s) \subseteq Nodes BY <1>11, MembersIn
<1> HIDE DEF A, B, q, p
<1>15. DOMAIN q = Nodes /\ \A z \in Nodes : q[z] = IF z \in Members(B) THEN x ELSE parent[z]
  <2>1. FloorHalf \in 0 .. Len(A)
    <3>1. Len(A) \in Nat BY <1>7, LenProperties
    <3> QED BY <1>5, <3>1 DEF A
  <2>2. TailAdopted(A, B, FloorHalf, parent, x, Nodes)
    BY <1>7, <1>8, <2>1, AdoptsTail
  <2>3. s = A \o B BY DEF A, B
  <2> QED BY <1>4, <2>2, <2>3 DEF TailAdopted, q
<1>16. Renumbered(pos, s, I, Nodes) BY <1>4, <1>11, <1>12, <1>14, NumberedIs
<1>17. /\ DOMAIN p = Nodes
       /\ \A j \in 0 .. Len(s) - 1 : p[At(s, j)] = j
       /\ \A z \in Nodes : z \notin Members(s) => p[z] = pos[z]
  BY <1>4, <1>16 DEF Renumbered, p
<1>18. DOMAIN parent' = Nodes \ {y} /\ \A z \in Nodes \ {y} : parent'[z] = IF z \in Members(B) THEN x ELSE parent[z]
  BY <1>9, <1>15 DEF Without
<1>19. /\ DOMAIN pos' = Nodes \ {y} /\ \A j \in 0 .. Len(s) - 1 : pos'[At(s, j)] = j
       /\ \A z \in Nodes \ {y} : z \notin Members(s) => pos'[z] = pos[z]
  <2>1. DOMAIN pos' = Nodes \ {y} /\ \A z \in Nodes \ {y} : pos'[z] = p[z]
    BY <1>9, <1>17 DEF Without
  <2>2. \A j \in 0 .. Len(s) - 1 : At(s, j) \in Members(s) BY <1>11, AtMember
  <2> QED BY <1>13, <1>14, <1>17, <2>1, <2>2
<1>20. /\ DOMAIN keys' = DOMAIN keys \ {y} /\ DOMAIN sons' = DOMAIN sons \ {y} /\ sons'[x] = s
       /\ \A n \in Inners \ {x, y} : sons'[n] = sons[n]
  BY <1>4, <1>6, <1>9 DEF Without
<1>21. Len(s) <= N + 1 /\ par # work.cur BY <1>5, <1>6
<1> QED
  BY <1>6, <1>9, <1>10, <1>11, <1>12, <1>13, <1>18, <1>19, <1>20, <1>21 DEF InnerLeaves, B

Filled ==
  /\ base \in Seq(Elems) /\ Len(base) <= 2 /\ (root # NULL => base = <<>>)
  /\ \A l \in DOMAIN vals : vals[l] \in Seq(Elems)
  /\ \A n \in Inners : keys[n] \in Seq(Keys) /\ Len(sons[n]) = Len(keys[n]) + 1

Sized ==
  /\ \A n \in Nodes : SizeOf(n) \in 1 .. N /\ (n # root => SizeOf(n) >= FloorHalf)
  /\ work.pc = "ascend" => SizeOf(work.cur) >= FloorHalf

Sides(z, par) ==
  /\ UsesLeft(par, pos[z]) => Beside(At(sons[par], pos[z] - 1), z, par, pos[z] - 1)
  /\ ~UsesLeft(par, pos[z]) => Beside(z, At(sons[par], pos[z] + 1), par, pos[z])

(* How many sons an inner node has. *)
LEMMA SonsMany ==
  ASSUME ShapeInv, Filled, Sized, NEW n \in Inners
  PROVE  /\ n \in Nodes /\ keys[n] \in Seq(Keys) /\ sons[n] \in Seq(Nat)
         /\ Len(keys[n]) \in 1 .. N /\ Len(sons[n]) = Len(keys[n]) + 1 /\ SizeOf(n) = Len(keys[n]) /\ n \notin DOMAIN vals
<1>1. Typed BY DEF ShapeInv
<1>2. n \in Nodes /\ sons[n] \in Seq(Nat) /\ n \notin DOMAIN vals
  BY <1>1 DEF Typed
<1>3. SizeOf(n) = Len(keys[n]) BY <1>2 DEF SizeOf, IsLeaf
<1> QED BY <1>2, <1>3 DEF Filled, Sized

LEMMA LeafHolds ==
  ASSUME ShapeInv, Filled, Sized, NEW l \in DOMAIN vals
  PROVE  l \in Nodes /\ vals[l] \in Seq(Elems) /\ Len(vals[l]) \in 1 .. N /\ SizeOf(l) = Len(vals[l]) /\ l \notin Inners
<1>1. Typed BY DEF ShapeInv
<1>2. l \in Nodes /\ l \notin Inners BY <1>1 DEF Typed
<1>3. SizeOf(l) = Len(vals[l]) BY <1>2 DEF SizeOf, IsLeaf
<1> QED BY <1>2, <1>3 DEF Filled, Sized

LEMMA SidesAre ==
  ASSUME ShapeInv, Filled, Sized, root # NULL, work.pc # "ascend", work.pc \in Pcs, NEW z \in Nodes, NEW par, par = parent[z],
         par # NULL, ~(work.pc = "rebalance" /\ par = work.cur)
  PROVE  Sides(z, par)
<1>1. IsSon(z, par) BY SonHome
<1>2. par \in Inners /\ pos[z] \in 0 .. Len(sons[par]) - 1 /\ At(sons[par], pos[z]) = z
  BY <1>1 DEF IsSon
<1>3. Len(sons[par]) = Len(keys[par]) + 1 /\ Len(keys[par]) \in Nat /\ Len(keys[par]) >= 1 /\ N \in Nat
  <2>1. use \in Uses BY DEF ShapeInv, Typed
  <2>2. N \in Nat BY <2>1, Halves
  <2> QED BY <1>2, <2>2, SonsMany, SMTT(60)
<1>4. ASSUME UsesLeft(par, pos[z]) PROVE Beside(At(sons[par], pos[z] - 1), z, par, pos[z] - 1)
  <2> DEFINE i == pos[z] - 1
  <2>1. pos[z] # 0 BY <1>4 DEF UsesLeft
  <2>2. i \in 0 .. Len(sons[par]) - 2 /\ i + 1 = pos[z] BY <1>2, <1>3, <2>1
  <2> HIDE DEF i
  <2>3. Beside(At(sons[par], i), At(sons[par], i + 1), par, i) BY <2>2, BesideIs
  <2> QED BY <1>2, <2>2, <2>3 DEF i
<1>5. ASSUME ~UsesLeft(par, pos[z]) PROVE Beside(z, At(sons[par], pos[z] + 1), par, pos[z])
  <2>1. pos[z] = 0 \/ pos[z] < Len(keys[par]) BY <1>5 DEF UsesLeft
  <2>2. pos[z] \in 0 .. Len(sons[par]) - 2 BY <1>2, <1>3, <2>1
  <2>3. Beside(At(sons[par], pos[z]), At(sons[par], pos[z] + 1), par, pos[z])
    BY <2>2, BesideIs
  <2> QED BY <1>2, <2>3
<1> QED BY <1>4, <1>5 DEF Sides

(* What the step that merges an underfull inner node starts from. *)
Under(n, c) ==
  /\ n = work.cur /\ work.pc = "rebalance" /\ root # NULL /\ parent[n] # NULL /\ parent[n] # n
  /\ Losing(n, c) /\ c = Cut(sons[n], work.at) /\ Len(c) = FloorHalf /\ Sides(n, parent[n]) /\ n \in Inners
  /\ Kids[n] = c /\ DOMAIN Kids = Inners /\ \A m \in Inners \ {n} : Kids[m] = sons[m]
  /\ FloorHalf \in Nat /\ FloorHalf >= 2 /\ 2 * FloorHalf <= N /\ N \in Nat

LEMMA UnderIs ==
  ASSUME ShapeInv, Filled, Sized, work.pc = "rebalance", parent[work.cur] # NULL, Len(keys[work.cur]) = FloorHalf
  PROVE  Under(work.cur, Cut(sons[work.cur], work.at))
<1> DEFINE n == work.cur
           c == Cut(sons[n], work.at)
<1>1. Losing(n, c) BY LosingIs
<1>2. n \in Inners /\ n \in Nodes /\ Len(c) = Len(sons[n]) - 1 /\ c = Kids[n]
  BY <1>1 DEF Losing
<1>3. Len(sons[n]) = Len(keys[n]) + 1 /\ use \in Uses /\ Typed
  BY <1>2, SonsMany DEF ShapeInv, Typed
<1>4. /\ N \in Nat /\ FloorHalf \in Nat /\ CeilHalf \in Nat /\ FloorHalf >= 2
      /\ FloorHalf + CeilHalf = N /\ FloorHalf <= CeilHalf
  BY <1>3, Halves
<1>5. Len(c) = FloorHalf BY <1>2, <1>3, <1>4
<1>6. root # NULL BY DEF ShapeInv, NoTree
<1>7. Up = parent /\ DOMAIN Kids = Inners /\ \A m \in Inners \ {n} : Kids[m] = sons[m]
  BY <1>3, KidsAre
<1>8. parent[n] # n
  <2> SUFFICES ASSUME parent[n] = n PROVE FALSE OBVIOUS
  <2>1. n \in Members(Kids[n])
    <3>1. Up[n] # NULL /\ Up[n] = n BY <1>7
    <3> QED BY <1>2, <1>6, <3>1, Homes
  <2>2. n \notin Members(c) BY <1>1 DEF Losing
  <2> QED BY <1>2, <2>1, <2>2
<1>9. Sides(n, parent[n])
  <2>1. work.pc # "ascend" /\ work.pc \in Pcs BY DEF Pcs
  <2> QED BY <1>2, <1>6, <1>8, <2>1, SidesAre
<1> HIDE DEF n, c
<1>10. 2 * FloorHalf <= N BY <1>4
<1> QED BY <1>1, <1>2, <1>4, <1>5, <1>6, <1>7, <1>8, <1>9, <1>10 DEF Under, n, c

LEMMA ConcatAt ==
  ASSUME NEW E, NEW A \in Seq(E), NEW B \in Seq(E)
  PROVE  /\ Len(A \o B) = Len(A) + Len(B) /\ \A j \in 0 .. Len(A) - 1 : At(A \o B, j) = At(A, j)
         /\ \A j \in 0 .. Len(B) - 1 : At(A \o B, Len(A) + j) = At(B, j)
<1>1. Len(A \o B) = Len(A) + Len(B) /\ Len(A) \in Nat /\ Len(B) \in Nat
  BY LenProperties, ConcatProperties
<1>2. \A j \in 1 .. Len(A) : (A \o B)[j] = A[j] BY ConcatProperties
<1>3. \A j \in 1 .. Len(B) : (A \o B)[Len(A) + j] = B[j] BY ConcatProperties
<1>4. ASSUME NEW j \in 0 .. Len(A) - 1 PROVE At(A \o B, j) = At(A, j)
  <2>1. j + 1 \in 1 .. Len(A) BY <1>1
  <2> QED BY <1>2, <2>1 DEF At
<1>5. ASSUME NEW j \in 0 .. Len(B) - 1 PROVE At(A \o B, Len(A) + j) = At(B, j)
  <2>1. j + 1 \in 1 .. Len(B) /\ Len(A) + (j + 1) = (Len(A) + j) + 1 BY <1>1
  <2> QED BY <1>3, <2>1 DEF At
<1> QED BY <1>1, <1>4, <1>5

LEMMA InnerIntoLeftShape ==
  ASSUME ShapeInv, Filled, Sized, InnerIntoLeft
  PROVE  ShapeInv'
<1> DEFINE n == work.cur
           par == parent[n]
           i == pos[n] - 1
           lhs == At(sons[par], pos[n] - 1)
           c == Cut(sons[n], work.at)
           s == sons[lhs] \o c
           I == FloorHalf .. 2 * FloorHalf
           k == keys[lhs] \o <<At(keys[par], pos[n] - 1)>> \o Cut(keys[n], work.at - 1)
<1>1. /\ work.pc = "rebalance" /\ use' = use /\ UsesLeft(par, pos[n]) /\ Len(keys[lhs]) = FloorHalf
      /\ InnerMerged(lhs, k, s, n, I, par, pos[n]) /\ parent[n] # NULL /\ Len(keys[n]) = FloorHalf
  BY DEF InnerIntoLeft, In
<1>2. Under(n, c) BY <1>1, UnderIs
<1>3. Beside(lhs, n, par, i) BY <1>1, <1>2 DEF Under, Sides
<1>4. /\ root # NULL /\ n \in Inners /\ Kids[n] = c /\ Len(c) = FloorHalf /\ FloorHalf \in Nat
      /\ \A m \in Inners \ {n} : Kids[m] = sons[m]
  BY <1>2 DEF Under
<1>5. lhs \in Inners /\ lhs # n /\ pos[n] = i + 1
  <2>1. lhs # n /\ pos[n] = i + 1 BY <1>3 DEF Beside
  <2> QED BY <1>3, <1>4, <2>1, SameKind
<1>6. Kids[lhs] = sons[lhs] /\ Len(sons[lhs]) = FloorHalf + 1
  <2>1. Len(sons[lhs]) = Len(keys[lhs]) + 1 BY <1>5, SonsMany
  <2> QED BY <1>1, <1>4, <1>5, <2>1
<1>7. sons[lhs] \in Seq(Nat) /\ c \in Seq(Nat)
  <2>1. c \in Seq(Nodes) /\ Members(c) \subseteq Nodes BY <1>2 DEF Under, Losing
  <2>2. Nodes \subseteq Nat BY DEF ShapeInv, Typed
  <2>3. c \in Seq(Nat) BY <2>1, <2>2, SeqSub
  <2> QED BY <1>5, <2>3, SonsMany
<1> HIDE DEF n, par, lhs, c, k, i
<1>8. Len(s) = 2 * FloorHalf + 1 /\ \A j \in 0 .. Len(sons[lhs]) - 1 : At(s, j) = At(sons[lhs], j)
  <2>1. Len(s) = Len(sons[lhs]) + Len(c) BY <1>7, ConcatAt
  <2>2. \A j \in 0 .. Len(sons[lhs]) - 1 : At(s, j) = At(sons[lhs], j)
    BY <1>7, ConcatAt
  <2> QED BY <1>4, <1>6, <2>1, <2>2
<1>9. ASSUME NEW j \in 0 .. Len(s) - 1, j \notin I PROVE pos[At(s, j)] = j
  <2>1. j \in 0 .. Len(sons[lhs]) - 1 /\ j + 1 \in 1 .. Len(sons[lhs]) /\ (j + 1) - 1 = j
    BY <1>4, <1>6, <1>8, <1>9
  <2>2. pos[sons[lhs][j + 1]] = (j + 1) - 1
    BY <1>5, <2>1 DEF ShapeInv, Placed, n
  <2> QED BY <1>8, <2>1, <2>2 DEF At
<1>10. I \subseteq 0 .. Len(s) - 1 BY <1>4, <1>8
<1>11. s = Kids[lhs] \o Kids[n] /\ FloorHalf <= Len(Kids[lhs]) /\ work.cur = n /\ InnerMerged(lhs, k, s, n, I, par, i + 1)
  BY <1>1, <1>4, <1>5, <1>6 DEF n
<1> HIDE DEF s, I
<1>12. InnerLeaves(lhs, n, par, i, s)
  BY <1>1, <1>3, <1>4, <1>5, <1>8, <1>9, <1>10, <1>11, MergeLeaves
<1> QED BY <1>1, <1>3, <1>11, <1>12, InnerGoneShape

LEMMA InnerIntoRightShape ==
  ASSUME ShapeInv, Filled, Sized, InnerIntoRight
  PROVE  ShapeInv'
<1> DEFINE n == work.cur
           par == parent[n]
           i == pos[n]
           rhs == At(sons[par], pos[n] + 1)
           c == Cut(sons[n], work.at)
           s == c \o sons[rhs]
           I == work.at .. 2 * FloorHalf
           k == Cut(keys[n], work.at - 1) \o <<At(keys[par], pos[n])>> \o keys[rhs]
<1>1. /\ work.pc = "rebalance" /\ use' = use /\ ~UsesLeft(par, pos[n]) /\ Len(keys[rhs]) = FloorHalf
      /\ InnerMerged(n, k, s, rhs, I, par, i + 1) /\ parent[n] # NULL /\ Len(keys[n]) = FloorHalf
  BY DEF InnerIntoRight, In
<1>2. Under(n, c) BY <1>1, UnderIs
<1>3. Beside(n, rhs, par, i) BY <1>1, <1>2 DEF Under, Sides
<1>4. /\ root # NULL /\ n \in Inners /\ Kids[n] = c /\ Len(c) = FloorHalf /\ FloorHalf \in Nat
      /\ \A m \in Inners \ {n} : Kids[m] = sons[m]
  BY <1>2 DEF Under
<1>5. rhs \in Inners /\ rhs # n
  <2>1. rhs # n BY <1>3 DEF Beside
  <2> QED BY <1>3, <1>4, <2>1, SameKind
<1>6. Kids[rhs] = sons[rhs] /\ Len(sons[rhs]) = FloorHalf + 1
  <2>1. Len(sons[rhs]) = Len(keys[rhs]) + 1 BY <1>5, SonsMany
  <2> QED BY <1>1, <1>4, <1>5, <2>1
<1>7. /\ sons[rhs] \in Seq(Nat) /\ c \in Seq(Nat) /\ work.at \in 1 .. Len(sons[n]) - 1 /\ Len(c) = Len(sons[n]) - 1
      /\ Len(sons[n]) \in Nat
      /\ \A j \in 0 .. work.at - 1 : pos[At(c, j)] = j
  <2>1. c \in Seq(Nodes) /\ Members(c) \subseteq Nodes BY <1>2 DEF Under, Losing
  <2>2. Nodes \subseteq Nat BY DEF ShapeInv, Typed
  <2>3. c \in Seq(Nat) BY <2>1, <2>2, SeqSub
  <2>4. sons[rhs] \in Seq(Nat) BY <1>5, SonsMany
  <2> QED BY <1>2, <2>3, <2>4 DEF Under, Losing
<1> HIDE DEF n, par, rhs, c, k, i
<1>8. Len(s) = 2 * FloorHalf + 1 /\ \A j \in 0 .. Len(c) - 1 : At(s, j) = At(c, j)
  <2>1. Len(s) = Len(c) + Len(sons[rhs]) BY <1>7, ConcatAt
  <2>2. \A j \in 0 .. Len(c) - 1 : At(s, j) = At(c, j) BY <1>7, ConcatAt
  <2> QED BY <1>4, <1>6, <2>1, <2>2
<1>0. work.at \in 1 .. FloorHalf BY <1>4, <1>7
<1>9. ASSUME NEW j \in 0 .. Len(s) - 1, j \notin I PROVE pos[At(s, j)] = j
  <2>1. j \in 0 .. Len(c) - 1 /\ j \in 0 .. work.at - 1
    BY <1>0, <1>4, <1>8, <1>9
  <2> QED BY <1>7, <1>8, <2>1
<1>10. I \subseteq 0 .. Len(s) - 1 BY <1>0, <1>4, <1>8
<1>11. s = Kids[n] \o Kids[rhs] /\ FloorHalf <= Len(Kids[n]) /\ work.cur = n
  BY <1>4, <1>6 DEF n
<1> HIDE DEF s, I
<1>12. InnerLeaves(n, rhs, par, i, s)
  BY <1>1, <1>3, <1>4, <1>5, <1>8, <1>9, <1>10, <1>11, MergeLeaves
<1> QED BY <1>1, <1>3, <1>11, <1>12, InnerGoneShape

(* Two neighbouring inner nodes have divided their sons differently. *)
Swaps(x, y, par, a, b) ==
  /\ x \in Inners /\ y \in Inners /\ x # y /\ par \in Inners /\ par # work.cur
  /\ a \in Seq(Nodes) /\ b \in Seq(Nodes) /\ a \o b = Kids[x] \o Kids[y] /\ Members(a) \cap Members(b) = {}
  /\ use' = use /\ root' = root /\ vals' = vals /\ chain' = chain /\ DOMAIN keys' = Inners
  /\ DOMAIN sons' = Inners /\ sons'[x] = a /\ sons'[y] = b /\ \A n \in Inners \ {x, y} : sons'[n] = sons[n]
  /\ DOMAIN parent' = Nodes
  /\ \A z \in Nodes : parent'[z] = IF z \in Members(a) THEN x ELSE IF z \in Members(b) THEN y ELSE parent[z]
  /\ DOMAIN pos' = Nodes
  /\ \A j \in 0 .. Len(a) - 1 : pos'[At(a, j)] = j
  /\ \A j \in 0 .. Len(b) - 1 : pos'[At(b, j)] = j
  /\ \A z \in Nodes : z \notin Members(a) /\ z \notin Members(b) => pos'[z] = pos[z]
  /\ work'.pc \in {"idle", "range"} /\ Len(a) <= N + 1 /\ Len(b) <= N + 1

LEMMA SwappedShape ==
  ASSUME ShapeInv, work.pc = "rebalance", NEW x, NEW y, NEW par, NEW i, Beside(x, y, par, i),
         work.cur = x \/ work.cur = y, NEW a, NEW b, Swaps(x, y, par, a, b)
  PROVE  ShapeInv'
<1>1. /\ x \in Inners /\ y \in Inners /\ x # y /\ par # work.cur
      /\ a \in Seq(Nodes) /\ b \in Seq(Nodes) /\ a \o b = Kids[x] \o Kids[y] /\ Members(a) \cap Members(b) = {}
      /\ use' = use /\ root' = root /\ vals' = vals /\ chain' = chain /\ DOMAIN keys' = Inners
      /\ DOMAIN sons' = Inners /\ sons'[x] = a /\ sons'[y] = b /\ \A n \in Inners \ {x, y} : sons'[n] = sons[n]
  BY DEF Swaps
<1>2. /\ DOMAIN parent' = Nodes
      /\ \A z \in Nodes : parent'[z] = IF z \in Members(a) THEN x ELSE IF z \in Members(b) THEN y ELSE parent[z]
      /\ DOMAIN pos' = Nodes
      /\ \A j \in 0 .. Len(a) - 1 : pos'[At(a, j)] = j
      /\ \A j \in 0 .. Len(b) - 1 : pos'[At(b, j)] = j
      /\ \A z \in Nodes : z \notin Members(a) /\ z \notin Members(b) => pos'[z] = pos[z]
      /\ work'.pc \in {"idle", "range"} /\ Len(a) <= N + 1 /\ Len(b) <= N + 1
  BY DEF Swaps
<1>3. /\ par # NULL /\ par \in Inners /\ sons[par] \in Seq(Nodes) /\ i \in 0 .. Len(sons[par]) - 2
      /\ At(sons[par], i) = x /\ At(sons[par], i + 1) = y /\ Kids[par] = sons[par]
      /\ x \in Nodes /\ y \in Nodes
  BY DEF Beside, IsSon
<1>4. root # NULL BY DEF ShapeInv, NoTree
<1>5. Tree(Nodes, DOMAIN vals, Kids, Tops, chain) /\ Parents(Kids, Tops, Up) /\ Typed /\ Placed
  BY <1>4 DEF ShapeInv, Shape
<1>6. /\ Nodes = DOMAIN vals \cup Inners /\ DOMAIN vals \cap Inners = {} /\ DOMAIN sons = Inners /\ DOMAIN pos = Nodes
      /\ NULL \notin Nodes /\ use \in Uses /\ Nodes \subseteq Nat /\ IsFiniteSet(Nodes)
      /\ \A m \in Nodes : parent[m] \in Inners \cup {NULL} /\ pos[m] \in 0 .. N
      /\ \A m \in Inners : sons[m] \in Seq(Nat)
      /\ root \in Nodes \cup {NULL}
  BY <1>5, NullAssumption DEF Typed
<1>7. DOMAIN Kids = Inners /\ Tops = <<root>> /\ Up = parent /\ \A m \in Inners \ {x, y} : Kids[m] = sons[m]
  BY <1>5, KidsAre
<1>8. Nodes' = Nodes /\ Inners' = Inners BY <1>1, <1>2 DEF Nodes, Inners
<1>9. DOMAIN Kids' = Inners /\ \A n \in Inners : Kids'[n] = sons'[n]
  <2>1. \A n \in Inners : Kids'[n] = sons'[n] BY <1>1, <1>2 DEF Kids
  <2> QED BY <1>1, <2>1 DEF Kids
<1>10. Tops' = Tops /\ Up' = parent' BY <1>1, <1>2, <1>7 DEF Tops, Up
<1>11. \E P, Q \in Seq(Nodes) : Kids[par] = Pairs(P, x, y, Q)
  <2>1. \E P, Q \in Seq(Nodes) : sons[par] = Pairs(P, At(sons[par], i), At(sons[par], i + 1), Q)
    BY <1>3, PairsAt
  <2> QED BY <1>3, <2>1
<1>12. Exchange(Nodes, Kids, x, y, par, Kids')
  <2>1. \A z \in Inners \ {x, y} : Kids'[z] = Kids[z] BY <1>1, <1>7, <1>9
  <2>2. Kids'[x] = a /\ Kids'[y] = b BY <1>1, <1>9
  <2> QED BY <1>1, <1>3, <1>7, <1>9, <1>11, <2>1, <2>2 DEF Exchange
<1>13. Tree(Nodes, DOMAIN vals, Kids', Tops, chain) BY <1>5, <1>12, Shift
<1>14. Parents(Kids', Tops, parent')
  <2>1. Kids'[x] = a /\ Kids'[y] = b BY <1>1, <1>9
  <2>2. Members(a) \subseteq Nodes /\ Members(b) \subseteq Nodes
    BY <1>1, MembersIn
  <2>3. (\A z \in Members(Kids'[x]) : parent'[z] = x) /\ \A z \in Members(Kids'[y]) : parent'[z] = y
    BY <1>1, <1>2, <2>1, <2>2
  <2>4. \A z \in Nodes : z \notin Members(Kids'[x]) /\ z \notin Members(Kids'[y]) => parent'[z] = Up[z]
    BY <1>2, <1>7, <2>1
  <2> QED BY <1>5, <1>6, <1>12, <2>3, <2>4, ShiftParents
<1>15. Typed'
  <2>1. N' = N /\ N \in Nat BY <1>1, <1>6, Halves DEF N
  <2>2. \A n \in Inners : sons'[n] \in Seq(Nat)
    <3>1. a \in Seq(Nat) /\ b \in Seq(Nat) BY <1>1, <1>6, MembersIn, SeqSub
    <3> QED BY <1>1, <1>6, <3>1
  <2>3. ASSUME NEW z \in Nodes PROVE pos'[z] \in 0 .. N
    <3>1. CASE z \in Members(a)
      <4>1. PICK j \in 0 .. Len(a) - 1 : At(a, j) = z BY <1>1, <3>1, MemberAt
      <4>2. Len(a) \in Nat BY <1>1, LenProperties
      <4>3. j \in 0 .. N BY <1>2, <2>1, <4>2
      <4> QED BY <1>2, <4>1, <4>3
    <3>2. CASE z \in Members(b)
      <4>1. PICK j \in 0 .. Len(b) - 1 : At(b, j) = z BY <1>1, <3>2, MemberAt
      <4>2. Len(b) \in Nat BY <1>1, LenProperties
      <4>3. j \in 0 .. N BY <1>2, <2>1, <4>2
      <4> QED BY <1>2, <4>1, <4>3
    <3>3. CASE z \notin Members(a) /\ z \notin Members(b) BY <1>2, <1>6, <3>3
    <3> QED BY <3>1, <3>2, <3>3
  <2>4. \A z \in Nodes : parent'[z] \in Inners \cup {NULL} BY <1>1, <1>2, <1>6
  <2> QED BY <1>1, <1>2, <1>6, <1>8, <2>1, <2>2, <2>3, <2>4 DEF Typed
<1>16. Placed'
  <2>1. ASSUME NEW n \in Inners, NEW j \in 1 .. Len(sons'[n])
        PROVE  pos'[sons'[n][j]] = j - 1
    <3>1. CASE n = x
      <4>1. j - 1 \in 0 .. Len(a) - 1 /\ (j - 1) + 1 = j
        <5>1. Len(a) \in Nat BY <1>1, LenProperties
        <5>2. j \in 1 .. Len(a) BY <1>1, <3>1
        <5> QED BY <5>1, <5>2
      <4> QED BY <1>1, <1>2, <3>1, <4>1 DEF At
    <3>2. CASE n = y
      <4>1. j - 1 \in 0 .. Len(b) - 1 /\ (j - 1) + 1 = j
        <5>1. Len(b) \in Nat BY <1>1, LenProperties
        <5>2. j \in 1 .. Len(b) BY <1>1, <3>2
        <5> QED BY <5>1, <5>2
      <4> QED BY <1>1, <1>2, <3>2, <4>1 DEF At
    <3>3. CASE n # x /\ n # y
      <4>1. sons'[n] = sons[n] /\ sons[n] = Kids[n] /\ Kids'[n] = Kids[n]
        BY <1>1, <1>7, <1>9, <3>3
      <4>2. Kids[n] \in Seq(Nodes) BY <1>5, <1>7, SonsOf
      <4>3. sons[n][j] \in Members(Kids'[n]) /\ sons[n][j] \in Nodes
        BY <4>1, <4>2, LenProperties DEF Members
      <4>4. parent'[sons[n][j]] = n BY <1>9, <1>14, <4>3 DEF Parents
      <4>5. sons[n][j] \notin Members(a) /\ sons[n][j] \notin Members(b)
        BY <1>2, <3>3, <4>3, <4>4
      <4>6. pos[sons[n][j]] = j - 1
        <5>1. n # work.cur BY <3>3
        <5> QED BY <1>5, <4>1, <5>1 DEF Placed
      <4> QED BY <1>2, <4>1, <4>3, <4>5, <4>6
    <3> QED BY <3>1, <3>2, <3>3
  <2> QED BY <1>8, <2>1 DEF Placed
<1>17. Shape' BY <1>1, <1>8, <1>10, <1>13, <1>14 DEF Shape
<1> QED
  BY <1>1, <1>2, <1>4, <1>15, <1>16, <1>17 DEF ShapeInv, NoTree, Ascending, Rebalancing

ConcatParts(A, B, E) ==
  /\ Len(A \o B) = Len(A) + Len(B)
  /\ \A j \in 0 .. Len(A) - 1 : At(A \o B, j) = At(A, j)
  /\ \A j \in 0 .. Len(B) - 1 : At(A \o B, Len(A) + j) = At(B, j)

LEMMA ConcatsAt ==
  ASSUME NEW E, NEW A \in Seq(E), NEW B \in Seq(E)
  PROVE  ConcatParts(A, B, E)
BY ConcatAt DEF ConcatParts

(* The part of S from d on goes to the front of c, or the part up to d to *)
(* the back of c. *)
LowBorrow(S, c, d, E) ==
  LET a == Slice(S, 0, d)
      t == Slice(S, d, Len(S))
      b == t \o c
  IN  /\ a \in Seq(E) /\ b \in Seq(E) /\ t \in Seq(E) /\ a \o b = S \o c /\ a \o t = S
      /\ Len(a) = d /\ Len(b) = (Len(S) - d) + Len(c) /\ Len(t) = Len(S) - d
      /\ Slice(b, 0, Len(S) - d) = t
      /\ \A j \in 0 .. d - 1 : At(a, j) = At(S, j)
      /\ \A j \in 0 .. Len(c) - 1 : At(b, (Len(S) - d) + j) = At(c, j)

LEMMA BorrowsLow ==
  ASSUME NEW E, NEW S \in Seq(E), NEW c \in Seq(E), NEW d \in 0 .. Len(S)
  PROVE  LowBorrow(S, c, d, E)
<1> DEFINE a == Slice(S, 0, d)
           t == Slice(S, d, Len(S))
           b == t \o c
<1>1. Len(S) \in Nat /\ 0 \in 0 .. d /\ d \in 0 .. Len(S) /\ Len(S) \in 0 .. Len(S)
  BY LenProperties
<1>2. a \in Seq(E) /\ Len(a) = d - 0 /\ \A i \in 1 .. d - 0 : a[i] = S[0 + i]
  BY <1>1, SliceIs
<1>3. t \in Seq(E) /\ Len(t) = Len(S) - d BY <1>1, SliceIs
<1>4. S = a \o t BY <1>1, SliceSplit, SliceAll
<1> HIDE DEF a, t
<1>5. b \in Seq(E) /\ Len(b) = (Len(S) - d) + Len(c) /\ \A j \in 0 .. Len(c) - 1 : At(b, (Len(S) - d) + j) = At(c, j)
  <2>1. b \in Seq(E) BY <1>3, ConcatType
  <2>0. ConcatParts(t, c, E) BY <1>3, ConcatsAt
  <2>2. Len(b) = Len(t) + Len(c) BY <2>0 DEF ConcatParts
  <2>3. \A j \in 0 .. Len(c) - 1 : At(b, Len(t) + j) = At(c, j)
    BY <2>0 DEF ConcatParts
  <2> HIDE DEF b
  <2> QED BY <1>3, <2>1, <2>2, <2>3
<1>6. Slice(b, 0, Len(S) - d) = t BY <1>3, SliceConcat
<1>7. a \o b = S \o c BY <1>2, <1>3, <1>4, Associative, SMTT(60) DEF Associate
<1>8. \A j \in 0 .. d - 1 : At(a, j) = At(S, j) BY <1>1, <1>2 DEF At
<1>9. Len(a) = d BY <1>1, <1>2
<1> QED BY <1>2, <1>3, <1>4, <1>5, <1>6, <1>7, <1>8, <1>9 DEF LowBorrow, a, t

HighBorrow(c, S, d, E) ==
  LET t == Slice(S, 0, d)
      a == c \o t
      b == Slice(S, d, Len(S))
  IN  /\ a \in Seq(E) /\ b \in Seq(E) /\ t \in Seq(E) /\ a \o b = c \o S /\ t \o b = S
      /\ Len(a) = Len(c) + d /\ Len(b) = Len(S) - d /\ Len(t) = d
      /\ \A j \in 0 .. Len(c) - 1 : At(a, j) = At(c, j)

LEMMA BorrowsHigh ==
  ASSUME NEW E, NEW S \in Seq(E), NEW c \in Seq(E), NEW d \in 0 .. Len(S)
  PROVE  HighBorrow(c, S, d, E)
<1> DEFINE t == Slice(S, 0, d)
           a == c \o t
           b == Slice(S, d, Len(S))
<1>1. Len(S) \in Nat /\ 0 \in 0 .. d /\ d \in 0 .. Len(S) /\ Len(S) \in 0 .. Len(S)
  BY LenProperties
<1>2. t \in Seq(E) /\ Len(t) = d - 0 BY <1>1, SliceIs
<1>3. b \in Seq(E) /\ Len(b) = Len(S) - d BY <1>1, SliceIs
<1>4. S = t \o b BY <1>1, SliceSplit, SliceAll
<1>5. Len(t) = d BY <1>1, <1>2
<1> HIDE DEF t, b
<1>6. a \in Seq(E) /\ Len(a) = Len(c) + d /\ \A j \in 0 .. Len(c) - 1 : At(a, j) = At(c, j)
  <2>1. a \in Seq(E) BY <1>2, ConcatType
  <2> QED BY <1>2, <1>5, <2>1, ConcatAt, ZenonT(60)
<1>7. a \o b = c \o S
  <2>1. Associate(c, t, b) BY <1>2, <1>3, Associative
  <2> QED BY <1>4, <2>1 DEF Associate
<1> QED BY <1>2, <1>3, <1>4, <1>5, <1>6, <1>7 DEF HighBorrow, t, b

(* What a sibling of size next hands over. *)
LEMMA MovedIs ==
  ASSUME use \in Uses, NEW next \in Nat, next > FloorHalf, next <= N
  PROVE  Moved(next) \in 1 .. next - FloorHalf
<1>1. N \in Nat /\ FloorHalf \in Nat BY Halves
<1> QED BY <1>1 DEF Moved

(* Both nodes' sons together are unique. *)
LEMMA KidsApart ==
  ASSUME ShapeInv, root # NULL, NEW x \in Inners, NEW y \in Inners, x # y, NEW a \in Seq(Nodes), NEW b \in Seq(Nodes),
         a \o b = Kids[x] \o Kids[y]
  PROVE  Members(a) \cap Members(b) = {} /\ Unique(a) /\ Unique(b)
<1>1. Tree(Nodes, DOMAIN vals, Kids, Tops, chain) /\ Parents(Kids, Tops, Up) /\ Typed
  BY DEF ShapeInv, Shape
<1>2. DOMAIN Kids = Inners BY <1>1, KidsAre
<1>3. Kids[x] \in Seq(Nodes) /\ Kids[y] \in Seq(Nodes) /\ Unique(Kids[x]) /\ Unique(Kids[y])
  BY <1>1, <1>2, SonsOf
<1>4. (\A z \in Members(Kids[x]) : Up[z] = x) /\ \A z \in Members(Kids[y]) : Up[z] = y
  BY <1>1, <1>2 DEF Parents
<1>5. Unique(Kids[x] \o Kids[y]) BY <1>3, <1>4, ConcatUnique
<1> QED BY <1>5, PartsApart

LEMMA InnerFromLeftShape ==
  ASSUME ShapeInv, Filled, Sized, InnerFromLeft
  PROVE  ShapeInv'
<1> DEFINE n == work.cur
           par == parent[n]
           i == pos[n] - 1
           lhs == At(sons[par], pos[n] - 1)
           S == sons[lhs]
           c == Cut(sons[n], work.at)
           next == Len(keys[lhs])
           m == Moved(next)
           d == next - m + 1
           a == Slice(S, 0, d)
           b == Slice(S, d, next + 1) \o c
           told == 0 .. (IF m = 1 THEN work.at ELSE FloorHalf + m - 1)
<1>1. /\ work.pc = "rebalance" /\ use' = use /\ UsesLeft(par, pos[n]) /\ next # FloorHalf
      /\ parent[n] # NULL /\ Len(keys[n]) = FloorHalf
      /\ sons' = With(sons, Two(n, b, lhs, a))
      /\ parent' = Adopted(parent, b, 0 .. m - 1, n) /\ pos' = Numbered(pos, b, told)
      /\ work' = Resume /\ root' = root /\ vals' = vals /\ chain' = chain
  BY ZenonT(60) DEF InnerFromLeft, In
<1>2. work'.pc \in {"idle", "range"}
  BY <1>1, ZenonT(60) DEF Resume, Erased, Returned
<1>3. Under(n, c) BY <1>1, UnderIs, ZenonT(60)
<1>4. Beside(lhs, n, par, i) BY <1>1, <1>3 DEF Under, Sides
<1>5. /\ root # NULL /\ n \in Inners /\ Kids[n] = c /\ Len(c) = FloorHalf /\ FloorHalf \in Nat /\ N \in Nat
      /\ \A q \in Inners \ {n} : Kids[q] = sons[q]
  BY <1>3 DEF Under
<1>6. lhs # n /\ par \in Inners /\ par # n /\ parent[lhs] = par /\ pos[n] = i + 1
  BY <1>4 DEF Beside, IsSon
<1>7. lhs \in Inners /\ use \in Uses
  <2>1. lhs \in Inners BY <1>4, <1>5, SameKind
  <2> QED BY <2>1 DEF ShapeInv, Typed
<1>8. Kids[lhs] = S /\ Len(S) = next + 1 /\ next \in 1 .. N /\ next > FloorHalf
  <2>1. Len(S) = next + 1 /\ next \in 1 .. N /\ SizeOf(lhs) = next
    BY <1>7, SonsMany
  <2>2. lhs # root /\ lhs \in Nodes
    <3>1. root \in Nodes /\ parent[root] = NULL
      <4>1. work.pc # "ascend" /\ work.pc \in Pcs BY <1>1 DEF Pcs
      <4> QED BY <1>5, <4>1, RootHas, SMTT(60)
    <3> QED BY <1>4, <1>6, <3>1 DEF Beside, IsSon
  <2>3. next >= FloorHalf BY <2>1, <2>2 DEF Sized
  <2>4. Kids[lhs] = S BY <1>5, <1>6, <1>7, SMTT(60)
  <2>5. next # FloorHalf /\ FloorHalf \in Nat BY <1>1, <1>5
  <2> HIDE DEF next, S
  <2>6. next > FloorHalf BY <2>1, <2>3, <2>5
  <2> QED BY <2>1, <2>4, <2>6
<1>9. m \in 1 .. next - FloorHalf BY <1>7, <1>8, MovedIs
<1>10. /\ S \in Seq(Nodes) /\ c \in Seq(Nodes) /\ Len(sons[n]) = FloorHalf + 1 /\ work.at \in 1 .. FloorHalf
       /\ (\A j \in 0 .. work.at - 1 : pos[At(c, j)] = j)
       /\ (\A j \in work.at .. Len(c) - 1 : pos[At(c, j)] = j + 1)
       /\ (\A z \in Members(c) : parent[z] = n)
       /\ (\A z \in Members(S) : parent[z] = lhs)
       /\ (\A j \in 1 .. Len(S) : pos[S[j]] = j - 1)
  <2>1. Tree(Nodes, DOMAIN vals, Kids, Tops, chain) /\ Parents(Kids, Tops, Up) /\ Typed
    BY <1>5, SMTT(60) DEF ShapeInv, Shape
  <2>2. DOMAIN Kids = Inners /\ Up = parent BY <1>1, <2>1, KidsAre
  <2>3. Kids[lhs] \in Seq(Nodes) BY <1>7, <2>1, <2>2, SonsOf
  <2>4. \A z \in Members(Kids[lhs]) : parent[z] = lhs
    BY <1>7, <2>1, <2>2, SMTT(60) DEF Parents
  <2>5. \A j \in 1 .. Len(S) : pos[S[j]] = j - 1
    BY <1>1, <1>6, <1>7 DEF ShapeInv, Placed
  <2>6. Losing(n, c) BY <1>3 DEF Under
  <2>7. Len(sons[n]) \in Nat /\ Len(c) = Len(sons[n]) - 1 BY <2>6 DEF Losing
  <2>8. /\ c \in Seq(Nodes) /\ work.at \in 1 .. Len(sons[n]) - 1
        /\ (\A j \in 0 .. work.at - 1 : pos[At(c, j)] = j)
        /\ (\A j \in work.at .. Len(c) - 1 : pos[At(c, j)] = j + 1)
        /\ (\A z \in Members(c) : parent[z] = n)
    BY <2>6 DEF Losing
  <2>9. S \in Seq(Nodes) /\ \A z \in Members(S) : parent[z] = lhs
    BY <1>8, <2>3, <2>4
  <2>10. Len(c) = FloorHalf /\ FloorHalf \in Nat BY <1>5
  <2> HIDE DEF S, c
  <2>11. Len(sons[n]) = FloorHalf + 1 /\ work.at \in 1 .. FloorHalf
    BY <2>7, <2>8, <2>10, SMTT(60)
  <2> QED BY <2>5, <2>8, <2>9, <2>10, <2>11
<1>11. /\ DOMAIN keys' = Inners /\ DOMAIN sons = Inners /\ DOMAIN pos = Nodes /\ DOMAIN parent = Nodes
       /\ \A w \in Nodes : w \in Inners => w \in DOMAIN sons
  <2>1. Typed BY DEF ShapeInv
  <2>2. DOMAIN keys' = Inners
    <3>1. \E k, y : keys' = [With(keys, Two(n, k, lhs, Slice(keys[lhs], 0, next - m))) EXCEPT ![par] = y]
      BY DEF InnerFromLeft
    <3> QED BY <1>5, <1>7, <3>1 DEF With, Two, Inners
  <2> QED BY <2>1, <2>2 DEF Typed, Nodes
<1> HIDE DEF n, par, i, lhs, S, c, next, m, told
<1>0. FloorHalf \in Nat /\ N \in Nat /\ next \in Nat /\ m \in Nat /\ m >= 1 /\ m + FloorHalf <= next /\ next <= N
  <2>1. FloorHalf \in Nat /\ N \in Nat BY <1>5
  <2> QED BY <1>8, <1>9, <2>1
<1>12. LowBorrow(S, c, d, Nodes)
  <2>1. d \in 0 .. Len(S) BY <1>5, <1>8, <1>9
  <2> HIDE DEF d
  <2> QED BY <1>10, <2>1, BorrowsLow
<1>13. /\ a \in Seq(Nodes) /\ b \in Seq(Nodes) /\ a \o b = S \o c /\ a \o Slice(S, d, next + 1) = S
       /\ Slice(S, d, next + 1) \in Seq(Nodes)
       /\ Len(a) = d /\ Len(b) = m + FloorHalf /\ Slice(b, 0, m) = Slice(S, d, next + 1)
       /\ (\A j \in 0 .. d - 1 : At(a, j) = At(S, j))
       /\ \A j \in 0 .. FloorHalf - 1 : At(b, m + j) = At(c, j)
  <2>1. Len(S) - d = m BY <1>5, <1>8, <1>9
  <2> HIDE DEF d
  <2> QED BY <1>5, <1>8, <1>12, <2>1, ZenonT(60) DEF LowBorrow
<1>14. d \in 1 .. N BY <1>0
<1> DEFINE t == Slice(S, d, next + 1)
<1>15. b = t \o c OBVIOUS
<1> HIDE DEF a, b, d, t
<1>16. Members(a) \cap Members(b) = {} /\ Unique(a) /\ Unique(b)
  <2>1. a \o b = Kids[lhs] \o Kids[n] BY <1>5, <1>8, <1>13
  <2> QED BY <1>5, <1>6, <1>7, <1>13, <2>1, KidsApart
<1>17. Members(b) = Members(t) \cup Members(c) /\ Members(S) = Members(a) \cup Members(t) /\ Members(t) \subseteq Nodes
       /\ Members(c) \subseteq Nodes /\ Members(a) \subseteq Nodes
  <2>1. ConcatHas(t, c, Nodes) /\ ConcatHas(a, t, Nodes)
    BY <1>10, <1>13, MembersConcat DEF t
  <2> QED BY <1>10, <1>13, <1>15, <2>1, MembersIn DEF ConcatHas, t
<1>18. /\ DOMAIN parent' = Nodes
       /\ \A z \in Nodes : parent'[z] = IF z \in Members(a) THEN lhs ELSE IF z \in Members(b) THEN n ELSE parent[z]
  <2>1. m \in 0 .. Len(b) /\ m \in Nat BY <1>5, <1>8, <1>9, <1>13
  <2> DEFINE zero == 0
  <2>2. zero \in 0 .. m BY <2>1
  <2> HIDE DEF zero
  <2>3. AdoptedSlice(parent, b, zero, m, n, Nodes)
    BY <1>13, <2>1, <2>2, AdoptedIs
  <2>4. DOMAIN parent' = Nodes /\ \A z \in Nodes : parent'[z] = IF z \in Members(t) THEN n ELSE parent[z]
    BY <1>1, <1>11, <1>13, <2>3 DEF AdoptedSlice, zero, t
  <2>5. \A z \in Members(a) : z \notin Members(t) /\ parent[z] = lhs
    BY <1>10, <1>16, <1>17
  <2>6. \A z \in Members(c) : parent[z] = n BY <1>10
  <2> QED BY <1>17, <2>4, <2>5, <2>6
<1>19. /\ DOMAIN pos' = Nodes
       /\ (\A j \in 0 .. Len(b) - 1 : pos'[At(b, j)] = j)
       /\ \A z \in Nodes : z \notin Members(b) => pos'[z] = pos[z]
  <2>4. Len(b) = m + FloorHalf /\ work.at \in 1 .. FloorHalf BY <1>10, <1>13
  <2>5. told \subseteq 0 .. Len(b) - 1 BY <1>0, <2>4 DEF told
  <2>1. told \subseteq 0 .. Len(b) - 1 /\ Members(b) \subseteq DOMAIN pos
    BY <1>11, <1>17, <2>5
  <2>2. Renumbered(pos, b, told, Nodes) BY <1>13, <1>16, <2>1, NumberedIs
  <2>3. ASSUME NEW j \in 0 .. Len(b) - 1, j \notin told PROVE pos[At(b, j)] = j
    <3>1. m = 1 /\ j > work.at /\ j - 1 \in work.at .. FloorHalf - 1 /\ j - 1 \in 0 .. FloorHalf - 1 /\ m + (j - 1) = j
      BY <1>0, <2>3, <2>4 DEF told
    <3>2. At(b, j) = At(c, j - 1) BY <1>13, <3>1
    <3>3. pos[At(c, j - 1)] = (j - 1) + 1 BY <1>5, <1>10, <3>1
    <3> QED BY <3>1, <3>2, <3>3
  <2> QED BY <1>1, <1>11, <2>1, <2>2, <2>3 DEF Renumbered
<1>20. \A j \in 0 .. Len(a) - 1 : pos'[At(a, j)] = j
  <2> TAKE j \in 0 .. Len(a) - 1
  <2>1. j \in 0 .. d - 1 /\ j + 1 \in 1 .. Len(S) /\ (j + 1) - 1 = j
    BY <1>5, <1>8, <1>9, <1>13 DEF d
  <2>2. pos[At(a, j)] = j BY <1>10, <1>13, <2>1 DEF At
  <2>3. At(a, j) \in Members(a) BY <1>13, AtMember
  <2> QED BY <1>16, <1>17, <1>19, <2>2, <2>3
<1>21. DOMAIN sons' = Inners /\ sons'[lhs] = a /\ sons'[n] = b /\ \A q \in Inners \ {lhs, n} : sons'[q] = sons[q]
  BY <1>1, <1>5, <1>6, <1>7, <1>11 DEF With, Two
<1>22. Len(a) <= N + 1 /\ Len(b) <= N + 1 /\ par # work.cur /\ a \o b = Kids[lhs] \o Kids[n] /\ work.cur = n
  BY <1>5, <1>6, <1>8, <1>9, <1>13, <1>14 DEF n
<1>23. Swaps(lhs, n, par, a, b)
  BY <1>1, <1>2, <1>5, <1>6, <1>7, <1>11, <1>13, <1>16, <1>18, <1>19, <1>20, <1>21, <1>22 DEF Swaps
<1> QED BY <1>1, <1>4, <1>22, <1>23, SwappedShape

LEMMA InnerFromRightShape ==
  ASSUME ShapeInv, Filled, Sized, InnerFromRight
  PROVE  ShapeInv'
<1> DEFINE n == work.cur
           par == parent[n]
           i == pos[n]
           rhs == At(sons[par], i + 1)
           S == sons[rhs]
           c == Cut(sons[n], work.at)
           next == Len(keys[rhs])
           m == Moved(next)
           a == c \o Slice(S, 0, m)
           b == Slice(S, m, next + 1)
           toldA == work.at .. FloorHalf + m - 1
           toldB == 0 .. next - m
<1>1. /\ work.pc = "rebalance" /\ use' = use /\ ~UsesLeft(par, pos[n]) /\ next # FloorHalf
      /\ parent[n] # NULL /\ Len(keys[n]) = FloorHalf
      /\ sons' = With(sons, Two(n, a, rhs, b))
      /\ parent' = Adopted(parent, a, FloorHalf .. FloorHalf + m - 1, n)
      /\ pos' = Numbered(Numbered(pos, a, toldA), b, toldB)
      /\ work' = Resume /\ root' = root /\ vals' = vals /\ chain' = chain
  BY ZenonT(60) DEF InnerFromRight, In
<1>2. work'.pc \in {"idle", "range"}
  BY <1>1, ZenonT(60) DEF Resume, Erased, Returned
<1>3. Under(n, c) BY <1>1, UnderIs, ZenonT(60)
<1>4. Beside(n, rhs, par, i) BY <1>1, <1>3 DEF Under, Sides
<1>5. /\ root # NULL /\ n \in Inners /\ Kids[n] = c /\ Len(c) = FloorHalf /\ FloorHalf \in Nat /\ N \in Nat
      /\ \A q \in Inners \ {n} : Kids[q] = sons[q]
  BY <1>3 DEF Under
<1>6. rhs # n /\ par \in Inners /\ par # n /\ parent[rhs] = par
  BY <1>4 DEF Beside, IsSon
<1>7. rhs \in Inners /\ use \in Uses
  <2>1. rhs \in Inners BY <1>4, <1>5, SameKind
  <2> QED BY <2>1 DEF ShapeInv, Typed
<1>8. Kids[rhs] = S /\ Len(S) = next + 1 /\ next \in 1 .. N /\ next > FloorHalf
  <2>1. Len(S) = next + 1 /\ next \in 1 .. N /\ SizeOf(rhs) = next
    BY <1>7, SonsMany
  <2>2. rhs # root /\ rhs \in Nodes
    <3>1. root \in Nodes /\ parent[root] = NULL
      <4>1. work.pc # "ascend" /\ work.pc \in Pcs BY <1>1 DEF Pcs
      <4> QED BY <1>5, <4>1, RootHas
    <3> QED BY <1>4, <1>6, <3>1, SMTT(60) DEF Beside, IsSon
  <2>3. next >= FloorHalf BY <2>1, <2>2 DEF Sized
  <2>4. Kids[rhs] = S BY <1>5, <1>6, <1>7, SMTT(60)
  <2>5. next # FloorHalf /\ FloorHalf \in Nat BY <1>1, <1>5
  <2> HIDE DEF next, S
  <2>6. next > FloorHalf BY <2>1, <2>3, <2>5
  <2> QED BY <2>1, <2>4, <2>6
<1>9. m \in 1 .. next - FloorHalf BY <1>7, <1>8, MovedIs
<1>10. /\ S \in Seq(Nodes) /\ c \in Seq(Nodes) /\ Len(sons[n]) = FloorHalf + 1 /\ work.at \in 1 .. FloorHalf
       /\ (\A j \in 0 .. work.at - 1 : pos[At(c, j)] = j)
       /\ (\A z \in Members(c) : parent[z] = n)
       /\ (\A z \in Members(S) : parent[z] = rhs)
  <2>1. Tree(Nodes, DOMAIN vals, Kids, Tops, chain) /\ Parents(Kids, Tops, Up) /\ Typed
    BY <1>5 DEF ShapeInv, Shape
  <2>2. DOMAIN Kids = Inners /\ Up = parent BY <1>1, <2>1, KidsAre
  <2>3. Kids[rhs] \in Seq(Nodes) BY <1>7, <2>1, <2>2, SonsOf
  <2>4. \A z \in Members(Kids[rhs]) : parent[z] = rhs
    BY <1>7, <2>1, <2>2 DEF Parents
  <2>6. Losing(n, c) BY <1>3 DEF Under
  <2>7. Len(sons[n]) \in Nat /\ Len(c) = Len(sons[n]) - 1 BY <2>6 DEF Losing
  <2>8. c \in Seq(Nodes) /\ work.at \in 1 .. Len(sons[n]) - 1 /\ (\A j \in 0 .. work.at - 1 : pos[At(c, j)] = j)
        /\ \A z \in Members(c) : parent[z] = n
    BY <2>6 DEF Losing
  <2> HIDE DEF n, c, S
  <2>9. Len(sons[n]) = FloorHalf + 1 /\ work.at \in 1 .. FloorHalf
    BY <1>5, <2>7, <2>8
  <2>10. S \in Seq(Nodes) /\ \A z \in Members(S) : parent[z] = rhs
    BY <1>8, <2>3, <2>4
  <2> QED BY <2>8, <2>9, <2>10, SMTT(60)
<1>11. DOMAIN keys' = Inners /\ DOMAIN sons = Inners /\ DOMAIN pos = Nodes /\ DOMAIN parent = Nodes
  <2>1. Typed BY DEF ShapeInv
  <2>2. DOMAIN keys' = Inners
    <3>1. \E k, y : keys' = [With(keys, Two(n, k, rhs, Slice(keys[rhs], m, next))) EXCEPT ![par] = y]
      BY DEF InnerFromRight
    <3> QED BY <1>5, <1>7, <3>1 DEF With, Two, Inners
  <2> QED BY <2>1, <2>2 DEF Typed, Nodes
<1> HIDE DEF n, par, i, rhs, S, c, next, m, toldA, toldB
<1>0. FloorHalf \in Nat /\ N \in Nat /\ next \in Nat /\ m \in Nat /\ m >= 1 /\ m + FloorHalf <= next /\ next <= N
  <2>1. FloorHalf \in Nat /\ N \in Nat BY <1>5
  <2> QED BY <1>8, <1>9, <2>1
<1>12. HighBorrow(c, S, m, Nodes)
  <2>1. m \in 0 .. Len(S) BY <1>0, <1>8
  <2> QED BY <1>10, <2>1, BorrowsHigh
<1> DEFINE t == Slice(S, 0, m)
<1>13. /\ a \in Seq(Nodes) /\ b \in Seq(Nodes) /\ a \o b = c \o S /\ t \o b = S /\ t \in Seq(Nodes) /\ Len(t) = m
       /\ Len(a) = FloorHalf + m /\ Len(b) = (next + 1) - m
       /\ \A j \in 0 .. FloorHalf - 1 : At(a, j) = At(c, j)
  BY <1>5, <1>8, <1>12 DEF HighBorrow
<1>15. a = c \o t OBVIOUS
<1> HIDE DEF a, b, t
<1>16. Members(a) \cap Members(b) = {} /\ Unique(a) /\ Unique(b)
  <2>1. a \o b = Kids[n] \o Kids[rhs] BY <1>5, <1>8, <1>13
  <2> QED BY <1>5, <1>6, <1>7, <1>13, <2>1, KidsApart
<1>17. Members(a) = Members(c) \cup Members(t) /\ Members(S) = Members(t) \cup Members(b) /\ Members(t) \subseteq Nodes
       /\ Members(c) \subseteq Nodes /\ Members(a) \subseteq Nodes /\ Members(b) \subseteq Nodes
  <2>1. ConcatHas(c, t, Nodes) /\ ConcatHas(t, b, Nodes)
    BY <1>10, <1>13, MembersConcat
  <2> QED BY <1>10, <1>13, <1>15, <2>1, MembersIn DEF ConcatHas
<1>18. /\ DOMAIN parent' = Nodes
       /\ \A z \in Nodes : parent'[z] = IF z \in Members(a) THEN n ELSE IF z \in Members(b) THEN rhs ELSE parent[z]
  <2>1. FloorHalf \in 0 .. Len(c) /\ FloorHalf .. FloorHalf + m - 1 = FloorHalf .. Len(a) - 1
    BY <1>0, <1>5, <1>13, SMTT(60)
  <2>2. TailAdopted(c, t, FloorHalf, parent, n, Nodes)
    BY <1>10, <1>13, <2>1, AdoptsTail
  <2>4. DOMAIN parent' = Nodes /\ \A z \in Nodes : parent'[z] = IF z \in Members(t) THEN n ELSE parent[z]
    BY <1>1, <1>11, <1>15, <2>1, <2>2 DEF TailAdopted
  <2>5. \A z \in Members(b) : z \notin Members(t) /\ parent[z] = rhs
    BY <1>10, <1>16, <1>17
  <2>6. \A z \in Members(c) : parent[z] = n BY <1>10
  <2> QED BY <1>16, <1>17, <2>4, <2>5, <2>6
<1>19. /\ DOMAIN pos' = Nodes
       /\ (\A j \in 0 .. Len(a) - 1 : pos'[At(a, j)] = j)
       /\ (\A j \in 0 .. Len(b) - 1 : pos'[At(b, j)] = j)
       /\ \A z \in Nodes : z \notin Members(a) /\ z \notin Members(b) => pos'[z] = pos[z]
  <2>4. Len(a) = FloorHalf + m /\ work.at \in 1 .. FloorHalf /\ Len(b) = (next + 1) - m
    BY <1>10, <1>13
  <2>5. toldA \subseteq 0 .. Len(a) - 1 /\ toldB = 0 .. Len(b) - 1
    BY <1>0, <2>4 DEF toldA, toldB
  <2>6. toldB \subseteq 0 .. Len(b) - 1 BY <2>5
  <2>1. Members(a) \subseteq DOMAIN pos /\ Members(b) \subseteq DOMAIN pos
    BY <1>11, <1>17
  <2>2. RenumberedTwo(pos, a, toldA, b, toldB, Nodes)
    BY <1>13, <1>16, <2>1, <2>5, <2>6, NumberedTwo
  <2>3. ASSUME NEW j \in 0 .. Len(a) - 1, j \notin toldA PROVE pos[At(a, j)] = j
    <3>1. j \in 0 .. work.at - 1 /\ j \in 0 .. FloorHalf - 1
      BY <1>0, <2>3, <2>4 DEF toldA
    <3> QED BY <1>10, <1>13, <3>1
  <2> QED BY <1>1, <1>11, <2>2, <2>3, <2>5 DEF RenumberedTwo
<1>21. DOMAIN sons' = Inners /\ sons'[n] = a /\ sons'[rhs] = b /\ \A q \in Inners \ {n, rhs} : sons'[q] = sons[q]
  BY <1>1, <1>5, <1>6, <1>7, <1>11 DEF With, Two
<1>22. Len(a) <= N + 1 /\ Len(b) <= N + 1 /\ par # work.cur /\ a \o b = Kids[n] \o Kids[rhs] /\ work.cur = n
  <2>1. Len(a) = FloorHalf + m /\ Len(b) = (next + 1) - m BY <1>13
  <2>2. Len(a) <= N + 1 /\ Len(b) <= N + 1 BY <1>0, <2>1
  <2> QED BY <1>5, <1>6, <1>8, <1>13, <2>2 DEF n
<1>23. Swaps(n, rhs, par, a, b)
  BY <1>1, <1>2, <1>5, <1>6, <1>7, <1>11, <1>13, <1>16, <1>18, <1>19, <1>21, <1>22 DEF Swaps
<1> QED BY <1>1, <1>4, <1>22, <1>23, SwappedShape, SMTT(60)

-----------------------------------------------------------------------------
(* What is left of c without the g elements from r on. *)
CutOut(c, r, g) == Slice(c, 0, r) \o Slice(c, r + g, Len(c))

CutOutOf(P, M, Q, E) ==
  /\ CutOut((P \o M) \o Q, Len(P), Len(M)) = P \o Q /\ P \o Q \in Seq(E) /\ (P \o M) \o Q \in Seq(E)
  /\ Len((P \o M) \o Q) = Len(P) + Len(M) + Len(Q) /\ Len(P \o Q) = Len(P) + Len(Q)

LEMMA CutsOut ==
  ASSUME NEW E, NEW P \in Seq(E), NEW M \in Seq(E), NEW Q \in Seq(E)
  PROVE  CutOutOf(P, M, Q, E)
<1> DEFINE c == (P \o M) \o Q
           a == P \o M
           b == M \o Q
<1>1. a \in Seq(E) /\ b \in Seq(E) /\ P \o Q \in Seq(E) BY ConcatType
<1>2. c \in Seq(E) BY <1>1, ConcatType
<1>3. c = P \o b BY Associative, SMTT(60) DEF Associate
<1>4. Len(a) = Len(P) + Len(M) /\ Len(P \o Q) = Len(P) + Len(Q)
  BY ConcatsAt DEF ConcatParts
<1>5. Len(c) = Len(a) + Len(Q) BY <1>1, ConcatsAt DEF ConcatParts
<1>6. Slice(c, Len(a), Len(c)) = Q BY <1>1, SliceConcat
<1> HIDE DEF a, b, c
<1>7. Slice(P \o b, 0, Len(P)) = P BY <1>1, SliceConcat
<1>8. CutOut(c, Len(P), Len(M)) = P \o Q BY <1>3, <1>4, <1>6, <1>7 DEF CutOut
<1>9. Len(c) = Len(P) + Len(M) + Len(Q) BY <1>4, <1>5
<1> QED BY <1>1, <1>2, <1>4, <1>8, <1>9 DEF CutOutOf, a, c

(* The three parts of a sequence. *)
InThree(V, i, g, E) ==
  LET P == Slice(V, 0, i)
      M == Slice(V, i, i + g)
      Q == Slice(V, i + g, Len(V))
  IN  /\ P \in Seq(E) /\ M \in Seq(E) /\ Q \in Seq(E) /\ V = (P \o M) \o Q
      /\ Len(P) = i /\ Len(M) = g /\ Len(Q) = Len(V) - (i + g) /\ P \o Q = CutOut(V, i, g)

LEMMA ThreeParts ==
  ASSUME NEW E, NEW V \in Seq(E), NEW i \in Nat, NEW g \in Nat, i + g <= Len(V)
  PROVE  InThree(V, i, g, E)
<1> DEFINE h == i + g
           n == Len(V)
<1>1. n \in 0 .. Len(V) /\ h \in 0 .. n /\ i \in 0 .. h /\ 0 \in 0 .. i /\ 0 \in 0 .. h /\ h \in Nat /\ n \in Nat
      /\ h - i = g /\ i \in 0 .. Len(V) /\ h \in 0 .. Len(V)
  BY LenProperties
<1> HIDE DEF h, n
<1>2. Slice(V, 0, i) \in Seq(E) /\ Len(Slice(V, 0, i)) = i - 0 BY <1>1, SliceIs
<1>3. Slice(V, i, h) \in Seq(E) /\ Len(Slice(V, i, h)) = h - i BY <1>1, SliceIs
<1>4. Slice(V, h, n) \in Seq(E) /\ Len(Slice(V, h, n)) = n - h BY <1>1, SliceIs
<1>5. V = Slice(V, 0, n) BY SliceAll, SMTT(60) DEF n
<1>6. Slice(V, 0, n) = Slice(V, 0, h) \o Slice(V, h, n) BY <1>1, SliceSplit
<1>7. Slice(V, 0, h) = Slice(V, 0, i) \o Slice(V, i, h) BY <1>1, SliceSplit
<1>8. Len(Slice(V, 0, i)) = i /\ Len(Slice(V, i, h)) = g BY <1>1, <1>2, <1>3
<1>9. V = (Slice(V, 0, i) \o Slice(V, i, h)) \o Slice(V, h, n)
  BY <1>5, <1>6, <1>7
<1>10. CutOut(V, i, g) = Slice(V, 0, i) \o Slice(V, h, n) BY DEF CutOut, h, n
<1> QED BY <1>2, <1>3, <1>4, <1>8, <1>9, <1>10 DEF InThree, h, n

CutInside(F, V, G, i, g, E) ==
  /\ CutOut(V, i, g) \in Seq(E) /\ Len(CutOut(V, i, g)) = Len(V) - g
  /\ (F \o CutOut(V, i, g)) \o G = CutOut((F \o V) \o G, Len(F) + i, g)

LEMMA CutWithin ==
  ASSUME NEW E, NEW F \in Seq(E), NEW V \in Seq(E), NEW G \in Seq(E), NEW i \in Nat, NEW g \in Nat, i + g <= Len(V)
  PROVE  CutInside(F, V, G, i, g, E)
<1> DEFINE P == Slice(V, 0, i)
           M == Slice(V, i, i + g)
           Q == Slice(V, i + g, Len(V))
<1>1. InThree(V, i, g, E) BY ThreeParts
<1>2. /\ P \in Seq(E) /\ M \in Seq(E) /\ Q \in Seq(E) /\ V = (P \o M) \o Q
      /\ Len(P) = i /\ Len(M) = g /\ Len(Q) = Len(V) - (i + g) /\ P \o Q = CutOut(V, i, g)
  BY <1>1 DEF InThree
<1> HIDE DEF P, M, Q
<1>3. F \o P \in Seq(E) /\ Q \o G \in Seq(E) /\ P \o M \in Seq(E) /\ P \o Q \in Seq(E) /\ F \o (P \o M) \in Seq(E)
  BY <1>2, ConcatType
<1>4. CutOutOf(F \o P, M, Q \o G, E) BY <1>2, <1>3, CutsOut
<1>5. ((F \o P) \o M) \o (Q \o G) = (F \o V) \o G
  <2>1. Associate(F, P \o M, Q) BY <1>2, <1>3, Associative
  <2>2. Associate(F, P, M) BY <1>2, Associative
  <2>3. Associate(F \o (P \o M), Q, G) BY <1>2, <1>3, Associative
  <2> QED BY <1>2, <2>1, <2>2, <2>3 DEF Associate
<1>6. (F \o P) \o (Q \o G) = (F \o (P \o Q)) \o G
  <2>1. Associate(F \o P, Q, G) BY <1>2, <1>3, Associative
  <2>2. Associate(F, P, Q) BY <1>2, Associative
  <2> QED BY <2>1, <2>2 DEF Associate
<1>7. Len(F \o P) = Len(F) + i BY <1>2, ConcatsAt DEF ConcatParts
<1>8. CutOut((F \o V) \o G, Len(F) + i, g) = (F \o CutOut(V, i, g)) \o G
  BY <1>2, <1>4, <1>5, <1>6, <1>7 DEF CutOutOf
<1>9. Len(P \o Q) = Len(V) - g
  <2>1. Len(P \o Q) = Len(P) + Len(Q) BY <1>2, ConcatsAt DEF ConcatParts
  <2>2. Len(V) \in Nat BY LenProperties
  <2> QED BY <1>2, <2>1, <2>2
<1> QED BY <1>2, <1>3, <1>8, <1>9 DEF CutInside

PutInside(F, V, G, i, e, E) == (F \o Put(V, i, e)) \o G = Put((F \o V) \o G, Len(F) + i, e)

LEMMA PutWithin ==
  ASSUME NEW E, NEW F \in Seq(E), NEW V \in Seq(E), NEW G \in Seq(E), NEW i \in 0 .. Len(V), NEW e \in E
  PROVE  PutInside(F, V, G, i, e, E)
<1> DEFINE P == Slice(V, 0, i)
           Q == Slice(V, i, Len(V))
<1>1. Len(V) \in 0 .. Len(V) /\ 0 \in 0 .. i BY LenProperties
<1>2. P \in Seq(E) /\ Len(P) = i - 0 BY <1>1, SliceIs
<1>3. Q \in Seq(E) BY <1>1, SliceIs
<1>4. V = P \o Q BY <1>1, SliceSplit, SliceAll
<1>5. Put(V, i, e) = Joins(P, e, Q) BY DEF Put, Joins
<1>6. Len(P) = i BY <1>2
<1> HIDE DEF P, Q
<1>7. JoinedInto(F, P, e, Q, G, E) BY <1>2, <1>3, JoinsInto
<1>8. F \o P \in Seq(E) /\ Q \o G \in Seq(E) /\ (F \o Joins(P, e, Q)) \o G = Joins(F \o P, e, Q \o G)
  BY <1>7 DEF JoinedInto
<1>9. Put((F \o P) \o (Q \o G), Len(F \o P), e) = Joins(F \o P, e, Q \o G)
  BY <1>8, PutBetween
<1>10. Len(F \o P) = Len(F) + i BY <1>2, <1>6, ConcatsAt DEF ConcatParts
<1>11. (F \o P) \o (Q \o G) = (F \o V) \o G
  <2>1. Associate(F \o P, Q, G) BY <1>3, <1>8, Associative
  <2>2. Associate(F, P, Q) BY <1>2, <1>3, Associative
  <2> QED BY <1>4, <2>1, <2>2 DEF Associate
<1> QED BY <1>5, <1>8, <1>9, <1>10, <1>11 DEF PutInside

-----------------------------------------------------------------------------
(* The list ch of the leaves that v has elements for. *)
Listed(v, ch) ==
  /\ ch \in Seq(DOMAIN v) /\ Unique(ch) /\ Members(ch) = DOMAIN v /\ NULL \notin DOMAIN v
  /\ \A l \in DOMAIN v : v[l] \in Seq(Elems) /\ Len(v[l]) # 0

(* The elements in front of leaf l. *)
Front(v, ch, l) == Flat(v, Slice(ch, 0, RankOf(ch, l) - 1))

RankIn(v, ch, it) ==
  IF it.leaf = NULL THEN Len(Flat(v, ch)) + it.pos ELSE Len(Front(v, ch, it.leaf)) + it.pos

(* it points to an element. *)
Points(v, it) == \E l \in DOMAIN v : \E i \in 0 .. Len(v[l]) - 1 : it = Iter(l, i)

Placing(v, ch, A, l, B) ==
  /\ A \in Seq(DOMAIN v) /\ B \in Seq(DOMAIN v) /\ l \in DOMAIN v /\ ch = Joins(A, l, B)

LEMMA PlacingIs ==
  ASSUME NEW v, NEW ch, Listed(v, ch), NEW l \in DOMAIN v
  PROVE  \E A, B : Placing(v, ch, A, l, B)
<1>1. ch \in Seq(DOMAIN v) /\ l \in Members(ch) BY DEF Listed
<1>2. PICK A \in Seq(DOMAIN v), B \in Seq(DOMAIN v) : ch = Joins(A, l, B)
  BY <1>1, JoinsAt
<1> QED BY <1>2 DEF Placing

LEMMA ListedGives ==
  ASSUME NEW v, NEW ch, Listed(v, ch)
  PROVE  Gives(v, DOMAIN v, Elems) /\ Flat(v, ch) \in Seq(Elems)
<1>1. Gives(v, DOMAIN v, Elems) /\ ch \in Seq(DOMAIN v) BY DEF Listed, Gives
<1> QED BY <1>1, FlatType

(* The contents, taken apart at leaf l. *)
FlatAt(v, ch, A, l, B) ==
  /\ Flat(v, A) \in Seq(Elems) /\ Flat(v, B) \in Seq(Elems) /\ v[l] \in Seq(Elems)
  /\ Flat(v, ch) = (Flat(v, A) \o v[l]) \o Flat(v, B)
  /\ Front(v, ch, l) = Flat(v, A)
  /\ Len(Flat(v, ch)) = Len(Flat(v, A)) + Len(v[l]) + Len(Flat(v, B))

LEMMA FlatsAt ==
  ASSUME NEW v, NEW ch, Listed(v, ch), NEW A, NEW l, NEW B, Placing(v, ch, A, l, B)
  PROVE  FlatAt(v, ch, A, l, B)
<1>1. A \in Seq(DOMAIN v) /\ B \in Seq(DOMAIN v) /\ l \in DOMAIN v /\ ch = Joins(A, l, B) /\ Unique(ch)
  BY DEF Placing, Listed
<1>2. Gives(v, DOMAIN v, Elems) /\ v[l] \in Seq(Elems)
  BY <1>1, ListedGives DEF Gives
<1>3. Flat(v, A) \in Seq(Elems) /\ Flat(v, B) \in Seq(Elems)
  BY <1>1, <1>2, FlatType
<1>4. FlatOfJoins(v, A, l, B, DOMAIN v, Elems) BY <1>1, <1>2, FlatJoins
<1>5. RankOf(ch, l) = Len(A) + 1 /\ Len(A) \in Nat
  BY <1>1, RankJoins, LenProperties
<1>6. Slice(ch, 0, RankOf(ch, l) - 1) = A
  <2>1. RankOf(ch, l) - 1 = Len(A) BY <1>5
  <2> DEFINE one == <<l>>
  <2>6. one \in Seq(DOMAIN v) /\ A \in Seq(DOMAIN v) /\ B \in Seq(DOMAIN v)
    BY <1>1
  <2> HIDE DEF one
  <2>7. Associate(A, one, B) BY <2>6, Associative
  <2>2. <<l>> \o B \in Seq(DOMAIN v) BY <2>6, ConcatType DEF one
  <2>3. Associate(A, <<l>>, B) BY <2>7 DEF one
  <2>4. ch = A \o (<<l>> \o B) BY <1>1, <2>3 DEF Associate, Joins
  <2> HIDE DEF Joins
  <2>5. Slice(A \o (<<l>> \o B), 0, Len(A)) = A BY <1>1, <2>2, SliceConcat
  <2> QED BY <2>1, <2>4, <2>5
<1>7. Len(Flat(v, ch)) = Len(Flat(v, A)) + Len(v[l]) + Len(Flat(v, B))
  <2>1. Flat(v, ch) = (Flat(v, A) \o v[l]) \o Flat(v, B)
    BY <1>1, <1>4 DEF FlatOfJoins
  <2>2. Len((Flat(v, A) \o v[l]) \o Flat(v, B)) = Len(Flat(v, A)) + Len(v[l]) + Len(Flat(v, B))
    BY <1>2, <1>3, PartOf
  <2> QED BY <2>1, <2>2
<1> QED BY <1>1, <1>2, <1>3, <1>4, <1>6, <1>7 DEF FlatAt, FlatOfJoins, Front

(* The leaf behind l. *)
NextAt(v, ch, A, l, B) ==
  /\ B = <<>> => NextLeaf(ch, l) = NULL /\ Flat(v, B) = <<>>
  /\ B # <<>> => /\ NextLeaf(ch, l) \in DOMAIN v /\ NextLeaf(ch, l) = B[1]
                 /\ Front(v, ch, NextLeaf(ch, l)) = Flat(v, A) \o v[l]

LEMMA NextsAt ==
  ASSUME NEW v, NEW ch, Listed(v, ch), NEW A, NEW l, NEW B, Placing(v, ch, A, l, B)
  PROVE  NextAt(v, ch, A, l, B)
<1>1. A \in Seq(DOMAIN v) /\ B \in Seq(DOMAIN v) /\ l \in DOMAIN v /\ ch = Joins(A, l, B) /\ Unique(ch)
      /\ ch \in Seq(DOMAIN v)
  BY DEF Placing, Listed
<1>2. Gives(v, DOMAIN v, Elems) BY ListedGives
<1>3. JoinsOf(ch, A, l, B, DOMAIN v) BY <1>1, JoinsAre
<1>4. /\ Len(ch) = Len(A) + 1 + Len(B) /\ ch[Len(A) + 1] = l
      /\ \A i \in 1 .. Len(B) : ch[Len(A) + 1 + i] = B[i]
  BY <1>3 DEF JoinsOf
<1>5. Len(A) \in Nat /\ Len(B) \in Nat BY <1>1, LenProperties
<1>6. RankOf(ch, l) = Len(A) + 1 BY <1>1, RankJoins
<1>7. ASSUME B = <<>> PROVE NextLeaf(ch, l) = NULL /\ Flat(v, B) = <<>>
  <2>1. ch[Len(ch)] = l BY <1>4, <1>5, <1>7
  <2> QED BY <1>7, <2>1, FlatNil DEF NextLeaf
<1>8. ASSUME B # <<>>
      PROVE  /\ NextLeaf(ch, l) \in DOMAIN v /\ Front(v, ch, NextLeaf(ch, l)) = Flat(v, A) \o v[l]
             /\ NextLeaf(ch, l) = B[1]
  <2>1. Len(B) >= 1 BY <1>1, <1>5, <1>8, EmptySeq
  <2>2. Len(A) + 1 \in 1 .. Len(ch) /\ Len(ch) \in 1 .. Len(ch) /\ Len(A) + 1 # Len(ch)
        /\ Len(A) + 1 + 1 \in 1 .. Len(ch)
    BY <1>4, <1>5, <2>1
  <2>3. ch[Len(ch)] # l BY <1>1, <1>4, <2>2 DEF Unique
  <2> DEFINE y == ch[Len(A) + 1 + 1]
  <2>4. NextLeaf(ch, l) = y /\ y \in DOMAIN v
    BY <1>1, <1>6, <2>2, <2>3 DEF NextLeaf
  <2>5. RankOf(ch, y) = Len(A) + 1 + 1 BY <1>1, <2>2, RankWhere
  <2>8. y = B[1]
    <3>1. 1 \in 1 .. Len(B) BY <1>5, <2>1
    <3> QED BY <1>4, <3>1
  <2> HIDE DEF y
  <2>6. Slice(ch, 0, RankOf(ch, y) - 1) = A \o <<l>>
    <3>1. RankOf(ch, y) - 1 = Len(A) + 1 /\ Len(A \o <<l>>) = Len(A) + 1
      BY <1>1, <1>5, <2>5
    <3>2. A \o <<l>> \in Seq(DOMAIN v) BY <1>1, ConcatType
    <3>3. Slice((A \o <<l>>) \o B, 0, Len(A \o <<l>>)) = A \o <<l>>
      BY <1>1, <3>2, SliceConcat
    <3>4. ch = (A \o <<l>>) \o B BY <1>1 DEF Joins
    <3> QED BY <3>1, <3>3, <3>4
  <2>7. Flat(v, A \o <<l>>) = Flat(v, A) \o v[l]
    <3> DEFINE one == <<l>>
    <3>1. one \in Seq(DOMAIN v) /\ A \in Seq(DOMAIN v) BY <1>1
    <3> HIDE DEF one
    <3>4. Flat(v, A \o one) = Flat(v, A) \o Flat(v, one)
      BY <1>2, <3>1, FlatConcat
    <3>2. Flat(v, A \o <<l>>) = Flat(v, A) \o Flat(v, <<l>>) BY <3>4 DEF one
    <3>3. Flat(v, <<l>>) = v[l] BY <1>1, <1>2, FlatOne
    <3> QED BY <3>2, <3>3
  <2> QED BY <2>4, <2>6, <2>7, <2>8 DEF Front
<1> QED BY <1>7, <1>8 DEF NextAt

(* Going on from the end of a leaf keeps the rank. *)
AdjustedTo(v, ch, l, j) ==
  LET it == Adjust(Iter(l, j), v, ch)
  IN  /\ it = Iter(NULL, 0) \/ Points(v, it)
      /\ RankIn(v, ch, it) = Len(Front(v, ch, l)) + j
      /\ Len(Front(v, ch, l)) + j \in 0 .. Len(Flat(v, ch))

LEMMA Adjusts ==
  ASSUME NEW v, NEW ch, Listed(v, ch), NEW l \in DOMAIN v, NEW j \in 0 .. Len(v[l])
  PROVE  AdjustedTo(v, ch, l, j)
<1> DEFINE it == Adjust(Iter(l, j), v, ch)
<1>1. PICK A, B : Placing(v, ch, A, l, B) BY PlacingIs
<1>2. FlatAt(v, ch, A, l, B) /\ NextAt(v, ch, A, l, B) BY <1>1, FlatsAt, NextsAt
<1>3. /\ Front(v, ch, l) = Flat(v, A) /\ Len(Flat(v, A)) \in Nat /\ Len(v[l]) \in Nat /\ Len(Flat(v, B)) \in Nat
      /\ Len(Flat(v, ch)) = Len(Flat(v, A)) + Len(v[l]) + Len(Flat(v, B))
      /\ Flat(v, A) \in Seq(Elems) /\ v[l] \in Seq(Elems)
  BY <1>2, LenProperties DEF FlatAt
<1>4. l # NULL /\ Len(v[l]) # 0 /\ NULL \notin DOMAIN v /\ \A y \in DOMAIN v : Len(v[y]) # 0 /\ v[y] \in Seq(Elems)
  BY DEF Listed
<1>5. Len(Front(v, ch, l)) + j \in 0 .. Len(Flat(v, ch)) BY <1>3
<1>6. CASE j # Len(v[l])
  <2>1. it = Iter(l, j) BY <1>6 DEF Adjust, Iter
  <2>2. j \in 0 .. Len(v[l]) - 1 BY <1>3, <1>6
  <2>3. Points(v, it) BY <2>1, <2>2 DEF Points
  <2>4. RankIn(v, ch, it) = Len(Front(v, ch, l)) + j
    BY <1>4, <2>1 DEF RankIn, Iter
  <2> QED BY <1>5, <2>3, <2>4 DEF AdjustedTo
<1>7. CASE j = Len(v[l])
  <2>1. it = Iter(NextLeaf(ch, l), 0) BY <1>4, <1>7 DEF Adjust, Iter
  <2>2. CASE B = <<>>
    <3>1. it = Iter(NULL, 0) /\ Len(Flat(v, B)) = 0
      BY <1>2, <2>1, <2>2 DEF NextAt
    <3>2. RankIn(v, ch, it) = Len(Front(v, ch, l)) + j
      BY <1>3, <1>7, <3>1 DEF RankIn, Iter
    <3> QED BY <1>5, <3>1, <3>2 DEF AdjustedTo
  <2>3. CASE B # <<>>
    <3> DEFINE y == NextLeaf(ch, l)
    <3>1. y \in DOMAIN v /\ Front(v, ch, y) = Flat(v, A) \o v[l]
      BY <1>2, <2>3 DEF NextAt
    <3>2. Len(Flat(v, A) \o v[l]) = Len(Flat(v, A)) + Len(v[l])
      BY <1>3, ConcatsAt DEF ConcatParts
    <3> HIDE DEF y
    <3>3. Points(v, Iter(y, 0))
      <4>1. Len(v[y]) \in Nat /\ Len(v[y]) # 0 BY <1>4, <3>1, LenProperties
      <4>2. 0 \in 0 .. Len(v[y]) - 1 BY <4>1
      <4> QED BY <3>1, <4>2 DEF Points
    <3>4. it = Iter(y, 0) BY <2>1 DEF y
    <3>5. RankIn(v, ch, it) = Len(Front(v, ch, y)) + 0
      <4>1. y # NULL /\ Iter(y, 0).leaf = y /\ Iter(y, 0).pos = 0
        BY <1>4, <3>1 DEF Iter
      <4> HIDE DEF it
      <4> QED BY <3>4, <4>1 DEF RankIn
    <3>6. RankIn(v, ch, it) = Len(Front(v, ch, l)) + j
      BY <1>3, <1>7, <3>1, <3>2, <3>5
    <3> QED BY <1>5, <3>3, <3>4, <3>6 DEF AdjustedTo
  <2> QED BY <2>2, <2>3
<1> QED BY <1>6, <1>7

PlacingTwo(v, ch, A, x, y, B) ==
  /\ A \in Seq(DOMAIN v) /\ B \in Seq(DOMAIN v) /\ x \in DOMAIN v /\ y \in DOMAIN v /\ ch = Pairs(A, x, y, B)

FlatAtTwo(v, ch, A, x, y, B) ==
  /\ Flat(v, A) \in Seq(Elems) /\ Flat(v, B) \in Seq(Elems) /\ v[x] \in Seq(Elems) /\ v[y] \in Seq(Elems)
  /\ Flat(v, ch) = (Flat(v, A) \o (v[x] \o v[y])) \o Flat(v, B)
  /\ Front(v, ch, x) = Flat(v, A)
  /\ Len(Front(v, ch, y)) = Len(Flat(v, A)) + Len(v[x])

LEMMA FlatsAtTwo ==
  ASSUME NEW v, NEW ch, Listed(v, ch), NEW A, NEW x, NEW y, NEW B, PlacingTwo(v, ch, A, x, y, B)
  PROVE  FlatAtTwo(v, ch, A, x, y, B)
<1>1. /\ A \in Seq(DOMAIN v) /\ B \in Seq(DOMAIN v) /\ x \in DOMAIN v /\ y \in DOMAIN v /\ ch = Pairs(A, x, y, B)
      /\ v[x] \in Seq(Elems) /\ v[y] \in Seq(Elems)
  BY DEF PlacingTwo, Listed
<1>2. Gives(v, DOMAIN v, Elems) BY ListedGives
<1>3. Flat(v, A) \in Seq(Elems) /\ Flat(v, B) \in Seq(Elems)
  BY <1>1, <1>2, FlatType
<1>4. FlatOfPairs(v, A, x, y, B, DOMAIN v, Elems) BY <1>1, <1>2, FlatPairs
<1>5. PairsTyped(A, x, y, B, DOMAIN v) BY <1>1, PairsType
<1>6. Placing(v, ch, A, x, <<y>> \o B) /\ Placing(v, ch, A \o <<x>>, y, B)
  BY <1>1, <1>5 DEF Placing, PairsTyped, Pairs
<1>7. FlatAt(v, ch, A, x, <<y>> \o B) /\ FlatAt(v, ch, A \o <<x>>, y, B)
  BY <1>6, FlatsAt
<1>8. Flat(v, A \o <<x>>) = Flat(v, A) \o v[x]
  <2> DEFINE one == <<x>>
  <2>1. one \in Seq(DOMAIN v) BY <1>1
  <2> HIDE DEF one
  <2>2. Flat(v, A \o one) = Flat(v, A) \o Flat(v, one)
    BY <1>1, <1>2, <2>1, FlatConcat
  <2>3. Flat(v, <<x>>) = v[x] BY <1>1, <1>2, FlatOne
  <2> QED BY <2>2, <2>3 DEF one
<1>9. Len(Flat(v, A) \o v[x]) = Len(Flat(v, A)) + Len(v[x])
  BY <1>1, <1>3, ConcatsAt DEF ConcatParts
<1>10. Front(v, ch, x) = Flat(v, A) /\ Front(v, ch, y) = Flat(v, A \o <<x>>)
  BY <1>7 DEF FlatAt
<1> QED BY <1>1, <1>3, <1>4, <1>8, <1>9, <1>10 DEF FlatAtTwo, FlatOfPairs

LEMMA SameFlat ==
  ASSUME NEW v, NEW ch, Listed(v, ch), NEW A \in Seq(DOMAIN v), NEW w, \A z \in Members(A) : w[z] = v[z]
  PROVE  Flat(w, A) = Flat(v, A)
<1>1. Gives(v, DOMAIN v, Elems) BY ListedGives
<1>2. \A i \in 1 .. Len(A) : w[A[i]] = v[A[i]] BY DEF Members
<1> QED BY <1>1, <1>2, FlatAgree

-----------------------------------------------------------------------------
(* One leaf's elements are replaced. *)
Rewrites(v, w, l) ==
  /\ l \in DOMAIN v /\ DOMAIN w = DOMAIN v /\ (\A z \in DOMAIN v \ {l} : w[z] = v[z])
  /\ w[l] \in Seq(Elems) /\ Len(w[l]) # 0

Rewritten(v, w, ch, A, l, B) ==
  /\ Listed(w, ch) /\ Placing(v, ch, A, l, B)
  /\ Flat(v, A) \in Seq(Elems) /\ Flat(v, B) \in Seq(Elems) /\ v[l] \in Seq(Elems)
  /\ Flat(v, ch) = (Flat(v, A) \o v[l]) \o Flat(v, B)
  /\ Flat(w, ch) = (Flat(v, A) \o w[l]) \o Flat(v, B)
  /\ Front(v, ch, l) = Flat(v, A) /\ Front(w, ch, l) = Flat(v, A)

LEMMA RewriteIs ==
  ASSUME NEW v, NEW ch, Listed(v, ch), NEW l, NEW w, Rewrites(v, w, l)
  PROVE  \E A, B : Rewritten(v, w, ch, A, l, B)
<1>1. /\ l \in DOMAIN v /\ DOMAIN w = DOMAIN v /\ (\A z \in DOMAIN v \ {l} : w[z] = v[z])
      /\ w[l] \in Seq(Elems) /\ Len(w[l]) # 0
  BY DEF Rewrites
<1>2. Listed(w, ch) BY <1>1 DEF Listed
<1>3. PICK A, B : Placing(v, ch, A, l, B) BY <1>1, PlacingIs
<1>4. Placing(w, ch, A, l, B) BY <1>1, <1>3 DEF Placing
<1>5. FlatAt(v, ch, A, l, B) /\ FlatAt(w, ch, A, l, B)
  BY <1>2, <1>3, <1>4, FlatsAt
<1>6. l \notin Members(A) /\ l \notin Members(B) /\ A \in Seq(DOMAIN v) /\ B \in Seq(DOMAIN v)
  <2>1. Unique(Joins(A, l, B)) /\ A \in Seq(DOMAIN v) /\ B \in Seq(DOMAIN v)
    BY <1>3 DEF Placing, Listed
  <2> QED BY <1>1, <2>1, PartApart
<1>7. Flat(w, A) = Flat(v, A) /\ Flat(w, B) = Flat(v, B)
  <2>1. Members(A) \subseteq DOMAIN v /\ Members(B) \subseteq DOMAIN v
    BY <1>6, MembersIn
  <2>2. (\A z \in Members(A) : w[z] = v[z]) /\ \A z \in Members(B) : w[z] = v[z]
    BY <1>1, <1>6, <2>1
  <2> QED BY <1>6, <2>2, SameFlat
<1> QED BY <1>2, <1>3, <1>5, <1>7 DEF Rewritten, FlatAt

PartLen(F, V, G, E) ==
  Len((F \o V) \o G) = Len(F) + Len(V) + Len(G) /\ Len(F) \in Nat /\ Len(V) \in Nat /\ Len(G) \in Nat

LEMMA PartLens ==
  ASSUME NEW E, NEW F \in Seq(E), NEW V \in Seq(E), NEW G \in Seq(E)
  PROVE  PartLen(F, V, G, E)
<1>1. Len((F \o V) \o G) = Len(F) + Len(V) + Len(G) BY PartOf
<1> QED BY <1>1, LenProperties DEF PartLen

CutsHere(v, w, ch, l, i, g) ==
  /\ Listed(w, ch)
  /\ Flat(w, ch) = CutOut(Flat(v, ch), Len(Front(v, ch, l)) + i, g)
  /\ Front(w, ch, l) = Front(v, ch, l)
  /\ Len(Flat(w, ch)) = Len(Flat(v, ch)) - g

LEMMA CutHere ==
  ASSUME NEW v, NEW ch, Listed(v, ch), NEW l, NEW w, Rewrites(v, w, l),
         NEW i \in Nat, NEW g \in Nat, i + g <= Len(v[l]), w[l] = CutOut(v[l], i, g)
  PROVE  CutsHere(v, w, ch, l, i, g)
<1>1. PICK A, B : Rewritten(v, w, ch, A, l, B) BY RewriteIs
<1> DEFINE F == Flat(v, A)
           V == v[l]
           G == Flat(v, B)
<1>2. /\ F \in Seq(Elems) /\ G \in Seq(Elems) /\ V \in Seq(Elems) /\ Flat(v, ch) = (F \o V) \o G
      /\ Flat(w, ch) = (F \o w[l]) \o G /\ Front(v, ch, l) = F /\ Front(w, ch, l) = F /\ Listed(w, ch)
  BY <1>1 DEF Rewritten
<1> HIDE DEF F, V, G
<1>3. i + g <= Len(V) /\ w[l] = CutOut(V, i, g) BY DEF V
<1>4. CutInside(F, V, G, i, g, Elems) BY <1>2, <1>3, CutWithin
<1>5. CutOut(V, i, g) \in Seq(Elems) /\ Len(CutOut(V, i, g)) = Len(V) - g
      /\ (F \o CutOut(V, i, g)) \o G = CutOut((F \o V) \o G, Len(F) + i, g)
  BY <1>4 DEF CutInside
<1>6. Len(Flat(w, ch)) = Len(Flat(v, ch)) - g
  <2>1. PartLen(F, V, G, Elems) BY <1>2, PartLens
  <2> DEFINE X == CutOut(V, i, g)
  <2> HIDE DEF X
  <2>2. X \in Seq(Elems) /\ Len(X) = Len(V) - g BY <1>5 DEF X
  <2>3. PartLen(F, X, G, Elems) BY <1>2, <2>2, PartLens
  <2>4. Flat(w, ch) = (F \o X) \o G BY <1>2, <1>3 DEF X
  <2> QED BY <1>2, <2>1, <2>2, <2>3, <2>4 DEF PartLen
<1> QED BY <1>2, <1>3, <1>5, <1>6 DEF CutsHere

PutsHere(v, w, ch, l, i, e) ==
  /\ Listed(w, ch)
  /\ Flat(w, ch) = Put(Flat(v, ch), Len(Front(v, ch, l)) + i, e)
  /\ Front(w, ch, l) = Front(v, ch, l)

LEMMA PutHere ==
  ASSUME NEW v, NEW ch, Listed(v, ch), NEW l, NEW w, Rewrites(v, w, l),
         NEW i \in 0 .. Len(v[l]), NEW e \in Elems, w[l] = Put(v[l], i, e)
  PROVE  PutsHere(v, w, ch, l, i, e)
<1>1. PICK A, B : Rewritten(v, w, ch, A, l, B) BY RewriteIs
<1> DEFINE F == Flat(v, A)
           V == v[l]
           G == Flat(v, B)
<1>2. /\ F \in Seq(Elems) /\ G \in Seq(Elems) /\ V \in Seq(Elems) /\ Flat(v, ch) = (F \o V) \o G
      /\ Flat(w, ch) = (F \o w[l]) \o G /\ Front(v, ch, l) = F /\ Front(w, ch, l) = F /\ Listed(w, ch)
  BY <1>1 DEF Rewritten
<1> HIDE DEF F, V, G
<1>3. i \in 0 .. Len(V) /\ w[l] = Put(V, i, e) BY DEF V
<1>4. PutInside(F, V, G, i, e, Elems) BY <1>2, <1>3, PutWithin
<1> QED BY <1>2, <1>3, <1>4 DEF PutsHere, PutInside

CutLen(F, V, G, i, g, E) ==
  /\ (F \o CutOut(V, i, g)) \o G = CutOut((F \o V) \o G, Len(F) + i, g)
  /\ Len((F \o CutOut(V, i, g)) \o G) = Len((F \o V) \o G) - g
  /\ CutOut(V, i, g) \in Seq(E) /\ Len(CutOut(V, i, g)) = Len(V) - g

LEMMA CutLens ==
  ASSUME NEW E, NEW F \in Seq(E), NEW V \in Seq(E), NEW G \in Seq(E), NEW i \in Nat, NEW g \in Nat, i + g <= Len(V)
  PROVE  CutLen(F, V, G, i, g, E)
<1> DEFINE X == CutOut(V, i, g)
<1>1. CutInside(F, V, G, i, g, E) BY CutWithin
<1>2. X \in Seq(E) /\ Len(X) = Len(V) - g BY <1>1 DEF CutInside
<1> HIDE DEF X
<1>3. PartLen(F, V, G, E) /\ PartLen(F, X, G, E) BY <1>2, PartLens
<1>4. Len((F \o X) \o G) = Len((F \o V) \o G) - g BY <1>2, <1>3 DEF PartLen
<1> QED BY <1>1, <1>2, <1>4 DEF CutLen, CutInside, X

LEMMA PlacedApart ==
  ASSUME NEW v, NEW ch, Listed(v, ch), NEW A, NEW x, NEW y, NEW B, PlacingTwo(v, ch, A, x, y, B)
  PROVE  /\ x \notin Members(A) /\ x \notin Members(B) /\ y \notin Members(A) /\ y \notin Members(B) /\ x # y
         /\ Members(A) \subseteq DOMAIN v /\ Members(B) \subseteq DOMAIN v
<1>1. A \in Seq(DOMAIN v) /\ B \in Seq(DOMAIN v) /\ x \in DOMAIN v /\ y \in DOMAIN v /\ Unique(Pairs(A, x, y, B))
  BY DEF PlacingTwo, Listed
<1> QED BY <1>1, PairsApart, MembersIn

-----------------------------------------------------------------------------
(* Two neighbours' elements are divided differently, some of them gone. *)
CutsTwo(v, w, ch, x, y, i, g) ==
  /\ Listed(w, ch)
  /\ Flat(w, ch) = CutOut(Flat(v, ch), Len(Front(v, ch, x)) + i, g)
  /\ Front(w, ch, x) = Front(v, ch, x)
  /\ Len(Front(v, ch, y)) = Len(Front(v, ch, x)) + Len(v[x])
  /\ Len(Front(w, ch, y)) = Len(Front(v, ch, x)) + Len(w[x])
  /\ Len(Flat(w, ch)) = Len(Flat(v, ch)) - g

LEMMA CutTwo ==
  ASSUME NEW v, NEW ch, Listed(v, ch), NEW A, NEW x, NEW y, NEW B, PlacingTwo(v, ch, A, x, y, B),
         NEW w, DOMAIN w = DOMAIN v, \A z \in DOMAIN v \ {x, y} : w[z] = v[z],
         w[x] \in Seq(Elems), w[y] \in Seq(Elems), Len(w[x]) # 0, Len(w[y]) # 0,
         NEW i \in Nat, NEW g \in Nat, i + g <= Len(v[x] \o v[y]), w[x] \o w[y] = CutOut(v[x] \o v[y], i, g)
  PROVE  CutsTwo(v, w, ch, x, y, i, g)
<1>1. Listed(w, ch) /\ PlacingTwo(w, ch, A, x, y, B) BY DEF Listed, PlacingTwo
<1>2. FlatAtTwo(v, ch, A, x, y, B) /\ FlatAtTwo(w, ch, A, x, y, B)
  BY <1>1, FlatsAtTwo
<1>3. Flat(w, A) = Flat(v, A) /\ Flat(w, B) = Flat(v, B)
  <2>1. A \in Seq(DOMAIN v) /\ B \in Seq(DOMAIN v) BY DEF PlacingTwo
  <2>2. (\A z \in Members(A) : w[z] = v[z]) /\ \A z \in Members(B) : w[z] = v[z]
    <3>1. /\ x \notin Members(A) /\ x \notin Members(B) /\ y \notin Members(A) /\ y \notin Members(B)
          /\ Members(A) \subseteq DOMAIN v /\ Members(B) \subseteq DOMAIN v
      BY PlacedApart
    <3> QED BY <3>1
  <2> QED BY <2>1, <2>2, SameFlat
<1> DEFINE F == Flat(v, A)
           V == v[x] \o v[y]
           G == Flat(v, B)
<1>4. /\ F \in Seq(Elems) /\ G \in Seq(Elems) /\ V \in Seq(Elems)
      /\ Flat(v, ch) = (F \o V) \o G /\ Flat(w, ch) = (F \o (w[x] \o w[y])) \o G
      /\ Front(v, ch, x) = F /\ Front(w, ch, x) = F
      /\ Len(Front(v, ch, y)) = Len(F) + Len(v[x])
      /\ Len(Front(w, ch, y)) = Len(F) + Len(w[x])
  <2>1. V \in Seq(Elems) BY <1>2, ConcatType DEF FlatAtTwo
  <2> QED BY <1>2, <1>3, <2>1 DEF FlatAtTwo
<1>5. i + g <= Len(V) /\ w[x] \o w[y] = CutOut(V, i, g) OBVIOUS
<1> HIDE DEF F, V, G
<1>6. CutLen(F, V, G, i, g, Elems) BY <1>4, <1>5, CutLens
<1> QED BY <1>1, <1>4, <1>5, <1>6 DEF CutsTwo, CutLen

(* The elements of y go to its left neighbour x, some of them gone. *)
CutsMerge(v, w, ch, ch2, x, y, i, g) ==
  /\ Listed(w, ch2)
  /\ Flat(w, ch2) = CutOut(Flat(v, ch), Len(Front(v, ch, x)) + i, g)
  /\ Front(w, ch2, x) = Front(v, ch, x)
  /\ Len(Front(v, ch, y)) = Len(Front(v, ch, x)) + Len(v[x])
  /\ Len(Flat(w, ch2)) = Len(Flat(v, ch)) - g

LEMMA CutMerge ==
  ASSUME NEW v, NEW ch, Listed(v, ch), NEW A, NEW x, NEW y, NEW B, PlacingTwo(v, ch, A, x, y, B),
         NEW w, DOMAIN w = DOMAIN v \ {y}, \A z \in DOMAIN v \ {x, y} : w[z] = v[z], Len(w[x]) # 0,
         NEW i \in Nat, NEW g \in Nat, i + g <= Len(v[x] \o v[y]), w[x] = CutOut(v[x] \o v[y], i, g)
  PROVE  CutsMerge(v, w, ch, Unlinked(ch, y), x, y, i, g)
<1> DEFINE ch2 == Unlinked(ch, y)
           F == Flat(v, A)
           V == v[x] \o v[y]
           G == Flat(v, B)
<1>1. FlatAtTwo(v, ch, A, x, y, B) BY FlatsAtTwo
<1>2. /\ A \in Seq(DOMAIN v) /\ B \in Seq(DOMAIN v) /\ x \in DOMAIN v /\ y \in DOMAIN v /\ ch = Pairs(A, x, y, B)
      /\ ch \in Seq(DOMAIN v) /\ Unique(ch) /\ Members(ch) = DOMAIN v
  BY DEF PlacingTwo, Listed
<1>3. /\ x \notin Members(A) /\ x \notin Members(B) /\ y \notin Members(A) /\ y \notin Members(B) /\ x # y
      /\ Members(A) \subseteq DOMAIN v /\ Members(B) \subseteq DOMAIN v
  BY PlacedApart
<1>4. /\ F \in Seq(Elems) /\ G \in Seq(Elems) /\ V \in Seq(Elems) /\ Flat(v, ch) = (F \o V) \o G
      /\ Front(v, ch, x) = F /\ Len(Front(v, ch, y)) = Len(F) + Len(v[x])
  <2>1. V \in Seq(Elems) BY <1>1, ConcatType DEF FlatAtTwo
  <2> QED BY <1>1, <2>1 DEF FlatAtTwo
<1>5. i + g <= Len(V) /\ w[x] = CutOut(V, i, g) OBVIOUS
<1> HIDE DEF F, V, G
<1>6. CutLen(F, V, G, i, g, Elems) BY <1>4, <1>5, CutLens
<1>7. ch2 = Joins(A, x, B)
  <2>1. PairsTyped(A, x, y, B, DOMAIN v) BY <1>2, PairsType
  <2>2. A \o <<x>> \in Seq(DOMAIN v) /\ Unique(Joins(A \o <<x>>, y, B))
    BY <1>2, <2>1 DEF PairsTyped, Pairs
  <2> DEFINE s == A \o <<x>>
  <2>4. s \in Seq(DOMAIN v) /\ Unique(Joins(s, y, B)) /\ y \in DOMAIN v /\ B \in Seq(DOMAIN v)
    BY <1>2, <2>2
  <2> HIDE DEF s
  <2>5. Unlinked(Joins(s, y, B), y) = s \o B BY <2>4, UnlinkedJoins
  <2>3. Unlinked(Joins(A \o <<x>>, y, B), y) = (A \o <<x>>) \o B BY <2>5 DEF s
  <2> QED BY <1>2, <2>3 DEF Pairs, Joins
<1>8. ch2 \in Seq(DOMAIN v) /\ Unique(ch2) /\ Members(ch2) = DOMAIN v \ {y}
  BY <1>2, UnlinkedIs
<1> HIDE DEF ch2
<1>9. Listed(w, ch2)
  <2>1. ch2 \in Seq(DOMAIN w) BY <1>8, SeqSub
  <2>2. w[x] \in Seq(Elems) BY <1>5, <1>6 DEF CutLen
  <2> QED BY <1>8, <2>1, <2>2 DEF Listed
<1>10. Placing(w, ch2, A, x, B)
  <2>1. A \in Seq(DOMAIN v \ {y}) /\ B \in Seq(DOMAIN v \ {y})
    <3>1. Members(A) \subseteq DOMAIN v \ {y} /\ Members(B) \subseteq DOMAIN v \ {y}
      BY <1>3
    <3> QED BY <1>2, <3>1, SeqSub
  <2> QED BY <1>2, <1>3, <1>7, <2>1 DEF Placing
<1>11. FlatAt(w, ch2, A, x, B) BY <1>9, <1>10, FlatsAt
<1>12. Flat(w, A) = F /\ Flat(w, B) = G
  <2>1. (\A z \in Members(A) : w[z] = v[z]) /\ \A z \in Members(B) : w[z] = v[z]
    BY <1>3
  <2> QED BY <1>2, <2>1, SameFlat DEF F, G
<1>13. Flat(w, ch2) = (F \o w[x]) \o G /\ Front(w, ch2, x) = F
  BY <1>11, <1>12 DEF FlatAt
<1>14. CutsMerge(v, w, ch, ch2, x, y, i, g)
  BY <1>4, <1>5, <1>6, <1>9, <1>13 DEF CutsMerge, CutLen
<1> QED BY <1>14 DEF ch2

(* A leaf's elements, one more among them, are divided with a new leaf *)
(* behind it. *)
PutsSplit(v, w, ch, ch2, x, y, i, e) ==
  /\ Listed(w, ch2)
  /\ Flat(w, ch2) = Put(Flat(v, ch), Len(Front(v, ch, x)) + i, e)
  /\ Front(w, ch2, x) = Front(v, ch, x)
  /\ Len(Front(w, ch2, y)) = Len(Front(v, ch, x)) + Len(w[x])

LEMMA PutSplit ==
  ASSUME NEW v, NEW ch, Listed(v, ch), NEW x \in DOMAIN v, NEW y, y \notin DOMAIN v, y # NULL,
         NEW w, DOMAIN w = DOMAIN v \cup {y}, \A z \in DOMAIN v \ {x} : w[z] = v[z],
         w[x] \in Seq(Elems), w[y] \in Seq(Elems), Len(w[x]) # 0, Len(w[y]) # 0,
         NEW i \in 0 .. Len(v[x]), NEW e \in Elems, w[x] \o w[y] = Put(v[x], i, e)
  PROVE  PutsSplit(v, w, ch, Linked(ch, x, y), x, y, i, e)
<1>1. PICK A, B : Placing(v, ch, A, x, B) BY PlacingIs
<1> DEFINE ch2 == Linked(ch, x, y)
           F == Flat(v, A)
           V == v[x]
           G == Flat(v, B)
           D == DOMAIN v \cup {y}
<1>2. /\ A \in Seq(DOMAIN v) /\ B \in Seq(DOMAIN v) /\ ch = Joins(A, x, B)
      /\ ch \in Seq(DOMAIN v) /\ Unique(ch) /\ Members(ch) = DOMAIN v
  BY <1>1 DEF Placing, Listed
<1>3. FlatAt(v, ch, A, x, B) BY <1>1, FlatsAt
<1>4. F \in Seq(Elems) /\ G \in Seq(Elems) /\ V \in Seq(Elems) /\ Flat(v, ch) = (F \o V) \o G /\ Front(v, ch, x) = F
  BY <1>3 DEF FlatAt
<1>5. x \notin Members(A) /\ x \notin Members(B) /\ Members(A) \subseteq DOMAIN v /\ Members(B) \subseteq DOMAIN v
  BY <1>2, PartApart, MembersIn
<1>6. i \in 0 .. Len(V) /\ w[x] \o w[y] = Put(V, i, e) OBVIOUS
<1> HIDE DEF F, V, G
<1>7. PutInside(F, V, G, i, e, Elems) BY <1>4, <1>6, PutWithin
<1>8. ch2 = Pairs(A, x, y, B)
  <2>1. Unique(Joins(A, x, B)) BY <1>2
  <2>2. Linked(Joins(A, x, B), x, y) = Joins(A \o <<x>>, y, B)
    BY <1>2, <2>1, LinkedJoins
  <2> QED BY <1>2, <2>2 DEF Pairs
<1>9. ch2 \in Seq(D) /\ Unique(ch2) /\ Members(ch2) = D
  <2>1. ch \in Seq(D) /\ x \in Members(ch) /\ y \in D /\ y \notin Members(ch)
    <3>1. Members(ch) \subseteq D BY <1>2
    <3> QED BY <1>2, <3>1, SeqSub
  <2> HIDE DEF D
  <2>2. ch2 \in Seq(D) /\ Unique(ch2) /\ Members(ch2) = Members(ch) \cup {y}
    BY <1>2, <2>1, LinkedIs
  <2> QED BY <1>2, <2>2 DEF D
<1> HIDE DEF ch2
<1>10. Listed(w, ch2) BY <1>9 DEF Listed
<1>11. PlacingTwo(w, ch2, A, x, y, B)
  <2>1. A \in Seq(D) /\ B \in Seq(D)
    <3>1. Members(A) \subseteq D /\ Members(B) \subseteq D BY <1>5
    <3> HIDE DEF D
    <3> QED BY <1>2, <3>1, SeqSub
  <2> QED BY <1>8, <2>1 DEF PlacingTwo
<1>12. FlatAtTwo(w, ch2, A, x, y, B) BY <1>10, <1>11, FlatsAtTwo
<1>13. Flat(w, A) = F /\ Flat(w, B) = G
  <2>1. (\A z \in Members(A) : w[z] = v[z]) /\ \A z \in Members(B) : w[z] = v[z]
    BY <1>5
  <2> QED BY <1>2, <2>1, SameFlat DEF F, G
<1>14. PutsSplit(v, w, ch, ch2, x, y, i, e)
  BY <1>4, <1>6, <1>7, <1>10, <1>12, <1>13 DEF PutsSplit, FlatAtTwo, PutInside
<1> QED BY <1>14 DEF ch2

(* A leaf goes with its elements. *)
CutsWhole(v, w, ch, ch2, l) ==
  LET it == Iter(NextLeaf(ch, l), 0)
  IN  /\ Listed(w, ch2)
      /\ Flat(w, ch2) = CutOut(Flat(v, ch), Len(Front(v, ch, l)), Len(v[l]))
      /\ Len(Flat(w, ch2)) = Len(Flat(v, ch)) - Len(v[l])
      /\ it = Iter(NULL, 0) \/ Points(w, it)
      /\ RankIn(w, ch2, it) = Len(Front(v, ch, l))

LEMMA CutWhole ==
  ASSUME NEW v, NEW ch, Listed(v, ch), NEW l \in DOMAIN v,
         NEW w, DOMAIN w = DOMAIN v \ {l}, \A z \in DOMAIN v \ {l} : w[z] = v[z]
  PROVE  CutsWhole(v, w, ch, Unlinked(ch, l), l)
<1>1. PICK A, B : Placing(v, ch, A, l, B) BY PlacingIs
<1> DEFINE ch2 == Unlinked(ch, l)
           F == Flat(v, A)
           V == v[l]
           G == Flat(v, B)
           D == DOMAIN v \ {l}
           y == NextLeaf(ch, l)
<1>2. /\ A \in Seq(DOMAIN v) /\ B \in Seq(DOMAIN v) /\ ch = Joins(A, l, B)
      /\ ch \in Seq(DOMAIN v) /\ Unique(ch) /\ Members(ch) = DOMAIN v /\ NULL \notin DOMAIN v
  BY <1>1 DEF Placing, Listed
<1>3. FlatAt(v, ch, A, l, B) /\ NextAt(v, ch, A, l, B) BY <1>1, FlatsAt, NextsAt
<1>4. F \in Seq(Elems) /\ G \in Seq(Elems) /\ V \in Seq(Elems) /\ Flat(v, ch) = (F \o V) \o G /\ Front(v, ch, l) = F
  BY <1>3 DEF FlatAt
<1>5. l \notin Members(A) /\ l \notin Members(B) /\ Members(A) \subseteq DOMAIN v /\ Members(B) \subseteq DOMAIN v
  BY <1>2, PartApart, MembersIn
<1>6. ch2 = A \o B
  <2>1. Unique(Joins(A, l, B)) BY <1>2
  <2>2. Unlinked(Joins(A, l, B), l) = A \o B BY <1>2, <2>1, UnlinkedJoins
  <2> QED BY <1>2, <2>2
<1>7. ch2 \in Seq(DOMAIN v) /\ Unique(ch2) /\ Members(ch2) = D
  <2>1. l \in Members(ch) BY <1>2
  <2> QED BY <1>2, <2>1, UnlinkedIs
<1> HIDE DEF F, V, G, ch2, y
<1>8. Listed(w, ch2)
  <2>1. ch2 \in Seq(D) BY <1>7, SeqSub
  <2> QED BY <1>7, <2>1 DEF Listed
<1>9. A \in Seq(D) /\ B \in Seq(D)
  <2>1. Members(A) \subseteq D /\ Members(B) \subseteq D BY <1>5
  <2> HIDE DEF D
  <2> QED BY <1>2, <2>1, SeqSub
<1>10. Flat(w, A) = F /\ Flat(w, B) = G
  <2>1. (\A z \in Members(A) : w[z] = v[z]) /\ \A z \in Members(B) : w[z] = v[z]
    BY <1>5
  <2> QED BY <1>2, <2>1, SameFlat DEF F, G
<1>11. Flat(w, ch2) = F \o G
  <2>1. Gives(w, D, Elems) BY <1>8 DEF Listed, Gives
  <2> HIDE DEF D
  <2>2. Flat(w, A \o B) = Flat(w, A) \o Flat(w, B) BY <1>9, <2>1, FlatConcat
  <2> QED BY <1>6, <1>10, <2>2
<1>12. CutOutOf(F, V, G, Elems) /\ PartLen(F, V, G, Elems)
  BY <1>4, CutsOut, PartLens
<1>13. Flat(w, ch2) = CutOut(Flat(v, ch), Len(F), Len(V)) /\ Len(Flat(w, ch2)) = Len(Flat(v, ch)) - Len(V)
       /\ Len(F \o G) = Len(F) + Len(G)
  BY <1>4, <1>11, <1>12 DEF CutOutOf, PartLen
<1>14. CASE B = <<>>
  <2>1. y = NULL /\ G = <<>> BY <1>3, <1>14 DEF NextAt, y, G
  <2>2. RankIn(w, ch2, Iter(y, 0)) = Len(F)
    <3>1. Len(G) = 0 /\ Len(F) \in Nat BY <1>12, <2>1 DEF PartLen
    <3> QED BY <1>11, <1>13, <2>1, <3>1 DEF RankIn, Iter
  <2>3. CutsWhole(v, w, ch, ch2, l)
    BY <1>4, <1>8, <1>13, <2>1, <2>2 DEF CutsWhole, y, V
  <2> QED BY <2>3 DEF ch2
<1>15. CASE B # <<>>
  <2>1. y = B[1] BY <1>3, <1>15 DEF NextAt, y
  <2>2. 1 \in 1 .. Len(B)
    <3>1. Len(B) \in Nat /\ Len(B) # 0 BY <1>2, <1>15, LenProperties, EmptySeq
    <3> QED BY <3>1
  <2> DEFINE P == Slice(B, 0, 0)
             Q == Slice(B, 1, Len(B))
  <2>3. B = Joins(P, y, Q) /\ y \in D /\ Q \in Seq(D)
    <3>1. B = Joins(Slice(B, 0, 1 - 1), B[1], Slice(B, 1, Len(B))) /\ B[1] \in D /\ Slice(B, 1, Len(B)) \in Seq(D)
      <4> HIDE DEF D
      <4> QED BY <1>9, <2>2, JoinsWhere
    <3> QED BY <2>1, <3>1
  <2>4. P = <<>>
    <3>1. 0 \in 0 .. Len(B) BY <2>2
    <3> QED BY <1>2, <3>1, SliceAll
  <2> HIDE DEF D, P, Q
  <2>5. ch2 = Joins(A, y, Q)
    <3>1. B = <<y>> \o Q BY <2>3, <2>4 DEF Joins
    <3> DEFINE one == <<y>>
    <3>2. one \in Seq(D) BY <2>3
    <3> HIDE DEF one
    <3>3. Associate(A, one, Q) BY <1>9, <2>3, <3>2, Associative
    <3> QED BY <1>6, <3>1, <3>3 DEF Associate, Joins, one
  <2>6. Placing(w, ch2, A, y, Q) BY <1>9, <2>3, <2>5 DEF Placing, D
  <2>7. FlatAt(w, ch2, A, y, Q) BY <1>8, <2>6, FlatsAt
  <2>8. Front(w, ch2, y) = F BY <1>10, <2>7 DEF FlatAt
  <2>9. Len(w[y]) \in Nat /\ Len(w[y]) # 0 /\ y # NULL /\ y \in DOMAIN w
    BY <1>2, <1>8, <2>3, LenProperties DEF Listed, D
  <2>10. Points(w, Iter(y, 0))
    <3>1. 0 \in 0 .. Len(w[y]) - 1 BY <2>9
    <3> QED BY <2>9, <3>1 DEF Points
  <2>11. RankIn(w, ch2, Iter(y, 0)) = Len(F)
    <3>1. Iter(y, 0).leaf = y /\ Iter(y, 0).pos = 0 BY DEF Iter
    <3>2. Len(F) \in Nat BY <1>12 DEF PartLen
    <3> QED BY <2>8, <2>9, <3>1, <3>2 DEF RankIn
  <2>12. CutsWhole(v, w, ch, ch2, l)
    BY <1>4, <1>8, <1>13, <2>10, <2>11 DEF CutsWhole, y, V
  <2> QED BY <2>12 DEF ch2
<1> QED BY <1>14, <1>15

=============================================================================
