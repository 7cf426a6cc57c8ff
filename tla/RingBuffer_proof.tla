------------------------- MODULE RingBuffer_proof --------------------------
(***************************************************************************)
(* Proofs about RingBuffer, for any elements, blocks and capacities.       *)
(*                                                                         *)
(* The invariant is that the cells of a buffer are determined by where it  *)
(* starts and by the sequence it stands for (Image).  A lemma about each   *)
(* operation shows, without reference to the state, that it turns the image *)
(* of one sequence into the image of another and respects lifetimes; three *)
(* lemmas carry that over to the heap of all buffers.                      *)
(***************************************************************************)
EXTENDS RingBuffer, SequenceTheorems, TLAPS

Rec == [data : Blocks, head : Nat, tail : Nat, size : Nat, cap : Nat]

Shape(q) ==
  /\ q \in Rec
  /\ q.head < q.cap /\ q.size <= q.cap /\ q.cap <= MaxCapacity
  /\ q.tail = Forth(q, q.head, q.size)

(* The cells of a buffer with storage q that stands for s. *)
Image(q, s) ==
  [i \in 0 .. q.cap - 1 |-> IF PlaceOf(q, i) < q.size THEN s[PlaceOf(q, i) + 1] ELSE RAW]

Good(q, c, s) == Shape(q) /\ s \in Seq(Elems) /\ Len(s) = q.size /\ c = Image(q, s)

RingOK(r) ==
  \/ ring[r] = NoStorage /\ queue[r] = <<>>
  \/ ring[r].data \in DOMAIN heap /\ Good(ring[r], heap[ring[r].data], queue[r])

IInv ==
  /\ ok = TRUE
  /\ DOMAIN heap \subseteq Blocks /\ heap = [b \in DOMAIN heap |-> heap[b]]
  /\ ring \in [Rings -> Rec \cup {NoStorage}]
  /\ queue \in [Rings -> Seq(Elems)]
  /\ \A r \in Rings : RingOK(r)
  /\ StorageOwned

-----------------------------------------------------------------------------
(* Pointers and places. *)

(* What the shape of a storage says about its numbers. *)
LEMMA Fields ==
  ASSUME NEW q, Shape(q)
  PROVE  /\ q.head \in Nat /\ q.tail \in Nat /\ q.size \in Nat /\ q.cap \in Nat
         /\ q.data \in Blocks /\ q.head < q.cap /\ q.size <= q.cap /\ q.tail < q.cap
         /\ q.tail = IF q.size < q.cap - q.head THEN q.head + q.size
                      ELSE q.size - (q.cap - q.head)
  BY DEF Shape, Rec, Forth

(* Every cell has a place, and Forth from the head finds the cell of a *)
(* place. *)
LEMMA Places ==
  ASSUME NEW q, Shape(q)
  PROVE  /\ \A i \in 0 .. q.cap - 1 :
              /\ PlaceOf(q, i) \in 0 .. q.cap - 1
              /\ Forth(q, q.head, PlaceOf(q, i)) = i
         /\ \A k \in 0 .. q.cap - 1 :
              /\ Forth(q, q.head, k) \in 0 .. q.cap - 1
              /\ PlaceOf(q, Forth(q, q.head, k)) = k
  BY DEF Shape, Rec, PlaceOf, Forth

(* The cells of the first n places: up to the end of the array, or all *)
(* behind the head and some before it. *)
LEMMA FirstPlaces ==
  ASSUME NEW q, Shape(q), NEW n, n \in Nat
  PROVE  /\ n <= q.cap - q.head =>
              \A i \in 0 .. q.cap - 1 : PlaceOf(q, i) < n <=> q.head <= i /\ i < q.head + n
         /\ q.cap - q.head <= n =>
              \A i \in 0 .. q.cap - 1 :
                PlaceOf(q, i) < n <=> q.head <= i \/ i < n - (q.cap - q.head)
<1>f. q.head \in Nat /\ q.cap \in Nat /\ q.head < q.cap
  BY Fields
<1>1. \A i \in 0 .. q.cap - 1 :
        n <= q.cap - q.head => (PlaceOf(q, i) < n <=> q.head <= i /\ i < q.head + n)
  <2> TAKE i \in 0 .. q.cap - 1
  <2> QED BY <1>f DEF PlaceOf
<1>2. \A i \in 0 .. q.cap - 1 :
        q.cap - q.head <= n =>
          (PlaceOf(q, i) < n <=> q.head <= i \/ i < n - (q.cap - q.head))
  <2> TAKE i \in 0 .. q.cap - 1
  <2> QED BY <1>f DEF PlaceOf
<1> QED BY <1>1, <1>2

(* The occupied cells are those whose place is below the size. *)
LEMMA OccupiedPlaces ==
  ASSUME NEW q, Shape(q)
  PROVE  /\ Occupied(q) \subseteq 0 .. q.cap - 1
         /\ \A i \in 0 .. q.cap - 1 : i \in Occupied(q) <=> PlaceOf(q, i) < q.size
  BY DEF Shape, Rec, PlaceOf, Forth, Occupied

(* A cell of an image is alive just when it is occupied. *)
LEMMA ImageLive ==
  ASSUME NEW q, NEW c, NEW s, Good(q, c, s)
  PROVE  /\ DOMAIN c = 0 .. q.cap - 1
         /\ \A i \in DOMAIN c : c[i] \in Elems \cup {RAW}
         /\ \A i \in DOMAIN c : c[i] # RAW <=> PlaceOf(q, i) < q.size
         /\ \A k \in 1 .. q.size : c[Forth(q, q.head, k - 1)] = s[k]
<1>1. Shape(q) /\ s \in Seq(Elems) /\ Len(s) = q.size /\ c = Image(q, s)
  BY DEF Good
<1>2. q.cap \in Nat /\ q.size \in Nat /\ q.size <= q.cap BY <1>1 DEF Shape, Rec
<1>3. \A i \in 0 .. q.cap - 1 : PlaceOf(q, i) \in 0 .. q.cap - 1 BY <1>1, Places
<1>4. \A k \in 1 .. q.size : s[k] \in Elems BY <1>1
<1>5. DOMAIN c = 0 .. q.cap - 1 BY <1>1 DEF Image
<1>6. \A i \in DOMAIN c : c[i] = IF PlaceOf(q, i) < q.size THEN s[PlaceOf(q, i) + 1] ELSE RAW
  BY <1>1 DEF Image
<1>7. \A i \in DOMAIN c : PlaceOf(q, i) < q.size => s[PlaceOf(q, i) + 1] \in Elems
  BY <1>2, <1>3, <1>4, <1>5
<1>8. \A k \in 1 .. q.size : c[Forth(q, q.head, k - 1)] = s[k]
  <2> TAKE k \in 1 .. q.size
  <2>1. k - 1 \in 0 .. q.cap - 1 BY <1>2
  <2>2. Forth(q, q.head, k - 1) \in DOMAIN c /\ PlaceOf(q, Forth(q, q.head, k - 1)) = k - 1
    BY <2>1, <1>1, <1>5, Places
  <2> QED BY <2>2, <1>6, <1>2
<1> QED BY <1>5, <1>6, <1>7, <1>8, RawAssumption

(* Cells that agree with an image everywhere are that image. *)
LEMMA IsImage ==
  ASSUME NEW q, NEW s, NEW f, Shape(q), s \in Seq(Elems), Len(s) = q.size,
         f = [i \in 0 .. q.cap - 1 |-> f[i]],
         \A i \in 0 .. q.cap - 1 :
           f[i] = IF PlaceOf(q, i) < q.size THEN s[PlaceOf(q, i) + 1] ELSE RAW
  PROVE  Good(q, f, s)
  BY DEF Good, Image

-----------------------------------------------------------------------------
(* The operations, one buffer at a time: from the cells c of a buffer q *)
(* that stands for s. *)

Of(c) == [cell |-> c, ok |-> TRUE]

(* The memory of an array of n cells, no lifetime violated so far. *)
Lives(n, m) == m.ok /\ m.cell = [i \in 0 .. n - 1 |-> m.cell[i]]

(* The cells from one offset up to another are all raw, or all alive. *)
RawIn(m, n, from, to) == \A i \in 0 .. n - 1 : from <= i /\ i < to => m.cell[i] = RAW
AliveIn(m, n, from, to) == \A i \in 0 .. n - 1 : from <= i /\ i < to => m.cell[i] # RAW

(* d is m with s from an offset on, or without what is between two offsets. *)
Written(d, m, n, at, s) ==
  \A i \in 0 .. n - 1 :
    d.cell[i] = IF at <= i /\ i < at + Len(s) THEN s[i - at + 1] ELSE m.cell[i]
Gone(d, m, n, from, to) ==
  \A i \in 0 .. n - 1 : d.cell[i] = IF from <= i /\ i < to THEN RAW ELSE m.cell[i]

(* m has t in the array of q and raw cells behind it; t, and behind it what *)
(* c has; the first n elements of t and raw cells behind them. *)
Agrees(m, q, t) ==
  \A i \in 0 .. q.cap - 1 :
    m.cell[i] = IF PlaceOf(q, i) < q.size THEN t[PlaceOf(q, i) + 1] ELSE RAW
Begins(m, q, t, c) ==
  \A i \in 0 .. q.cap - 1 :
    m.cell[i] = IF PlaceOf(q, i) < Len(t) THEN t[PlaceOf(q, i) + 1] ELSE c[i]

Holds(m, q, t, n) ==
  \A i \in 0 .. q.cap - 1 :
    m.cell[i] = IF PlaceOf(q, i) < n THEN t[PlaceOf(q, i) + 1] ELSE RAW

(* Constructing in raw cells, assigning to live ones and destroying live *)
(* ones respects lifetimes and changes the cells named. *)
LEMMA ConstructIs ==
  ASSUME NEW n, n \in Nat, NEW m, Lives(n, m), NEW at, at \in Nat, NEW s, Len(s) \in Nat,
         at + Len(s) <= n, RawIn(m, n, at, at + Len(s))
  PROVE  Lives(n, Construct(m, at, s)) /\ Written(Construct(m, at, s), m, n, at, s)
<1> DEFINE d == Construct(m, at, s)
<1>1. DOMAIN m.cell = 0 .. n - 1 BY DEF Lives
<1>2. \A i \in at .. at + Len(s) - 1 : i \in 0 .. n - 1 /\ m.cell[i] = RAW
  BY DEF RawIn
<1>3. \A i \in 0 .. n - 1 : i \in at .. at + Len(s) - 1 <=> at <= i /\ i < at + Len(s)
  OBVIOUS
<1>4. d.cell = [i \in 0 .. n - 1 |-> IF i \in at .. at + Len(s) - 1 THEN s[i - at + 1] ELSE m.cell[i]]
  BY <1>1 DEF Construct
<1>5. d.ok BY <1>1, <1>2 DEF Construct, Lives
<1> QED BY <1>3, <1>4, <1>5 DEF Lives, Written

(* Assigning to cells that are alive writes them. *)
LEMMA AssignIs ==
  ASSUME NEW n, n \in Nat, NEW m, Lives(n, m), NEW at, at \in Nat, NEW s, Len(s) \in Nat,
         at + Len(s) <= n, AliveIn(m, n, at, at + Len(s))
  PROVE  Lives(n, Assign(m, at, s)) /\ Written(Assign(m, at, s), m, n, at, s)
<1> DEFINE d == Assign(m, at, s)
<1>1. DOMAIN m.cell = 0 .. n - 1 BY DEF Lives
<1>2. \A i \in at .. at + Len(s) - 1 : i \in 0 .. n - 1 /\ m.cell[i] # RAW
  BY DEF AliveIn
<1>3. \A i \in 0 .. n - 1 : i \in at .. at + Len(s) - 1 <=> at <= i /\ i < at + Len(s)
  OBVIOUS
<1>4. d.cell = [i \in 0 .. n - 1 |-> IF i \in at .. at + Len(s) - 1 THEN s[i - at + 1] ELSE m.cell[i]]
  BY <1>1 DEF Assign
<1>5. d.ok BY <1>1, <1>2 DEF Assign, Lives
<1> QED BY <1>3, <1>4, <1>5 DEF Lives, Written

(* Destroying cells that are alive leaves them raw. *)
LEMMA DestroyIs ==
  ASSUME NEW n, n \in Nat, NEW m, Lives(n, m), NEW from, from \in Nat, NEW to, to \in Nat,
         to <= n, AliveIn(m, n, from, to)
  PROVE  Lives(n, Destroy(m, from, to)) /\ Gone(Destroy(m, from, to), m, n, from, to)
<1> DEFINE d == Destroy(m, from, to)
<1>1. DOMAIN m.cell = 0 .. n - 1 BY DEF Lives
<1>2. \A i \in from .. to - 1 : i \in 0 .. n - 1 /\ m.cell[i] # RAW
  BY DEF AliveIn
<1>3. \A i \in 0 .. n - 1 : i \in from .. to - 1 <=> from <= i /\ i < to OBVIOUS
<1>4. d.cell = [i \in 0 .. n - 1 |-> IF i \in from .. to - 1 THEN RAW ELSE m.cell[i]]
  BY <1>1 DEF Destroy
<1>5. d.ok BY <1>1, <1>2 DEF Destroy, Lives
<1> QED BY <1>3, <1>4, <1>5 DEF Lives, Gone

(* An array without live cells. *)
LEMMA AllRawIs ==
  ASSUME NEW n, n \in Nat, NEW m, Lives(n, m), \A i \in 0 .. n - 1 : m.cell[i] = RAW
  PROVE  m.ok /\ m.cell = [i \in 0 .. n - 1 |-> RAW]
  BY DEF Lives

(* The cells of a buffer. *)
LEMMA GoodLives ==
  ASSUME NEW q, NEW c, NEW s, Good(q, c, s)
  PROVE  /\ Lives(q.cap, Of(c))
         /\ \A i \in 0 .. q.cap - 1 :
              /\ c[i] # RAW <=> PlaceOf(q, i) < q.size
              /\ c[i] = IF PlaceOf(q, i) < q.size THEN s[PlaceOf(q, i) + 1] ELSE RAW
<1>1. DOMAIN c = 0 .. q.cap - 1 /\ \A i \in DOMAIN c : c[i] # RAW <=> PlaceOf(q, i) < q.size
  BY ImageLive
<1>2. c = [i \in 0 .. q.cap - 1 |-> c[i]] BY DEF Good, Image
<1>3. \A i \in 0 .. q.cap - 1 : c[i] = IF PlaceOf(q, i) < q.size THEN s[PlaceOf(q, i) + 1] ELSE RAW
  BY DEF Good, Image
<1> QED BY <1>1, <1>2, <1>3 DEF Lives, Of

(* p is q with other elements in the same array. *)
Changed(p, q, head, tail, size) ==
  /\ p \in Rec /\ p.data = q.data /\ p.cap = q.cap
  /\ p.head = head /\ p.tail = tail /\ p.size = size

(* emplace_back into a cell that is raw. *)
LEMMA EmplaceGood ==
  ASSUME NEW q, NEW c, NEW s, Good(q, c, s), ~Full(q), NEW v \in Elems,
         NEW p, Changed(p, q, q.head, Increment(q, q.tail), q.size + 1),
         NEW m, m = Construct(Of(c), q.tail, <<v>>)
  PROVE  Good(p, m.cell, Append(s, v)) /\ m.ok /\ p.data = q.data
<1>0. Shape(q) /\ s \in Seq(Elems) /\ Len(s) = q.size BY DEF Good
<1>1. p.data = q.data /\ p.head = q.head /\ p.cap = q.cap /\ p.size = q.size + 1
        /\ p.tail = Increment(q, q.tail) /\ p \in Rec
  BY DEF Changed
<1>f. /\ q.head \in Nat /\ q.tail \in Nat /\ q.size \in Nat /\ q.cap \in Nat
      /\ q.head < q.cap /\ q.size <= q.cap /\ q.tail < q.cap
      /\ q.tail = IF q.size < q.cap - q.head THEN q.head + q.size
                  ELSE q.size - (q.cap - q.head)
  BY <1>0, Fields
<1>2. Shape(p) BY <1>0, <1>1, SMTT(60) DEF Shape, Rec, Forth, Increment, Full
<1>3. q.tail \in 0 .. q.cap - 1 /\ PlaceOf(q, q.tail) = q.size
  BY <1>0 DEF Shape, Rec, Forth, Full, PlaceOf
<1>4. Append(s, v) \in Seq(Elems) /\ Len(Append(s, v)) = p.size
        /\ \A k \in 1 .. p.size : Append(s, v)[k] = IF k = p.size THEN v ELSE s[k]
  BY <1>0, <1>1
<1>5. DOMAIN c = 0 .. q.cap - 1
        /\ \A i \in DOMAIN c : c[i] = IF PlaceOf(q, i) < q.size THEN s[PlaceOf(q, i) + 1] ELSE RAW
  BY DEF Good, Image
<1>6. m.cell = [i \in 0 .. q.cap - 1 |-> IF i = q.tail THEN v ELSE c[i]]
  BY <1>3, <1>5 DEF Construct, Of
<1>7. \A i \in 0 .. q.cap - 1 :
        /\ PlaceOf(p, i) = PlaceOf(q, i) /\ PlaceOf(q, i) \in Nat
        /\ PlaceOf(q, i) = q.size => i = q.tail
  BY <1>0, <1>1, <1>3, Places, SMTT(60) DEF PlaceOf
<1>8. \A i \in 0 .. p.cap - 1 :
        m.cell[i] = IF PlaceOf(p, i) < p.size THEN Append(s, v)[PlaceOf(p, i) + 1] ELSE RAW
  <2> TAKE i \in 0 .. p.cap - 1
  <2>1. CASE PlaceOf(q, i) < q.size
    BY <2>1, <1>0, <1>1, <1>3, <1>4, <1>5, <1>6, <1>7, SMTT(60) DEF Shape, Rec
  <2>2. CASE PlaceOf(q, i) = q.size
    BY <2>2, <1>0, <1>1, <1>3, <1>4, <1>5, <1>6, <1>7 DEF Shape, Rec
  <2>3. CASE PlaceOf(q, i) > q.size
    BY <2>3, <1>0, <1>1, <1>3, <1>4, <1>5, <1>6, <1>7, SMTT(60) DEF Shape, Rec
  <2> QED BY <2>1, <2>2, <2>3, <1>0, <1>1, <1>7, SMTT(60) DEF Shape, Rec
<1>9. m.ok
  <2>1. q.tail \in DOMAIN c /\ c[q.tail] = RAW
    BY <1>0, <1>3, <1>5 DEF Shape, Rec
  <2>2. \A i \in q.tail .. q.tail + Len(<<v>>) - 1 : i = q.tail BY <1>3
  <2> QED BY <2>1, <2>2 DEF Construct, Of
<1>10. m.cell = [i \in 0 .. p.cap - 1 |-> m.cell[i]] BY <1>1, <1>6
<1>11. Good(p, m.cell, Append(s, v)) BY <1>2, <1>4, <1>8, <1>10, IsImage
<1> QED BY <1>1, <1>9, <1>11

(* pop_front. *)
LEMMA PopFrontGood ==
  ASSUME NEW q, NEW c, NEW s, Good(q, c, s), q.size # 0,
         NEW p, Changed(p, q, Increment(q, q.head), q.tail, q.size - 1),
         NEW m, m = Destroy(Of(c), q.head, q.head + 1)
  PROVE  Good(p, m.cell, Tail(s)) /\ m.ok /\ p.data = q.data
<1>0. Shape(q) /\ s \in Seq(Elems) /\ Len(s) = q.size BY DEF Good
<1>1. p.data = q.data /\ p.tail = q.tail /\ p.cap = q.cap /\ p.size = q.size - 1
        /\ p.head = Increment(q, q.head) /\ p \in Rec
  BY DEF Changed
<1>f. /\ q.head \in Nat /\ q.tail \in Nat /\ q.size \in Nat /\ q.cap \in Nat
      /\ q.head < q.cap /\ q.size <= q.cap /\ q.tail < q.cap
      /\ q.tail = IF q.size < q.cap - q.head THEN q.head + q.size
                  ELSE q.size - (q.cap - q.head)
  BY <1>0, Fields
<1>2. Shape(p)
  <2>1. /\ p.head < p.cap /\ p.size <= p.cap
        /\ p.tail = IF p.size < p.cap - p.head THEN p.head + p.size
                    ELSE p.size - (p.cap - p.head)
    BY <1>1, <1>f DEF Increment
  <2> QED BY <2>1, <1>0, <1>1 DEF Shape, Forth
<1>3. q.head \in 0 .. q.cap - 1 /\ PlaceOf(q, q.head) = 0 /\ PlaceOf(p, q.head) = p.cap - 1
  <2>0. q.head \in 0 .. q.cap - 1 /\ PlaceOf(q, q.head) = 0 BY <1>f DEF PlaceOf
  <2>1. CASE q.head + 1 = q.cap
    <3>1. p.head = 0 BY <2>1, <1>1 DEF Increment
    <3>2. PlaceOf(p, q.head) = q.head BY <3>1, <1>f DEF PlaceOf
    <3> QED BY <2>0, <2>1, <3>2, <1>1, <1>f
  <2>2. CASE q.head + 1 # q.cap
    <3>1. p.head = q.head + 1 BY <2>2, <1>1 DEF Increment
    <3>2. PlaceOf(p, q.head) = q.head + (q.cap - (q.head + 1))
      BY <3>1, <1>1, <1>f DEF PlaceOf
    <3> QED BY <2>0, <3>2, <1>1, <1>f
  <2> QED BY <2>1, <2>2
<1>4. Tail(s) \in Seq(Elems) /\ Len(Tail(s)) = p.size
        /\ \A k \in 1 .. p.size : Tail(s)[k] = s[k + 1]
  BY <1>0, <1>1, SMTT(60) DEF Shape, Rec
<1>5. DOMAIN c = 0 .. q.cap - 1
        /\ \A i \in DOMAIN c : c[i] = IF PlaceOf(q, i) < q.size THEN s[PlaceOf(q, i) + 1] ELSE RAW
  BY DEF Good, Image
<1>6. m.cell = [i \in 0 .. q.cap - 1 |-> IF i = q.head THEN RAW ELSE c[i]]
  BY <1>3, <1>5 DEF Destroy, Of
<1>7. \A i \in 0 .. q.cap - 1 :
        /\ PlaceOf(q, i) \in Nat /\ PlaceOf(p, i) \in Nat
        /\ i # q.head => PlaceOf(p, i) = PlaceOf(q, i) - 1
  <2> TAKE i \in 0 .. q.cap - 1
  <2>0. PlaceOf(q, i) = IF i < q.head THEN i + (q.cap - q.head) ELSE i - q.head
    BY DEF PlaceOf
  <2>1. CASE q.head + 1 = q.cap
    <3>1. p.head = 0 BY <2>1, <1>1 DEF Increment
    <3>2. PlaceOf(p, i) = i BY <3>1, <1>1, <1>f DEF PlaceOf
    <3>3. q.cap - q.head = 1 /\ i \in Nat /\ (i < q.head \/ i = q.head)
      BY <2>1, <1>f
    <3>4. CASE i < q.head
      <4>1. PlaceOf(q, i) = i + 1 BY <2>0, <3>3, <3>4
      <4> QED BY <4>1, <3>2, <3>3
    <3>5. CASE i = q.head
      <4>1. PlaceOf(q, i) = 0 BY <2>0, <3>5, <1>f
      <4> QED BY <4>1, <3>2, <3>3, <3>5
    <3> QED BY <3>3, <3>4, <3>5
  <2>2. CASE q.head + 1 # q.cap
    <3>1. p.head = q.head + 1 BY <2>2, <1>1 DEF Increment
    <3>2. PlaceOf(p, i) = IF i < q.head + 1 THEN i + (q.cap - (q.head + 1)) ELSE i - (q.head + 1)
      BY <3>1, <1>1, <1>f DEF PlaceOf
    <3> QED BY <2>0, <2>2, <3>2, <1>f
  <2> QED BY <2>1, <2>2
<1>8. \A i \in 0 .. p.cap - 1 :
        m.cell[i] = IF PlaceOf(p, i) < p.size THEN Tail(s)[PlaceOf(p, i) + 1] ELSE RAW
  <2> TAKE i \in 0 .. p.cap - 1
  <2>1. CASE i = q.head
    <3>1. ~(PlaceOf(p, q.head) < p.size) BY <1>1, <1>3, <1>f
    <3>2. m.cell[q.head] = RAW BY <1>3, <1>6
    <3> QED BY <2>1, <3>1, <3>2
  <2>2. CASE i # q.head /\ PlaceOf(q, i) < q.size
    <3>1. PlaceOf(q, i) \in Nat /\ PlaceOf(p, i) \in Nat /\ PlaceOf(p, i) = PlaceOf(q, i) - 1
      BY <2>2, <1>1, <1>7
    <3>2. PlaceOf(p, i) < p.size /\ PlaceOf(p, i) + 1 \in 1 .. p.size
      BY <2>2, <3>1, <1>1, <1>f
    <3>3. Tail(s)[PlaceOf(p, i) + 1] = s[(PlaceOf(p, i) + 1) + 1] BY <3>2, <1>4
    <3>4. (PlaceOf(p, i) + 1) + 1 = PlaceOf(q, i) + 1 BY <3>1
    <3>5. m.cell[i] = s[PlaceOf(q, i) + 1] BY <2>2, <1>1, <1>5, <1>6
    <3> QED BY <3>2, <3>3, <3>4, <3>5
  <2>3. CASE i # q.head /\ ~(PlaceOf(q, i) < q.size)
    <3>1. ~(PlaceOf(p, i) < p.size) BY <2>3, <1>1, <1>7, <1>f
    <3>2. m.cell[i] = RAW BY <2>3, <1>1, <1>5, <1>6, ZenonT(60)
    <3> QED BY <3>1, <3>2
  <2> QED BY <2>1, <2>2, <2>3
<1>9. m.ok
  <2>1. q.head \in DOMAIN c /\ c[q.head] # RAW
    BY <1>0, <1>3, <1>5, RawAssumption DEF Shape, Rec
  <2>2. \A i \in q.head .. (q.head + 1) - 1 : i = q.head BY <1>3
  <2>3. \A i \in q.head .. (q.head + 1) - 1 : i \in DOMAIN c /\ c[i] # RAW
    BY <2>1, <2>2
  <2> QED BY <2>3 DEF Destroy, Of
<1>10. m.cell = [i \in 0 .. p.cap - 1 |-> m.cell[i]] BY <1>1, <1>6
<1>11. Good(p, m.cell, Tail(s)) BY <1>2, <1>4, <1>8, <1>10, IsImage
<1> QED BY <1>1, <1>9, <1>11

(* pop_back. *)
LEMMA PopBackGood ==
  ASSUME NEW q, NEW c, NEW s, Good(q, c, s), q.size # 0,
         NEW last, last = Decrement(q, q.tail),
         NEW p, Changed(p, q, q.head, last, q.size - 1),
         NEW m, m = Destroy(Of(c), last, last + 1)
  PROVE  Good(p, m.cell, Front(s)) /\ m.ok /\ p.data = q.data
<1>0. Shape(q) /\ s \in Seq(Elems) /\ Len(s) = q.size BY DEF Good
<1>1. p.data = q.data /\ p.head = q.head /\ p.cap = q.cap /\ p.size = q.size - 1
        /\ p.tail = last /\ p \in Rec
  BY DEF Changed
<1>f. /\ q.head \in Nat /\ q.tail \in Nat /\ q.size \in Nat /\ q.cap \in Nat
      /\ q.head < q.cap /\ q.size <= q.cap /\ q.tail < q.cap
      /\ q.tail = IF q.size < q.cap - q.head THEN q.head + q.size
                  ELSE q.size - (q.cap - q.head)
  BY <1>0, Fields
<1>2. Shape(p)
  <2>1. /\ p.head < p.cap /\ p.size <= p.cap
        /\ p.tail = IF p.size < p.cap - p.head THEN p.head + p.size
                    ELSE p.size - (p.cap - p.head)
    BY <1>1, <1>f DEF Decrement
  <2> QED BY <2>1, <1>0, <1>1 DEF Shape, Forth
<1>3. last \in 0 .. q.cap - 1 /\ PlaceOf(q, last) = q.size - 1
  BY <1>f DEF Decrement, PlaceOf
<1>4. Front(s) \in Seq(Elems) /\ Len(Front(s)) = p.size
        /\ \A k \in 1 .. p.size : Front(s)[k] = s[k]
  BY <1>0, <1>1 DEF Shape, Rec, Front
<1>5. DOMAIN c = 0 .. q.cap - 1
        /\ \A i \in DOMAIN c : c[i] = IF PlaceOf(q, i) < q.size THEN s[PlaceOf(q, i) + 1] ELSE RAW
  BY DEF Good, Image
<1>6. m.cell = [i \in 0 .. q.cap - 1 |-> IF i = last THEN RAW ELSE c[i]]
  BY <1>3, <1>5 DEF Destroy, Of
<1>7. \A i \in 0 .. q.cap - 1 :
        /\ PlaceOf(p, i) = PlaceOf(q, i) /\ PlaceOf(q, i) \in Nat
        /\ PlaceOf(q, i) = q.size - 1 => i = last
  BY <1>1, <1>3, <1>f DEF PlaceOf, Decrement
<1>8. \A i \in 0 .. p.cap - 1 :
        m.cell[i] = IF PlaceOf(p, i) < p.size THEN Front(s)[PlaceOf(p, i) + 1] ELSE RAW
  <2> TAKE i \in 0 .. p.cap - 1
  <2>1. CASE i = last BY <2>1, <1>0, <1>1, <1>3, <1>6, <1>7 DEF Shape, Rec
  <2>2. CASE i # last /\ PlaceOf(q, i) < q.size
    BY <2>2, <1>0, <1>1, <1>4, <1>5, <1>6, <1>7, SMTT(60) DEF Shape, Rec
  <2>3. CASE i # last /\ ~(PlaceOf(q, i) < q.size)
    BY <2>3, <1>0, <1>1, <1>4, <1>5, <1>6, <1>7, SMTT(60) DEF Shape, Rec
  <2> QED BY <2>1, <2>2, <2>3
<1>9. m.ok
  <2>1. last \in DOMAIN c /\ c[last] # RAW
    BY <1>0, <1>3, <1>5, RawAssumption, SMTT(60) DEF Shape, Rec
  <2>2. \A i \in last .. (last + 1) - 1 : i = last BY <1>3
  <2>3. \A i \in last .. (last + 1) - 1 : i \in DOMAIN c /\ c[i] # RAW
    BY <2>1, <2>2
  <2> QED BY <2>3 DEF Destroy, Of
<1>10. m.cell = [i \in 0 .. p.cap - 1 |-> m.cell[i]] BY <1>1, <1>6
<1>11. Good(p, m.cell, Front(s)) BY <1>2, <1>4, <1>8, <1>10, IsImage
<1> QED BY <1>1, <1>9, <1>11

(* _destroy leaves no element alive, and touches live ones only. *)
LEMMA DestroyedAll ==
  ASSUME NEW q, NEW c, NEW s, Good(q, c, s), NEW m, m = Destroyed(q, Of(c))
  PROVE  m.ok /\ m.cell = [i \in 0 .. q.cap - 1 |-> RAW]
<1>0. Shape(q) BY DEF Good
<1>f. /\ q.head \in Nat /\ q.tail \in Nat /\ q.size \in Nat /\ q.cap \in Nat
      /\ q.head < q.cap /\ q.size <= q.cap /\ q.tail < q.cap
      /\ q.tail = IF q.size < q.cap - q.head THEN q.head + q.size
                  ELSE q.size - (q.cap - q.head)
  BY <1>0, Fields
<1> DEFINE m0 == Of(c)
<1>1. /\ Lives(q.cap, m0)
      /\ \A i \in 0 .. q.cap - 1 : m0.cell[i] # RAW <=> PlaceOf(q, i) < q.size
  BY GoodLives DEF Of
<1>2. m = Destroyed(q, m0) OBVIOUS
<1> HIDE DEF m0
<1>3. CASE q.head < q.tail
  <2>1. \A i \in 0 .. q.cap - 1 : m0.cell[i] # RAW <=> q.head <= i /\ i < q.tail
    BY <1>1, <1>3, <1>f DEF PlaceOf
  <2>2. m = Destroy(m0, q.head, q.tail) BY <1>2, <1>3 DEF Destroyed
  <2>3. AliveIn(m0, q.cap, q.head, q.tail) /\ q.tail <= q.cap
    BY <2>1, <1>f DEF AliveIn
  <2>4. Lives(q.cap, m) /\ Gone(m, m0, q.cap, q.head, q.tail)
    BY <2>2, <2>3, <1>1, <1>f, DestroyIs
  <2> QED BY <2>1, <2>4, <1>f, AllRawIs, SMTT(60) DEF Gone
<1>4. CASE q.head = q.tail
  <2>1. \A i \in 0 .. q.cap - 1 : m0.cell[i] # RAW <=> 0 <= i /\ i < q.size
    BY <1>1, <1>4, <1>f DEF PlaceOf
  <2>2. m = Destroy(m0, 0, q.size) BY <1>2, <1>4, <1>f DEF Destroyed
  <2>3. AliveIn(m0, q.cap, 0, q.size) BY <2>1 DEF AliveIn
  <2>4. Lives(q.cap, m) /\ Gone(m, m0, q.cap, 0, q.size)
    BY <2>2, <2>3, <1>1, <1>f, DestroyIs
  <2> QED BY <2>1, <2>4, <1>f, AllRawIs, SMTT(60) DEF Gone
<1>5. CASE q.tail < q.head
  <2>1. \A i \in 0 .. q.cap - 1 : m0.cell[i] # RAW <=> q.head <= i \/ i < q.tail
    BY <1>1, <1>5, <1>f DEF PlaceOf
  <2> DEFINE d == Destroy(m0, q.head, q.cap)
  <2>2. m = Destroy(d, 0, q.tail) BY <1>2, <1>5, <1>f DEF Destroyed
  <2>3. AliveIn(m0, q.cap, q.head, q.cap) /\ q.cap <= q.cap
    BY <2>1, <1>f DEF AliveIn
  <2>4. Lives(q.cap, d) /\ Gone(d, m0, q.cap, q.head, q.cap)
    BY <2>3, <1>1, <1>f, DestroyIs
  <2> HIDE DEF d
  <2>5. AliveIn(d, q.cap, 0, q.tail) /\ q.tail <= q.cap
    BY <2>1, <2>4, <1>5, <1>f DEF AliveIn, Gone
  <2>6. Lives(q.cap, m) /\ Gone(m, d, q.cap, 0, q.tail)
    BY <2>2, <2>4, <2>5, <1>f, DestroyIs
  <2>7. \A i \in 0 .. q.cap - 1 : m.cell[i] = RAW
    BY <2>1, <2>4, <2>6, <1>f DEF Gone
  <2> QED BY <2>6, <2>7, <1>f, AllRawIs
<1> QED BY <1>3, <1>4, <1>5, <1>f

(* A function on 1 .. n is a sequence of n elements. *)
LEMMA IsSequence ==
  ASSUME NEW n, n \in Nat, NEW f, f \in [1 .. n -> Elems]
  PROVE  f \in Seq(Elems) /\ Len(f) = n
  OBVIOUS

(* The elements that fill s from the cells of q one after the other. *)
LEMMA LinearIs ==
  ASSUME NEW q, NEW c, NEW s, Good(q, c, s)
  PROVE  Linear(q, c) = s
<1>0. Shape(q) /\ s \in Seq(Elems) /\ Len(s) = q.size BY DEF Good
<1>f. /\ q.head \in Nat /\ q.tail \in Nat /\ q.size \in Nat /\ q.cap \in Nat
      /\ q.head < q.cap /\ q.size <= q.cap /\ q.tail < q.cap
      /\ q.tail = IF q.size < q.cap - q.head THEN q.head + q.size
                  ELSE q.size - (q.cap - q.head)
  BY <1>0, Fields
<1>1. \A i \in 0 .. q.cap - 1 :
        PlaceOf(q, i) < q.size => PlaceOf(q, i) + 1 \in 1 .. Len(s) /\ c[i] = s[PlaceOf(q, i) + 1]
  BY <1>0, <1>f, GoodLives, SMTT(60) DEF PlaceOf
<1>2. CASE q.head < q.tail
  <2>1. Linear(q, c) = Span(c, q.head, q.tail) BY <1>2 DEF Linear
  <2>2. q.size = q.tail - q.head BY <1>2, <1>f
  <2>3. \A k \in 1 .. q.size : c[q.head + k - 1] = s[k]
    <3> TAKE k \in 1 .. q.size
    <3> DEFINE i == q.head + k - 1
    <3>1. i \in 0 .. q.cap - 1 /\ PlaceOf(q, i) = k - 1 /\ k - 1 < q.size /\ (k - 1) + 1 = k
      BY <1>2, <2>2, <1>f DEF PlaceOf
    <3> HIDE DEF i
    <3>2. c[i] = s[k] BY <3>1, <1>1
    <3> QED BY <3>2 DEF i
  <2>4. s = [k \in 1 .. q.size |-> s[k]] BY <1>0
  <2> QED BY <2>1, <2>2, <2>3, <2>4 DEF Span
<1>3. CASE ~(q.head < q.tail) /\ q.size = 0 BY <1>0, <1>3 DEF Linear
<1>4. CASE ~(q.head < q.tail) /\ q.size # 0
  <2> DEFINE a == Span(c, q.head, q.cap)
             b == Span(c, 0, q.tail)
             one == q.cap - q.head
  <2>1. Linear(q, c) = a \o b BY <1>4 DEF Linear
  <2>2. q.size = one + q.tail /\ one \in Nat BY <1>4, <1>f
  <2>3. \A k \in 1 .. one : k \in 1 .. Len(s) /\ c[q.head + k - 1] = s[k]
    <3> TAKE k \in 1 .. one
    <3> DEFINE i == q.head + k - 1
    <3>1. i \in 0 .. q.cap - 1 /\ PlaceOf(q, i) = k - 1 /\ k - 1 < q.size /\ (k - 1) + 1 = k
      BY <2>2, <1>f DEF PlaceOf
    <3> HIDE DEF i
    <3>2. c[i] = s[k] BY <3>1, <1>1
    <3>3. k \in 1 .. Len(s) BY <3>1, <1>0, <1>f
    <3> QED BY <3>2, <3>3 DEF i
  <2>4. \A k \in 1 .. q.tail : one + k \in 1 .. Len(s) /\ c[0 + k - 1] = s[one + k]
    <3> TAKE k \in 1 .. q.tail
    <3> DEFINE i == 0 + k - 1
    <3>1. i \in 0 .. q.cap - 1 /\ PlaceOf(q, i) < q.size /\ PlaceOf(q, i) + 1 = one + k
      BY <1>4, <2>2, <1>f DEF PlaceOf
    <3> HIDE DEF i
    <3>2. c[i] = s[one + k] BY <3>1, <1>1
    <3>3. one + k \in 1 .. Len(s) BY <3>1, <1>1
    <3> QED BY <3>2, <3>3 DEF i
  <2> DEFINE a1 == [k \in 1 .. one |-> s[k]]
             b1 == [k \in 1 .. q.tail |-> s[one + k]]
  <2>5. a = a1 /\ b = b1 BY <2>3, <2>4, <1>f, SMTT(60) DEF Span
  <2>6. a1 \in Seq(Elems) /\ Len(a1) = one /\ b1 \in Seq(Elems) /\ Len(b1) = q.tail
    <3>1. \A k \in 1 .. one : s[k] \in Elems BY <1>0, <2>3
    <3>2. \A k \in 1 .. q.tail : s[one + k] \in Elems BY <1>0, <2>4
    <3>3. a1 \in [1 .. one -> Elems] /\ b1 \in [1 .. q.tail -> Elems]
      BY <3>1, <3>2
    <3> HIDE DEF a1, b1, one
    <3> QED BY <3>3, <2>2, <1>f, IsSequence
  <2> HIDE DEF a1, b1, one
  <2>7. a1 \o b1 \in Seq(Elems) /\ Len(a1 \o b1) = Len(s)
    <3>1. a1 \o b1 \in Seq(Elems) /\ Len(a1 \o b1) = Len(a1) + Len(b1)
      BY <2>6, ConcatProperties
    <3> QED BY <3>1, <1>0, <2>2, <2>6
  <2>8. \A k \in 1 .. Len(s) : (a1 \o b1)[k] = s[k]
    <3> TAKE k \in 1 .. Len(s)
    <3>0. (a1 \o b1)[k] = IF k <= one THEN a1[k] ELSE b1[k - one]
      <4>1. k \in 1 .. Len(a1) + Len(b1) BY <1>0, <2>2, <2>6
      <4> QED BY <4>1, <2>6, ConcatProperties
    <3>1. CASE k <= one
      <4>1. a1[k] = s[k] BY <3>1, <2>2 DEF a1
      <4> QED BY <4>1, <3>0, <3>1
    <3>2. CASE ~(k <= one)
      <4>1. k - one \in 1 .. q.tail /\ one + (k - one) = k
        BY <3>2, <1>0, <1>f, <2>2
      <4>2. b1[k - one] = s[k] BY <4>1 DEF b1
      <4> QED BY <4>2, <3>0, <3>2
    <3> QED BY <3>1, <3>2
  <2> QED BY <2>1, <2>5, <2>7, <2>8, <1>0, SeqEqual
<1> QED BY <1>2, <1>3, <1>4

-----------------------------------------------------------------------------
(* Storage in a new block. *)

(* Its first element is in its first cell. *)
LEMMA StorageShape ==
  ASSUME NEW b \in Blocks, NEW n, n \in Nat, NEW cap, cap \in 1 .. MaxCapacity, n <= cap,
         NEW q, q = Storage(b, n, cap)
  PROVE  /\ Shape(q)
         /\ q.data = b /\ q.size = n /\ q.cap = cap
         /\ \A i \in 0 .. cap - 1 : PlaceOf(q, i) = i
<1>0. MaxCapacity \in Nat BY RawAssumption
<1>1. q.data = b /\ q.head = 0 /\ q.size = n /\ q.cap = cap
        /\ q.tail = IF n = cap THEN 0 ELSE n
  BY DEF Storage
<1>2. q \in Rec BY <1>0 DEF Storage, Rec
<1>3. q.tail = Forth(q, q.head, q.size) BY <1>0, <1>1 DEF Forth
<1> QED BY <1>0, <1>1, <1>2, <1>3 DEF Shape, PlaceOf

(* The elements s and behind them those of more. *)
LEMMA FreshGood ==
  ASSUME NEW b \in Blocks, NEW cap, cap \in 1 .. MaxCapacity,
         NEW s \in Seq(Elems), NEW more \in Seq(Elems), Len(s) + Len(more) <= cap,
         NEW q, q = Storage(b, Len(s) + Len(more), cap),
         NEW m, m = Construct(Construct(Fresh(cap), Len(s), more), 0, s)
  PROVE  Good(q, m.cell, s \o more) /\ m.ok
<1>0. cap \in Nat /\ Len(s) \in Nat /\ Len(more) \in Nat /\ Len(s) + Len(more) \in Nat
  BY RawAssumption
<1>1. /\ Shape(q)
      /\ q.data = b /\ q.size = Len(s) + Len(more) /\ q.cap = cap
      /\ \A i \in 0 .. cap - 1 : PlaceOf(q, i) = i
  BY <1>0, StorageShape
<1> DEFINE f == Fresh(cap)
           d == Construct(f, Len(s), more)
<1>2. Lives(cap, f) /\ \A i \in 0 .. cap - 1 : f.cell[i] = RAW
  BY DEF Fresh, AllRaw, Lives
<1>3. m = Construct(d, 0, s) OBVIOUS
<1> HIDE DEF f
<1>4. Lives(cap, d) /\ Written(d, f, cap, Len(s), more)
  <2>1. RawIn(f, cap, Len(s), Len(s) + Len(more)) BY <1>2 DEF RawIn
  <2> QED BY <2>1, <1>0, <1>2, ConstructIs
<1> HIDE DEF d
<1>6. Lives(cap, m) /\ Written(m, d, cap, 0, s)
  <2>1. RawIn(d, cap, 0, 0 + Len(s)) /\ 0 + Len(s) <= cap /\ 0 \in Nat
    BY <1>0, <1>2, <1>4, SMTT(60) DEF RawIn, Written
  <2> QED BY <2>1, <1>0, <1>3, <1>4, ConstructIs
<1>7. s \o more \in Seq(Elems) /\ Len(s \o more) = q.size
        /\ \A k \in 1 .. q.size :
             (s \o more)[k] = IF k <= Len(s) THEN s[k] ELSE more[k - Len(s)]
  BY <1>0, <1>1, ConcatProperties
<1>8. \A i \in 0 .. q.cap - 1 :
        m.cell[i] = IF PlaceOf(q, i) < q.size THEN (s \o more)[PlaceOf(q, i) + 1] ELSE RAW
  <2> TAKE i \in 0 .. q.cap - 1
  <2>0. PlaceOf(q, i) = i /\ i \in 0 .. cap - 1 /\ i \in Nat BY <1>1, <1>0
  <2>1. CASE i < Len(s)
    <3>1. m.cell[i] = s[i + 1] BY <2>0, <2>1, <1>6, <1>0 DEF Written
    <3>2. i < q.size /\ (s \o more)[i + 1] = s[i + 1]
      BY <2>0, <2>1, <1>7, <1>0, <1>1
    <3> QED BY <3>1, <3>2, <2>0
  <2>2. CASE Len(s) <= i /\ i < q.size
    <3>1. m.cell[i] = more[i - Len(s) + 1]
      BY <2>0, <2>2, <1>6, <1>4, <1>0, <1>1 DEF Written
    <3>2. i + 1 \in 1 .. q.size /\ ~(i + 1 <= Len(s)) /\ (i + 1) - Len(s) = i - Len(s) + 1
      BY <2>0, <2>2, <1>0, <1>1
    <3>3. (s \o more)[i + 1] = more[i - Len(s) + 1] BY <3>2, <1>7
    <3> QED BY <3>1, <3>3, <2>0, <2>2
  <2>3. CASE ~(i < q.size)
    <3>1. m.cell[i] = RAW
      BY <2>0, <2>3, <1>6, <1>4, <1>2, <1>0, <1>1, SMTT(60) DEF Written
    <3> QED BY <3>1, <2>0, <2>3
  <2> QED BY <2>0, <2>1, <2>2, <2>3, <1>0, <1>1
<1>9. m.ok /\ m.cell = [i \in 0 .. q.cap - 1 |-> m.cell[i]]
  BY <1>1, <1>6 DEF Lives
<1>10. Good(q, m.cell, s \o more)
  <2> DEFINE f1 == m.cell
             s1 == s \o more
  <2>1. /\ Shape(q) /\ s1 \in Seq(Elems) /\ Len(s1) = q.size
        /\ f1 = [i \in 0 .. q.cap - 1 |-> f1[i]]
        /\ \A i \in 0 .. q.cap - 1 :
             f1[i] = IF PlaceOf(q, i) < q.size THEN s1[PlaceOf(q, i) + 1] ELSE RAW
    BY <1>1, <1>7, <1>8, <1>9
  <2> HIDE DEF f1, s1
  <2>2. Good(q, f1, s1) BY <2>1, IsImage
  <2> QED BY <2>2 DEF f1, s1
<1> QED BY <1>9, <1>10

(* A range copied to the beginning of a new array. *)
LEMMA CopiedGood ==
  ASSUME NEW b \in Blocks, NEW cap, cap \in 1 .. MaxCapacity,
         NEW s \in Seq(Elems), Len(s) <= cap,
         NEW q, q = Storage(b, Len(s), cap), NEW m, m = Construct(Fresh(cap), 0, s)
  PROVE  Good(q, m.cell, s) /\ m.ok
<1>0. cap \in Nat /\ Len(s) \in Nat BY RawAssumption
<1>1. /\ Shape(q)
      /\ q.data = b /\ q.size = Len(s) /\ q.cap = cap
      /\ \A i \in 0 .. cap - 1 : PlaceOf(q, i) = i
  BY <1>0, StorageShape
<1> DEFINE f == Fresh(cap)
<1>2. Lives(cap, f) /\ \A i \in 0 .. cap - 1 : f.cell[i] = RAW
  BY DEF Fresh, AllRaw, Lives
<1>3. m = Construct(f, 0, s) OBVIOUS
<1> HIDE DEF f
<1>4. Lives(cap, m) /\ Written(m, f, cap, 0, s)
  <2>1. RawIn(f, cap, 0, 0 + Len(s)) /\ 0 + Len(s) <= cap /\ 0 \in Nat
    BY <1>0, <1>2 DEF RawIn
  <2> QED BY <2>1, <1>0, <1>2, <1>3, ConstructIs
<1>5. \A i \in 0 .. q.cap - 1 :
        m.cell[i] = IF PlaceOf(q, i) < q.size THEN s[PlaceOf(q, i) + 1] ELSE RAW
  BY <1>0, <1>1, <1>2, <1>4 DEF Written
<1>6. m.ok /\ m.cell = [i \in 0 .. q.cap - 1 |-> m.cell[i]]
  BY <1>1, <1>4 DEF Lives
<1> QED BY <1>1, <1>5, <1>6, IsImage

(* A new array without elements. *)
LEMMA EmptyGood ==
  ASSUME NEW b \in Blocks, NEW cap, cap \in 1 .. MaxCapacity, NEW q, q = Storage(b, 0, cap)
  PROVE  Good(q, Fresh(cap).cell, <<>>) /\ Fresh(cap).ok
<1>1. /\ Shape(q)
      /\ q.data = b /\ q.size = 0 /\ q.cap = cap
      /\ \A i \in 0 .. cap - 1 : PlaceOf(q, i) = i
  <2>1. 0 \in Nat /\ 0 <= cap BY RawAssumption
  <2> QED BY <2>1, StorageShape
<1> DEFINE f == Fresh(cap).cell
<1>2. f = [i \in 0 .. q.cap - 1 |-> f[i]] /\ \A i \in 0 .. q.cap - 1 : f[i] = RAW
  BY <1>1 DEF Fresh, AllRaw
<1> HIDE DEF f
<1> DEFINE s == <<>>
<1>3. s \in Seq(Elems) /\ Len(s) = q.size BY <1>1
<1> HIDE DEF s
<1>4. Good(q, f, s)
  <2>1. \A i \in 0 .. q.cap - 1 : ~(PlaceOf(q, i) < q.size) BY <1>1
  <2>2. \A i \in 0 .. q.cap - 1 :
          f[i] = IF PlaceOf(q, i) < q.size THEN s[PlaceOf(q, i) + 1] ELSE RAW
    BY <2>1, <1>2
  <2> QED BY <2>2, <1>1, <1>2, <1>3, IsImage
<1> QED BY <1>4 DEF f, s, Fresh

-----------------------------------------------------------------------------
(* Assignment. *)

(* A sequence is its first k elements and those behind them. *)
LEMMA Parts ==
  ASSUME NEW t \in Seq(Elems), NEW k, k \in 0 .. Len(t)
  PROVE  /\ SubSeq(t, 1, k) \in Seq(Elems) /\ Len(SubSeq(t, 1, k)) = k
         /\ \A i \in 1 .. k : SubSeq(t, 1, k)[i] = t[i]
         /\ SubSeq(t, k + 1, Len(t)) \in Seq(Elems)
         /\ Len(SubSeq(t, k + 1, Len(t))) = Len(t) - k
         /\ \A i \in 1 .. Len(t) - k : SubSeq(t, k + 1, Len(t))[i] = t[k + i]
<1>1. Len(t) \in Nat /\ k \in Int /\ 1 \in Int /\ k + 1 \in Int /\ Len(t) \in Int
  OBVIOUS
<1>2. \A i \in 1 .. k : t[i] \in Elems OBVIOUS
<1>3. \A i \in (k + 1) .. Len(t) : t[i] \in Elems OBVIOUS
<1>4. /\ SubSeq(t, 1, k) \in Seq(Elems)
      /\ Len(SubSeq(t, 1, k)) = IF 1 <= k THEN k - 1 + 1 ELSE 0
      /\ \A i \in 1 .. k - 1 + 1 : SubSeq(t, 1, k)[i] = t[1 + i - 1]
  BY <1>1, <1>2, SubSeqProperties
<1>5. /\ SubSeq(t, k + 1, Len(t)) \in Seq(Elems)
      /\ Len(SubSeq(t, k + 1, Len(t))) = IF k + 1 <= Len(t) THEN Len(t) - (k + 1) + 1 ELSE 0
      /\ \A i \in 1 .. Len(t) - (k + 1) + 1 : SubSeq(t, k + 1, Len(t))[i] = t[(k + 1) + i - 1]
  BY <1>1, <1>3, SubSeqProperties
<1>6. k - 1 + 1 = k /\ Len(t) - (k + 1) + 1 = Len(t) - k BY <1>1
<1>7. \A i \in 1 .. k : 1 + i - 1 = i OBVIOUS
<1>8. \A i \in 1 .. Len(t) - k : (k + 1) + i - 1 = k + i BY <1>1
<1>9. Len(SubSeq(t, 1, k)) = k /\ \A i \in 1 .. k : SubSeq(t, 1, k)[i] = t[i]
  <2>1. Len(SubSeq(t, 1, k)) = k BY <1>1, <1>4, <1>6
  <2>2. \A i \in 1 .. k : SubSeq(t, 1, k)[i] = t[1 + i - 1] BY <1>4, <1>6
  <2> QED BY <2>1, <2>2, <1>7
<1>10. /\ Len(SubSeq(t, k + 1, Len(t))) = Len(t) - k
       /\ \A i \in 1 .. Len(t) - k : SubSeq(t, k + 1, Len(t))[i] = t[k + i]
  <2> DEFINE n == Len(SubSeq(t, k + 1, Len(t)))
  <2>1. n = Len(t) - k
    <3>1. n = IF k + 1 <= Len(t) THEN Len(t) - (k + 1) + 1 ELSE 0 BY <1>5
    <3> HIDE DEF n
    <3> QED BY <3>1, <1>1
  <2>2. \A i \in 1 .. Len(t) - k : SubSeq(t, k + 1, Len(t))[i] = t[(k + 1) + i - 1]
    BY <1>5, <1>6
  <2> QED BY <2>1, <2>2, <1>8
<1> QED BY <1>4, <1>5, <1>9, <1>10

(* Cells and storage that agree everywhere with a sequence stand for it. *)
LEMMA StandsFor ==
  ASSUME NEW p, Shape(p), NEW t, t \in Seq(Elems), Len(t) = p.size,
         NEW m, Lives(p.cap, m), Agrees(m, p, t)
  PROVE  Good(p, m.cell, t) /\ m.ok
<1> DEFINE f == m.cell
<1>1. m.ok /\ f = [i \in 0 .. p.cap - 1 |-> f[i]] BY DEF Lives
<1>2. \A i \in 0 .. p.cap - 1 :
        f[i] = IF PlaceOf(p, i) < p.size THEN t[PlaceOf(p, i) + 1] ELSE RAW
  BY DEF Agrees
<1> HIDE DEF f
<1>3. Good(p, f, t) BY <1>1, <1>2, IsImage
<1> QED BY <1>1, <1>3 DEF f

(* The elements there are are assigned to: the first of q become those of t.*)
LEMMA OverwrittenIs ==
  ASSUME NEW q, NEW c, NEW s, Good(q, c, s), NEW t \in Seq(Elems), Len(t) <= q.size,
         NEW m, m = Overwritten(q, Of(c), t)
  PROVE  Lives(q.cap, m) /\ Begins(m, q, t, c)
<1>0. Shape(q) BY DEF Good
<1>f. /\ q.head \in Nat /\ q.tail \in Nat /\ q.size \in Nat /\ q.cap \in Nat
      /\ q.head < q.cap /\ q.size <= q.cap /\ q.tail < q.cap
      /\ q.tail = IF q.size < q.cap - q.head THEN q.head + q.size
                  ELSE q.size - (q.cap - q.head)
  BY <1>0, Fields
<1> DEFINE m0 == Of(c)
           one == q.cap - q.head
<1>1. /\ Lives(q.cap, m0) /\ m0.cell = c
      /\ \A i \in 0 .. q.cap - 1 : m0.cell[i] # RAW <=> PlaceOf(q, i) < q.size
  BY GoodLives DEF Of
<1>2. m = IF Len(t) <= one THEN Assign(m0, q.head, t)
          ELSE Assign(Assign(m0, q.head, SubSeq(t, 1, one)), 0, SubSeq(t, one + 1, Len(t)))
  BY DEF Overwritten, One
<1>3. one \in Nat /\ Len(t) \in Nat /\ one + q.head = q.cap BY <1>f
<1>4. \A i \in 0 .. q.cap - 1 : PlaceOf(q, i) = IF i < q.head THEN i + one ELSE i - q.head
  BY DEF PlaceOf
<1> HIDE DEF m0, one
<1>5. CASE Len(t) <= one
  <2>1. AliveIn(m0, q.cap, q.head, q.head + Len(t)) /\ q.head + Len(t) <= q.cap
    <3>1. q.head + Len(t) <= q.cap BY <1>3, <1>5, <1>f
    <3>2. \A i \in 0 .. q.cap - 1 : q.head <= i /\ i < q.head + Len(t) => PlaceOf(q, i) < q.size
      <4> TAKE i \in 0 .. q.cap - 1
      <4>1. ~(i < q.head) => PlaceOf(q, i) = i - q.head BY <1>4
      <4> QED BY <4>1, <1>3, <1>f, SMTT(60)
    <3>3. \A i \in 0 .. q.cap - 1 : q.head <= i /\ i < q.head + Len(t) => m0.cell[i] # RAW
      BY <3>2, <1>1
    <3> QED BY <3>1, <3>3 DEF AliveIn
  <2>2. Lives(q.cap, m) /\ Written(m, m0, q.cap, q.head, t)
    BY <2>1, <1>1, <1>2, <1>3, <1>5, <1>f, AssignIs
  <2>3. \A i \in 0 .. q.cap - 1 : i < q.head => m.cell[i] = c[i] /\ ~(i + one < Len(t))
    <3> TAKE i \in 0 .. q.cap - 1
    <3>1. ~(i + one < Len(t)) BY <1>3, <1>5
    <3>2. m.cell[i] = IF q.head <= i /\ i < q.head + Len(t) THEN t[i - q.head + 1] ELSE m0.cell[i]
      BY <2>2 DEF Written
    <3>3. i < q.head => ~(q.head <= i) BY <1>f
    <3> QED BY <3>1, <3>2, <3>3, <1>1
  <2>4. \A i \in 0 .. q.cap - 1 : ~(i < q.head) =>
          m.cell[i] = IF i - q.head < Len(t) THEN t[i - q.head + 1] ELSE c[i]
    BY <2>2, <1>1, <1>3, <1>f, SMTT(60) DEF Written
  <2> QED BY <2>2, <2>3, <2>4, <1>4 DEF Begins
<1>6. CASE ~(Len(t) <= one)
  <2> DEFINE t1 == SubSeq(t, 1, one)
             t2 == SubSeq(t, one + 1, Len(t))
             a  == Assign(m0, q.head, t1)
  <2>1. /\ Len(t1) = one /\ \A i \in 1 .. one : t1[i] = t[i]
        /\ Len(t2) = Len(t) - one /\ \A i \in 1 .. Len(t) - one : t2[i] = t[one + i]
    BY <1>3, <1>6, Parts, SMTT(60)
  <2>2. m = Assign(a, 0, t2) BY <1>2, <1>6
  <2> HIDE DEF t1, t2
  <2>3. AliveIn(m0, q.cap, q.head, q.head + Len(t1)) /\ q.head + Len(t1) <= q.cap
    BY <2>1, <1>1, <1>3, <1>4, <1>6, <1>f, SMTT(60) DEF AliveIn
  <2>4. Lives(q.cap, a) /\ Written(a, m0, q.cap, q.head, t1)
    BY <2>1, <2>3, <1>1, <1>3, <1>f, AssignIs
  <2> HIDE DEF a
  <2>5. AliveIn(a, q.cap, 0, 0 + Len(t2)) /\ 0 + Len(t2) <= q.cap /\ 0 \in Nat
    <3>1. 0 + Len(t2) = Len(t) - one /\ Len(t) - one <= q.head /\ q.head < q.cap
      BY <2>1, <1>3, <1>f, SMTT(60)
    <3>2. \A i \in 0 .. q.cap - 1 : i < Len(t) - one =>
            /\ i < q.head
            /\ PlaceOf(q, i) < q.size
      BY <3>1, <1>3, <1>4, <1>f, SMTT(60)
    <3>3. \A i \in 0 .. q.cap - 1 : i < q.head => a.cell[i] = m0.cell[i]
      BY <2>4, <1>f DEF Written
    <3>4. \A i \in 0 .. q.cap - 1 : i < Len(t) - one => a.cell[i] # RAW
      BY <3>2, <3>3, <1>1
    <3> QED BY <3>1, <3>4, <1>f DEF AliveIn
  <2>6. Lives(q.cap, m) /\ Written(m, a, q.cap, 0, t2)
    <3>1. Len(t2) \in Nat BY <2>1, <1>3, <1>6
    <3> QED BY <3>1, <2>2, <2>4, <2>5, <1>f, AssignIs
  <2>7. \A i \in 0 .. q.cap - 1 : i < q.head => m.cell[i] = IF i + one < Len(t) THEN t[i + one + 1] ELSE c[i]
    <3> TAKE i \in 0 .. q.cap - 1
    <3>1. CASE i < q.head /\ i + one < Len(t)
      <4>1. m.cell[i] = t2[i - 0 + 1]
        BY <3>1, <2>1, <2>6, <1>3, <1>6 DEF Written
      <4>2. i + 1 \in 1 .. Len(t) - one /\ i - 0 + 1 = i + 1 /\ one + (i + 1) = i + one + 1
        BY <3>1, <1>3
      <4> QED BY <4>1, <4>2, <3>1, <2>1
    <3>2. CASE i < q.head /\ ~(i + one < Len(t))
      BY <3>2, <2>1, <2>4, <2>6, <1>1, <1>3, <1>6, <1>f, SMTT(60) DEF Written
    <3> QED BY <3>1, <3>2
  <2>8. \A i \in 0 .. q.cap - 1 : ~(i < q.head) => m.cell[i] = t[i - q.head + 1] /\ i - q.head < Len(t)
    <3> SUFFICES ASSUME NEW i \in 0 .. q.cap - 1, ~(i < q.head)
                 PROVE  m.cell[i] = t[i - q.head + 1] /\ i - q.head < Len(t)
      OBVIOUS
    <3>1. i - q.head + 1 \in 1 .. one /\ ~(i < Len(t2)) /\ i - q.head < Len(t)
      <4>1. i - q.head + 1 \in 1 .. one BY <1>3, <1>f, SMTT(60)
      <4>2. Len(t2) <= q.head BY <2>1, <1>3, <1>f, SMTT(60)
      <4>3. i - q.head < Len(t) BY <4>1, <1>3, <1>6, <1>f, SMTT(60)
      <4> QED BY <4>1, <4>2, <4>3, <2>1, <1>3, <1>f, SMTT(60)
    <3>2. m.cell[i] = a.cell[i] BY <3>1, <2>1, <2>6, <1>3, <1>6 DEF Written
    <3>3. a.cell[i] = t1[i - q.head + 1]
      <4>1. q.head <= i /\ i < q.head + Len(t1) BY <2>1, <1>3, <1>f, SMTT(60)
      <4> QED BY <4>1, <2>4 DEF Written
    <3> QED BY <3>1, <3>2, <3>3, <2>1
  <2> QED BY <2>6, <2>7, <2>8, <1>3, <1>4, <1>f DEF Begins
<1> QED BY <1>5, <1>6

(* What is behind the first n elements is destroyed. *)
LEMMA CutGood ==
  ASSUME NEW q, NEW c, NEW s, Good(q, c, s), NEW t \in Seq(Elems),
         0 < Len(t), Len(t) <= q.size,
         NEW m0, Lives(q.cap, m0), Begins(m0, q, t, c),
         NEW p, Changed(p, q, q.head, Forth(q, q.head, Len(t)), Len(t)),
         NEW m, m = CutAt(q, m0, Len(t))
  PROVE  Good(p, m.cell, t) /\ m.ok /\ p.data = q.data
<1>0. Shape(q) BY DEF Good
<1>f. /\ q.head \in Nat /\ q.tail \in Nat /\ q.size \in Nat /\ q.cap \in Nat
      /\ q.head < q.cap /\ q.size <= q.cap /\ q.tail < q.cap
      /\ q.tail = IF q.size < q.cap - q.head THEN q.head + q.size
                  ELSE q.size - (q.cap - q.head)
  BY <1>0, Fields
<1> DEFINE n == Len(t)
           one == q.cap - q.head
<1>1. p \in Rec /\ p.data = q.data /\ p.cap = q.cap /\ p.head = q.head
        /\ p.size = n /\ p.tail = Forth(q, q.head, n)
  BY DEF Changed
<1>2. Shape(p) BY <1>0, <1>1, <1>f DEF Shape, Forth
<1>3. \A i \in 0 .. q.cap - 1 :
        /\ c[i] # RAW <=> PlaceOf(q, i) < q.size
        /\ c[i] = IF PlaceOf(q, i) < q.size THEN s[PlaceOf(q, i) + 1] ELSE RAW
  BY GoodLives
<1>4. \A i \in 0 .. q.cap - 1 :
        /\ PlaceOf(p, i) = PlaceOf(q, i)
        /\ PlaceOf(q, i) = IF i < q.head THEN i + one ELSE i - q.head
  BY <1>1 DEF PlaceOf
<1>5. \A i \in 0 .. q.cap - 1 : PlaceOf(q, i) < n => m0.cell[i] = t[PlaceOf(q, i) + 1]
  BY DEF Begins
<1>6. \A i \in 0 .. q.cap - 1 : ~(PlaceOf(q, i) < n) => m0.cell[i] = c[i]
  BY DEF Begins
<1>7. \A i \in 0 .. q.cap - 1 : ~(PlaceOf(q, i) < n) /\ PlaceOf(q, i) < q.size => m0.cell[i] # RAW
  BY <1>3, <1>6
<1>8. m = IF q.head < q.tail THEN Destroy(m0, q.head + n, q.tail)
          ELSE IF n <= one THEN Destroy(Destroy(m0, q.head + n, q.cap), 0, q.tail)
          ELSE Destroy(m0, n - one, q.tail)
  BY DEF CutAt, One
<1>9. n \in Nat /\ 0 < n /\ n <= q.size /\ one \in Nat /\ one = q.cap - q.head
  BY <1>f
<1> HIDE DEF n, one
<1>10. Lives(q.cap, m) /\ \A i \in 0 .. q.cap - 1 :
         m.cell[i] = IF PlaceOf(q, i) < n THEN m0.cell[i] ELSE RAW
  <2>r. \A i \in 0 .. q.cap - 1 : ~(PlaceOf(q, i) < q.size) => m0.cell[i] = RAW
    <3>1. \A i \in 0 .. q.cap - 1 : PlaceOf(q, i) \in Nat BY <1>0, <1>f, Places
    <3>2. \A i \in 0 .. q.cap - 1 : PlaceOf(q, i) < n => PlaceOf(q, i) < q.size
      BY <3>1, <1>9, <1>f
    <3> QED BY <3>2, <1>3, <1>6
  <2>1. CASE q.head < q.tail
    <3>0. q.size = q.tail - q.head /\ q.size <= q.cap - q.head /\ n <= q.cap - q.head
      BY <2>1, <1>9, <1>f, SMTT(60)
    <3>a. \A i \in 0 .. q.cap - 1 : PlaceOf(q, i) < n <=> q.head <= i /\ i < q.head + n
      BY <3>0, <1>0, <1>9, FirstPlaces
    <3>b. \A i \in 0 .. q.cap - 1 : PlaceOf(q, i) < q.size <=> q.head <= i /\ i < q.tail
      <4>1. \A i \in 0 .. q.cap - 1 : PlaceOf(q, i) < q.size <=> q.head <= i /\ i < q.head + q.size
        BY <3>0, <1>0, <1>f, FirstPlaces
      <4> QED BY <4>1, <3>0, <1>f
    <3>1. AliveIn(m0, q.cap, q.head + n, q.tail) /\ q.tail <= q.cap /\ q.head + n \in Nat
      <4>1. \A i \in 0 .. q.cap - 1 : q.head + n <= i /\ i < q.tail => ~(i < q.head + n) /\ q.head <= i
        BY <1>9, <1>f, SMTT(60)
      <4>2. AliveIn(m0, q.cap, q.head + n, q.tail)
        BY <4>1, <3>a, <3>b, <1>7 DEF AliveIn
      <4> QED BY <4>2, <1>9, <1>f, SMTT(60)
    <3>2. Lives(q.cap, m) /\ Gone(m, m0, q.cap, q.head + n, q.tail)
      BY <2>1, <3>1, <1>8, <1>f, DestroyIs
    <3> QED BY <3>a, <3>b, <3>2, <2>r, <1>f, <1>9, SMTT(60) DEF Gone
  <2>2. CASE ~(q.head < q.tail) /\ n <= one
    <3>0. q.size = one + q.tail /\ q.tail <= q.head /\ one <= q.size
      BY <2>2, <1>9, <1>f, SMTT(60)
    <3>a. \A i \in 0 .. q.cap - 1 : PlaceOf(q, i) < n <=> q.head <= i /\ i < q.head + n
      BY <2>2, <1>0, <1>9, FirstPlaces
    <3>b. \A i \in 0 .. q.cap - 1 : PlaceOf(q, i) < q.size <=> q.head <= i \/ i < q.tail
      <4>1. \A i \in 0 .. q.cap - 1 : PlaceOf(q, i) < q.size <=> q.head <= i \/ i < q.size - one
        BY <3>0, <1>0, <1>9, <1>f, FirstPlaces
      <4>2. q.size - one = q.tail BY <3>0, <1>9, <1>f
      <4> QED BY <4>1, <4>2
    <3> DEFINE d == Destroy(m0, q.head + n, q.cap)
    <3>1. AliveIn(m0, q.cap, q.head + n, q.cap) /\ q.cap <= q.cap /\ q.head + n \in Nat
      <4>1. \A i \in 0 .. q.cap - 1 : q.head + n <= i => ~(i < q.head + n) /\ q.head <= i
        BY <1>9, <1>f
      <4>2. \A i \in 0 .. q.cap - 1 : q.head + n <= i /\ i < q.cap => m0.cell[i] # RAW
        BY <4>1, <3>a, <3>b, <1>7
      <4>3. AliveIn(m0, q.cap, q.head + n, q.cap) BY <4>2 DEF AliveIn
      <4> QED BY <4>3, <1>9, <1>f
    <3>2. Lives(q.cap, d) /\ Gone(d, m0, q.cap, q.head + n, q.cap)
      BY <3>1, <1>f, DestroyIs
    <3>3. m = Destroy(d, 0, q.tail) BY <2>2, <1>8
    <3> HIDE DEF d
    <3>4. \A i \in 0 .. q.cap - 1 : i < q.tail => d.cell[i] = m0.cell[i]
      <4>1. \A i \in 0 .. q.cap - 1 : i < q.tail => ~(q.head + n <= i)
        BY <3>0, <1>9, <1>f, SMTT(60)
      <4> QED BY <4>1, <3>2 DEF Gone
    <3>5. AliveIn(d, q.cap, 0, q.tail) /\ q.tail <= q.cap
      <4>1. \A i \in 0 .. q.cap - 1 : i < q.tail => ~(q.head <= i) BY <3>0, <1>f
      <4>2. AliveIn(d, q.cap, 0, q.tail)
        BY <4>1, <3>4, <3>a, <3>b, <1>7 DEF AliveIn
      <4> QED BY <4>2, <1>f
    <3>6. Lives(q.cap, m) /\ Gone(m, d, q.cap, 0, q.tail)
      BY <3>2, <3>3, <3>5, <1>f, DestroyIs
    <3>7. \A i \in 0 .. q.cap - 1 : m.cell[i] = IF i < q.tail THEN RAW
            ELSE IF q.head + n <= i THEN RAW ELSE m0.cell[i]
      BY <3>2, <3>6, <1>f DEF Gone
    <3> QED
      <4>1. \A i \in 0 .. q.cap - 1 : i < q.tail => ~(q.head <= i) BY <3>0, <1>f
      <4>2. \A i \in 0 .. q.cap - 1 : q.head + n <= i => ~(i < q.head + n)
        BY <1>9, <1>f
      <4>3. \A i \in 0 .. q.cap - 1 : ~(q.head + n <= i) => i < q.head + n
        BY <1>9, <1>f, SMTT(60)
      <4> QED BY <4>1, <4>2, <4>3, <3>6, <3>7, <3>a, <3>b, <2>r
  <2>3. CASE ~(q.head < q.tail) /\ ~(n <= one)
    <3>0. q.size = one + q.tail /\ q.tail <= q.head /\ n - one \in Nat /\ one <= q.size /\ one <= n
      BY <2>3, <1>9, <1>f, SMTT(60)
    <3>a. \A i \in 0 .. q.cap - 1 : PlaceOf(q, i) < n <=> q.head <= i \/ i < n - one
      BY <3>0, <1>0, <1>9, FirstPlaces
    <3>b. \A i \in 0 .. q.cap - 1 : PlaceOf(q, i) < q.size <=> q.head <= i \/ i < q.tail
      <4>1. \A i \in 0 .. q.cap - 1 : PlaceOf(q, i) < q.size <=> q.head <= i \/ i < q.size - one
        BY <3>0, <1>0, <1>9, <1>f, FirstPlaces
      <4>2. q.size - one = q.tail BY <3>0, <1>9, <1>f
      <4> QED BY <4>1, <4>2
    <3>1. AliveIn(m0, q.cap, n - one, q.tail) /\ q.tail <= q.cap
      <4>1. \A i \in 0 .. q.cap - 1 : n - one <= i /\ i < q.tail => ~(i < n - one) /\ ~(q.head <= i)
        BY <3>0, <1>f
      <4>2. AliveIn(m0, q.cap, n - one, q.tail)
        BY <4>1, <3>a, <3>b, <1>7 DEF AliveIn
      <4> QED BY <4>2, <1>f
    <3>2. Lives(q.cap, m) /\ Gone(m, m0, q.cap, n - one, q.tail)
      BY <2>3, <3>0, <3>1, <1>8, <1>f, DestroyIs
    <3>3. \A i \in 0 .. q.cap - 1 :
            /\ n - one <= i <=> ~(i < n - one)
            /\ i < q.tail => ~(q.head <= i)
      BY <3>0, <1>f
    <3> QED BY <3>3, <3>a, <3>b, <3>2, <2>r DEF Gone
  <2> QED BY <2>1, <2>2, <2>3
<1>11. Agrees(m, p, t) BY <1>1, <1>4, <1>5, <1>10 DEF Agrees
<1>12. Len(t) = p.size /\ Lives(p.cap, m) BY <1>1, <1>10 DEF n
<1> QED BY <1>1, <1>2, <1>11, <1>12, StandsFor

(* Destroying nothing. *)
LEMMA DestroyNone ==
  ASSUME NEW n, n \in Nat, NEW m, Lives(n, m), NEW at, at \in Nat, NEW u,
         NEW x, x = Assign(m, at, u), x.ok
  PROVE  Destroy(x, n, n) = x
<1>1. x = [cell |-> x.cell, ok |-> x.ok] /\ x.ok = TRUE
        /\ x.cell = [i \in DOMAIN x.cell |-> x.cell[i]]
  BY DEF Assign, Lives
<1>2. \A i : i \notin n .. n - 1 OBVIOUS
<1> QED BY <1>1, <1>2 DEF Destroy

(* A forward range of no more elements assigns and destroys what an input *)
(* range does, in another order. *)
LEMMA ShortenedIsCut ==
  ASSUME NEW q, NEW c, NEW s, Good(q, c, s), NEW t \in Seq(Elems),
         0 < Len(t), Len(t) <= q.size
  PROVE  Shortened(q, Of(c), t) = CutAt(q, Overwritten(q, Of(c), t), Len(t))
<1>0. Shape(q) BY DEF Good
<1>f. /\ q.head \in Nat /\ q.tail \in Nat /\ q.size \in Nat /\ q.cap \in Nat
      /\ q.head < q.cap /\ q.size <= q.cap /\ q.tail < q.cap
      /\ q.tail = IF q.size < q.cap - q.head THEN q.head + q.size
                  ELSE q.size - (q.cap - q.head)
  BY <1>0, Fields
<1> DEFINE m == Of(c)
           n == Len(t)
<1>1. One(q) = q.cap - q.head /\ One(q) \in Nat /\ n \in Nat BY <1>f DEF One
<1>2. CASE n <= One(q)
  <2>1. SubSeq(t, 1, n) = t
    <3>1. /\ SubSeq(t, 1, n) \in Seq(Elems) /\ Len(SubSeq(t, 1, n)) = n
          /\ \A i \in 1 .. n : SubSeq(t, 1, n)[i] = t[i]
      BY <1>1, Parts
    <3> DEFINE u == SubSeq(t, 1, n)
    <3>2. u \in Seq(Elems) /\ Len(u) = Len(t) /\ \A i \in 1 .. Len(u) : u[i] = t[i]
      BY <3>1
    <3> HIDE DEF u
    <3>3. u = t BY <3>2, SeqEqual
    <3> QED BY <3>3 DEF u
  <2>2. ~(n > One(q)) BY <1>1, <1>2
  <2>3. Overwritten(q, m, t) = Assign(m, q.head, t) BY <1>2 DEF Overwritten
  <2>4. CASE q.head < q.tail
    <3>1. ~(q.tail <= q.head) BY <2>4, <1>f
    <3> QED BY <2>1, <2>2, <2>3, <2>4, <3>1, <1>2 DEF Shortened, CutAt
  <2>5. CASE ~(q.head < q.tail)
    <3>1. q.tail <= q.head BY <2>5, <1>f
    <3> QED BY <2>1, <2>2, <2>3, <2>5, <3>1, <1>2 DEF Shortened, CutAt
  <2> QED BY <2>4, <2>5
<1>3. CASE ~(n <= One(q))
  <2>1. n > One(q) /\ ~(q.head < q.tail) /\ q.head + One(q) = q.cap
    BY <1>1, <1>3, <1>f, SMTT(60)
  <2> DEFINE x == Assign(m, q.head, SubSeq(t, 1, One(q)))
  <2>2. Overwritten(q, m, t) = Assign(x, 0, SubSeq(t, One(q) + 1, n))
    BY <1>3 DEF Overwritten
  <2>3. Shortened(q, m, t) =
          Destroy(Assign(Destroy(x, q.cap, q.cap), 0, SubSeq(t, One(q) + 1, n)),
                  n - One(q), q.tail)
    BY <1>3, <2>1 DEF Shortened
  <2>4. CutAt(q, Overwritten(q, m, t), n) = Destroy(Overwritten(q, m, t), n - One(q), q.tail)
    BY <1>3, <2>1 DEF CutAt
  <2>5. x.ok /\ Lives(q.cap, m)
    <3>1. /\ Lives(q.cap, m) /\ m.cell = c
          /\ \A i \in 0 .. q.cap - 1 : c[i] # RAW <=> PlaceOf(q, i) < q.size
      BY GoodLives DEF Of
    <3>2. \A i \in 0 .. q.cap - 1 : PlaceOf(q, i) < One(q) <=> q.head <= i /\ i < q.head + One(q)
      BY <1>0, <1>1, FirstPlaces
    <3>3. \A i \in 0 .. q.cap - 1 : PlaceOf(q, i) < One(q) => PlaceOf(q, i) < q.size
      <4>1. \A i \in 0 .. q.cap - 1 : PlaceOf(q, i) \in Nat
        BY <1>0, <1>f, Places
      <4>2. One(q) < q.size BY <1>1, <1>3, <1>f
      <4> QED BY <4>1, <4>2, <1>1, <1>f
    <3> DEFINE u == SubSeq(t, 1, One(q))
    <3>4. Len(u) = One(q) BY <1>1, <1>3, Parts
    <3> HIDE DEF u
    <3>5. AliveIn(m, q.cap, q.head, q.head + Len(u))
      BY <3>1, <3>2, <3>3, <3>4 DEF AliveIn
    <3>6. Lives(q.cap, Assign(m, q.head, u))
      <4>1. q.head + Len(u) <= q.cap /\ Len(u) \in Nat BY <3>4, <2>1, <1>1, <1>f
      <4> QED BY <3>1, <3>5, <4>1, <1>f, AssignIs
    <3> QED BY <3>1, <3>6 DEF u, Lives
  <2>6. Destroy(x, q.cap, q.cap) = x BY <2>5, <1>f, DestroyNone
  <2> QED BY <2>2, <2>3, <2>4, <2>6
<1> QED BY <1>2, <1>3

(* The cell of place n, and k cells from there, up to the end of the array *)
(* or up to the head; u is what follows the first n elements of t. *)
Follows(q, n, at, k) ==
  \/ q.head <= at /\ n = at - q.head /\ at + k <= q.cap
  \/ n = at + (q.cap - q.head) /\ at + k <= q.head
Continues(u, t, n) == \A i \in 1 .. Len(u) : u[i] = t[n + i]

(* Constructing there what follows the first n elements. *)
LEMMA ExtendIs ==
  ASSUME NEW q, Shape(q), NEW t, NEW n, n \in Nat, NEW m, Lives(q.cap, m), Holds(m, q, t, n),
         NEW at, at \in Nat, NEW u, Len(u) \in Nat, Continues(u, t, n),
         Follows(q, n, at, Len(u))
  PROVE  Lives(q.cap, Construct(m, at, u)) /\ Holds(Construct(m, at, u), q, t, n + Len(u))
<1>f. q.head \in Nat /\ q.cap \in Nat /\ q.head < q.cap
  BY Fields
<1> DEFINE d == Construct(m, at, u)
<1>1. at + Len(u) <= q.cap BY <1>f DEF Follows
<1> DEFINE k == Len(u)
           one == q.cap - q.head
<1>p. \A i \in 0 .. q.cap - 1 : PlaceOf(q, i) = IF i < q.head THEN i + one ELSE i - q.head
  BY DEF PlaceOf
<1>k. /\ k \in Nat /\ one \in Nat
      /\ \/ q.head <= at /\ n = at - q.head /\ at + k <= q.cap
         \/ n = at + one /\ at + k <= q.head
  BY <1>f DEF Follows
<1> HIDE DEF k, one
<1>2. \A i \in 0 .. q.cap - 1 : at <= i /\ i < at + k => PlaceOf(q, i) = n + (i - at)
  <2> SUFFICES ASSUME NEW i \in 0 .. q.cap - 1, at <= i, i < at + k
               PROVE  PlaceOf(q, i) = n + (i - at)
    OBVIOUS
  <2>1. CASE q.head <= at /\ n = at - q.head
    <3>1. ~(i < q.head) /\ i - q.head = n + (i - at) BY <2>1, <1>f, SMTT(60)
    <3> QED BY <3>1, <1>p
  <2>2. CASE n = at + one /\ at + k <= q.head
    <3>1. i < q.head /\ i + one = n + (i - at) BY <2>2, <1>f, <1>k
    <3> QED BY <3>1, <1>p
  <2> QED BY <2>1, <2>2, <1>k
<1>3. \A i \in 0 .. q.cap - 1 : ~(at <= i /\ i < at + k) =>
        (PlaceOf(q, i) < n + k <=> PlaceOf(q, i) < n)
  <2> SUFFICES ASSUME NEW i \in 0 .. q.cap - 1, ~(at <= i /\ i < at + k)
               PROVE  PlaceOf(q, i) < n + k <=> PlaceOf(q, i) < n
    OBVIOUS
  <2> DEFINE x == PlaceOf(q, i)
  <2>0. x = IF i < q.head THEN i + one ELSE i - q.head BY <1>p
  <2>a. one = q.cap - q.head
    BY DEF one
  <2> SUFFICES x < n + k <=> x < n OBVIOUS
  <2> HIDE DEF x
  <2>1. CASE q.head <= at /\ n = at - q.head /\ at + k <= q.cap
    <3>1. CASE i < q.head
      <4>1. x = i + one BY <3>1, <2>0
      <4>2. n + k <= one /\ n <= one BY <2>1, <2>a, <1>f, <1>k, SMTT(60)
      <4> QED BY <4>1, <4>2, <1>k
    <3>2. CASE ~(i < q.head)
      <4>1. x = i - q.head BY <3>2, <2>0
      <4>2. i < at \/ ~(i < at + k) OBVIOUS
      <4>3. x < n <=> i < at BY <4>1, <2>1, <1>f
      <4>4. x < n + k <=> i < at + k BY <4>1, <2>1, <1>f, <1>k, SMTT(60)
      <4>5. i < at => i < at + k BY <1>k
      <4> QED BY <4>2, <4>3, <4>4, <4>5
    <3> QED BY <3>1, <3>2
  <2>2. CASE n = at + one /\ at + k <= q.head
    <3>1. CASE i < q.head
      <4>1. x = i + one BY <3>1, <2>0
      <4> QED BY <4>1, <2>2, <1>k
    <3>2. CASE ~(i < q.head)
      <4>1. x = i - q.head /\ x < one /\ one <= n
        BY <3>2, <2>0, <2>2, <2>a, <1>f, <1>k, SMTT(60)
      <4> QED BY <4>1, <1>k
    <3> QED BY <3>1, <3>2
  <2> QED BY <2>1, <2>2, <1>k
<1> USE DEF k
<1>4. RawIn(m, q.cap, at, at + Len(u))
  <2>1. \A i \in 0 .. q.cap - 1 : at <= i /\ i < at + Len(u) => ~(PlaceOf(q, i) < n)
    BY <1>2, <1>f
  <2> QED BY <2>1 DEF RawIn, Holds
<1>5. Lives(q.cap, d) /\ Written(d, m, q.cap, at, u)
  BY <1>1, <1>4, <1>f, ConstructIs
<1> HIDE DEF d
<1>6. \A i \in 0 .. q.cap - 1 :
        d.cell[i] = IF PlaceOf(q, i) < n + Len(u) THEN t[PlaceOf(q, i) + 1] ELSE RAW
  <2> TAKE i \in 0 .. q.cap - 1
  <2>1. CASE at <= i /\ i < at + Len(u)
    <3>1. d.cell[i] = u[i - at + 1] BY <2>1, <1>5 DEF Written
    <3>2. i - at + 1 \in 1 .. Len(u) /\ n + (i - at + 1) = (n + (i - at)) + 1
      BY <2>1, <1>f
    <3>3. PlaceOf(q, i) = n + (i - at) /\ PlaceOf(q, i) < n + Len(u)
      BY <2>1, <1>2, <1>f
    <3>4. u[i - at + 1] = t[n + (i - at + 1)] BY <3>2 DEF Continues
    <3> QED BY <3>1, <3>2, <3>3, <3>4
  <2>2. CASE ~(at <= i /\ i < at + Len(u))
    <3>1. d.cell[i] = m.cell[i] BY <2>2, <1>5 DEF Written
    <3> QED BY <3>1, <2>2, <1>3 DEF Holds
  <2> QED BY <2>1, <2>2
<1> QED BY <1>5, <1>6 DEF d, Holds

(* _range_assign and _next compute the same tail. *)
LEMMA TailIs ==
  ASSUME NEW q, Shape(q), NEW n, n \in Nat
  PROVE  TailAt(q, n) = Forth(q, q.head, n)
<1>1. q.head \in Nat /\ q.cap \in Nat /\ q.head < q.cap BY Fields
<1> QED BY <1>1 DEF TailAt, Forth, One

(* The array of q with n elements from its head. *)
LEMMA Resized ==
  ASSUME NEW q, Shape(q), NEW n, n \in Nat, n <= q.cap,
         NEW p, Changed(p, q, q.head, Forth(q, q.head, n), n)
  PROVE  /\ Shape(p) /\ p.size = n /\ p.cap = q.cap /\ p.data = q.data
         /\ \A i \in 0 .. q.cap - 1 : PlaceOf(p, i) = PlaceOf(q, i)
<1>1. q.head \in Nat /\ q.cap \in Nat /\ q.head < q.cap /\ q.cap <= MaxCapacity
  BY Fields DEF Shape
<1> QED BY <1>1 DEF Changed, Shape, Forth, PlaceOf

(* A forward range of no more elements. *)
LEMMA ShortenedGood ==
  ASSUME NEW q, NEW c, NEW s, Good(q, c, s), NEW t \in Seq(Elems),
         0 < Len(t), Len(t) <= q.size,
         NEW p, Changed(p, q, q.head, TailAt(q, Len(t)), Len(t)),
         NEW m, m = Shortened(q, Of(c), t)
  PROVE  Good(p, m.cell, t) /\ m.ok /\ p.data = q.data
<1> DEFINE m0 == Overwritten(q, Of(c), t)
<1>1. Lives(q.cap, m0) /\ Begins(m0, q, t, c) BY OverwrittenIs
<1>2. m = CutAt(q, m0, Len(t)) BY ShortenedIsCut
<1> HIDE DEF m0
<1>3. Changed(p, q, q.head, Forth(q, q.head, Len(t)), Len(t)) BY TailIs DEF Good
<1> QED BY <1>1, <1>2, <1>3, CutGood, SMTT(60)

(* An input range of fewer elements. *)
LEMMA InputGood ==
  ASSUME NEW q, NEW c, NEW s, Good(q, c, s), NEW t \in Seq(Elems),
         0 < Len(t), Len(t) <= q.size,
         NEW p, Changed(p, q, q.head, Forth(q, q.head, Len(t)), Len(t)),
         NEW m, m = CutAt(q, Overwritten(q, Of(c), t), Len(t))
  PROVE  Good(p, m.cell, t) /\ m.ok /\ p.data = q.data
<1> DEFINE m0 == Overwritten(q, Of(c), t)
<1>1. Lives(q.cap, m0) /\ Begins(m0, q, t, c) BY OverwrittenIs
<1> HIDE DEF m0
<1>2. m = CutAt(q, m0, Len(t)) BY DEF m0
<1> QED BY <1>1, <1>2, CutGood, SMTT(60)

(* A forward range of more elements that fit. *)
LEMMA LengthenedGood ==
  ASSUME NEW q, NEW c, NEW s, Good(q, c, s), NEW t \in Seq(Elems),
         q.size < Len(t), Len(t) <= q.cap,
         NEW p, Changed(p, q, q.head, TailAt(q, Len(t)), Len(t)),
         NEW m, m = Lengthened(q, Of(c), t)
  PROVE  Good(p, m.cell, t) /\ m.ok /\ p.data = q.data
<1>0. Shape(q) BY DEF Good
<1>f. /\ q.head \in Nat /\ q.tail \in Nat /\ q.size \in Nat /\ q.cap \in Nat
      /\ q.head < q.cap /\ q.size <= q.cap /\ q.tail < q.cap
      /\ q.tail = IF q.size < q.cap - q.head THEN q.head + q.size
                  ELSE q.size - (q.cap - q.head)
  BY <1>0, Fields
<1> DEFINE old == SubSeq(t, 1, q.size)
           new == SubSeq(t, q.size + 1, Len(t))
           m1  == Overwritten(q, Of(c), old)
           in1 == One(q) - q.size
           k   == Len(t) - q.size
<1>1. /\ old \in Seq(Elems) /\ Len(old) = q.size /\ \A i \in 1 .. q.size : old[i] = t[i]
      /\ new \in Seq(Elems) /\ Len(new) = k /\ \A i \in 1 .. k : new[i] = t[q.size + i]
  <2>1. q.size \in 0 .. Len(t) BY <1>f
  <2> QED BY <2>1, Parts, ZenonT(60)
<1>2. m = IF q.size > One(q) THEN Construct(m1, q.size - One(q), new)
          ELSE IF Len(t) > One(q)
            THEN Construct(Construct(m1, q.head + q.size, SubSeq(new, 1, in1)),
                           0, SubSeq(new, in1 + 1, Len(new)))
          ELSE Construct(m1, q.head + q.size, new)
  BY DEF Lengthened
<1> HIDE DEF old, new
<1>3. Lives(q.cap, m1) /\ Begins(m1, q, old, c) BY <1>1, <1>f, OverwrittenIs
<1> HIDE DEF m1
<1>4. One(q) = q.cap - q.head /\ One(q) \in Nat /\ Len(t) \in Nat /\ k \in Nat
        /\ q.size + k = Len(t) /\ q.head + One(q) = q.cap
  BY <1>f, SMTT(60) DEF One
<1>5. Holds(m1, q, t, q.size)
  <2>1. \A i \in 0 .. q.cap - 1 : PlaceOf(q, i) < q.size => PlaceOf(q, i) + 1 \in 1 .. q.size
    <3>1. \A i \in 0 .. q.cap - 1 : PlaceOf(q, i) \in Nat BY <1>0, <1>f, Places
    <3> QED BY <3>1, <1>f, SMTT(60)
  <2>2. \A i \in 0 .. q.cap - 1 : ~(PlaceOf(q, i) < q.size) => c[i] = RAW
    BY GoodLives
  <2> QED BY <2>1, <2>2, <1>1, <1>3 DEF Begins, Holds
<1> HIDE DEF k, in1
<1>6. Lives(q.cap, m) /\ Holds(m, q, t, Len(t))
  <2>1. CASE q.size > One(q)
    <3>1. /\ m = Construct(m1, q.size - One(q), new) /\ q.size - One(q) \in Nat
          /\ Follows(q, q.size, q.size - One(q), Len(new))
      <4>1. m = Construct(m1, q.size - One(q), new) BY <2>1, <1>2
      <4>2. q.size - One(q) \in Nat /\ q.size = (q.size - One(q)) + (q.cap - q.head)
        BY <2>1, <1>4, <1>f
      <4>3. (q.size - One(q)) + k <= q.head BY <1>4, <1>f, SMTT(60)
      <4> QED BY <4>1, <4>2, <4>3, <1>1 DEF Follows
    <3>2. Len(new) \in Nat /\ Continues(new, t, q.size)
      BY <1>1, <1>4 DEF Continues
    <3>3. Lives(q.cap, m) /\ Holds(m, q, t, q.size + Len(new))
      BY <3>1, <3>2, <1>0, <1>3, <1>5, <1>f, ExtendIs
    <3> QED BY <3>3, <1>1, <1>4
  <2>2. CASE ~(q.size > One(q)) /\ ~(Len(t) > One(q))
    <3>1. /\ m = Construct(m1, q.head + q.size, new) /\ q.head + q.size \in Nat
          /\ Follows(q, q.size, q.head + q.size, Len(new))
      BY <2>2, <1>1, <1>2, <1>4, <1>f, SMTT(60) DEF Follows
    <3>2. Len(new) \in Nat /\ Continues(new, t, q.size)
      BY <1>1, <1>4 DEF Continues
    <3>3. Lives(q.cap, m) /\ Holds(m, q, t, q.size + Len(new))
      BY <3>1, <3>2, <1>0, <1>3, <1>5, <1>f, ExtendIs
    <3> QED BY <3>3, <1>1, <1>4
  <2>3. CASE ~(q.size > One(q)) /\ Len(t) > One(q)
    <3> DEFINE n1 == SubSeq(new, 1, in1)
               n2 == SubSeq(new, in1 + 1, Len(new))
               d  == Construct(m1, q.head + q.size, n1)
    <3>0. /\ in1 \in 0 .. Len(new) /\ in1 \in Nat /\ q.size + in1 = One(q)
          /\ Len(new) - in1 = Len(t) - One(q) /\ Len(t) - One(q) \in Nat
          /\ Len(t) - One(q) <= q.head
      <4>1. in1 \in Nat /\ q.size + in1 = One(q) BY <2>3, <1>4, <1>f DEF in1
      <4>2. in1 <= k /\ k - in1 = Len(t) - One(q) BY <4>1, <2>3, <1>4, <1>f
      <4>3. Len(t) - One(q) \in Nat /\ Len(t) - One(q) <= q.head
        BY <2>3, <1>4, <1>f, SMTT(60)
      <4> QED BY <4>1, <4>2, <4>3, <1>1, <1>4
    <3>1. /\ Len(n1) = in1 /\ \A i \in 1 .. in1 : n1[i] = new[i]
          /\ Len(n2) = Len(new) - in1 /\ \A i \in 1 .. Len(new) - in1 : n2[i] = new[in1 + i]
      BY <3>0, <1>1, Parts, SMTT(60)
    <3>2. m = Construct(d, 0, n2) BY <2>3, <1>2
    <3> HIDE DEF n1, n2
    <3>3. Continues(n1, t, q.size)
      <4>1. \A i \in 1 .. in1 : i \in 1 .. k BY <3>0, <1>1, <1>4
      <4>2. \A i \in 1 .. in1 : n1[i] = t[q.size + i] BY <4>1, <3>1, <1>1
      <4> QED BY <4>2, <3>1 DEF Continues
    <3>4. Continues(n2, t, One(q))
      <4> SUFFICES ASSUME NEW i \in 1 .. Len(n2)
                   PROVE  n2[i] = t[One(q) + i]
        BY DEF Continues
      <4>1. n2[i] = new[in1 + i] BY <3>1
      <4>2. in1 + i \in 1 .. k /\ q.size + (in1 + i) = One(q) + i
        <5>0. /\ in1 \in Nat /\ q.size \in Nat /\ k \in Nat /\ One(q) \in Nat
              /\ q.size + in1 = One(q)
          BY <3>0, <1>4, <1>f
        <5>2. Len(n2) = k - in1 BY <3>1, <1>1
        <5>1. i \in Nat /\ 1 <= i /\ in1 + i <= k BY <5>0, <5>2
        <5> QED BY <5>0, <5>1
      <4> QED BY <4>1, <4>2, <1>1
    <3>5. /\ q.head + q.size \in Nat /\ Len(n1) \in Nat
          /\ Follows(q, q.size, q.head + q.size, Len(n1))
      <4>1. Len(n1) \in Nat /\ Len(n1) = in1 BY <3>0, <3>1
      <4>2. q.head + (q.size + in1) = q.cap BY <3>0, <1>4
      <4>3. (q.head + q.size) + in1 <= q.cap /\ q.size = (q.head + q.size) - q.head
              /\ q.head <= q.head + q.size /\ q.head + q.size \in Nat
        BY <4>2, <3>0, <1>f, SMTT(60)
      <4> QED BY <4>1, <4>3 DEF Follows
    <3>6. Lives(q.cap, d) /\ Holds(d, q, t, q.size + Len(n1))
      BY <3>3, <3>5, <1>0, <1>3, <1>5, <1>f, ExtendIs
    <3> HIDE DEF d
    <3>7. Holds(d, q, t, One(q)) BY <3>0, <3>1, <3>6
    <3>8. 0 \in Nat /\ Len(n2) \in Nat /\ Follows(q, One(q), 0, Len(n2))
      <4>1. Len(n2) \in Nat /\ Len(n2) <= q.head BY <3>0, <3>1
      <4> QED BY <4>1, <1>4, <1>f DEF Follows
    <3>9. Lives(q.cap, m) /\ Holds(m, q, t, One(q) + Len(n2))
      BY <3>2, <3>4, <3>6, <3>7, <3>8, <1>0, <1>4, ExtendIs
    <3>10. One(q) + Len(n2) = Len(t) BY <3>0, <3>1, <1>4, SMTT(60)
    <3> QED BY <3>9, <3>10
  <2> QED BY <2>1, <2>2, <2>3
<1>7. Changed(p, q, q.head, Forth(q, q.head, Len(t)), Len(t))
  BY <1>0, <1>4, TailIs
<1>8. /\ Shape(p) /\ p.size = Len(t) /\ p.cap = q.cap /\ p.data = q.data
      /\ \A i \in 0 .. q.cap - 1 : PlaceOf(p, i) = PlaceOf(q, i)
  BY <1>0, <1>4, <1>7, Resized
<1>9. Lives(p.cap, m) /\ Agrees(m, p, t) BY <1>6, <1>8 DEF Agrees, Holds
<1> QED BY <1>8, <1>9, StandsFor

(* The first elements are overwritten, the others stay. *)
LEMMA PrefixGood ==
  ASSUME NEW q, NEW c, NEW s, Good(q, c, s), NEW t \in Seq(Elems), Len(t) <= q.size,
         NEW m, m = Overwritten(q, Of(c), t)
  PROVE  /\ Good(q, m.cell, t \o SubSeq(s, Len(t) + 1, Len(s))) /\ m.ok
         /\ Len(t) <= Len(s)
<1>0. Shape(q) /\ s \in Seq(Elems) /\ Len(s) = q.size BY DEF Good
<1>f. q.size \in Nat /\ q.cap \in Nat /\ q.size <= q.cap
  BY <1>0, Fields
<1> DEFINE rest == SubSeq(s, Len(t) + 1, Len(s))
           u == t \o rest
           k == Len(t)
<1>1. Lives(q.cap, m) /\ Begins(m, q, t, c) BY OverwrittenIs
<1>2. k \in Nat /\ k \in 0 .. Len(s) BY <1>0, <1>f
<1>3. rest \in Seq(Elems) /\ Len(rest) = q.size - k
        /\ \A i \in 1 .. q.size - k : rest[i] = s[k + i]
  BY <1>0, <1>2, Parts
<1> HIDE DEF rest
<1>4. u \in Seq(Elems) /\ Len(u) = q.size
        /\ \A i \in 1 .. q.size : u[i] = IF i <= k THEN t[i] ELSE rest[i - k]
  <2>1. /\ u \in Seq(Elems) /\ Len(u) = k + Len(rest)
        /\ \A i \in 1 .. k + Len(rest) : u[i] = IF i <= k THEN t[i] ELSE rest[i - k]
    BY <1>3, ConcatProperties
  <2>2. k + Len(rest) = q.size BY <1>2, <1>3, <1>f
  <2> QED BY <2>1, <2>2
<1> HIDE DEF u
<1>5. Agrees(m, q, u)
  <2> SUFFICES ASSUME NEW i \in 0 .. q.cap - 1
               PROVE  m.cell[i] = IF PlaceOf(q, i) < q.size THEN u[PlaceOf(q, i) + 1] ELSE RAW
    BY DEF Agrees
  <2> DEFINE x == PlaceOf(q, i)
  <2>1. x \in Nat BY <1>0, <1>f, Places
  <2>2. m.cell[i] = IF x < k THEN t[x + 1] ELSE c[i] BY <1>1 DEF Begins
  <2>3. c[i] = IF x < q.size THEN s[x + 1] ELSE RAW BY GoodLives
  <2> HIDE DEF x
  <2>4. CASE x < k
    <3>1. x + 1 \in 1 .. q.size /\ x + 1 <= k /\ x < q.size
      BY <2>1, <2>4, <1>2, <1>0, <1>f
    <3> QED BY <3>1, <2>2, <2>4, <1>4 DEF x
  <2>5. CASE ~(x < k) /\ x < q.size
    <3>1. /\ x + 1 \in 1 .. q.size /\ ~(x + 1 <= k)
          /\ (x + 1) - k \in 1 .. q.size - k /\ k + ((x + 1) - k) = x + 1
      BY <2>1, <2>5, <1>2, <1>f
    <3>2. u[x + 1] = s[x + 1] BY <3>1, <1>3, <1>4
    <3> QED BY <3>2, <2>2, <2>3, <2>5 DEF x
  <2>6. CASE ~(x < q.size)
    <3>1. ~(x < k) BY <2>1, <2>6, <1>2, <1>0, <1>f
    <3> QED BY <3>1, <2>2, <2>3, <2>6 DEF x
  <2> QED BY <2>4, <2>5, <2>6
<1>6. Good(q, m.cell, u) /\ m.ok BY <1>0, <1>1, <1>4, <1>5, StandsFor
<1> QED BY <1>0, <1>6 DEF u, rest

(* clear. *)
LEMMA ClearGood ==
  ASSUME NEW q, NEW c, NEW s, Good(q, c, s),
         NEW p, Changed(p, q, q.head, q.head, 0), NEW m, m = Destroyed(q, Of(c))
  PROVE  Good(p, m.cell, <<>>) /\ m.ok /\ p.data = q.data
<1>0. Shape(q) BY DEF Good
<1>f. q.head \in Nat /\ q.cap \in Nat /\ q.head < q.cap
  BY <1>0, Fields
<1>1. m.ok /\ m.cell = [i \in 0 .. q.cap - 1 |-> RAW] BY DestroyedAll
<1>2. Forth(q, q.head, 0) = q.head /\ 0 <= q.cap /\ 0 \in Nat BY <1>f DEF Forth
<1>3. /\ Shape(p) /\ p.size = 0 /\ p.cap = q.cap /\ p.data = q.data
      /\ \A i \in 0 .. q.cap - 1 : PlaceOf(p, i) = PlaceOf(q, i)
  BY <1>0, <1>2, Resized
<1> DEFINE e == <<>>
<1>4. e \in Seq(Elems) /\ Len(e) = p.size BY <1>3
<1> HIDE DEF e
<1>5. Lives(p.cap, m) /\ Agrees(m, p, e)
  <2>1. \A i \in 0 .. q.cap - 1 : ~(PlaceOf(p, i) < p.size)
    BY <1>0, <1>3, <1>f, Places
  <2> QED BY <2>1, <1>1, <1>3 DEF Lives, Agrees
<1> QED BY <1>3, <1>4, <1>5, StandsFor DEF e

-----------------------------------------------------------------------------
(* Reading.  The cell of place k, also for k = q.cap, where the array has *)
(* gone around once. *)

(* One step forth or back is to the next or the previous place. *)
LEMMA Steps ==
  ASSUME NEW q, Shape(q), NEW i, i \in Nat
  PROVE  /\ i < q.cap => /\ Increment(q, Forth(q, q.head, i)) = Forth(q, q.head, i + 1)
                         /\ Decrement(q, Forth(q, q.head, i + 1)) = Forth(q, q.head, i)
                         /\ Forth(q, q.head, i) \in Nat
                         /\ PlaceOf(q, Forth(q, q.head, i)) = i
         /\ Forth(q, q.head, 0) = q.head
<1>f. q.head \in Nat /\ q.cap \in Nat /\ q.head < q.cap
  BY Fields
<1> QED BY <1>f DEF Increment, Decrement, Forth, PlaceOf

(* The pointers of two places are as far from each other as the places. *)
LEMMA Jumps ==
  ASSUME NEW q, Shape(q), NEW i, NEW j, i \in Nat, j \in Nat, i < j, j <= q.cap
  PROVE  /\ Forth(q, Forth(q, q.head, i), j - i) = Forth(q, q.head, j)
         /\ Back(q, Forth(q, q.head, j), j - i) = Forth(q, q.head, i)
         /\ 0 < i => Forth(q, q.head, i) # Forth(q, q.head, j)
<1>f. q.head \in Nat /\ q.cap \in Nat /\ q.head < q.cap
  BY Fields
<1>1. Forth(q, Forth(q, q.head, i), j - i) = Forth(q, q.head, j)
  BY <1>f DEF Forth
<1>2. Back(q, Forth(q, q.head, j), j - i) = Forth(q, q.head, i)
  BY <1>f DEF Forth, Back
<1>3. 0 < i => Forth(q, q.head, i) # Forth(q, q.head, j) BY <1>f DEF Forth
<1> QED BY <1>1, <1>2, <1>3

(* Iterators go from one element to any other and to the end, and know *)
(* their place. *)
LEMMA Iterators ==
  ASSUME NEW q, Shape(q)
  PROVE  /\ Begin(q) = At(q, 0)
         /\ \A i \in 0 .. q.size - 1 :
              /\ At(q, i) = Forth(q, q.head, i)
              /\ IterNext(q, At(q, i)) = At(q, i + 1)
              /\ IterPrev(q, At(q, i + 1)) = At(q, i)
         /\ \A i, j \in 0 .. q.size : IterPlus(q, At(q, i), j - i) = At(q, j)
         /\ \A i \in 0 .. q.size : Place(q, At(q, i)) = i
<1>f. /\ q.head \in Nat /\ q.size \in Nat /\ q.cap \in Nat
      /\ q.head < q.cap /\ q.size <= q.cap
  BY Fields
<1>t. q.tail = Forth(q, q.head, q.size)
  BY DEF Shape
<1>n. NULL \notin Nat
  BY RawAssumption
<1>1. Begin(q) = At(q, 0) BY <1>f, Steps DEF Begin, At
<1>2. \A i \in 0 .. q.size - 1 :
        /\ i \in Nat /\ i < q.size /\ i < q.cap /\ i + 1 \in Nat /\ i + 1 <= q.size
        /\ At(q, i) = Forth(q, q.head, i) /\ At(q, i) \in Nat
  <2> TAKE i \in 0 .. q.size - 1
  <2>1. i \in Nat /\ i < q.size /\ i < q.cap /\ i + 1 \in Nat /\ i + 1 <= q.size /\ i # q.size
    BY <1>f
  <2>2. Forth(q, q.head, i) \in Nat BY <2>1, Steps
  <2> QED BY <2>1, <2>2 DEF At
<1>3. \A i \in 0 .. q.size - 1 : i # 0 => At(q, i) # q.tail
  <2> SUFFICES ASSUME NEW i \in 0 .. q.size - 1, i # 0
               PROVE  At(q, i) # q.tail
    OBVIOUS
  <2>1. i \in Nat /\ i < q.size /\ 0 < i /\ At(q, i) = Forth(q, q.head, i)
    BY <1>2
  <2> QED BY <2>1, <1>f, <1>t, Jumps
<1>4. ASSUME NEW i \in 0 .. q.size - 1
      PROVE  IterNext(q, At(q, i)) = At(q, i + 1) /\ IterPrev(q, At(q, i + 1)) = At(q, i)
  <2>1. /\ Increment(q, At(q, i)) = Forth(q, q.head, i + 1)
        /\ Decrement(q, Forth(q, q.head, i + 1)) = At(q, i)
    BY <1>2, Steps
  <2>2. CASE i + 1 = q.size
    BY <2>1, <2>2, <1>t DEF IterNext, IterPrev, EndIf, At
  <2>3. CASE i + 1 # q.size
    <3>1. i + 1 \in 0 .. q.size - 1 /\ i + 1 # 0 BY <2>3, <1>f
    <3>2. At(q, i + 1) = Forth(q, q.head, i + 1) /\ At(q, i + 1) \in Nat /\ At(q, i + 1) # q.tail
      BY <3>1, <1>2, <1>3
    <3> QED BY <2>1, <3>2, <1>n DEF IterNext, IterPrev, EndIf
  <2> QED BY <2>2, <2>3
<1>5. ASSUME NEW i \in 0 .. q.size, NEW j \in 0 .. q.size
      PROVE  IterPlus(q, At(q, i), j - i) = At(q, j)
  <2>0. i \in Nat /\ j \in Nat /\ i <= q.size /\ j <= q.size /\ i <= q.cap /\ j <= q.cap
    BY <1>f
  <2>1. CASE i < j
    <3>1. At(q, i) = Forth(q, q.head, i) /\ j - i > 0 BY <2>0, <2>1, <1>2, <1>f
    <3>2. IterPlus(q, At(q, i), j - i) = EndIf(q, Forth(q, q.head, j))
      <4>1. Forth(q, At(q, i), j - i) = Forth(q, q.head, j)
        BY <2>0, <2>1, <3>1, Jumps
      <4> QED BY <4>1, <3>1 DEF IterPlus
    <3>3. CASE j = q.size BY <3>2, <3>3, <1>t DEF EndIf, At
    <3>4. CASE j # q.size
      <4>1. j \in 0 .. q.size - 1 /\ j # 0 BY <3>4, <2>0, <2>1, <1>f
      <4> QED BY <4>1, <3>2, <1>2, <1>3 DEF EndIf
    <3> QED BY <3>3, <3>4
  <2>2. CASE j < i
    <3>1. At(q, j) = Forth(q, q.head, j) /\ ~(j - i > 0) /\ j - i < 0 /\ -(j - i) = i - j
      BY <2>0, <2>2, <1>2, <1>f
    <3>2. (IF At(q, i) = NULL THEN q.tail ELSE At(q, i)) = Forth(q, q.head, i)
      <4>1. CASE i = q.size BY <4>1, <1>t DEF At
      <4>2. CASE i # q.size
        <5>1. i \in 0 .. q.size - 1 BY <4>2, <2>0, <1>f
        <5> QED BY <5>1, <1>2, <1>n
      <4> QED BY <4>1, <4>2
    <3>3. Back(q, Forth(q, q.head, i), i - j) = Forth(q, q.head, j)
      BY <2>0, <2>2, Jumps
    <3> QED BY <3>1, <3>2, <3>3 DEF IterPlus
  <2>3. CASE i = j
    <3>1. ~(j - i > 0) /\ ~(j - i < 0) BY <2>0, <2>3
    <3> QED BY <2>3, <3>1 DEF IterPlus
  <2> QED BY <2>0, <2>1, <2>2, <2>3
<1>6. ASSUME NEW i \in 0 .. q.size
      PROVE  Place(q, At(q, i)) = i
  <2>1. CASE i = q.size BY <2>1 DEF Place, At
  <2>2. CASE i # q.size
    <3>1. i \in 0 .. q.size - 1 BY <2>2, <1>f
    <3>2. PlaceOf(q, At(q, i)) = i /\ At(q, i) # NULL BY <3>1, <1>2, <1>n, Steps
    <3> QED BY <3>2 DEF Place
  <2> QED BY <2>1, <2>2
<1> QED BY <1>1, <1>2, <1>4, <1>5, <1>6

(* The two arrays are the sequence. *)
LEMMA Arrays ==
  ASSUME NEW q, NEW c, NEW s, Good(q, c, s)
  PROVE  ArrayOne(q, c) \o ArrayTwo(q, c) = s
<1>0. Shape(q) /\ s \in Seq(Elems) /\ Len(s) = q.size BY DEF Good
<1>f. /\ q.head \in Nat /\ q.tail \in Nat /\ q.size \in Nat /\ q.cap \in Nat
      /\ q.head < q.cap /\ q.size <= q.cap /\ q.tail < q.cap
      /\ q.tail = IF q.size < q.cap - q.head THEN q.head + q.size
                  ELSE q.size - (q.cap - q.head)
  BY <1>0, Fields
<1>1. Linear(q, c) = s BY LinearIs
<1>2. Span(c, 0, 0) = <<>> BY DEF Span
<1>3. s \o <<>> = s BY <1>0, ConcatEmptySeq
<1>4. CASE q.size = 0
  <2>1. Span(c, q.head, q.tail) = <<>>
    <3>1. q.tail - q.head = 0 BY <1>4, <1>f
    <3> QED BY <3>1 DEF Span
  <2>2. s = <<>> BY <1>0, <1>4
  <2> QED BY <2>1, <2>2, <1>2, <1>3, <1>4 DEF ArrayOne, ArrayTwo
<1>5. CASE q.size # 0 /\ q.head < q.tail
  <2>1. ~(q.tail <= q.head) /\ q.tail > q.head BY <1>5, <1>f
  <2> QED BY <2>1, <1>1, <1>2, <1>3, <1>5 DEF ArrayOne, ArrayTwo, Linear
<1>6. CASE q.size # 0 /\ ~(q.head < q.tail)
  <2>1. q.tail <= q.head /\ ~(q.tail > q.head) BY <1>6, <1>f
  <2> QED BY <2>1, <1>1, <1>6 DEF ArrayOne, ArrayTwo, Linear
<1> QED BY <1>4, <1>5, <1>6

-----------------------------------------------------------------------------
(* The heap of all buffers. *)

Holding(r) ==
  /\ ring[r].data \in DOMAIN heap /\ ring[r].data # NULL
  /\ Memory(ring[r]) = Of(heap[ring[r].data])
  /\ Good(ring[r], heap[ring[r].data], queue[r])

(* A buffer has no storage and no elements, or a block of its own. *)
LEMMA Held ==
  ASSUME IInv, NEW r \in Rings
  PROVE  \/ /\ ring[r] = NoStorage /\ queue[r] = <<>>
            /\ Memory(ring[r]) = [cell |-> AllRaw(0), ok |-> TRUE]
         \/ Holding(r)
<1>1. RingOK(r) /\ DOMAIN heap \subseteq Blocks BY DEF IInv
<1>2. CASE ring[r] = NoStorage /\ queue[r] = <<>>
  <2>1. NoStorage.data = NULL BY DEF NoStorage
  <2> QED BY <1>2, <2>1 DEF Memory
<1>3. CASE ring[r].data \in DOMAIN heap /\ Good(ring[r], heap[ring[r].data], queue[r])
  <2>1. ring[r].data # NULL BY <1>1, <1>3, RawAssumption
  <2> QED BY <1>3, <2>1 DEF Memory, Of, Holding
<1> QED BY <1>1, <1>2, <1>3 DEF RingOK

(* Released memory is clean: nothing in it is alive, no lifetime was *)
(* violated. *)
Clean(m) == m.ok /\ \A i \in DOMAIN m.cell : m.cell[i] = RAW

(* _destroy leaves nothing alive in the array of a buffer. *)
LEMMA NothingLeft ==
  ASSUME IInv, NEW r \in Rings
  PROVE  Clean(Destroyed(ring[r], Memory(ring[r])))
<1> DEFINE m == Destroyed(ring[r], Memory(ring[r]))
<1>1. CASE ring[r] = NoStorage /\ Memory(ring[r]) = [cell |-> AllRaw(0), ok |-> TRUE]
  <2> DEFINE a == [cell |-> AllRaw(0), ok |-> TRUE]
  <2>1. m = Destroy(a, 0, 0) BY <1>1 DEF Destroyed, NoStorage
  <2>2. DOMAIN AllRaw(0) = {} BY DEF AllRaw
  <2>3. \A i : i \notin 0 .. 0 - 1 OBVIOUS
  <2>4. a.cell = AllRaw(0) /\ a.ok OBVIOUS
  <2> HIDE DEF a
  <2> DEFINE d == Destroy(a, 0, 0)
  <2>5. d.ok /\ DOMAIN d.cell = {} BY <2>2, <2>3, <2>4 DEF Destroy
  <2>6. m.ok /\ DOMAIN m.cell = {} BY <2>1, <2>5
  <2> QED BY <2>6 DEF Clean
<1>2. CASE Holding(r)
  <2>1. m.ok /\ m.cell = [i \in 0 .. ring[r].cap - 1 |-> RAW]
    BY <1>2, DestroyedAll DEF Holding
  <2> QED BY <2>1 DEF Clean
<1> QED BY <1>1, <1>2, Held

(* What a buffer without storage or without elements releases is clean. *)
LEMMA NoneToRelease ==
  ASSUME IInv, NEW r \in Rings, ring[r].data = NULL \/ ring[r].size = 0
  PROVE  Clean(Memory(ring[r]))
<1>1. CASE Memory(ring[r]) = [cell |-> AllRaw(0), ok |-> TRUE]
  BY <1>1 DEF Clean, AllRaw
<1>2. CASE Holding(r)
  <2>1. ring[r].size = 0 /\ Good(ring[r], heap[ring[r].data], queue[r])
    BY <1>2 DEF Holding
  <2> DEFINE q == ring[r]
             c == heap[ring[r].data]
  <2>2. DOMAIN c = 0 .. q.cap - 1 /\ \A i \in DOMAIN c : c[i] # RAW <=> PlaceOf(q, i) < q.size
    BY <2>1, ImageLive
  <2>3. Shape(q) BY <2>1 DEF Good
  <2>4. \A i \in 0 .. q.cap - 1 : ~(PlaceOf(q, i) < q.size)
    BY <2>1, <2>3, Places, Fields
  <2>5. \A i \in DOMAIN c : c[i] = RAW BY <2>2, <2>4
  <2>6. Memory(q) = [cell |-> c, ok |-> TRUE] BY <1>2 DEF Of, Holding
  <2> QED BY <2>5, <2>6 DEF Clean
<1> QED BY <1>1, <1>2, Held

(* The elements moved to another array are those of the sequence. *)
LEMMA Source ==
  ASSUME IInv, NEW r \in Rings
  PROVE  /\ Linear(ring[r], Memory(ring[r]).cell) = queue[r]
         /\ queue[r] \in Seq(Elems) /\ Len(queue[r]) = ring[r].size
<1>1. CASE ring[r] = NoStorage /\ queue[r] = <<>> BY <1>1 DEF Linear, NoStorage
<1>2. CASE Holding(r)
  <2>1. Linear(ring[r], heap[ring[r].data]) = queue[r]
    BY <1>2, LinearIs DEF Holding
  <2> QED BY <1>2, <2>1 DEF Holding, Of, Good
<1> QED BY <1>1, <1>2, Held

(* A buffer that keeps its block. *)
LEMMA StaysKeeps ==
  ASSUME IInv, NEW r \in Rings, Holding(r), NEW q, NEW m, NEW s,
         Good(q, m.cell, s), m.ok, q.data = ring[r].data,
         Stays(r, q, m), Becomes(r, s)
  PROVE  IInv'
<1>1. ring' = [ring EXCEPT ![r] = q] /\ queue' = [queue EXCEPT ![r] = s]
  BY DEF Stays, Becomes
<1>2. heap' = [heap EXCEPT ![q.data] = m.cell] /\ q.data \in DOMAIN heap
  BY DEF Stays, Holding
<1>3. /\ ring \in [Rings -> Rec \cup {NoStorage}] /\ queue \in [Rings -> Seq(Elems)]
      /\ DOMAIN heap \subseteq Blocks /\ heap = [b \in DOMAIN heap |-> heap[b]]
  BY DEF IInv
<1>4. q \in Rec /\ s \in Seq(Elems) BY DEF Good, Shape
<1>5. /\ ring' \in [Rings -> Rec \cup {NoStorage}] /\ queue' \in [Rings -> Seq(Elems)]
      /\ DOMAIN heap' = DOMAIN heap /\ heap' = [b \in DOMAIN heap' |-> heap'[b]]
  BY <1>1, <1>2, <1>3, <1>4
<1>6. ok' = TRUE BY DEF IInv, Stays
<1>7. \A t \in Rings : ring'[t].data = ring[t].data BY <1>1, <1>3
<1>8. StorageOwned'
  <2>1. \A b \in DOMAIN heap' : \E t \in Rings : ring'[t].data = b
    <3>1. \A b \in DOMAIN heap : \E t \in Rings : ring[t].data = b
      BY DEF IInv, StorageOwned
    <3> QED BY <3>1, <1>5, <1>7, ZenonT(60)
  <2>2. \A t, u \in Rings : t # u /\ ring'[t].data = ring'[u].data => ring'[t].data = NULL
    <3>1. \A t, u \in Rings : t # u /\ ring[t].data = ring[u].data => ring[t].data = NULL
      BY DEF IInv, StorageOwned
    <3> QED BY <3>1, <1>7
  <2> QED BY <2>1, <2>2 DEF StorageOwned
<1>9. ASSUME NEW t \in Rings PROVE RingOK(t)'
  <2>1. CASE t = r
    <3>1. ring'[t] = q /\ queue'[t] = s /\ heap'[q.data] = m.cell
      BY <2>1, <1>1, <1>2, <1>3
    <3> QED BY <3>1, <1>2, <1>5 DEF RingOK
  <2>2. CASE t # r
    <3>1. ring'[t] = ring[t] /\ queue'[t] = queue[t] BY <2>2, <1>1, <1>3
    <3>2. CASE ring[t] = NoStorage /\ queue[t] = <<>> BY <3>1, <3>2 DEF RingOK
    <3>3. CASE Holding(t)
      <4>1. ring[t].data # q.data BY <2>2, <3>3 DEF IInv, StorageOwned, Holding
      <4>2. heap'[ring[t].data] = heap[ring[t].data] /\ ring[t].data \in DOMAIN heap'
        BY <4>1, <3>3, <1>2, <1>5 DEF Holding
      <4> QED BY <3>1, <3>3, <4>2 DEF Holding, RingOK
    <3> QED BY <3>2, <3>3, Held
  <2> QED BY <2>1, <2>2
<1> QED BY <1>3, <1>5, <1>6, <1>8, <1>9 DEF IInv

(* A buffer that moves to a new block; the old one is released. *)
LEMMA MovesKeeps ==
  ASSUME IInv, NEW r \in Rings, NEW q, NEW m, NEW s, NEW left,
         Good(q, m.cell, s), m.ok, Clean(left), Moves(r, q, m, left), Becomes(r, s)
  PROVE  IInv'
<1>1. ring' = [ring EXCEPT ![r] = q] /\ queue' = [queue EXCEPT ![r] = s]
  BY DEF Moves, Becomes
<1>2. /\ q.data \in Blocks /\ q.data \notin DOMAIN heap
      /\ DOMAIN heap' = (DOMAIN heap \ {ring[r].data}) \cup {q.data}
      /\ heap' = [b \in DOMAIN heap' |-> heap'[b]]
      /\ heap'[q.data] = m.cell
      /\ \A b \in DOMAIN heap \ {ring[r].data} : heap'[b] = heap[b]
  BY DEF Moves
<1>3. /\ ring \in [Rings -> Rec \cup {NoStorage}] /\ queue \in [Rings -> Seq(Elems)]
      /\ DOMAIN heap \subseteq Blocks
  BY DEF IInv
<1>4. q \in Rec /\ s \in Seq(Elems) BY DEF Good, Shape
<1>5. /\ ring' \in [Rings -> Rec \cup {NoStorage}] /\ queue' \in [Rings -> Seq(Elems)]
      /\ DOMAIN heap' \subseteq Blocks
  BY <1>1, <1>2, <1>3, <1>4
<1>6. ok' = TRUE BY DEF IInv, Moves, Clean
<1>7. ring'[r] = q /\ \A t \in Rings : t # r => ring'[t] = ring[t] /\ queue'[t] = queue[t]
  BY <1>1, <1>3
<1>8. \A t \in Rings : t # r => ring[t].data # q.data
                              /\ (ring[t].data = ring[r].data => ring[t].data = NULL)
  <2> TAKE t \in Rings
  <2>1. ring[t].data = NULL \/ ring[t].data \in DOMAIN heap
    BY Held DEF Holding, NoStorage
  <2> QED BY <2>1, <1>2, RawAssumption DEF IInv, StorageOwned
<1>9. StorageOwned'
  <2>1. \A b \in DOMAIN heap' : \E t \in Rings : ring'[t].data = b
    <3> TAKE b \in DOMAIN heap'
    <3>1. CASE b = q.data BY <3>1, <1>7
    <3>2. CASE b \in DOMAIN heap \ {ring[r].data}
      BY <3>2, <1>7, SMTT(60) DEF IInv, StorageOwned
    <3> QED BY <3>1, <3>2, <1>2
  <2>2. \A t, u \in Rings : t # u /\ ring'[t].data = ring'[u].data => ring'[t].data = NULL
    <3>1. \A t, u \in Rings : t # u /\ ring[t].data = ring[u].data => ring[t].data = NULL
      BY DEF IInv, StorageOwned
    <3>2. \A t \in Rings : t # r => ring'[t].data = ring[t].data /\ ring[t].data # ring'[r].data
      BY <1>7, <1>8
    <3> QED BY <3>1, <3>2
  <2> QED BY <2>1, <2>2 DEF StorageOwned
<1>10. ASSUME NEW t \in Rings PROVE RingOK(t)'
  <2>1. CASE t = r
    <3>1. ring'[t] = q /\ queue'[t] = s BY <2>1, <1>1, <1>3
    <3> QED BY <3>1, <1>2 DEF RingOK
  <2>2. CASE t # r /\ ring[t] = NoStorage /\ queue[t] = <<>>
    BY <2>2, <1>7 DEF RingOK
  <2>3. CASE t # r /\ Holding(t)
    <3>1. ring[t].data \in DOMAIN heap \ {ring[r].data}
      BY <2>3, <1>8 DEF Holding
    <3>2. heap'[ring[t].data] = heap[ring[t].data] /\ ring[t].data \in DOMAIN heap'
      BY <3>1, <1>2
    <3> QED BY <2>3, <3>2, <1>7 DEF Holding, RingOK
  <2> QED BY <2>1, <2>2, <2>3, Held
<1> QED BY <1>2, <1>5, <1>6, <1>9, <1>10 DEF IInv

(* A buffer whose block is released. *)
LEMMA ReleasesKeeps ==
  ASSUME IInv, NEW r \in Rings, NEW left, Clean(left), Releases(r, left),
         ring' = [ring EXCEPT ![r] = NoStorage], Becomes(r, <<>>)
  PROVE  IInv'
<1> DEFINE s == <<>>
<1>1. queue' = [queue EXCEPT ![r] = s] /\ s \in Seq(Elems) BY DEF Becomes
<1>2. /\ DOMAIN heap' = DOMAIN heap \ {ring[r].data}
      /\ heap' = [b \in DOMAIN heap' |-> heap'[b]]
      /\ \A b \in DOMAIN heap \ {ring[r].data} : heap'[b] = heap[b]
  BY DEF Releases
<1>3. /\ ring \in [Rings -> Rec \cup {NoStorage}] /\ queue \in [Rings -> Seq(Elems)]
      /\ DOMAIN heap \subseteq Blocks
  BY DEF IInv
<1>5. /\ ring' \in [Rings -> Rec \cup {NoStorage}] /\ queue' \in [Rings -> Seq(Elems)]
      /\ DOMAIN heap' \subseteq Blocks
  BY <1>1, <1>2, <1>3
<1>6. ok' = TRUE BY DEF IInv, Releases, Clean
<1>7. /\ ring'[r] = NoStorage /\ queue'[r] = <<>>
      /\ \A t \in Rings : t # r => ring'[t] = ring[t] /\ queue'[t] = queue[t]
  BY <1>1, <1>3
<1>n. NoStorage.data = NULL
  BY DEF NoStorage
<1>8. \A t \in Rings : t # r /\ ring[t].data = ring[r].data => ring[t].data = NULL
  BY DEF IInv, StorageOwned
<1>9. StorageOwned'
  <2>1. \A b \in DOMAIN heap' : \E t \in Rings : ring'[t].data = b
    BY <1>2, <1>7 DEF IInv, StorageOwned
  <2>2. \A t, u \in Rings : t # u /\ ring'[t].data = ring'[u].data => ring'[t].data = NULL
    <3>1. \A t, u \in Rings : t # u /\ ring[t].data = ring[u].data => ring[t].data = NULL
      BY DEF IInv, StorageOwned
    <3>2. ring'[r].data = NULL BY <1>7, <1>n
    <3>3. \A t \in Rings : t = r \/ ring'[t].data = ring[t].data BY <1>7
    <3> QED BY <3>1, <3>2, <3>3
  <2> QED BY <2>1, <2>2 DEF StorageOwned
<1>10. ASSUME NEW t \in Rings PROVE RingOK(t)'
  <2>1. CASE t = r BY <2>1, <1>7 DEF RingOK
  <2>2. CASE t # r /\ ring[t] = NoStorage /\ queue[t] = <<>>
    BY <2>2, <1>7 DEF RingOK
  <2>3. CASE t # r /\ Holding(t)
    <3>1. ring[t].data \in DOMAIN heap \ {ring[r].data}
      BY <2>3, <1>8 DEF Holding
    <3>2. heap'[ring[t].data] = heap[ring[t].data] /\ ring[t].data \in DOMAIN heap'
      BY <3>1, <1>2
    <3> QED BY <2>3, <3>2, <1>7 DEF Holding, RingOK
  <2> QED BY <2>1, <2>2, <2>3, Held
<1> QED BY <1>2, <1>5, <1>6, <1>9, <1>10 DEF IInv

(* A buffer that takes the storage of another one. *)
LEMMA TakesKeeps ==
  ASSUME IInv, NEW r \in Rings, NEW t \in Rings, MoveAssign(r, t)
  PROVE  IInv'
<1>0. r # t /\ Clean(Destroyed(ring[r], Memory(ring[r])))
  BY NothingLeft DEF MoveAssign
<1>1. /\ ring \in [Rings -> Rec \cup {NoStorage}] /\ queue \in [Rings -> Seq(Elems)]
      /\ DOMAIN heap \subseteq Blocks
  BY DEF IInv
<1>2. /\ DOMAIN heap' = DOMAIN heap \ {ring[r].data}
      /\ heap' = [b \in DOMAIN heap' |-> heap'[b]]
      /\ \A b \in DOMAIN heap \ {ring[r].data} : heap'[b] = heap[b]
  BY DEF MoveAssign, Releases
<1>3. ok' = TRUE BY <1>0 DEF MoveAssign, Releases, IInv, Clean
<1> DEFINE none == <<>>
<1>4. none \in Seq(Elems) OBVIOUS
<1>5. /\ ring' = [ring EXCEPT ![r] = ring[t], ![t] = NoStorage]
      /\ queue' = [queue EXCEPT ![r] = queue[t], ![t] = none]
  BY DEF MoveAssign, Take
<1>6. /\ ring' \in [Rings -> Rec \cup {NoStorage}] /\ queue' \in [Rings -> Seq(Elems)]
      /\ DOMAIN heap' \subseteq Blocks
  BY <1>1, <1>2, <1>4, <1>5
<1>7. /\ ring'[r] = ring[t] /\ queue'[r] = queue[t]
      /\ ring'[t] = NoStorage /\ queue'[t] = <<>>
      /\ \A u \in Rings : u # r /\ u # t => ring'[u] = ring[u] /\ queue'[u] = queue[u]
  BY <1>0, <1>1, <1>5
<1>n. NoStorage.data = NULL
  BY DEF NoStorage
<1>8. /\ \A b \in DOMAIN heap : \E u \in Rings : ring[u].data = b
      /\ \A u, w \in Rings : u # w /\ ring[u].data = ring[w].data => ring[u].data = NULL
  BY DEF IInv, StorageOwned
<1>9. StorageOwned'
  <2>1. \A b \in DOMAIN heap' : \E u \in Rings : ring'[u].data = b
    <3> TAKE b \in DOMAIN heap'
    <3>1. PICK u \in Rings : ring[u].data = b BY <1>2, <1>8
    <3>2. CASE u = t BY <3>1, <3>2, <1>7
    <3>3. CASE u # t BY <3>1, <3>3, <1>2, <1>7
    <3> QED BY <3>2, <3>3
  <2>2. \A u, w \in Rings : u # w /\ ring'[u].data = ring'[w].data => ring'[u].data = NULL
    BY <1>7, <1>8, <1>n
  <2> QED BY <2>1, <2>2 DEF StorageOwned
<1>10. ASSUME NEW u \in Rings, u # r, Holding(u)
       PROVE  ring[u].data \in DOMAIN heap' /\ heap'[ring[u].data] = heap[ring[u].data]
  BY <1>2, <1>8, <1>10 DEF Holding
<1>11. ASSUME NEW u \in Rings PROVE RingOK(u)'
  <2>1. CASE u = t BY <2>1, <1>7 DEF RingOK
  <2>2. CASE u = r
    <3>1. CASE ring[t] = NoStorage /\ queue[t] = <<>>
      BY <2>2, <3>1, <1>7 DEF RingOK
    <3>2. CASE Holding(t)
      <4>1. ring[t].data \in DOMAIN heap' /\ heap'[ring[t].data] = heap[ring[t].data]
        BY <3>2, <1>0, <1>10
      <4> QED BY <2>2, <3>2, <4>1, <1>7 DEF RingOK, Holding
    <3> QED BY <3>1, <3>2, Held
  <2>3. CASE u # r /\ u # t
    <3>1. CASE ring[u] = NoStorage /\ queue[u] = <<>>
      BY <2>3, <3>1, <1>7 DEF RingOK
    <3>2. CASE Holding(u)
      <4>1. ring[u].data \in DOMAIN heap' /\ heap'[ring[u].data] = heap[ring[u].data]
        BY <2>3, <3>2, <1>10
      <4> QED BY <2>3, <3>2, <4>1, <1>7 DEF RingOK, Holding
    <3> QED BY <3>1, <3>2, Held
  <2> QED BY <2>1, <2>2, <2>3
<1> QED BY <1>2, <1>3, <1>6, <1>9, <1>11 DEF IInv

(* Two buffers that exchange their storages. *)
LEMMA SwapKeeps ==
  ASSUME IInv, NEW r \in Rings, NEW t \in Rings, SwapWith(r, t)
  PROVE  IInv'
<1>1. /\ ring \in [Rings -> Rec \cup {NoStorage}] /\ queue \in [Rings -> Seq(Elems)]
      /\ heap' = heap /\ ok' = ok
  BY DEF IInv, SwapWith
<1>2. /\ ring' = [ring EXCEPT ![r] = ring[t], ![t] = ring[r]]
      /\ queue' = [queue EXCEPT ![r] = queue[t], ![t] = queue[r]]
  BY DEF SwapWith, Swap
<1>3. /\ ring' \in [Rings -> Rec \cup {NoStorage}] /\ queue' \in [Rings -> Seq(Elems)]
  BY <1>1, <1>2
<1>4. /\ ring'[r] = ring[t] /\ queue'[r] = queue[t]
      /\ ring'[t] = ring[r] /\ queue'[t] = queue[r]
      /\ \A u \in Rings : u # r /\ u # t => ring'[u] = ring[u] /\ queue'[u] = queue[u]
  BY <1>1, <1>2
<1>5. \A u \in Rings : \E w \in Rings : ring'[u] = ring[w] /\ queue'[u] = queue[w]
  BY <1>4
<1>6. ASSUME NEW u \in Rings PROVE RingOK(u)'
  <2>1. PICK w \in Rings : ring'[u] = ring[w] /\ queue'[u] = queue[w] BY <1>5
  <2>2. RingOK(w) BY DEF IInv
  <2> QED BY <2>1, <2>2, <1>1 DEF RingOK
<1>7. StorageOwned'
  <2>1. /\ \A b \in DOMAIN heap : \E u \in Rings : ring[u].data = b
        /\ \A u, w \in Rings : u # w /\ ring[u].data = ring[w].data => ring[u].data = NULL
    BY DEF IInv, StorageOwned
  <2>2. \A u \in Rings : \E w \in Rings : ring'[w] = ring[u] BY <1>4
  <2>3. \A b \in DOMAIN heap' : \E u \in Rings : ring'[u].data = b
    <3> TAKE b \in DOMAIN heap'
    <3>1. PICK u \in Rings : ring[u].data = b BY <2>1, <1>1
    <3>2. PICK w \in Rings : ring'[w] = ring[u] BY <2>2
    <3> QED BY <3>1, <3>2
  <2>4. \A u, w \in Rings : u # w /\ ring'[u].data = ring'[w].data => ring'[u].data = NULL
    BY <2>1, <1>4
  <2> QED BY <2>3, <2>4 DEF StorageOwned
<1> QED BY <1>1, <1>3, <1>6, <1>7 DEF IInv

-----------------------------------------------------------------------------
(* The operations of Next. *)

(* What a buffer is without storage, and what it is with storage. *)
LEMMA Either ==
  ASSUME IInv, NEW r \in Rings
  PROVE  /\ ring[r].cap \in Nat /\ ring[r].size \in Nat /\ ring[r].size <= ring[r].cap
         /\ ring[r].cap <= MaxCapacity \/ ring[r].cap = 0
         /\ ring[r].cap # 0 => Holding(r)
         /\ ring[r].cap = 0 => ring[r] = NoStorage /\ queue[r] = <<>>
<1>1. CASE ring[r] = NoStorage /\ queue[r] = <<>> BY <1>1 DEF NoStorage
<1>2. CASE Holding(r)
  <2>1. Shape(ring[r]) BY <1>2 DEF Holding, Good
  <2>2. ring[r].cap <= MaxCapacity BY <2>1 DEF Shape
  <2>3. /\ ring[r].cap \in Nat /\ ring[r].size \in Nat /\ ring[r].size <= ring[r].cap
        /\ ring[r].cap # 0
    BY <2>1, Fields
  <2> QED BY <1>2, <2>2, <2>3
<1> QED BY <1>1, <1>2, Held

(* What a buffer with storage is good for. *)
LEMMA Kept ==
  ASSUME IInv, NEW r \in Rings, Holding(r),
         NEW q, q = ring[r], NEW c, c = heap[q.data], NEW s, s = queue[r]
  PROVE  /\ Good(q, c, s) /\ Shape(q) /\ Memory(q) = Of(c)
         /\ s \in Seq(Elems) /\ Len(s) = q.size
         /\ q \in Rec /\ q.head \in Nat /\ q.tail \in Nat /\ q.size \in Nat /\ q.cap \in Nat
         /\ q.head < q.cap /\ q.tail < q.cap /\ q.size <= q.cap
<1>1. Good(q, c, s) /\ Memory(q) = Of(c) BY DEF Holding
<1>2. Shape(q) /\ s \in Seq(Elems) /\ Len(s) = q.size BY <1>1 DEF Good
<1>3. q \in Rec BY <1>2 DEF Shape
<1> QED BY <1>1, <1>2, <1>3, Fields

(* The range an assignment from another buffer copies is its sequence. *)
LEMMA ElementsIs ==
  ASSUME IInv, NEW t \in Rings
  PROVE  Elements(t) = queue[t]
<1> DEFINE q == ring[t]
           c == heap[q.data]
           s == queue[t]
<1>1. CASE ring[t] = NoStorage /\ queue[t] = <<>>
  <2>1. Place(q, NULL) - Place(q, Begin(q)) = 0
    BY <1>1 DEF Place, Begin, NoStorage
  <2> QED BY <1>1, <2>1 DEF Elements
<1>2. CASE Holding(t)
  <2>0. /\ Good(q, c, s) /\ Shape(q) /\ s \in Seq(Elems) /\ Len(s) = q.size
        /\ q.size \in Nat
    BY <1>2, Kept
  <2> HIDE DEF q, c, s
  <2>1. Begin(q) = At(q, 0) /\ Place(q, At(q, 0)) = 0 /\ Place(q, NULL) = q.size
    <3>1. 0 \in 0 .. q.size BY <2>0
    <3>2. Place(q, NULL) = q.size BY DEF Place
    <3> QED BY <2>0, <3>1, <3>2, Iterators
  <2>2. Place(q, NULL) - Place(q, Begin(q)) = q.size BY <2>0, <2>1
  <2>3. \A k \in 1 .. q.size : c[IterPlus(q, Begin(q), k - 1)] = s[k]
    <3> TAKE k \in 1 .. q.size
    <3>1. k - 1 \in 0 .. q.size - 1 /\ k - 1 \in 0 .. q.size /\ 0 \in 0 .. q.size
            /\ (k - 1) - 0 = k - 1
      BY <2>0
    <3>2. IterPlus(q, At(q, 0), (k - 1) - 0) = At(q, k - 1)
      BY <2>0, <3>1, Iterators
    <3>3. At(q, k - 1) = Forth(q, q.head, k - 1) BY <2>0, <3>1, Iterators
    <3>4. c[Forth(q, q.head, k - 1)] = s[k] BY <2>0, ImageLive
    <3> QED BY <2>1, <3>1, <3>2, <3>3, <3>4
  <2>4. s = [k \in 1 .. q.size |-> s[k]] BY <2>0
  <2>5. Elements(t) = [k \in 1 .. q.size |-> c[IterPlus(q, Begin(q), k - 1)]]
    BY <2>2 DEF Elements, q, c
  <2>6. Elements(t) = s BY <2>3, <2>4, <2>5
  <2> QED BY <2>6 DEF s
<1> QED BY <1>1, <1>2, Held

(* A move of the elements to a new block. *)
LEMMA MovesToKeeps ==
  ASSUME IInv, NEW r \in Rings, NEW b \in Blocks, NEW cap, cap \in 1 .. MaxCapacity,
         NEW more, more \in Seq(Elems), ring[r].size + Len(more) <= cap,
         MovesTo(r, b, cap, more), queue' = [queue EXCEPT ![r] = queue[r] \o more]
  PROVE  IInv'
<1> DEFINE s == queue[r]
           q == Storage(b, Len(s) + Len(more), cap)
           m == Construct(Construct(Fresh(cap), Len(s), more), 0, s)
<1>1. Linear(ring[r], Memory(ring[r]).cell) = s /\ s \in Seq(Elems) /\ Len(s) = ring[r].size
  BY Source
<1>2. Moves(r, q, m, MovedOut(r)) BY <1>1 DEF MovesTo
<1>3. Clean(MovedOut(r)) BY NothingLeft DEF MovedOut
<1>4. Good(q, m.cell, s \o more) /\ m.ok BY <1>1, FreshGood
<1>5. Becomes(r, s \o more) BY DEF Becomes
<1> HIDE DEF q, m, s
<1> QED BY <1>2, <1>3, <1>4, <1>5, MovesKeeps

(* Growth is by a positive number of cells. *)
LEMMA Grows ==
  ASSUME NEW cap, NEW n, cap \in Nat, n \in Nat, 0 < n, Grown(cap, n) <= MaxCapacity
  PROVE  Grown(cap, n) \in 1 .. MaxCapacity /\ n <= Grown(cap, n)
  BY RawAssumption DEF Grown

(* A range is a sequence of elements, not longer than a buffer. *)
LEMMA RangesAre ==
  ASSUME NEW s \in Ranges
  PROVE  s \in Seq(Elems) /\ Len(s) \in 1 .. MaxCapacity
<1>1. PICK n \in 1 .. MaxCapacity : s \in [1 .. n -> Elems] BY DEF Ranges
<1>2. n \in Nat BY <1>1, RawAssumption
<1> QED BY <1>1, <1>2, IsSequence

(* Single elements. *)
LEMMA OfElementKeeps ==
  ASSUME IInv, NEW r \in Rings, OfElement(r)
  PROVE  IInv'
<1>q. PICK q, c, s : q = ring[r] /\ c = heap[q.data] /\ s = queue[r]
  OBVIOUS
<1>e. /\ q.cap \in Nat /\ q.size \in Nat /\ q.size <= q.cap
      /\ q.cap # 0 => Holding(r)
  BY <1>q, Either
<1>h. Holding(r) =>
        /\ Good(q, c, s) /\ Shape(q) /\ Memory(q) = Of(c)
        /\ s \in Seq(Elems) /\ Len(s) = q.size
        /\ q \in Rec /\ q.head \in Nat /\ q.tail \in Nat /\ q.cap \in Nat
        /\ q.head < q.cap /\ q.tail < q.cap
  BY <1>q, Kept
<1>1. CASE PopsFront(r)
  <2>1. q.size # 0 /\ Holding(r) BY <1>1, <1>e, <1>q DEF PopsFront
  <2>2. PICK h : h = Increment(q, q.head) OBVIOUS
  <2>3. PICK p, m : /\ p = [q EXCEPT !.head = h, !.size = q.size - 1]
                    /\ m = Destroy(Of(c), q.head, q.head + 1)
    OBVIOUS
  <2>4. Stays(r, p, m) /\ Becomes(r, Tail(s))
    BY <1>1, <1>h, <1>q, <2>1, <2>2, <2>3 DEF PopsFront, PopFront
  <2>5. h \in Nat /\ q.size - 1 \in Nat BY <1>e, <1>h, <2>1, <2>2 DEF Increment
  <2>6. Changed(p, q, h, q.tail, q.size - 1)
    BY <1>h, <2>1, <2>3, <2>5 DEF Changed, Rec
  <2>7. Good(p, m.cell, Tail(s)) /\ m.ok /\ p.data = q.data
    BY <1>h, <2>1, <2>2, <2>3, <2>6, PopFrontGood
  <2> QED BY <1>q, <2>1, <2>4, <2>7, StaysKeeps
<1>2. CASE PopsBack(r)
  <2>1. q.size # 0 /\ Holding(r) BY <1>2, <1>e, <1>q DEF PopsBack
  <2>2. PICK last : last = Decrement(q, q.tail) OBVIOUS
  <2>3. PICK p, m : /\ p = [q EXCEPT !.tail = last, !.size = q.size - 1]
                    /\ m = Destroy(Of(c), last, last + 1)
    OBVIOUS
  <2>4. Stays(r, p, m) /\ Becomes(r, Front(s))
    BY <1>2, <1>h, <1>q, <2>1, <2>2, <2>3 DEF PopsBack, PopBack
  <2>5. last \in Nat /\ q.size - 1 \in Nat
    <3>1. q.size \in Nat /\ q.size # 0 /\ q.tail \in Nat /\ q.cap \in Nat /\ q.tail < q.cap
      BY <1>e, <1>h, <2>1
    <3> QED BY <3>1, <2>2 DEF Decrement
  <2>6. Changed(p, q, q.head, last, q.size - 1)
    BY <1>h, <2>1, <2>3, <2>5 DEF Changed, Rec
  <2>7. Good(p, m.cell, Front(s)) /\ m.ok /\ p.data = q.data
    <3>1. Good(q, c, s) /\ q.size # 0 BY <1>h, <2>1
    <3>2. m = Destroy(Of(c), last, last + 1) BY <2>3
    <3> QED BY <3>1, <3>2, <2>2, <2>6, PopBackGood
  <2> QED BY <1>q, <2>1, <2>4, <2>7, StaysKeeps
<1>3. ASSUME NEW v \in Elems, EmplaceBack(r, v)
      PROVE  IInv'
  <2>1. ~Full(q) /\ Holding(r) BY <1>3, <1>e, <1>q DEF EmplaceBack, Full
  <2>2. PICK t : t = Increment(q, q.tail) OBVIOUS
  <2>3. PICK p, m : /\ p = [q EXCEPT !.tail = t, !.size = q.size + 1]
                    /\ m = Construct(Of(c), q.tail, <<v>>)
    OBVIOUS
  <2>4. Stays(r, p, m) /\ Becomes(r, Append(s, v))
    BY <1>3, <1>h, <1>q, <2>1, <2>2, <2>3 DEF EmplaceBack, PushBack
  <2>5. t \in Nat /\ q.size + 1 \in Nat BY <1>e, <1>h, <2>1, <2>2 DEF Increment
  <2>6. Changed(p, q, q.head, t, q.size + 1)
    BY <1>h, <2>1, <2>3, <2>5 DEF Changed, Rec
  <2>7. Good(p, m.cell, Append(s, v)) /\ m.ok /\ p.data = q.data
    <3>1. Good(q, c, s) /\ ~Full(q) BY <1>h, <2>1
    <3>2. m = Construct(Of(c), q.tail, <<v>>) BY <2>3
    <3>3. Changed(p, q, q.head, Increment(q, q.tail), q.size + 1) BY <2>2, <2>6
    <3> QED BY <3>1, <3>2, <3>3, EmplaceGood
  <2> QED BY <1>q, <2>1, <2>4, <2>7, StaysKeeps
<1>4. ASSUME NEW v \in Elems, NEW b \in Blocks, EmplaceGrow(r, b, v)
      PROVE  IInv'
  <2> DEFINE cap == Grown(q.size, q.size + 1)
             more == <<v>>
  <2>1. cap <= MaxCapacity /\ MovesTo(r, b, cap, more) /\ queue' = [queue EXCEPT ![r] = Append(s, v)]
    BY <1>4, <1>q DEF EmplaceGrow, PushBack, Becomes
  <2>2. more \in Seq(Elems) /\ Len(more) = 1 OBVIOUS
  <2>3. cap \in 1 .. MaxCapacity /\ q.size + 1 <= cap BY <1>e, <2>1, Grows
  <2>4. Append(s, v) = s \o more
    <3>1. s \in Seq(Elems) BY <1>q, Source
    <3> QED BY <3>1
  <2> HIDE DEF cap, more
  <2> QED BY <1>q, <2>1, <2>2, <2>3, <2>4, MovesToKeeps
<1> QED BY <1>1, <1>2, <1>3, <1>4 DEF OfElement

(* A move of the elements that adds none. *)
LEMMA MovesKeepsAll ==
  ASSUME IInv, NEW r \in Rings, NEW b \in Blocks, NEW cap, cap \in 1 .. MaxCapacity,
         ring[r].size <= cap, MovesTo(r, b, cap, <<>>), UNCHANGED queue
  PROVE  IInv'
<1> DEFINE none == <<>>
<1>1. queue[r] \in Seq(Elems) /\ Len(queue[r]) = ring[r].size BY Source
<1>2. none \in Seq(Elems) /\ Len(none) = 0 /\ queue[r] \o none = queue[r]
  BY <1>1, ConcatEmptySeq
<1>3. queue' = [queue EXCEPT ![r] = queue[r] \o none] BY <1>2 DEF IInv
<1>4. ring[r].size + Len(none) <= cap BY <1>1, <1>2
<1>5. MovesTo(r, b, cap, none) OBVIOUS
<1> HIDE DEF none
<1> QED BY <1>2, <1>3, <1>4, <1>5, MovesToKeeps

(* A buffer that is given a fresh array without elements. *)
LEMMA FreshKeeps ==
  ASSUME IInv, NEW r \in Rings, NEW b \in Blocks, NEW cap, cap \in 1 .. MaxCapacity,
         NEW left, Clean(left), Moves(r, Storage(b, 0, cap), Fresh(cap), left),
         queue' = [queue EXCEPT ![r] = <<>>]
  PROVE  IInv'
<1>1. PICK q, m : q = Storage(b, 0, cap) /\ m = Fresh(cap) OBVIOUS
<1>2. Good(q, m.cell, <<>>) /\ m.ok BY <1>1, EmptyGood
<1> QED BY <1>1, <1>2, MovesKeeps DEF Becomes

(* A buffer that is given a fresh array with a copy of a range. *)
LEMMA CopyKeeps ==
  ASSUME IInv, NEW r \in Rings, NEW b \in Blocks, NEW cap, cap \in 1 .. MaxCapacity,
         NEW s, s \in Seq(Elems), Len(s) <= cap,
         NEW left, Clean(left),
         Moves(r, Storage(b, Len(s), cap), Construct(Fresh(cap), 0, s), left), Becomes(r, s)
  PROVE  IInv'
<1>1. PICK q, m : q = Storage(b, Len(s), cap) /\ m = Construct(Fresh(cap), 0, s)
  OBVIOUS
<1>2. Good(q, m.cell, s) /\ m.ok BY <1>1, CopiedGood
<1> QED BY <1>1, <1>2, MovesKeeps

(* clear. *)
LEMMA ClearKeeps ==
  ASSUME IInv, NEW r \in Rings, Clear(r)
  PROVE  IInv'
<1>1. CASE ring[r] = NoStorage /\ queue[r] = <<>>
  <2>1. ring' = [ring EXCEPT ![r] = [ring[r] EXCEPT !.tail = ring[r].head, !.size = 0]]
    BY DEF Clear, Stays
  <2>2. [ring[r] EXCEPT !.tail = ring[r].head, !.size = 0] = ring[r]
    <3>1. NoStorage.head = 0 BY DEF NoStorage
    <3>2. [NoStorage EXCEPT !.tail = 0, !.size = 0] = NoStorage
      <4>1. PICK n : n = NoStorage OBVIOUS
      <4>2. n \in [data : {NULL}, head : Nat, tail : Nat, size : Nat, cap : Nat]
              /\ n.tail = 0 /\ n.size = 0
        BY <4>1 DEF NoStorage
      <4>3. [n EXCEPT !.tail = 0, !.size = 0] = n BY <4>2
      <4> QED BY <4>1, <4>3
    <3> QED BY <1>1, <3>1, <3>2
  <2>3. ring' = ring BY <2>1, <2>2 DEF IInv
  <2>4. queue' = queue BY <1>1 DEF IInv, Clear, Becomes
  <2>5. heap' = heap BY <1>1 DEF Clear, Stays, NoStorage
  <2>6. ok' = TRUE BY NothingLeft DEF Clear, Stays, Clean, IInv
  <2> QED BY <2>3, <2>4, <2>5, <2>6 DEF IInv, RingOK, StorageOwned
<1>2. CASE Holding(r)
  <2>1. PICK q, c, s : q = ring[r] /\ c = heap[q.data] /\ s = queue[r] OBVIOUS
  <2>2. Good(q, c, s) /\ Memory(q) = Of(c) /\ q \in Rec /\ q.head \in Nat
    BY <1>2, <2>1, Kept
  <2>3. PICK p, m : p = [q EXCEPT !.tail = q.head, !.size = 0] /\ m = Destroyed(q, Of(c))
    OBVIOUS
  <2>4. Stays(r, p, m) /\ Becomes(r, <<>>) BY <2>1, <2>2, <2>3 DEF Clear
  <2>5. Changed(p, q, q.head, q.head, 0) BY <2>2, <2>3 DEF Changed, Rec
  <2>6. Good(p, m.cell, <<>>) /\ m.ok /\ p.data = q.data
    BY <2>2, <2>3, <2>5, ClearGood, ZenonT(60)
  <2> QED BY <1>2, <2>1, <2>4, <2>6, StaysKeeps
<1> QED BY <1>1, <1>2, Held

(* A buffer without elements stands for the empty sequence. *)
LEMMA NoElements ==
  ASSUME IInv, NEW r \in Rings, ring[r].data = NULL \/ ring[r].size = 0
  PROVE  queue[r] = <<>> /\ queue = [queue EXCEPT ![r] = <<>>]
<1>1. queue[r] = <<>>
  <2>1. CASE Holding(r)
    <3>1. queue[r] \in Seq(Elems) /\ Len(queue[r]) = 0
      BY <2>1, Source DEF Holding
    <3> QED BY <3>1, EmptySeq
  <2> QED BY <2>1, Held
<1> QED BY <1>1 DEF IInv

(* Capacity. *)
LEMMA OfCapacityKeeps ==
  ASSUME IInv, NEW r \in Rings, OfCapacity(r)
  PROVE  IInv'
<1>e. /\ ring[r].cap \in Nat /\ ring[r].size \in Nat /\ ring[r].size <= ring[r].cap
      /\ ring[r].cap <= MaxCapacity \/ ring[r].cap = 0
  BY Either
<1>1. CASE Clear(r) BY <1>1, ClearKeeps
<1>2. CASE ShrinkEmpty(r)
  <2>1. Clean(Memory(ring[r])) /\ Becomes(r, <<>>)
    BY <1>2, NoneToRelease, NoElements DEF ShrinkEmpty, Becomes
  <2> QED BY <1>2, <2>1, ReleasesKeeps DEF ShrinkEmpty
<1>3. CASE Destruct(r) BY <1>3, NothingLeft, ReleasesKeeps DEF Destruct
<1>4. ASSUME NEW b \in Blocks, ShrinkToFit(r, b)
      PROVE  IInv'
  <2>1. MovesTo(r, b, ring[r].size, <<>>) /\ UNCHANGED queue /\ 0 < ring[r].size
          /\ ring[r].size < ring[r].cap
    BY <1>4 DEF ShrinkToFit
  <2>2. ring[r].size \in 1 .. MaxCapacity /\ ring[r].size <= ring[r].size
    BY <2>1, <1>e, RawAssumption
  <2> QED BY <2>1, <2>2, MovesKeepsAll
<1>5. ASSUME NEW b \in Blocks, NEW n \in 1 .. MaxCapacity, ConstructReserve(r, b, n)
      PROVE  IInv'
  <2>1. ring[r].data = NULL /\ Moves(r, Storage(b, 0, n), Fresh(n), Memory(ring[r]))
    BY <1>5 DEF ConstructReserve
  <2>2. Clean(Memory(ring[r])) /\ queue' = [queue EXCEPT ![r] = <<>>]
    BY <1>5, <2>1, NoneToRelease, NoElements DEF ConstructReserve
  <2> QED BY <2>1, <2>2, FreshKeeps
<1>6. ASSUME NEW b \in Blocks, NEW n \in 1 .. MaxCapacity, Reserve(r, b, n)
      PROVE  IInv'
  <2>1. PICK cap : cap = Grown(ring[r].cap, n) OBVIOUS
  <2>2. cap <= MaxCapacity /\ MovesTo(r, b, cap, <<>>) /\ UNCHANGED queue /\ ring[r].cap < n
    BY <1>6, <2>1 DEF Reserve
  <2>3. n \in Nat /\ 0 < n BY RawAssumption
  <2>4. cap \in 1 .. MaxCapacity /\ n <= cap BY <2>1, <2>2, <2>3, <1>e, Grows
  <2>5. ring[r].size <= cap BY <2>2, <2>3, <2>4, <1>e
  <2> QED BY <2>2, <2>4, <2>5, MovesKeepsAll
<1>7. ASSUME NEW b \in Blocks, NEW n \in 1 .. MaxCapacity, ring[r].size = 0, ClearIfReserved(r, b, n)
      PROVE  IInv'
  <2>1. PICK cap : cap = Grown(ring[r].cap, n) OBVIOUS
  <2>2. /\ cap <= MaxCapacity /\ queue' = [queue EXCEPT ![r] = <<>>]
        /\ Moves(r, Storage(b, 0, cap), Fresh(cap), Destroyed(ring[r], Memory(ring[r])))
    BY <1>7, <2>1 DEF ClearIfReserved, Becomes
  <2>3. n \in Nat /\ 0 < n BY RawAssumption
  <2>4. cap \in 1 .. MaxCapacity BY <2>1, <2>2, <2>3, <1>e, Grows
  <2> QED BY <2>2, <2>4, NothingLeft, FreshKeeps
<1> QED BY <1>1, <1>2, <1>3, <1>4, <1>5, <1>6, <1>7 DEF OfCapacity

(* Assignment of a range. *)
LEMMA AssignKeeps ==
  ASSUME IInv, NEW r \in Rings, NEW t, t \in Seq(Elems),
         \/ AssignShorter(r, t) \/ AssignLonger(r, t) \/ AssignInput(r, t)
         \/ t # <<>> /\ AssignPrefix(r, t)
         \/ \E b \in Blocks : AssignGrow(r, b, t)
  PROVE  IInv'
<1>q. PICK q, c, s : q = ring[r] /\ c = heap[q.data] /\ s = queue[r]
  OBVIOUS
<1>e. /\ q.cap \in Nat /\ q.size \in Nat /\ q.size <= q.cap
      /\ q.cap # 0 => Holding(r)
  BY <1>q, Either
<1>t. Len(t) \in Nat
  OBVIOUS
<1>h. Holding(r) =>
        /\ Good(q, c, s) /\ Shape(q) /\ Memory(q) = Of(c)
        /\ s \in Seq(Elems) /\ Len(s) = q.size
        /\ q \in Rec /\ q.head \in Nat /\ q.tail \in Nat
        /\ q.head < q.cap /\ q.tail < q.cap
  BY <1>q, Kept
<1>1. CASE AssignShorter(r, t)
  <2>0. 0 < Len(t) /\ Len(t) <= q.size BY <1>1, <1>q DEF AssignShorter
  <2>1. Holding(r) BY <2>0, <1>e, <1>t
  <2>2. PICK p, m : p = [q EXCEPT !.tail = TailAt(q, Len(t)), !.size = Len(t)]
                    /\ m = Shortened(q, Of(c), t)
    OBVIOUS
  <2>3. Stays(r, p, m) /\ Becomes(r, t)
    BY <1>1, <1>h, <1>q, <2>1, <2>2 DEF AssignShorter
  <2>4. TailAt(q, Len(t)) \in Nat
    <3>1. q.head \in Nat /\ q.cap \in Nat /\ q.head < q.cap BY <1>h, <1>e, <2>1
    <3> QED BY <3>1, <1>t DEF TailAt, One
  <2>5. Changed(p, q, q.head, TailAt(q, Len(t)), Len(t))
    BY <1>h, <1>t, <2>1, <2>2, <2>4 DEF Changed, Rec
  <2>6. Good(q, c, s) BY <1>h, <2>1
  <2>7. Good(p, m.cell, t) /\ m.ok /\ p.data = q.data
    <3>1. m = Shortened(q, Of(c), t) BY <2>2
    <3>2. 0 < Len(t) /\ Len(t) <= q.size BY <2>0
    <3> QED BY <3>1, <3>2, <2>5, <2>6, ShortenedGood
  <2> QED BY <1>q, <2>1, <2>3, <2>7, StaysKeeps
<1>2. CASE AssignLonger(r, t)
  <2>0. q.size < Len(t) /\ Len(t) <= q.cap BY <1>2, <1>q DEF AssignLonger
  <2>1. Holding(r) BY <2>0, <1>e, <1>t
  <2>2. PICK p, m : p = [q EXCEPT !.tail = TailAt(q, Len(t)), !.size = Len(t)]
                    /\ m = Lengthened(q, Of(c), t)
    OBVIOUS
  <2>3. Stays(r, p, m) /\ Becomes(r, t)
    BY <1>2, <1>h, <1>q, <2>1, <2>2 DEF AssignLonger
  <2>4. TailAt(q, Len(t)) \in Nat
    <3>1. q.head \in Nat /\ q.cap \in Nat /\ q.head < q.cap BY <1>h, <1>e, <2>1
    <3> QED BY <3>1, <1>t DEF TailAt, One
  <2>5. Changed(p, q, q.head, TailAt(q, Len(t)), Len(t))
    BY <1>h, <1>t, <2>1, <2>2, <2>4 DEF Changed, Rec
  <2>6. Good(q, c, s) BY <1>h, <2>1
  <2>7. Good(p, m.cell, t) /\ m.ok /\ p.data = q.data
    BY <2>0, <2>2, <2>5, <2>6, LengthenedGood, SMTT(60)
  <2> QED BY <1>q, <2>1, <2>3, <2>7, StaysKeeps
<1>3. CASE AssignInput(r, t)
  <2>0. 0 < Len(t) /\ Len(t) < q.size /\ Len(t) <= q.size
    BY <1>3, <1>q, <1>e, <1>t DEF AssignInput
  <2>1. Holding(r) BY <2>0, <1>e, <1>t
  <2>2. PICK p, m : p = [q EXCEPT !.tail = Forth(q, q.head, Len(t)), !.size = Len(t)]
                    /\ m = CutAt(q, Overwritten(q, Of(c), t), Len(t))
    OBVIOUS
  <2>3. Stays(r, p, m) /\ Becomes(r, t)
    BY <1>3, <1>h, <1>q, <2>1, <2>2 DEF AssignInput
  <2>4. Forth(q, q.head, Len(t)) \in Nat
    <3>1. q.head \in Nat /\ q.cap \in Nat /\ q.head < q.cap BY <1>h, <1>e, <2>1
    <3>2. CASE Len(t) < q.cap - q.head BY <3>1, <3>2, <1>t DEF Forth
    <3>3. CASE ~(Len(t) < q.cap - q.head) BY <3>1, <3>3, <1>t DEF Forth
    <3> QED BY <3>2, <3>3
  <2>5. Changed(p, q, q.head, Forth(q, q.head, Len(t)), Len(t))
    BY <1>h, <1>t, <2>1, <2>2, <2>4 DEF Changed, Rec
  <2>6. Good(q, c, s) BY <1>h, <2>1
  <2>7. Good(p, m.cell, t) /\ m.ok /\ p.data = q.data
    <3>1. m = CutAt(q, Overwritten(q, Of(c), t), Len(t)) BY <2>2
    <3>2. 0 < Len(t) /\ Len(t) <= q.size BY <2>0
    <3> QED BY <3>1, <3>2, <2>5, <2>6, InputGood
  <2> QED BY <1>q, <2>1, <2>3, <2>7, StaysKeeps
<1>4. CASE t # <<>> /\ AssignPrefix(r, t)
  <2>0. Len(t) <= q.size /\ Len(t) # 0 BY <1>4, <1>q, EmptySeq DEF AssignPrefix
  <2>1. Holding(r) BY <2>0, <1>e, <1>t
  <2>2. PICK m, u : m = Overwritten(q, Of(c), t) /\ u = t \o SubSeq(s, Len(t) + 1, Len(s))
    OBVIOUS
  <2>3. Stays(r, q, m) /\ Becomes(r, u)
    BY <1>4, <1>h, <1>q, <2>1, <2>2 DEF AssignPrefix, Overwrite
  <2>6. Good(q, c, s) BY <1>h, <2>1
  <2>7. Good(q, m.cell, u) /\ m.ok BY <2>0, <2>2, <2>6, PrefixGood
  <2> QED BY <1>q, <2>1, <2>3, <2>7, StaysKeeps
<1>5. ASSUME NEW b \in Blocks, AssignGrow(r, b, t)
      PROVE  IInv'
  <2>1. PICK cap : cap = Grown(q.cap, Len(t)) OBVIOUS
  <2>2. /\ q.cap < Len(t) /\ cap <= MaxCapacity /\ Becomes(r, t)
        /\ Moves(r, Storage(b, Len(t), cap), Construct(Fresh(cap), 0, t),
                 Destroyed(ring[r], Memory(ring[r])))
    BY <1>5, <1>q, <2>1 DEF AssignGrow
  <2>3. cap \in 1 .. MaxCapacity /\ Len(t) <= cap
    BY <2>1, <2>2, <1>e, <1>t, Grows
  <2> QED BY <2>2, <2>3, NothingLeft, CopyKeeps
<1> QED BY <1>1, <1>2, <1>3, <1>4, <1>5

(* A range given to assign or to a constructor. *)
LEMMA AssignRangeKeeps ==
  ASSUME IInv, NEW r \in Rings, AssignRange(r)
  PROVE  IInv'
<1>1. PICK s \in Ranges :
        \/ AssignShorter(r, s) \/ AssignLonger(r, s) \/ AssignInput(r, s) \/ AssignPrefix(r, s)
        \/ \E b \in Blocks : ConstructRange(r, b, s) \/ AssignGrow(r, b, s)
  BY DEF AssignRange
<1>2. s \in Seq(Elems) /\ Len(s) \in 1 .. MaxCapacity /\ s # <<>> BY RangesAre
<1>3. ASSUME NEW b \in Blocks, ConstructRange(r, b, s)
      PROVE  IInv'
  <2>1. /\ ring[r].data = NULL /\ Becomes(r, s)
        /\ Moves(r, Storage(b, Len(s), Len(s)), Construct(Fresh(Len(s)), 0, s), Memory(ring[r]))
    BY <1>3 DEF ConstructRange
  <2>2. Len(s) <= Len(s) BY <1>2
  <2> QED BY <1>2, <2>1, <2>2, NoneToRelease, CopyKeeps
<1> QED BY <1>1, <1>2, <1>3, AssignKeeps

(* An assignment that throws in the segment it began in. *)
LEMMA AssignFailsKeeps ==
  ASSUME IInv, NEW r \in Rings, AssignFails(r)
  PROVE  IInv'
<1>q. PICK q, c, s : q = ring[r] /\ c = heap[q.data] /\ s = queue[r]
  OBVIOUS
<1>0. PICK t \in Ranges : \E j \in 0 .. Len(t) - 1 :
        (q.size >= One(q) \/ j < One(q)) /\ AssignThrows(r, t, j)
  BY <1>q DEF AssignFails
<1>1. PICK j \in 0 .. Len(t) - 1 :
        (q.size >= One(q) \/ j < One(q)) /\ AssignThrows(r, t, j)
  BY <1>0
<1>2. t \in Seq(Elems) /\ Len(t) \in Nat BY RangesAre
<1>e. /\ q.cap \in Nat /\ q.size \in Nat /\ q.size <= q.cap
      /\ q.cap # 0 => Holding(r)
  BY <1>q, Either
<1>3. q.size <= j /\ j < Len(t) /\ Len(t) <= q.cap /\ j \in Nat
  BY <1>1, <1>2, <1>q DEF AssignThrows
<1>4. Holding(r) BY <1>2, <1>3, <1>e
<1>h. Good(q, c, s) /\ Memory(q) = Of(c) /\ s \in Seq(Elems) /\ Len(s) = q.size
        /\ q.head \in Nat
  BY <1>4, <1>q, Kept
<1>5. PICK u : u = SubSeq(t, 1, q.size) OBVIOUS
<1>6. u \in Seq(Elems) /\ Len(u) = q.size
  <2>1. q.size \in 0 .. Len(t) BY <1>2, <1>3, <1>e
  <2> QED BY <2>1, <1>2, <1>5, Parts
<1>7. PICK m, w : m = Overwritten(q, Of(c), u) /\ w = u \o SubSeq(s, Len(u) + 1, Len(s))
  OBVIOUS
<1>8. ~(q.size < One(q) /\ One(q) <= j)
  <2>1. One(q) \in Int BY <1>e, <1>h DEF One
  <2> QED BY <2>1, <1>1, <1>3, <1>e
<1>9. Stays(r, q, m) /\ Becomes(r, w)
  <2>1. Overwritten(ring[r], Memory(ring[r]), SubSeq(t, 1, ring[r].size)) = m
    BY <1>5, <1>7, <1>h, <1>q
  <2>2. Stays(r, q, m) /\ Overwrite(r, u)
    BY <2>1, <1>1, <1>5, <1>8, <1>q DEF AssignThrows
  <2> QED BY <2>2, <1>7, <1>q, SMTT(60) DEF Overwrite
<1>10. Good(q, m.cell, w) /\ m.ok
  <2>1. Len(u) <= q.size BY <1>6, <1>e
  <2> QED BY <2>1, <1>6, <1>7, <1>h, PrefixGood
<1> QED BY <1>4, <1>9, <1>10, <1>q, StaysKeeps

(* Two buffers. *)
LEMMA OfTwoKeeps ==
  ASSUME IInv, NEW r \in Rings, NEW t \in Rings, OfTwo(r, t)
  PROVE  IInv'
<1>1. CASE MoveAssign(r, t) BY <1>1, TakesKeeps
<1>2. CASE SwapWith(r, t) BY <1>2, SwapKeeps
<1>3. CASE CopyAssign(r, t)
  <2>1. PICK s : s = Elements(t) OBVIOUS
  <2>2. s \in Seq(Elems) BY <2>1, ElementsIs, Source
  <2>3. AssignFrom(r, s) BY <1>3, <2>1 DEF CopyAssign
  <2> QED BY <2>2, <2>3, ClearKeeps, AssignKeeps DEF AssignFrom
<1>4. ASSUME NEW b \in Blocks, CopyConstruct(r, b, t)
      PROVE  IInv'
  <2>1. PICK s : s = queue[t] OBVIOUS
  <2>2. /\ Linear(ring[t], Memory(ring[t]).cell) = s /\ s \in Seq(Elems)
        /\ Len(s) = ring[t].size
    BY <2>1, Source
  <2>3. /\ ring[r].data = NULL /\ Len(s) # 0 /\ Becomes(r, s)
        /\ Moves(r, Storage(b, Len(s), Len(s)), Construct(Fresh(Len(s)), 0, s), Memory(ring[r]))
    BY <1>4, <2>1, <2>2 DEF CopyConstruct, Copy
  <2>4. Len(s) \in 1 .. MaxCapacity /\ Len(s) <= Len(s)
    <3>1. ring[t].size <= ring[t].cap /\ ring[t].cap \in Nat /\ ring[t].size \in Nat
            /\ (ring[t].cap <= MaxCapacity \/ ring[t].cap = 0)
      BY Either
    <3> QED BY <3>1, <2>2, <2>3, RawAssumption
  <2> QED BY <2>2, <2>3, <2>4, NoneToRelease, CopyKeeps
<1> QED BY <1>1, <1>2, <1>3, <1>4 DEF OfTwo

-----------------------------------------------------------------------------
(* The buffers have no storage at first, every call keeps the invariant. *)

(* No buffer has storage at first. *)
LEMMA InitGood == Init => IInv
<1> SUFFICES ASSUME Init PROVE IInv OBVIOUS
<1>1. heap = [b \in {} |-> <<>>] /\ ring = [r \in Rings |-> NoStorage] /\ ok = TRUE
        /\ queue = [r \in Rings |-> <<>>]
  BY DEF Init, Empty
<1>2. DOMAIN heap = {} /\ heap = [b \in DOMAIN heap |-> heap[b]] BY <1>1
<1>3. \A r \in Rings : ring[r] = NoStorage /\ queue[r] = <<>> BY <1>1
<1>4. ring \in [Rings -> Rec \cup {NoStorage}] /\ queue \in [Rings -> Seq(Elems)]
  BY <1>1
<1>5. StorageOwned
  <2>1. NoStorage.data = NULL BY DEF NoStorage
  <2> QED BY <1>2, <1>3, <2>1 DEF StorageOwned
<1> QED BY <1>1, <1>2, <1>3, <1>4, <1>5 DEF IInv, RingOK

(* Every call keeps the invariant. *)
LEMMA NextGood == IInv /\ [Next]_vars => IInv'
<1> SUFFICES ASSUME IInv, [Next]_vars PROVE IInv' OBVIOUS
<1>1. CASE UNCHANGED vars BY <1>1 DEF vars, IInv, RingOK, StorageOwned
<1>2. CASE Next
  <2>1. PICK r \in Rings :
          \/ OfElement(r) \/ OfCapacity(r) \/ AssignRange(r) \/ AssignFails(r)
          \/ \E t \in Rings : OfTwo(r, t)
    BY <1>2 DEF Next
  <2> QED
    BY <2>1, OfElementKeeps, OfCapacityKeeps, AssignRangeKeeps, AssignFailsKeeps, OfTwoKeeps
<1> QED BY <1>1, <1>2

(* Each of the properties follows. *)

(* A block is the storage of a buffer that is good. *)
LEMMA Owner ==
  ASSUME IInv, NEW b \in DOMAIN heap
  PROVE  \E r \in Rings : ring[r].data = b /\ Holding(r)
<1>1. PICK r \in Rings : ring[r].data = b BY DEF IInv, StorageOwned
<1>2. b # NULL BY RawAssumption DEF IInv
<1> QED BY <1>1, <1>2, Held DEF NoStorage

(* head, tail and size name the same cells. *)
LEMMA InvType == IInv => TypeOK
<1> SUFFICES ASSUME IInv PROVE TypeOK OBVIOUS
<1>1. ASSUME NEW r \in Rings, Holding(r)
      PROVE  /\ heap[ring[r].data] \in Cells(ring[r].cap) /\ ring[r].cap \in 1 .. MaxCapacity
             /\ ring[r].size \in 0 .. ring[r].cap /\ ring[r].head \in 0 .. ring[r].cap - 1
             /\ ring[r].tail = Forth(ring[r], ring[r].head, ring[r].size)
  <2>1. PICK q, c : q = ring[r] /\ c = heap[q.data] OBVIOUS
  <2>2. Good(q, c, queue[r]) /\ Shape(q) BY <1>1, <2>1, Kept
  <2>3. /\ q.head \in Nat /\ q.size \in Nat /\ q.cap \in Nat
        /\ q.head < q.cap /\ q.size <= q.cap
    BY <2>2, Fields
  <2>4. DOMAIN c = 0 .. q.cap - 1 /\ \A i \in DOMAIN c : c[i] \in Elems \cup {RAW}
    BY <2>2, ImageLive
  <2>5. c = [i \in 0 .. q.cap - 1 |-> c[i]] BY <2>2 DEF Good, Image
  <2>6. c \in Cells(q.cap) BY <2>4, <2>5 DEF Cells
  <2>7. q.cap <= MaxCapacity /\ q.tail = Forth(q, q.head, q.size)
    BY <2>2 DEF Shape
  <2> QED BY <2>1, <2>3, <2>6, <2>7, RawAssumption
<1>2. \A b \in DOMAIN heap : b \in Blocks /\ \E n \in 1 .. MaxCapacity : heap[b] \in Cells(n)
  <2> TAKE b \in DOMAIN heap
  <2>1. PICK r \in Rings : ring[r].data = b /\ Holding(r) BY Owner
  <2> QED BY <2>1, <1>1 DEF IInv
<1>3. ok \in BOOLEAN BY DEF IInv
<1>4. ASSUME NEW r \in Rings
      PROVE  \/ ring[r] = NoStorage
             \/ /\ ring[r].data \in DOMAIN heap /\ heap[ring[r].data] \in Cells(ring[r].cap)
                /\ ring[r].size \in 0 .. ring[r].cap /\ ring[r].head \in 0 .. ring[r].cap - 1
                /\ ring[r].tail = Forth(ring[r], ring[r].head, ring[r].size)
  BY <1>1, Held DEF Holding
<1> QED BY <1>2, <1>3, <1>4 DEF TypeOK

(* What is alive in the storage of a buffer is what is occupied. *)
LEMMA LiveIsOccupied ==
  ASSUME IInv, NEW r \in Rings, Holding(r)
  PROVE  /\ Occupied(ring[r]) \subseteq DOMAIN heap[ring[r].data]
         /\ \A i \in DOMAIN heap[ring[r].data] :
              heap[ring[r].data][i] # RAW <=> i \in Occupied(ring[r])
<1>1. PICK q, c : q = ring[r] /\ c = heap[q.data] OBVIOUS
<1>2. Good(q, c, queue[r]) /\ Shape(q) BY <1>1, Kept
<1>3. DOMAIN c = 0 .. q.cap - 1 /\ \A i \in DOMAIN c : c[i] # RAW <=> PlaceOf(q, i) < q.size
  BY <1>2, ImageLive
<1>4. /\ Occupied(q) \subseteq 0 .. q.cap - 1
      /\ \A i \in 0 .. q.cap - 1 : i \in Occupied(q) <=> PlaceOf(q, i) < q.size
  BY <1>2, OccupiedPlaces
<1> QED BY <1>1, <1>3, <1>4

(* What buffers claim is alive, what is alive is claimed. *)
LEMMA InvLive == IInv => ElementsLive /\ LiveOwned
<1> SUFFICES ASSUME IInv PROVE ElementsLive /\ LiveOwned OBVIOUS
<1>1. ASSUME NEW r \in Rings, NEW i \in Occupied(ring[r])
      PROVE  heap[ring[r].data][i] # RAW
  <2>1. CASE ring[r] = NoStorage BY <2>1 DEF Occupied, NoStorage
  <2>2. CASE Holding(r) BY <2>2, LiveIsOccupied
  <2> QED BY <2>1, <2>2, Held
<1>2. ASSUME NEW b \in DOMAIN heap, NEW i \in DOMAIN heap[b], heap[b][i] # RAW
      PROVE  \E r \in Rings : ring[r].data = b /\ i \in Occupied(ring[r])
  <2>1. PICK r \in Rings : ring[r].data = b /\ Holding(r) BY Owner
  <2> QED BY <1>2, <2>1, LiveIsOccupied
<1> QED BY <1>1, <1>2 DEF IInv, ElementsLive, LiveOwned

(* Reading the elements of a buffer with storage one by one. *)
LEMMA ReadsElements ==
  ASSUME NEW q, NEW c, NEW s, Good(q, c, s)
  PROVE  /\ q.size = Len(s) /\ Begin(q) = At(q, 0)
         /\ \A i \in 0 .. q.size - 1 :
              /\ c[At(q, i)] = s[i + 1]
              /\ IterNext(q, At(q, i)) = At(q, i + 1)
              /\ IterPrev(q, At(q, i + 1)) = At(q, i)
         /\ \A i, j \in 0 .. q.size :
              IterPlus(q, At(q, i), j - i) = At(q, j) /\ Place(q, At(q, i)) = i
         /\ ArrayOne(q, c) \o ArrayTwo(q, c) = s
         /\ Linear(q, c) = s
         /\ s # <<>> => c[Decrement(q, q.tail)] = Last(s)
<1>1. Shape(q) /\ s \in Seq(Elems) /\ Len(s) = q.size BY DEF Good
<1>2. q.size \in Nat /\ q.cap \in Nat /\ q.size <= q.cap BY <1>1, Fields
<1>3. /\ Begin(q) = At(q, 0)
      /\ \A i \in 0 .. q.size - 1 :
           /\ At(q, i) = Forth(q, q.head, i)
           /\ IterNext(q, At(q, i)) = At(q, i + 1)
           /\ IterPrev(q, At(q, i + 1)) = At(q, i)
      /\ \A i, j \in 0 .. q.size : IterPlus(q, At(q, i), j - i) = At(q, j)
      /\ \A i \in 0 .. q.size : Place(q, At(q, i)) = i
  BY <1>1, Iterators
<1>4. \A k \in 1 .. q.size : c[Forth(q, q.head, k - 1)] = s[k] BY ImageLive
<1>5. \A i \in 0 .. q.size - 1 : c[At(q, i)] = s[i + 1]
  <2> TAKE i \in 0 .. q.size - 1
  <2>1. i + 1 \in 1 .. q.size /\ (i + 1) - 1 = i BY <1>2
  <2>2. c[Forth(q, q.head, (i + 1) - 1)] = s[i + 1] BY <1>4, <2>1
  <2> QED BY <2>1, <2>2, <1>3
<1>6. ArrayOne(q, c) \o ArrayTwo(q, c) = s /\ Linear(q, c) = s
  BY Arrays, LinearIs
<1>7. s # <<>> => c[Decrement(q, q.tail)] = Last(s)
  <2> SUFFICES ASSUME s # <<>> PROVE c[Decrement(q, q.tail)] = Last(s) OBVIOUS
  <2>1. q.size # 0 BY <1>1, EmptySeq
  <2>2. PICK k : k = q.size - 1 OBVIOUS
  <2>3. k \in Nat /\ k < q.cap /\ k + 1 = q.size /\ k \in 0 .. q.size - 1
    BY <1>2, <2>1, <2>2
  <2>4. q.tail = Forth(q, q.head, k + 1) BY <1>1, <2>3 DEF Shape
  <2>5. Decrement(q, q.tail) = Forth(q, q.head, k) BY <1>1, <2>3, <2>4, Steps
  <2>6. c[Forth(q, q.head, k)] = s[k + 1] BY <1>3, <1>5, <2>3
  <2> QED BY <2>3, <2>5, <2>6, <1>1 DEF Last
<1> QED BY <1>1, <1>3, <1>5, <1>6, <1>7

(* A buffer without storage reads as the empty sequence. *)
LEMMA ReadsNothing ==
  ASSUME NEW q, q = NoStorage, NEW c
  PROVE  /\ q.size = 0 /\ Begin(q) = At(q, 0)
         /\ \A i, j \in 0 .. 0 :
              IterPlus(q, At(q, i), j - i) = At(q, j) /\ Place(q, At(q, i)) = i
         /\ ArrayOne(q, c) \o ArrayTwo(q, c) = <<>>
         /\ Linear(q, c) = <<>>
<1>1. q.size = 0 /\ q.head = 0 /\ q.tail = 0 /\ q.cap = 0 BY DEF NoStorage
<1>2. Begin(q) = NULL /\ At(q, 0) = NULL BY <1>1 DEF Begin, At
<1>3. \A i, j \in 0 .. 0 : i = 0 /\ j = 0 /\ j - i = 0 OBVIOUS
<1>4. IterPlus(q, NULL, 0) = NULL /\ Place(q, NULL) = 0
  BY <1>1 DEF IterPlus, Place
<1>5. ArrayOne(q, c) = <<>> /\ ArrayTwo(q, c) = <<>>
  BY <1>1 DEF ArrayOne, ArrayTwo, Span
<1>6. Linear(q, c) = <<>> BY <1>1 DEF Linear
<1>7. \A i, j \in 0 .. 0 :
        IterPlus(q, At(q, i), j - i) = At(q, j) /\ Place(q, At(q, i)) = i
  BY <1>2, <1>3, <1>4
<1> QED BY <1>1, <1>2, <1>5, <1>6, <1>7

(* Every buffer reads as its sequence. *)
LEMMA InvReads == IInv => ReadsExact
<1> SUFFICES ASSUME IInv, NEW r \in Rings
             PROVE  LET q    == ring[r]
                        s    == queue[r]
                        cell == Memory(q).cell
                    IN  /\ q.size = Len(s)
                        /\ Begin(q) = At(q, 0)
                        /\ \A i \in 0 .. q.size - 1 :
                             /\ cell[At(q, i)] = s[i + 1]
                             /\ IterNext(q, At(q, i)) = At(q, i + 1)
                             /\ IterPrev(q, At(q, i + 1)) = At(q, i)
                        /\ \A i, j \in 0 .. q.size :
                             IterPlus(q, At(q, i), j - i) = At(q, j) /\ Place(q, At(q, i)) = i
                        /\ ArrayOne(q, cell) \o ArrayTwo(q, cell) = s
                        /\ Linear(q, cell) = s
                        /\ s # <<>> => cell[Decrement(q, q.tail)] = Last(s)
  BY DEF ReadsExact
<1>1. PICK q, c, s : q = ring[r] /\ c = Memory(ring[r]).cell /\ s = queue[r]
  OBVIOUS
<1>2. CASE ring[r] = NoStorage /\ queue[r] = <<>>
  <2>1. q = NoStorage /\ s = <<>> /\ Len(s) = 0 BY <1>1, <1>2
  <2>2. /\ q.size = 0 /\ Begin(q) = At(q, 0)
        /\ \A i, j \in 0 .. 0 :
             IterPlus(q, At(q, i), j - i) = At(q, j) /\ Place(q, At(q, i)) = i
        /\ ArrayOne(q, c) \o ArrayTwo(q, c) = s
        /\ Linear(q, c) = s
    BY <2>1, ReadsNothing
  <2>3. 0 .. 0 - 1 = {} OBVIOUS
  <2> QED BY <1>1, <2>1, <2>2, <2>3
<1>3. CASE Holding(r)
  <2>1. Good(q, c, s) BY <1>1, <1>3 DEF Holding, Of
  <2> QED BY <1>1, <2>1, ReadsElements, ZenonT(60)
<1> QED BY <1>2, <1>3, Held

-----------------------------------------------------------------------------
(* Under every sequence of calls the cells of every buffer are the image of *)
(* the sequence it stands for, and each block is the storage of one buffer. *)
THEOREM RingInvariant == Spec => []IInv
<1>1. Init => IInv BY InitGood
<1>2. IInv /\ [Next]_vars => IInv' BY NextGood
<1> QED BY <1>1, <1>2, PTL DEF Spec

(* head, tail and size of every buffer name the same cells of its array. *)
THEOREM TypeCorrect == Spec => []TypeOK
  BY RingInvariant, InvType, PTL

(* No call reads, assigns to or destroys what is not alive, constructs over *)
(* what is, or releases memory that has live elements; the elements a *)
(* buffer claims are alive. *)
THEOREM LifetimesRespected == Spec => []ElementsLive
  BY RingInvariant, InvLive, PTL

(* Every live element is owned by the buffer whose storage it is in. *)
THEOREM NothingLost == Spec => []LiveOwned
  BY RingInvariant, InvLive, PTL

(* No block is leaked, none is shared. *)
THEOREM BlocksOwned == Spec => []StorageOwned
<1>1. IInv => StorageOwned BY DEF IInv
<1> QED BY <1>1, RingInvariant, PTL

(* Every way to read a buffer gives the sequence that its calls have made. *)
THEOREM ReadsCorrect == Spec => []ReadsExact
  BY RingInvariant, InvReads, PTL
=============================================================================
