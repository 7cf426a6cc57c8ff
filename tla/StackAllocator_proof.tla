------------------------ MODULE StackAllocator_proof ------------------------
(***************************************************************************)
(* Proofs about StackAllocator for every alignment, threshold, red zone,   *)
(* set of request sizes that respects SizesFit, nesting depth and heap: the *)
(* inductive invariant IInv, the safety properties it implies, and that the *)
(* arena implements RegionStack.                                           *)
(***************************************************************************)
EXTENDS StackAllocator, TLAPS

(* Arithmetic of the alignment and of the slab sizes. *)

LEMMA DivBounds ==
  ASSUME NEW m \in Nat, NEW A \in Nat \ {0}
  PROVE  /\ m \div A \in Nat
         /\ (m \div A) * A <= m
         /\ m < (m \div A) * A + A
OBVIOUS

LEMMA ProductOrder ==
  ASSUME NEW d \in Nat, NEW q \in Nat, NEW A \in Nat \ {0}, d * A < (q + 1) * A
  PROVE  d * A <= q * A
<1>1. d <= q OBVIOUS
<1> QED BY <1>1

(* align_up returns an aligned size no smaller than its argument. *)
LEMMA AlignUpFacts ==
  ASSUME NEW n \in Nat
  PROVE  AlignUp(n) \in Nat /\ n <= AlignUp(n) /\ Aligned(AlignUp(n))
<1> DEFINE m == n + Align - 1
           d == m \div Align
<1>1. Align \in Nat \ {0} /\ m \in Nat BY ArenaAssumption
<1>2. d \in Nat /\ d * Align <= m /\ m < d * Align + Align BY <1>1, DivBounds
<1>3. AlignUp(n) = d * Align BY DEF AlignUp
<1> HIDE DEF d
<1>4. d * Align \in Nat /\ n <= d * Align BY <1>1, <1>2
<1>5. d \in 0 .. d * Align BY <1>1, <1>2
<1> QED BY <1>3, <1>4, <1>5 DEF Aligned

(* A request that fits into an aligned room still fits once rounded up. *)
LEMMA AlignUpFits ==
  ASSUME NEW n \in Nat, NEW x \in Nat, Aligned(x), n <= x
  PROVE  AlignUp(n) <= x
<1> DEFINE m == n + Align - 1
           d == m \div Align
<1>1. Align \in Nat \ {0} /\ m \in Nat BY ArenaAssumption
<1>2. d \in Nat /\ d * Align <= m BY <1>1, DivBounds
<1>3. AlignUp(n) = d * Align BY DEF AlignUp
<1> HIDE DEF d
<1>4. PICK q \in 0 .. x : x = q * Align BY DEF Aligned
<1>5. (q + 1) * Align = x + Align BY <1>1, <1>4
<1>6. d * Align < (q + 1) * Align BY <1>1, <1>2, <1>5
<1>7. d * Align <= q * Align BY <1>1, <1>2, <1>4, <1>6, ProductOrder
<1> QED BY <1>3, <1>4, <1>7

LEMMA AlignedSum ==
  ASSUME NEW x \in Nat, NEW y \in Nat, Aligned(x), Aligned(y)
  PROVE  Aligned(x + y)
<1>1. PICK p \in 0 .. x : x = p * Align BY DEF Aligned
<1>2. PICK q \in 0 .. y : y = q * Align BY DEF Aligned
<1>3. x + y = (p + q) * Align /\ p + q \in 0 .. x + y
  BY <1>1, <1>2, ArenaAssumption
<1> QED BY <1>3 DEF Aligned

LEMMA AlignedDifference ==
  ASSUME NEW x \in Nat, NEW y \in Nat, Aligned(x), Aligned(y), y <= x
  PROVE  Aligned(x - y)
<1>1. PICK p \in 0 .. x : x = p * Align BY DEF Aligned
<1>2. PICK q \in 0 .. y : y = q * Align BY DEF Aligned
<1>3. Align \in Nat \ {0} BY ArenaAssumption
<1>4. q <= p BY <1>1, <1>2, <1>3
<1>5. x - y = (p - q) * Align BY <1>1, <1>2, <1>3
<1>6. p - q \in 0 .. x - y BY <1>3, <1>4, <1>5
<1> QED BY <1>5, <1>6 DEF Aligned

(* Every slab is aligned and at least as large as the first. *)
LEMMA SlabFacts ==
  ASSUME NEW i \in 0 .. MaxIdx
  PROVE  /\ SlabSize(i) \in Nat /\ CacheSize \in Nat
         /\ CacheSize <= SlabSize(i)
         /\ Aligned(SlabSize(i)) /\ Aligned(CacheSize)
<1> DEFINE f == 2^((2 * i + 3) \div 5)
           m == IF MinCache > Threshold THEN MinCache ELSE Threshold
<1>1. f \in Nat \ {0} /\ Align \in Nat \ {0} BY SlabAssumption, ArenaAssumption
<1>2. m \in Nat BY ArenaAssumption
<1>3. CacheSize \in Nat /\ Aligned(CacheSize)
  BY <1>2, AlignUpFacts DEF CacheSize
<1>4. SlabSize(i) = CacheSize * f BY DEF SlabSize
<1> HIDE DEF f
<1>5. PICK q \in 0 .. CacheSize : CacheSize = q * Align BY <1>3 DEF Aligned
<1>6. CacheSize * f \in Nat /\ CacheSize <= CacheSize * f BY <1>1, <1>3
<1>7. CacheSize * f = (q * f) * Align /\ q * f \in Nat BY <1>1, <1>5
<1>8. q * f \in 0 .. CacheSize * f BY <1>1, <1>7
<1> QED BY <1>3, <1>4, <1>6, <1>7, <1>8 DEF Aligned

LEMMA FirstSlabSize == SlabSize(0) = CacheSize
<1>1. CacheSize \in Nat BY SlabFacts, ArenaAssumption
<1> QED BY <1>1, SlabAssumption DEF SlabSize

-----------------------------------------------------------------------------
(* What a bump leaves true, whichever slab it happens in.  The hypothesis *)
(* says where the new payload goes: behind the cursor, at the start of the *)
(* next slab, or in the first slab of all. *)

BumpAt(p, i, n) ==
  /\ n \in Sizes /\ depth > 0 /\ Bump(p, i, n)
  /\ p \in Ptr /\ p.b \in Blocks /\ p.o \in Nat /\ Aligned(p.o)
  /\ i \in Nat /\ i <= MaxIdx
  /\ \/ i = idx /\ (p = cur \/ (live = {} /\ cur.o <= p.o))
     \/ i = idx + 1
  /\ p.o + AlignUp(Step(n)) <= SlabSize(i)
  /\ idx' = i /\ depth' = depth /\ ctx' = ctx
  /\ capacity' > 0 /\ i < size' /\ size <= size' /\ size' \in Nat
  /\ slot'[i] = p.b
  /\ \A j \in 0 .. size - 1 : slot'[j] = slot[j]
  /\ \A j, k \in 0 .. size' - 1 : slot'[j] = slot'[k] => j = k

LEMMA StepFacts ==
  ASSUME SizesFit, NEW n \in Sizes
  PROVE  /\ n \in Nat \ {0} /\ Step(n) \in Nat \ {0} /\ n <= Step(n)
         /\ AlignUp(Step(n)) \in Nat /\ Step(n) <= AlignUp(Step(n))
         /\ Aligned(AlignUp(Step(n)))
<1>1. n \in Nat \ {0} /\ Redzone \in Nat BY ArenaAssumption DEF SizesFit
<1>2. Step(n) \in Nat \ {0} /\ n <= Step(n) BY <1>1 DEF Step
<1> QED BY <1>1, <1>2, AlignUpFacts

LEMMA BumpCursor ==
  ASSUME SizesFit, NEW n, NEW p, NEW i, BumpAt(p, i, n)
  PROVE  /\ cur' \in Ptr /\ cur'.b = p.b /\ cur'.o = p.o + AlignUp(Step(n))
         /\ cur'.o \in Nat /\ p.o <= cur'.o /\ p.o + n <= cur'.o /\ Aligned(cur'.o)
<1>1. n \in Sizes /\ p \in Ptr /\ p.o \in Nat /\ Aligned(p.o) BY DEF BumpAt
<1>2. cur' = [b |-> p.b, o |-> p.o + AlignUp(Step(n))] BY DEF BumpAt, Bump
<1>3. /\ n \in Nat /\ AlignUp(Step(n)) \in Nat /\ n <= AlignUp(Step(n))
      /\ Aligned(AlignUp(Step(n)))
  BY <1>1, StepFacts
<1>4. cur' \in Ptr /\ cur'.b = p.b /\ cur'.o = p.o + AlignUp(Step(n))
  BY <1>1, <1>2, <1>3 DEF Ptr
<1> QED BY <1>1, <1>3, <1>4, AlignedSum

LEMMA BumpType ==
  ASSUME TypeOK, SizesFit, NEW n, NEW p, NEW i, BumpAt(p, i, n)
  PROVE  live' \subseteq Payload /\ shadow' \subseteq (Blocks \X Int)
<1> DEFINE a == [slot |-> i, b |-> p.b, lo |-> p.o, n |-> n, depth |-> depth]
<1>1. n \in Nat /\ p.b \in Blocks /\ p.o \in Nat /\ i \in Nat /\ depth \in Nat
  BY StepFacts, ArenaAssumption DEF BumpAt, TypeOK
<1>2. a \in Payload BY <1>1 DEF Payload
<1>3. {<<p.b, x>> : x \in p.o .. p.o + n - 1} \subseteq (Blocks \X Int) BY <1>1
<1> QED BY <1>2, <1>3 DEF BumpAt, Bump, TypeOK

LEMMA BumpContexts ==
  ASSUME IInv, SizesFit, NEW n, NEW p, NEW i, BumpAt(p, i, n)
  PROVE  ContextShape'
<1> USE DEF BumpAt
<1>1. cur'.o \in Nat /\ p.o <= cur'.o BY BumpCursor
<1>2. \A k \in 1 .. depth : ctx[k] \in Context
  BY ArenaAssumption DEF IInv, TypeOK
<1>3. cur.o \in Int /\ idx \in Nat /\ size \in Nat BY DEF IInv, TypeOK, Ptr
<1>4. \A k \in 1 .. MaxDepth : k > depth' => ctx'[k] = NoContext
  BY DEF IInv, ContextShape
<1>5. ASSUME NEW k \in 1 .. depth'
      PROVE  /\ ctx'[k].ptr = NullPtr => ctx'[k].idx = 0
             /\ ctx'[k].ptr # NullPtr =>
                  /\ capacity' > 0 /\ ctx'[k].idx < size'
                  /\ ctx'[k].ptr.b = slot'[ctx'[k].idx]
                  /\ ctx'[k].ptr.o \in 0 .. SlabSize(ctx'[k].idx)
                  /\ Aligned(ctx'[k].ptr.o)
  BY <1>2, <1>3, <1>5 DEF IInv, ContextShape, Context
<1>6. ASSUME NEW k \in 1 .. depth'
      PROVE  ctx'[k].idx < idx' \/ (ctx'[k].idx = idx' /\ ctx'[k].ptr.o <= cur'.o)
  BY <1>1, <1>2, <1>3, <1>6 DEF IInv, ContextShape, Context, Ptr
<1>7. \A j, k \in 1 .. depth' :
        j < k => \/ ctx'[j].idx < ctx'[k].idx
                 \/ ctx'[j].idx = ctx'[k].idx /\ ctx'[j].ptr.o <= ctx'[k].ptr.o
  BY DEF IInv, ContextShape
<1> QED BY <1>4, <1>5, <1>6, <1>7 DEF ContextShape

LEMMA BumpPayloads ==
  ASSUME IInv, SizesFit, NEW n, NEW p, NEW i, BumpAt(p, i, n)
  PROVE  PayloadShape'
<1> USE DEF BumpAt
<1> DEFINE a0 == [slot |-> i, b |-> p.b, lo |-> p.o, n |-> n, depth |-> depth]
<1>1. /\ cur'.o \in Nat /\ p.o <= cur'.o /\ p.o + n <= cur'.o
      /\ cur'.o <= SlabSize(i) /\ n \in Nat
  BY BumpCursor, StepFacts, ZenonT(60)
<1>2. /\ live' = live \cup {a0} /\ live \subseteq Payload
      /\ cur.o \in Int /\ idx \in Nat /\ size \in Nat /\ depth \in Nat
      /\ SlabSize(i) \in Nat /\ p.o \in Nat /\ i \in Nat /\ p.b \in Blocks
  BY SlabFacts, ArenaAssumption, SMTT(60) DEF IInv, TypeOK, Ptr, Bump
<1>3. ASSUME NEW a \in live
      PROVE  /\ a.depth \in 1 .. depth'
             /\ a.slot < size' /\ a.b = slot'[a.slot]
             /\ 0 <= a.lo /\ a.lo + a.n <= SlabSize(a.slot)
             /\ EndsBefore(a, idx', cur'.o)
             /\ \A k \in a.depth + 1 .. depth' : EndsBefore(a, ctx'[k].idx, ctx'[k].ptr.o)
  <2>1. a.slot \in Nat /\ a.lo \in Int /\ a.n \in Nat BY <1>2 DEF Payload
  <2>2. /\ a.depth \in 1 .. depth /\ a.slot < size /\ a.b = slot[a.slot]
        /\ 0 <= a.lo /\ a.lo + a.n <= SlabSize(a.slot)
        /\ EndsBefore(a, idx, cur.o)
        /\ \A k \in a.depth + 1 .. depth : EndsBefore(a, ctx[k].idx, ctx[k].ptr.o)
    BY DEF IInv, PayloadShape
  <2>3. EndsBefore(a, idx', cur'.o) BY <1>1, <1>2, <2>1, <2>2 DEF EndsBefore
  <2> QED BY <1>2, <2>1, <2>2, <2>3
<1>4. /\ a0.depth \in 1 .. depth' /\ a0.slot < size' /\ a0.b = slot'[a0.slot]
      /\ 0 <= a0.lo /\ a0.lo + a0.n <= SlabSize(a0.slot)
      /\ EndsBefore(a0, idx', cur'.o)
      /\ \A k \in a0.depth + 1 .. depth' : EndsBefore(a0, ctx'[k].idx, ctx'[k].ptr.o)
  BY <1>1, <1>2 DEF EndsBefore
<1>5. ASSUME NEW a \in live
      PROVE  a.b # a0.b \/ a.lo + a.n <= a0.lo \/ a0.lo + a0.n <= a.lo
  <2>1. /\ a.slot \in Nat /\ a.lo \in Int /\ a.n \in Nat /\ a.slot < size
        /\ a.b = slot[a.slot] /\ EndsBefore(a, idx, cur.o)
    BY <1>2 DEF IInv, PayloadShape, Payload
  <2>2. a.b = slot'[a.slot] /\ a.slot \in 0 .. size' - 1 /\ i \in 0 .. size' - 1
    BY <1>2, <2>1
  <2>3. CASE a.slot = i
    <3>1. i = idx /\ p = cur BY <1>2, <2>1, <2>3 DEF EndsBefore
    <3> QED BY <1>2, <2>1, <2>3, <3>1 DEF EndsBefore
  <2>4. CASE a.slot # i BY <2>2, <2>4, ZenonT(60)
  <2> QED BY <2>3, <2>4
<1>6. PayloadsDisjoint'
  <2> SUFFICES ASSUME NEW x \in live', NEW y \in live', x # y
               PROVE  x.b # y.b \/ x.lo + x.n <= y.lo \/ y.lo + y.n <= x.lo
    BY DEF PayloadsDisjoint
  <2>1. CASE x \in live /\ y \in live
    BY <2>1 DEF IInv, PayloadShape, PayloadsDisjoint
  <2>2. CASE x \in live /\ y = a0 BY <2>2, <1>5
  <2>3. CASE x = a0 /\ y \in live BY <2>3, <1>5
  <2> QED BY <1>2, <2>1, <2>2, <2>3
<1> QED BY <1>2, <1>3, <1>4, <1>6 DEF PayloadShape

-----------------------------------------------------------------------------
(* The four ways a request reaches a slab. *)

(* A request that gets here either fits or is below the size of slab 0. *)
RoomFor(n) == n \in Sizes /\ depth > 0 /\ (Fits(n) \/ Step(n) <= CacheSize)

LEMMA BumpInSlabInv ==
  ASSUME IInv, SizesFit, NEW n, RoomFor(n), BumpInSlab(n)
  PROVE  IInv'
<1> USE DEF RoomFor
<1>1. n \in Nat \ {0} /\ Step(n) \in Nat \ {0} BY StepFacts
<1>2. capacity > 0
  <2> SUFFICES ASSUME capacity = 0 PROVE FALSE BY DEF IInv, TypeOK
  <2>1. cur.o = 0 /\ end.o = 0 BY DEF IInv, ArenaShape, NullPtr
  <2> QED BY <1>1, <2>1 DEF BumpInSlab, Fits
<1>3. /\ idx < size /\ size <= capacity /\ idx \in Nat /\ size \in Nat /\ size <= MaxIdx + 1
      /\ cur.b = slot[idx] /\ cur.o \in Nat /\ cur.o <= SlabSize(idx) /\ Aligned(cur.o)
      /\ end.o = SlabSize(idx) /\ cur \in Ptr /\ SlabSize(idx) \in Nat
  BY <1>2, SlabFacts, ArenaAssumption DEF IInv, TypeOK, ArenaShape
<1>4. idx \in 0 .. MaxIdx BY <1>3, ArenaAssumption
<1>5. cur.o + AlignUp(Step(n)) <= SlabSize(idx)
  <2> DEFINE room == SlabSize(idx) - cur.o
  <2>1. room \in Nat /\ Step(n) <= room BY <1>1, <1>3 DEF BumpInSlab, Fits
  <2>2. Aligned(room) BY <1>3, <1>4, SlabFacts, AlignedDifference
  <2>3. AlignUp(Step(n)) <= room BY <1>1, <2>1, <2>2, AlignUpFits
  <2> QED BY <1>1, <1>3, <2>3, StepFacts
<1>6. cur.b \in Blocks /\ \A j, k \in 0 .. size - 1 : slot[j] = slot[k] => j = k
  BY <1>2, <1>3 DEF IInv, SlabShape
<1>7. BumpAt(cur, idx, n) BY <1>2, <1>3, <1>4, <1>5, <1>6 DEF BumpInSlab, BumpAt
<1>8. /\ cur' \in Ptr /\ cur'.b = cur.b /\ cur'.o \in Nat /\ Aligned(cur'.o)
      /\ cur'.o = cur.o + AlignUp(Step(n))
  BY <1>7, BumpCursor
<1>9. TypeOK' BY <1>7, <1>8, BumpType DEF IInv, TypeOK, BumpInSlab
<1>10. ArenaShape' BY <1>2, <1>3, <1>5, <1>8 DEF IInv, ArenaShape, BumpInSlab
<1>11. SlabShape' /\ Ownership'
  BY DEF IInv, SlabShape, Ownership, Slabs, BumpInSlab
<1> QED BY <1>7, <1>9, <1>10, <1>11, BumpContexts, BumpPayloads DEF IInv

(* A request that did not fit is served at the start of a slab of any index. *)
LEMMA FreshRoom ==
  ASSUME IInv, SizesFit, NEW n, RoomFor(n), ~Fits(n), NEW i \in 0 .. MaxIdx
  PROVE  /\ AlignUp(Step(n)) \in Nat /\ AlignUp(Step(n)) <= SlabSize(i)
         /\ Aligned(0)
<1>1. Step(n) \in Nat /\ Step(n) <= CacheSize BY StepFacts DEF RoomFor
<1>2. /\ SlabSize(i) \in Nat /\ CacheSize \in Nat
      /\ CacheSize <= SlabSize(i) /\ Aligned(SlabSize(i))
  BY SlabFacts
<1>3. AlignUp(Step(n)) <= SlabSize(i) BY <1>1, <1>2, AlignUpFits
<1>4. Aligned(0) BY ArenaAssumption DEF Aligned
<1> QED BY <1>1, <1>3, <1>4, AlignUpFacts

LEMMA CachedSlabInv ==
  ASSUME IInv, SizesFit, NEW n, RoomFor(n), CachedSlab(n)
  PROVE  IInv'
<1> DEFINE p == [b |-> slot[idx + 1], o |-> 0]
<1>1. /\ capacity > 0 /\ idx + 1 < size /\ size <= capacity /\ size <= MaxIdx + 1
      /\ idx \in Nat /\ size \in Nat /\ idx + 1 \in 0 .. MaxIdx /\ size <= idx + Spare
  BY ArenaAssumption DEF CachedSlab, IInv, ArenaShape, TypeOK
<1>2. slot[idx + 1] \in Blocks /\ \A j, k \in 0 .. size - 1 : slot[j] = slot[k] => j = k
  BY <1>1 DEF IInv, SlabShape
<1>3. /\ AlignUp(Step(n)) \in Nat /\ AlignUp(Step(n)) <= SlabSize(idx + 1) /\ Aligned(0)
      /\ SlabSize(idx + 1) \in Nat
  BY <1>1, FreshRoom, SlabFacts DEF CachedSlab
<1>4. BumpAt(p, idx + 1, n)
  BY <1>1, <1>2, <1>3 DEF BumpAt, CachedSlab, RoomFor, Ptr
<1>5. /\ cur' \in Ptr /\ cur'.b = p.b /\ cur'.o \in Nat /\ Aligned(cur'.o)
      /\ cur'.o = AlignUp(Step(n))
  BY <1>3, <1>4, BumpCursor
<1>6. end' \in Ptr BY <1>2, <1>3 DEF CachedSlab, Ptr
<1>7. TypeOK' BY <1>1, <1>4, <1>5, <1>6, BumpType DEF IInv, TypeOK, CachedSlab
<1>8. ArenaShape' BY <1>1, <1>3, <1>5 DEF IInv, ArenaShape, CachedSlab, Spare
<1>9. SlabShape' /\ Ownership'
  BY DEF IInv, SlabShape, Ownership, Slabs, CachedSlab
<1> QED BY <1>4, <1>7, <1>8, <1>9, BumpContexts, BumpPayloads DEF IInv

(* What HeapWith and HeapWithout make of the heap. *)
LEMMA HeapFacts ==
  ASSUME TypeOK, NEW new, NEW gone
  PROVE  /\ DOMAIN HeapWith(new) = DOMAIN heap \cup DOMAIN new
         /\ \A b \in DOMAIN new : HeapWith(new)[b] = new[b]
         /\ \A b \in DOMAIN heap \ DOMAIN new : HeapWith(new)[b] = heap[b]
         /\ DOMAIN HeapWithout(gone) = DOMAIN heap \ gone
         /\ \A b \in DOMAIN heap \ gone : HeapWithout(gone)[b] = heap[b]
BY DEF HeapWith, HeapWithout

LEMMA FirstSlabInv ==
  ASSUME IInv, SizesFit, NEW n, NEW m \in Pools, RoomFor(n), FirstSlab(n, m)
  PROVE  IInv'
<1>1. PICK t, s \in Blocks :
        /\ Free(t) /\ Free(s) /\ t # s
        /\ heap' = HeapWith([b \in {t, s} |-> IF b = t THEN TableGrow ELSE CacheSize])
        /\ pool' = [pool EXCEPT ![Provider(m)] = @ \cup {t, s}]
        /\ table' = t
        /\ capacity' = TableGrow
        /\ size' = 1
        /\ slot' = [i \in 0 .. TableGrow - 1 |-> IF i = 0 THEN s ELSE NULL]
        /\ end' = [b |-> s, o |-> CacheSize]
        /\ first' = [b |-> s, o |-> 0]
        /\ Bump([b |-> s, o |-> 0], 0, n)
  BY DEF FirstSlab
<1> DEFINE p == [b |-> s, o |-> 0]
<1>2. /\ capacity = 0 /\ idx = 0 /\ size = 0 /\ live = {} /\ pool[Home] = {}
      /\ idx' = 0 /\ depth' = depth /\ ctx' = ctx /\ held' = held /\ cur = NullPtr
  BY DEF FirstSlab, IInv, ArenaShape
<1>3. /\ 0 \in 0 .. MaxIdx /\ AlignUp(Step(n)) \in Nat /\ AlignUp(Step(n)) <= SlabSize(0)
      /\ Aligned(0) /\ SlabSize(0) \in Nat /\ SlabSize(0) = CacheSize /\ CacheSize \in Nat
  BY FreshRoom, SlabFacts, FirstSlabSize, ArenaAssumption DEF FirstSlab
<1>4. TableGrow \in Nat \ {0} /\ slot'[0] = s BY <1>1, ArenaAssumption
<1>5. BumpAt(p, 0, n)
  <2>1. \A j, k \in 0 .. size' - 1 : slot'[j] = slot'[k] => j = k BY <1>1
  <2>2. \A j \in 0 .. size - 1 : slot'[j] = slot[j] BY <1>2
  <2>3. /\ p \in Ptr /\ p.b \in Blocks /\ p.o = 0 /\ cur.o = 0
        /\ 0 + AlignUp(Step(n)) <= SlabSize(0)
        /\ 0 <= MaxIdx /\ size' = 1 /\ capacity' > 0
    BY <1>1, <1>2, <1>3, <1>4, ArenaAssumption DEF Ptr, NullPtr
  <2> QED BY <1>1, <1>2, <1>3, <1>4, <2>1, <2>2, <2>3 DEF BumpAt, RoomFor
<1>6. /\ cur' \in Ptr /\ cur'.b = s /\ cur'.o \in Nat /\ Aligned(cur'.o)
      /\ cur'.o = AlignUp(Step(n))
  BY <1>3, <1>5, BumpCursor
<1>7. /\ DOMAIN heap' = DOMAIN heap \cup {t, s}
      /\ heap'[t] = TableGrow /\ heap'[s] = CacheSize
      /\ \A b \in DOMAIN heap \ {t, s} : heap'[b] = heap[b]
  BY <1>1, HeapFacts DEF IInv
<1>8. /\ pool' \in [Pools -> SUBSET Blocks]
      /\ pool'[Home] = {t, s} /\ pool'[Foreign] = pool[Foreign]
  BY <1>1, <1>2, ArenaAssumption DEF IInv, TypeOK, Provider, Pools
<1>9. t \notin DOMAIN heap /\ s \notin DOMAIN heap BY <1>1 DEF Free
<1>10. TypeOK'
  <2>1. DOMAIN heap' \subseteq Blocks /\ \A b \in DOMAIN heap' : heap'[b] \in Nat
    BY <1>1, <1>3, <1>4, <1>7 DEF IInv, TypeOK
  <2>2. end' \in Ptr /\ first' \in Ptr BY <1>1, <1>3 DEF Ptr
  <2>3. slot' \in [0 .. capacity' - 1 -> Blocks \cup {NULL}] BY <1>1, <1>4
  <2> QED
    BY <1>1, <1>2, <1>4, <1>5, <1>6, <1>8, <2>1, <2>2, <2>3, BumpType DEF IInv, TypeOK
<1>11. ArenaShape'
  BY <1>1, <1>2, <1>3, <1>4, <1>6, ArenaAssumption DEF ArenaShape, Spare
<1>12. SlabShape' BY <1>1, <1>3, <1>4, <1>7, <1>8 DEF SlabShape, Slabs
<1>13. Ownership' BY <1>2, <1>7, <1>8, <1>9 DEF IInv, Ownership
<1> QED BY <1>5, <1>10, <1>11, <1>12, <1>13, BumpContexts, BumpPayloads DEF IInv

LEMMA NewSlabInv ==
  ASSUME IInv, SizesFit, NEW n, NEW m \in Pools, RoomFor(n), NewSlab(n, m)
  PROVE  IInv'
<1>1. /\ capacity > 0 /\ idx + 1 = size /\ idx < MaxIdx /\ size <= capacity
      /\ idx \in Nat /\ size \in Nat /\ capacity \in Nat
      /\ idx' = idx + 1 /\ size' = size + 1 /\ size \in 0 .. MaxIdx
      /\ first' = first /\ depth' = depth /\ ctx' = ctx /\ held' = held
      /\ first = [b |-> slot[0], o |-> 0] /\ TableGrow \in Nat \ {0}
  BY ArenaAssumption DEF NewSlab, IInv, ArenaShape, TypeOK
<1>2. PICK s \in Blocks :
        /\ s \notin DOMAIN heap
        /\ end' = [b |-> s, o |-> SlabSize(size)]
        /\ Bump([b |-> s, o |-> 0], size, n)
        /\ \/ /\ size < capacity
              /\ slot' = [slot EXCEPT ![size] = s]
              /\ heap' = HeapWith([b \in {s} |-> SlabSize(size)])
              /\ pool' = [pool EXCEPT ![Provider(m)] = @ \cup {s}]
              /\ table' = table /\ capacity' = capacity
           \/ \E t \in Blocks :
                /\ t \notin DOMAIN heap /\ t # s
                /\ table' = t
                /\ capacity' = capacity + TableGrow
                /\ slot' = [i \in 0 .. capacity + TableGrow - 1 |->
                              IF i <= idx THEN slot[i] ELSE IF i = size THEN s ELSE NULL]
                /\ heap' = [b \in (DOMAIN heap \ {table}) \cup {t, s} |->
                              IF b = t THEN capacity + TableGrow
                              ELSE IF b = s THEN SlabSize(size) ELSE heap[b]]
                /\ pool' = [p \in Pools |->
                              (pool[p] \ {table}) \cup (IF p = Provider(m) THEN {t, s} ELSE {})]
  BY DEF NewSlab, Free
<1> DEFINE p == [b |-> s, o |-> 0]
<1>3. /\ AlignUp(Step(n)) \in Nat /\ AlignUp(Step(n)) <= SlabSize(size)
      /\ Aligned(0) /\ SlabSize(size) \in Nat
  BY <1>1, FreshRoom, SlabFacts DEF NewSlab
<1>4. /\ pool[Home] = {table} \cup Slabs /\ table \in DOMAIN heap
      /\ \A i \in 0 .. size - 1 :
           /\ slot[i] \in Blocks /\ slot[i] # table
           /\ slot[i] \in DOMAIN heap /\ heap[slot[i]] = SlabSize(i)
      /\ \A i, j \in 0 .. size - 1 : slot[i] = slot[j] => i = j
      /\ DOMAIN heap \subseteq Blocks /\ \A b \in DOMAIN heap : heap[b] \in Nat
      /\ slot \in [0 .. capacity - 1 -> Blocks \cup {NULL}]
      /\ pool \in [Pools -> SUBSET Blocks] /\ table \in Blocks \cup {NULL}
      /\ ctx \in [1 .. MaxDepth -> Context]
  BY <1>1 DEF IInv, SlabShape, TypeOK
(* What both branches leave: slab number size is s, the others stay. *)
<1>5. /\ capacity' > 0 /\ size' <= capacity' /\ capacity' \in Nat
      /\ slot' \in [0 .. capacity' - 1 -> Blocks \cup {NULL}]
      /\ slot'[size] = s /\ \A i \in 0 .. size - 1 : slot'[i] = slot[i]
  <2>1. CASE size < capacity /\ slot' = [slot EXCEPT ![size] = s] /\ capacity' = capacity
    BY <1>1, <1>4, <2>1
  <2>2. CASE /\ capacity' = capacity + TableGrow
             /\ slot' = [i \in 0 .. capacity + TableGrow - 1 |->
                           IF i <= idx THEN slot[i] ELSE IF i = size THEN s ELSE NULL]
    <3>1. size \in 0 .. capacity + TableGrow - 1 /\ ~(size <= idx) BY <1>1
    <3>2. \A i \in 0 .. size - 1 : i \in 0 .. capacity + TableGrow - 1 /\ i <= idx /\ i \in 0 .. capacity - 1
      BY <1>1
    <3>3. \A i \in 0 .. idx : i \in 0 .. capacity - 1 BY <1>1
    <3> QED BY <1>1, <1>4, <2>2, <3>1, <3>2, <3>3
  <2> QED BY <1>2, <2>1, <2>2
<1>6. PICK t \in Blocks :
        /\ t = table' /\ t # s
        /\ \/ /\ t = table
              /\ heap' = HeapWith([b \in {s} |-> SlabSize(size)])
              /\ pool' = [pool EXCEPT ![Home] = @ \cup {s}]
           \/ /\ t \notin DOMAIN heap
              /\ heap' = [b \in (DOMAIN heap \ {table}) \cup {t, s} |->
                            IF b = t THEN capacity + TableGrow
                            ELSE IF b = s THEN SlabSize(size) ELSE heap[b]]
              /\ pool' = [q \in Pools |->
                            (pool[q] \ {table}) \cup (IF q = Home THEN {t, s} ELSE {})]
  <2>1. table \in Blocks /\ table # s BY <1>2, <1>4
  <2> QED BY <1>2, <2>1 DEF Provider
<1>7. /\ t \notin DOMAIN heap \ {table}
      /\ DOMAIN heap' = (DOMAIN heap \ {table}) \cup {t, s}
      /\ heap'[s] = SlabSize(size) /\ heap'[t] \in Nat
      /\ \A b \in DOMAIN heap \ {table} : heap'[b] = heap[b]
  <2>1. CASE t = table /\ heap' = HeapWith([b \in {s} |-> SlabSize(size)])
    <3>1. /\ DOMAIN heap' = DOMAIN heap \cup {s} /\ heap'[s] = SlabSize(size)
          /\ \A b \in DOMAIN heap \ {s} : heap'[b] = heap[b]
      BY <2>1, HeapFacts DEF IInv
    <3>2. /\ DOMAIN heap = (DOMAIN heap \ {table}) \cup {t}
          /\ t \notin DOMAIN heap \ {table} /\ t # s /\ s \notin DOMAIN heap
      <4>1. t = table /\ table \in DOMAIN heap /\ t # s /\ s \notin DOMAIN heap
        BY <1>2, <1>4, <1>6, <2>1
      <4> QED BY <4>1
    <3>3. heap'[t] \in Nat BY <1>4, <2>1, <3>1, <3>2
    <3>4. \A b \in DOMAIN heap \ {table} : heap'[b] = heap[b] BY <3>1, <3>2
    <3>5. DOMAIN heap' = (DOMAIN heap \ {table}) \cup {t, s} BY <3>1, <3>2
    <3> QED BY <3>1, <3>2, <3>3, <3>4, <3>5
  <2>2. CASE /\ t \notin DOMAIN heap
             /\ heap' = [b \in (DOMAIN heap \ {table}) \cup {t, s} |->
                            IF b = t THEN capacity + TableGrow
                            ELSE IF b = s THEN SlabSize(size) ELSE heap[b]]
    <3>1. capacity + TableGrow \in Nat BY <1>1
    <3>2. \A b \in DOMAIN heap \ {table} : b # t /\ b # s BY <1>2, <2>2
    <3>3. DOMAIN heap' = (DOMAIN heap \ {table}) \cup {t, s} BY <2>2
    <3>4. heap'[t] = capacity + TableGrow /\ heap'[s] = SlabSize(size)
      BY <1>6, <2>2
    <3>5. \A b \in DOMAIN heap \ {table} : heap'[b] = heap[b] BY <2>2, <3>2
    <3> QED BY <2>2, <3>1, <3>3, <3>4, <3>5
  <2> QED BY <1>6, <2>1, <2>2
<1>8. /\ pool' \in [Pools -> SUBSET Blocks]
      /\ pool'[Home] = (pool[Home] \ {table}) \cup {t, s}
      /\ pool'[Foreign] = pool[Foreign] \ {table}
  <2>1. Home \in Pools /\ Foreign \in Pools /\ Home # Foreign
    BY ArenaAssumption DEF Pools
  <2>2. table \in pool[Home] /\ table \notin pool[Foreign]
    BY <1>4 DEF IInv, Ownership
  <2> QED BY <1>4, <1>6, <2>1, <2>2
<1>9. BumpAt(p, size, n)
  <2>1. \A i, j \in 0 .. size' - 1 : slot'[i] = slot'[j] => i = j
    <3>1. \A i \in 0 .. size' - 1 : i = size \/ i \in 0 .. size - 1 BY <1>1
    <3>2. \A i \in 0 .. size - 1 : slot'[i] # s BY <1>2, <1>4, <1>5
    <3> QED BY <1>4, <1>5, <3>1, <3>2
  <2>2. /\ p \in Ptr /\ p.b \in Blocks /\ p.o = 0 /\ slot'[size] = p.b
        /\ 0 + AlignUp(Step(n)) <= SlabSize(size)
    BY <1>2, <1>3, <1>5 DEF Ptr
  <2>3. size \in Nat /\ size <= MaxIdx /\ size' \in Nat /\ size < size' /\ size <= size'
    BY <1>1, ArenaAssumption
  <2> HIDE DEF p
  <2>4. Bump(p, size, n) BY <1>2 DEF p
  <2> QED
    <3>1. p.o \in Nat /\ Aligned(p.o) /\ p.o + AlignUp(Step(n)) <= SlabSize(size)
      BY <1>3, <2>2
    <3>2. /\ size = idx + 1 /\ idx' = size /\ depth' = depth /\ ctx' = ctx
          /\ n \in Sizes /\ depth > 0
      BY <1>1 DEF RoomFor
    <3>3. capacity' > 0 /\ \A j \in 0 .. size - 1 : slot'[j] = slot[j] BY <1>5
    <3> QED BY <2>1, <2>2, <2>3, <2>4, <3>1, <3>2, <3>3 DEF BumpAt
<1>10. /\ cur' \in Ptr /\ cur'.b = s /\ cur'.o \in Nat /\ Aligned(cur'.o)
       /\ cur'.o = AlignUp(Step(n))
  BY <1>3, <1>9, BumpCursor
<1>11. TypeOK'
  <2>1. DOMAIN heap' \subseteq Blocks /\ \A b \in DOMAIN heap' : heap'[b] \in Nat
    BY <1>3, <1>4, <1>7
  <2>2. end' \in Ptr BY <1>2, <1>3 DEF Ptr
  <2>3. idx' \in Nat /\ size' \in Nat BY <1>1
  <2> QED
    BY <1>1, <1>5, <1>6, <1>8, <1>9, <1>10, <2>1, <2>2, <2>3, BumpType DEF IInv, TypeOK
<1>12. ArenaShape'
  <2>1. slot'[0] = slot[0]
    <3>1. 0 \in 0 .. size - 1 BY <1>1
    <3> QED BY <1>5, <3>1
  <2>2. size' <= idx' + Spare /\ size' <= MaxIdx + 1 /\ idx' < size' /\ idx' = size
    BY <1>1, ArenaAssumption DEF Spare
  <2>3. cur'.b = slot'[idx'] /\ cur'.o \in 0 .. SlabSize(idx') /\ Aligned(cur'.o)
    <3>1. idx' = size /\ slot'[size] = s BY <1>1, <1>5
    <3>2. cur'.o \in 0 .. SlabSize(size) BY <1>3, <1>10
    <3> QED BY <1>10, <3>1, <3>2
  <2>4. end' = [b |-> slot'[idx'], o |-> SlabSize(idx')] /\ first' = [b |-> slot'[0], o |-> 0]
    BY <1>1, <1>2, <1>5, <2>1
  <2>5. capacity' # 0 /\ size' <= capacity' BY <1>5
  <2> QED BY <2>2, <2>3, <2>4, <2>5 DEF ArenaShape
<1>13. SlabShape'
  <2>1. \A i \in 0 .. size' - 1 : i = size \/ i \in 0 .. size - 1 BY <1>1
  <2>2. Slabs' = Slabs \cup {s}
    <3>1. size \in 0 .. size' - 1 /\ \A i \in 0 .. size - 1 : i \in 0 .. size' - 1
      BY <1>1
    <3> QED BY <1>5, <2>1, <3>1 DEF Slabs
  <2>3. table \notin Slabs BY <1>4 DEF Slabs
  <2>4. pool'[Home] = {t} \cup Slabs' BY <1>4, <1>8, <2>2, <2>3
  <2>5. ASSUME NEW i \in 0 .. size' - 1
        PROVE  /\ slot'[i] \in Blocks /\ slot'[i] # t
               /\ slot'[i] \in DOMAIN heap' /\ heap'[slot'[i]] = SlabSize(i)
    <3>1. CASE i = size BY <1>2, <1>3, <1>5, <1>6, <1>7, <3>1
    <3>2. CASE i \in 0 .. size - 1
      <4>1. slot'[i] = slot[i] /\ slot[i] \in DOMAIN heap \ {table} /\ slot[i] \in Blocks
        BY <1>4, <1>5, <3>2
      <4>2. heap'[slot[i]] = SlabSize(i) BY <1>4, <1>7, <3>2, <4>1
      <4> QED BY <1>7, <4>1, <4>2
    <3> QED BY <2>1, <3>1, <3>2
  <2> QED BY <1>5, <1>6, <1>7, <1>9, <2>4, <2>5 DEF SlabShape, BumpAt
<1>14. Ownership'
  <2>1. table \in pool[Home] /\ table \notin held /\ \A k \in 1 .. MaxDepth : table \notin ctx[k].large
    BY <1>4 DEF IInv, Ownership
  <2>2. s \notin DOMAIN heap /\ (t \notin DOMAIN heap \/ t = table)
    BY <1>2, <1>6
  <2> QED BY <1>1, <1>7, <1>8, <2>1, <2>2 DEF IInv, Ownership
<1> QED BY <1>9, <1>11, <1>12, <1>13, <1>14, BumpContexts, BumpPayloads DEF IInv

LEMMA SmallPathInv ==
  ASSUME IInv, SizesFit, NEW n, NEW m \in Pools, RoomFor(n), SmallPath(n, m)
  PROVE  IInv'
BY BumpInSlabInv, FirstSlabInv, CachedSlabInv, NewSlabInv DEF SmallPath

LEMMA AllocateInv ==
  ASSUME IInv, SizesFit, NEW n \in Sizes, NEW m \in Pools, Allocate(n, m) \/ WeakAllocate(n, m)
  PROVE  IInv'
<1>1. /\ Threshold \in Nat /\ MinCache \in Nat /\ CacheSize \in Nat
      /\ (IF MinCache > Threshold THEN MinCache ELSE Threshold) \in Nat
  BY SlabFacts, ArenaAssumption
<1>2. Threshold <= CacheSize BY <1>1, AlignUpFacts DEF CacheSize
<1>3. Step(n) \in Nat BY StepFacts
<1>4. RoomFor(n)
  BY <1>1, <1>2, <1>3 DEF RoomFor, Allocate, WeakAllocate, SizesFit
<1>5. SmallPath(n, m) BY DEF Allocate, WeakAllocate
<1> QED BY <1>4, <1>5, SmallPathInv

-----------------------------------------------------------------------------
(* The steps that leave the slabs alone. *)

LEMMA OpenInv ==
  ASSUME IInv, Open
  PROVE  IInv'
<1>1. /\ depth \in Nat /\ depth + 1 \in 1 .. MaxDepth /\ depth' = depth + 1
      /\ cur \in Ptr /\ idx \in Nat /\ ctx \in [1 .. MaxDepth -> Context]
      /\ live \subseteq Payload
  BY ArenaAssumption DEF IInv, TypeOK, Open
<1>2. /\ ctx' \in [1 .. MaxDepth -> Context]
      /\ ctx'[depth + 1] = [ptr |-> cur, idx |-> idx, large |-> {}]
      /\ \A k \in 1 .. MaxDepth : k # depth + 1 => ctx'[k] = ctx[k]
  BY <1>1 DEF Open, Context
<1>3. UNCHANGED <<heap, pool, arenaVars, live, held, shadow>> BY DEF Open
<1>4. TypeOK' BY <1>1, <1>2, <1>3 DEF IInv, TypeOK, arenaVars
<1>5. ArenaShape' /\ SlabShape'
  BY <1>3 DEF IInv, ArenaShape, SlabShape, Slabs, arenaVars
<1>6. Ownership'
  <2>1. \A k \in 1 .. MaxDepth : ctx'[k].large \subseteq ctx[k].large BY <1>2
  <2> QED BY <1>3, <2>1 DEF IInv, Ownership
<1>7. ContextShape'
  <2>1. capacity = 0 => cur = NullPtr /\ idx = 0 BY DEF IInv, ArenaShape
  <2>2. cur # NullPtr => /\ capacity > 0 /\ idx < size /\ cur.b = slot[idx]
                         /\ cur.o \in 0 .. SlabSize(idx) /\ Aligned(cur.o)
    BY <2>1 DEF IInv, ArenaShape, TypeOK
  <2>3. cur = NullPtr => idx = 0
    <3> SUFFICES ASSUME cur = NullPtr, capacity # 0 PROVE FALSE BY <2>1
    <3>1. cur.b = NULL /\ idx \in 0 .. size - 1 /\ cur.b = slot[idx] /\ capacity > 0
      BY <1>1 DEF IInv, ArenaShape, NullPtr, TypeOK
    <3> QED BY <3>1, ArenaAssumption DEF IInv, SlabShape
  <2>4. \A k \in 1 .. depth : k \in 1 .. MaxDepth /\ k # depth + 1 /\ ctx'[k] = ctx[k]
    <3>1. \A k \in 1 .. depth : k \in 1 .. MaxDepth /\ k # depth + 1
      BY <1>1, ArenaAssumption
    <3> QED BY <1>2, <3>1
  <2>5. \A k \in 1 .. depth' : k \in 1 .. depth \/ k = depth + 1 BY <1>1
  <2>6. cur.o \in Int BY <1>1 DEF Ptr
  <2>7. \A k \in 1 .. MaxDepth : k > depth' => ctx'[k] = NoContext
    BY <1>1, <1>2 DEF IInv, ContextShape
  <2>8. ASSUME NEW k \in 1 .. depth'
        PROVE  /\ ctx'[k].ptr = NullPtr => ctx'[k].idx = 0
               /\ ctx'[k].ptr # NullPtr =>
                    /\ capacity' > 0 /\ ctx'[k].idx < size'
                    /\ ctx'[k].ptr.b = slot'[ctx'[k].idx]
                    /\ ctx'[k].ptr.o \in 0 .. SlabSize(ctx'[k].idx)
                    /\ Aligned(ctx'[k].ptr.o)
               /\ ctx'[k].idx < idx' \/ (ctx'[k].idx = idx' /\ ctx'[k].ptr.o <= cur'.o)
    <3>1. CASE k \in 1 .. depth
      BY <1>3, <2>4, <3>1 DEF IInv, ContextShape, arenaVars
    <3>2. CASE k = depth + 1 BY <1>2, <1>3, <2>2, <2>3, <2>6, <3>2 DEF arenaVars
    <3> QED BY <2>5, <3>1, <3>2
  <2>9. ASSUME NEW j \in 1 .. depth', NEW k \in 1 .. depth', j < k
        PROVE  \/ ctx'[j].idx < ctx'[k].idx
               \/ ctx'[j].idx = ctx'[k].idx /\ ctx'[j].ptr.o <= ctx'[k].ptr.o
    <3>1. j \in 1 .. depth BY <1>1, <2>5, <2>9
    <3>2. CASE k \in 1 .. depth BY <2>4, <2>9, <3>1, <3>2 DEF IInv, ContextShape
    <3>3. CASE k = depth + 1 BY <1>2, <2>4, <3>1, <3>3 DEF IInv, ContextShape
    <3> QED BY <2>5, <3>2, <3>3
  <2> QED BY <2>7, <2>8, <2>9 DEF ContextShape
<1>8. PayloadShape'
  <2>1. ASSUME NEW a \in live, NEW k \in a.depth + 1 .. depth'
        PROVE  EndsBefore(a, ctx'[k].idx, ctx'[k].ptr.o)
    <3>1. a.depth \in 1 .. depth /\ EndsBefore(a, idx, cur.o)
      BY DEF IInv, PayloadShape
    <3>2. CASE k = depth + 1 BY <1>2, <3>1, <3>2
    <3>3. CASE k # depth + 1
      <4>1. k \in a.depth + 1 .. depth /\ k \in 1 .. MaxDepth
        BY <1>1, <3>1, <3>3, ArenaAssumption
      <4> QED BY <1>2, <3>3, <4>1 DEF IInv, PayloadShape
    <3> QED BY <3>2, <3>3
  <2>2. \A a \in live : a.depth \in 1 .. depth' BY <1>1 DEF IInv, PayloadShape
  <2> QED
    BY <1>3, <2>1, <2>2 DEF IInv, PayloadShape, PayloadsDisjoint, arenaVars, EndsBefore
<1> QED BY <1>4, <1>5, <1>6, <1>7, <1>8 DEF IInv

(* A step that only adds or frees blocks outside the arena's pool. *)
LEMMA AsideInv ==
  ASSUME IInv, TypeOK', Ownership',
         UNCHANGED <<arenaVars, depth, live>>,
         pool'[Home] = pool[Home],
         \A b \in pool[Home] : b \in DOMAIN heap' /\ heap'[b] = heap[b],
         \A k \in 1 .. MaxDepth : ctx'[k].ptr = ctx[k].ptr /\ ctx'[k].idx = ctx[k].idx,
         \A k \in 1 .. MaxDepth : k > depth => ctx'[k] = ctx[k]
  PROVE  IInv'
<1>1. depth \in Nat /\ \A k \in 1 .. depth : k \in 1 .. MaxDepth
  BY ArenaAssumption DEF IInv, TypeOK
<1>2. ArenaShape' BY DEF IInv, ArenaShape, arenaVars
<1>3. SlabShape'
  <2>1. capacity > 0 => table \in pool[Home] /\ \A i \in 0 .. size - 1 : slot[i] \in pool[Home]
    BY DEF IInv, SlabShape, Slabs
  <2> QED BY <2>1 DEF IInv, SlabShape, Slabs, arenaVars
<1>4. ContextShape'
  <2>1. \A k \in 1 .. MaxDepth : k > depth' => ctx'[k] = NoContext
    BY DEF IInv, ContextShape
  <2> QED BY <1>1, <2>1 DEF IInv, ContextShape, arenaVars
<1>5. PayloadShape'
  <2>1. \A a \in live : \A k \in a.depth + 1 .. depth : k \in 1 .. MaxDepth
    BY <1>1, ArenaAssumption DEF IInv, PayloadShape
  <2> QED
    BY <2>1 DEF IInv, PayloadShape, PayloadsDisjoint, arenaVars, EndsBefore
<1> QED BY <1>2, <1>3, <1>4, <1>5 DEF IInv

LEMMA LargeAllocateInv ==
  ASSUME IInv, NEW k \in 1 .. depth, NEW n \in Sizes, LargeAllocate(k, n)
  PROVE  IInv'
<1>1. PICK b \in Blocks :
        /\ Free(b)
        /\ heap' = HeapWith([x \in {b} |-> n + Header])
        /\ ctx' = [ctx EXCEPT ![k].large = @ \cup {b}]
  BY DEF LargeAllocate
<1>2. /\ DOMAIN heap' = DOMAIN heap \cup {b} /\ heap'[b] = n + Header
      /\ \A x \in DOMAIN heap \ {b} : heap'[x] = heap[x] /\ b \notin DOMAIN heap
  BY <1>1, HeapFacts DEF IInv, Free
<1>3. n + Header \in Nat /\ k \in 1 .. MaxDepth /\ ctx \in [1 .. MaxDepth -> Context] /\ k <= depth
  BY ArenaAssumption DEF IInv, TypeOK
<1>4. /\ ctx'[k] = [ptr |-> ctx[k].ptr, idx |-> ctx[k].idx, large |-> ctx[k].large \cup {b}]
      /\ \A j \in 1 .. MaxDepth : j # k => ctx'[j] = ctx[j]
      /\ ctx' \in [1 .. MaxDepth -> Context]
  BY <1>1, <1>3 DEF Context
<1>5. UNCHANGED <<pool, arenaVars, depth, live, held, shadow>>
  BY DEF LargeAllocate
<1>6. TypeOK' BY <1>1, <1>2, <1>3, <1>4, <1>5 DEF IInv, TypeOK, arenaVars
<1>7. Ownership'
  <2>1. b \notin DOMAIN heap BY <1>1 DEF Free
  <2>2. ctx'[k].large = ctx[k].large \cup {b} BY <1>4
  <2> QED BY <1>2, <1>4, <1>5, <2>1, <2>2 DEF IInv, Ownership
<1>8. \A x \in pool[Home] : x \in DOMAIN heap' /\ heap'[x] = heap[x]
  BY <1>1, <1>2 DEF IInv, Ownership, Free
<1>9. \A j \in 1 .. MaxDepth : ctx'[j].ptr = ctx[j].ptr /\ ctx'[j].idx = ctx[j].idx
  BY <1>3, <1>4
<1>10. \A j \in 1 .. MaxDepth : j > depth => ctx'[j] = ctx[j]
  <2>1. \A j \in 1 .. MaxDepth : j > depth => j # k BY <1>3 DEF IInv, TypeOK
  <2> QED BY <1>4, <2>1
<1> QED BY <1>5, <1>6, <1>7, <1>8, <1>9, <1>10, AsideInv

LEMMA WeakLargeInv ==
  ASSUME IInv,
         \/ \E n \in Sizes : WeakLargeAllocate(n)
         \/ \E b \in held : WeakDeallocate(b)
  PROVE  IInv'
<1>1. UNCHANGED <<pool, arenaVars, depth, ctx, live, shadow>>
  BY DEF WeakLargeAllocate, WeakDeallocate
<1>2. /\ TypeOK' /\ Ownership'
      /\ \A x \in pool[Home] : x \in DOMAIN heap' /\ heap'[x] = heap[x]
  <2>1. CASE \E n \in Sizes : WeakLargeAllocate(n)
    <3>1. PICK n \in Sizes, b \in Blocks :
            Free(b) /\ heap' = HeapWith([x \in {b} |-> n]) /\ held' = held \cup {b}
      BY <2>1 DEF WeakLargeAllocate
    <3>2. /\ DOMAIN heap' = DOMAIN heap \cup {b} /\ heap'[b] = n
          /\ \A x \in DOMAIN heap \ {b} : heap'[x] = heap[x]
          /\ b \notin DOMAIN heap /\ n \in Nat
      BY <3>1, HeapFacts, ArenaAssumption DEF IInv, Free
    <3>3. TypeOK' BY <1>1, <3>1, <3>2 DEF IInv, TypeOK, arenaVars
    <3>4. Ownership' BY <1>1, <3>1, <3>2 DEF IInv, Ownership
    <3>5. \A x \in pool[Home] : x \in DOMAIN heap' /\ heap'[x] = heap[x]
      BY <3>2 DEF IInv, Ownership
    <3> QED BY <3>3, <3>4, <3>5
  <2>2. CASE \E b \in held : WeakDeallocate(b)
    <3>1. PICK b \in held : heap' = HeapWithout({b}) /\ held' = held \ {b}
      BY <2>2 DEF WeakDeallocate
    <3>2. /\ DOMAIN heap' = DOMAIN heap \ {b}
          /\ \A x \in DOMAIN heap \ {b} : heap'[x] = heap[x]
      BY <3>1, HeapFacts DEF IInv
    <3>3. TypeOK' BY <1>1, <3>1, <3>2 DEF IInv, TypeOK, arenaVars
    <3>4. Ownership' BY <1>1, <3>1, <3>2 DEF IInv, Ownership
    <3>5. \A x \in pool[Home] : x \in DOMAIN heap' /\ heap'[x] = heap[x]
      BY <3>2 DEF IInv, Ownership
    <3> QED BY <3>3, <3>4, <3>5
  <2> QED BY <2>1, <2>2
<1> QED BY <1>1, <1>2, AsideInv

LEMMA ForeignInv ==
  ASSUME IInv, ForeignRefill \/ ForeignTeardown
  PROVE  IInv'
<1>1. UNCHANGED <<arenaVars, depth, ctx, live, held, shadow>>
  BY DEF ForeignRefill, ForeignTeardown
<1>2. /\ TypeOK' /\ Ownership' /\ pool'[Home] = pool[Home]
      /\ \A x \in pool[Home] : x \in DOMAIN heap' /\ heap'[x] = heap[x]
  <2> USE DEF Pools
  <2>0. Home # Foreign /\ pool \in [Pools -> SUBSET Blocks]
    BY ArenaAssumption DEF IInv, TypeOK
  <2>1. CASE ForeignRefill
    <3>1. PICK b \in Blocks :
            /\ Free(b) /\ heap' = HeapWith([x \in {b} |-> CacheSize])
            /\ pool' = [pool EXCEPT ![Foreign] = @ \cup {b}]
      BY <2>1 DEF ForeignRefill
    <3>2. /\ DOMAIN heap' = DOMAIN heap \cup {b} /\ heap'[b] = CacheSize
          /\ \A x \in DOMAIN heap \ {b} : heap'[x] = heap[x]
          /\ b \notin DOMAIN heap /\ CacheSize \in Nat
      <4>1. 0 \in 0 .. MaxIdx BY ArenaAssumption
      <4>2. CacheSize \in Nat BY <4>1, SlabFacts
      <4> QED BY <3>1, <4>2, HeapFacts DEF IInv, Free
    <3>3. /\ pool' \in [Pools -> SUBSET Blocks]
          /\ pool'[Home] = pool[Home] /\ pool'[Foreign] = pool[Foreign] \cup {b}
      BY <2>0, <3>1
    <3>4. TypeOK' BY <1>1, <3>1, <3>2, <3>3 DEF IInv, TypeOK, arenaVars
    <3>5. Ownership' BY <1>1, <3>2, <3>3 DEF IInv, Ownership
    <3>6. \A x \in pool[Home] : x \in DOMAIN heap' /\ heap'[x] = heap[x]
      BY <3>2 DEF IInv, Ownership
    <3> QED BY <3>3, <3>4, <3>5, <3>6
  <2>2. CASE ForeignTeardown
    <3>1. /\ heap' = HeapWithout(pool[Foreign])
          /\ pool' = [pool EXCEPT ![Foreign] = {}]
      BY <2>2 DEF ForeignTeardown
    <3>2. /\ DOMAIN heap' = DOMAIN heap \ pool[Foreign]
          /\ \A x \in DOMAIN heap \ pool[Foreign] : heap'[x] = heap[x]
      BY <3>1, HeapFacts DEF IInv
    <3>3. /\ pool' \in [Pools -> SUBSET Blocks]
          /\ pool'[Home] = pool[Home] /\ pool'[Foreign] = {}
      BY <2>0, <3>1
    <3>4. TypeOK' BY <1>1, <3>2, <3>3 DEF IInv, TypeOK, arenaVars
    <3>5. Ownership' BY <1>1, <3>2, <3>3 DEF IInv, Ownership
    <3>6. \A x \in pool[Home] : x \in DOMAIN heap' /\ heap'[x] = heap[x]
      BY <3>2 DEF IInv, Ownership
    <3> QED BY <3>3, <3>4, <3>5, <3>6
  <2> QED BY <2>1, <2>2
<1> QED BY <1>1, <1>2, AsideInv

-----------------------------------------------------------------------------
(* Rewinding. *)

LEMMA CloseInv ==
  ASSUME IInv, Close
  PROVE  IInv'
<1> DEFINE c    == ctx[depth]
           base == Restored(c)
           gone == Trimmed(c.idx)
<1>1. /\ cur' = base /\ idx' = c.idx
      /\ end' = (IF c.idx = idx THEN end ELSE [b |-> slot[c.idx], o |-> SlabSize(c.idx)])
      /\ size' = (IF gone = {} THEN size ELSE c.idx + Spare)
      /\ pool' = [p \in Pools |-> pool[p] \ gone]
      /\ heap' = HeapWithout(gone \cup c.large)
      /\ live' = {a \in live : a.depth < depth}
      /\ ctx' = [ctx EXCEPT ![depth] = NoContext]
      /\ depth' = depth - 1
      /\ UNCHANGED <<capacity, table, slot, first, held>>
  BY DEF Close
<1>2. /\ depth \in 1 .. MaxDepth /\ depth \in Nat /\ c \in Context
      /\ ctx \in [1 .. MaxDepth -> Context] /\ idx \in Nat /\ size \in Nat
      /\ capacity \in Nat /\ cur \in Ptr /\ c.idx \in Nat /\ c.ptr \in Ptr /\ c.ptr.o \in Int
  <2>1. depth > 0 BY DEF Close
  <2>2. /\ depth \in 0 .. MaxDepth /\ ctx \in [1 .. MaxDepth -> Context]
        /\ idx \in Nat /\ size \in Nat /\ capacity \in Nat /\ cur \in Ptr
    BY DEF IInv, TypeOK
  <2>3. depth \in 1 .. MaxDepth /\ depth \in Nat BY <2>1, <2>2, ArenaAssumption
  <2>4. c \in Context BY <2>2, <2>3
  <2>5. c.idx \in Nat /\ c.ptr \in Ptr BY <2>4 DEF Context
  <2>6. c.ptr.o \in Int BY <2>5 DEF Ptr
  <2> QED BY <2>2, <2>3, <2>4, <2>5, <2>6
<1>3. /\ c.ptr = NullPtr => c.idx = 0
      /\ c.ptr # NullPtr =>
           /\ capacity > 0 /\ c.idx < size /\ c.ptr.b = slot[c.idx]
           /\ c.ptr.o \in 0 .. SlabSize(c.idx) /\ Aligned(c.ptr.o)
      /\ c.idx < idx \/ (c.idx = idx /\ c.ptr.o <= cur.o)
  <2>1. depth \in 1 .. depth BY <1>2
  <2> QED BY <2>1 DEF IInv, ContextShape
<1>4. /\ ctx' \in [1 .. MaxDepth -> Context] /\ ctx'[depth] = NoContext
      /\ \A k \in 1 .. MaxDepth : k # depth => ctx'[k] = ctx[k]
  <2>1. NoContext \in Context BY DEF NoContext, Context, NullPtr, Ptr
  <2> QED BY <1>1, <1>2, <2>1
<1>5. /\ DOMAIN heap' = DOMAIN heap \ (gone \cup c.large)
      /\ \A b \in DOMAIN heap' : heap'[b] = heap[b]
  BY <1>1, HeapFacts, ZenonT(60) DEF IInv
<1>6. /\ gone \subseteq pool[Home]
      /\ pool' \in [Pools -> SUBSET Blocks]
      /\ pool'[Home] = pool[Home] \ gone /\ pool'[Foreign] = pool[Foreign]
  <2>1. gone \subseteq pool[Home]
    <3>1. CASE capacity = 0
      <4>1. idx = 0 /\ c.idx = 0 BY <1>2, <1>3, <3>1 DEF IInv, ArenaShape
      <4> QED BY <4>1 DEF Trimmed
    <3>2. CASE capacity # 0
      <4>1. \A j \in c.idx + Spare .. size - 1 : j \in 0 .. size - 1
        BY <1>2 DEF Spare
      <4>2. \A j \in 0 .. size - 1 : slot[j] \in pool[Home]
        BY <1>2, <3>2 DEF IInv, SlabShape, Slabs
      <4> QED BY <4>1, <4>2 DEF Trimmed
    <3> QED BY <3>1, <3>2
  <2>2. Home \in Pools /\ Foreign \in Pools /\ pool \in [Pools -> SUBSET Blocks]
    BY DEF Pools, IInv, TypeOK
  <2>3. pool[Foreign] \cap pool[Home] = {} BY DEF IInv, Ownership
  <2> QED BY <1>1, <2>1, <2>2, <2>3
(* The restored position, and how many slabs stay. *)
<1>7. ASSUME capacity > 0
      PROVE  /\ base \in Ptr /\ base.b = slot[c.idx] /\ base.o = c.ptr.o
             /\ base.o \in 0 .. SlabSize(c.idx) /\ Aligned(base.o)
             /\ c.idx <= idx /\ c.idx < size /\ idx < size /\ size <= MaxIdx + 1
             /\ c.idx \in 0 .. MaxIdx /\ SlabSize(c.idx) \in Nat
  <2>1. /\ first = [b |-> slot[0], o |-> 0] /\ first \in Ptr
        /\ idx < size /\ size <= MaxIdx + 1
    BY <1>7 DEF IInv, ArenaShape, TypeOK
  <2>2. c.idx <= idx /\ c.idx < size /\ c.idx \in 0 .. MaxIdx
    BY <1>2, <1>3, <2>1, ArenaAssumption
  <2>3. SlabSize(c.idx) \in Nat BY <2>2, SlabFacts
  <2>4. CASE c.ptr = NullPtr
    <3>1. base = first /\ c.idx = 0 /\ c.ptr.o = 0
      BY <1>3, <2>4 DEF Restored, NullPtr
    <3>2. Aligned(0) BY ArenaAssumption DEF Aligned
    <3> QED BY <2>1, <2>2, <2>3, <3>1, <3>2
  <2>5. CASE c.ptr # NullPtr
    <3>1. base = c.ptr BY <2>5 DEF Restored
    <3> QED BY <1>2, <1>3, <2>1, <2>2, <2>3, <2>5, <3>1
  <2> QED BY <2>4, <2>5
<1>8. ASSUME capacity > 0
      PROVE  /\ size' \in Nat /\ c.idx < size' /\ size' <= size /\ size' <= c.idx + Spare
             /\ gone = {slot[j] : j \in size' .. size - 1}
  <2>1. size <= idx + Spare BY <1>7, <1>8 DEF IInv, ArenaShape
  <2>2. CASE c.idx # idx /\ size - c.idx > Spare
    <3>1. gone = {slot[j] : j \in c.idx + Spare .. size - 1} BY <2>2 DEF Trimmed
    <3>2. c.idx + Spare \in c.idx + Spare .. size - 1
      BY <1>2, <2>2, SMTT(60) DEF Spare
    <3>3. size' = c.idx + Spare BY <1>1, <3>1, <3>2
    <3> QED BY <1>2, <2>2, <3>1, <3>3 DEF Spare
  <2>3. CASE ~(c.idx # idx /\ size - c.idx > Spare)
    <3>1. gone = {} /\ size' = size BY <1>1, <2>3 DEF Trimmed
    <3>2. size <= c.idx + Spare BY <1>2, <2>1, <2>3 DEF Spare
    <3>3. {slot[j] : j \in size .. size - 1} = {} BY <1>2
    <3> QED BY <1>2, <1>7, <1>8, <3>1, <3>2, <3>3
  <2> QED BY <2>2, <2>3
<1>9. ASSUME capacity = 0
      PROVE  /\ c.ptr = NullPtr /\ c.idx = 0 /\ idx = 0 /\ size = 0 /\ live = {}
             /\ first = NullPtr /\ end = NullPtr /\ base = NullPtr /\ gone = {}
  <2>1. /\ idx = 0 /\ size = 0 /\ live = {} /\ first = NullPtr /\ end = NullPtr
    BY <1>9 DEF IInv, ArenaShape
  <2>2. c.ptr = NullPtr /\ c.idx = 0 BY <1>3, <1>9
  <2> QED BY <2>1, <2>2 DEF Restored, Trimmed
<1>10. ArenaShape'
  <2>1. CASE capacity = 0
    <3>1. cur' = NullPtr /\ end' = NullPtr /\ idx' = 0 /\ size' = 0 /\ live' = {}
      BY <1>1, <1>9, <2>1
    <3>2. pool'[Home] = {} /\ first' = NullPtr /\ capacity' = 0
      BY <1>1, <1>6, <1>9, <2>1 DEF IInv, ArenaShape
    <3> QED BY <3>1, <3>2 DEF ArenaShape
  <2>2. CASE capacity # 0
    <3>0. capacity > 0 BY <1>2, <2>2
    <3>1. /\ idx' < size' /\ size' <= capacity' /\ size' <= idx' + Spare /\ size' <= MaxIdx + 1
      <4>1. size <= capacity /\ size <= MaxIdx + 1 /\ MaxIdx \in Nat
        BY <3>0, ArenaAssumption DEF IInv, ArenaShape
      <4>2. /\ idx' = c.idx /\ capacity' = capacity
            /\ size' \in Nat /\ c.idx < size' /\ size' <= size /\ size' <= c.idx + Spare
        BY <1>1, <1>8, <3>0
      <4> QED BY <1>2, <4>1, <4>2 DEF Spare
    <3>2. cur'.b = slot'[idx'] /\ cur'.o \in 0 .. SlabSize(idx') /\ Aligned(cur'.o)
      BY <1>1, <1>7, <3>0
    <3>3. end' = [b |-> slot'[idx'], o |-> SlabSize(idx')]
      BY <1>1, <3>0 DEF IInv, ArenaShape
    <3>4. first' = [b |-> slot'[0], o |-> 0] /\ capacity' # 0
      BY <1>1, <3>0 DEF IInv, ArenaShape
    <3> QED BY <3>1, <3>2, <3>3, <3>4 DEF ArenaShape
  <2> QED BY <2>1, <2>2
<1>11. SlabShape'
  <2> SUFFICES ASSUME capacity > 0 PROVE SlabShape' BY <1>1 DEF SlabShape
  <2>1. /\ pool[Home] = {table} \cup Slabs /\ table \in DOMAIN heap
        /\ \A i \in 0 .. size - 1 :
             /\ slot[i] \in Blocks /\ slot[i] # table
             /\ slot[i] \in DOMAIN heap /\ heap[slot[i]] = SlabSize(i)
        /\ \A i, j \in 0 .. size - 1 : slot[i] = slot[j] => i = j
    BY DEF IInv, SlabShape
  <2>2. \A i \in 0 .. size' - 1 : i \in 0 .. size - 1 /\ ~(i \in size' .. size - 1)
    BY <1>2, <1>8
  <2>3. \A i \in size' .. size - 1 : i \in 0 .. size - 1 BY <1>2, <1>8
  <2>4. \A i \in 0 .. size - 1 : i \in 0 .. size' - 1 \/ i \in size' .. size - 1
    BY <1>2, <1>8
  <2>5. \A i \in 0 .. size' - 1 : slot[i] \notin gone BY <1>8, <2>1, <2>2, <2>3
  <2>6. table \notin gone BY <1>8, <2>1, <2>3
  <2>7. pool'[Home] = {table'} \cup Slabs'
    <3>1. Slabs' = {slot[i] : i \in 0 .. size' - 1} BY <1>1 DEF Slabs
    <3>2. Slabs \ gone = {slot[i] : i \in 0 .. size' - 1}
      <4>1. Slabs = {slot[i] : i \in 0 .. size - 1} BY DEF Slabs
      <4>2. ASSUME NEW x \in Slabs \ gone PROVE x \in {slot[i] : i \in 0 .. size' - 1}
        <5>1. PICK i \in 0 .. size - 1 : x = slot[i] BY <4>1
        <5>2. i \in 0 .. size' - 1 BY <1>8, <2>4, <5>1
        <5> QED BY <5>1, <5>2
      <4>3. ASSUME NEW i \in 0 .. size' - 1 PROVE slot[i] \in Slabs \ gone
        BY <2>2, <2>5, <4>1
      <4> QED BY <4>2, <4>3
    <3> QED BY <1>1, <1>6, <2>1, <2>6, <3>1, <3>2
  <2>8. \A b \in pool[Home] : \A k \in 1 .. MaxDepth : b \notin ctx[k].large
    BY DEF IInv, Ownership
  <2>9. \A i \in 0 .. size - 1 : slot[i] \in pool[Home] BY <2>1 DEF Slabs
  <2>10. ASSUME NEW i \in 0 .. size' - 1
         PROVE  /\ slot'[i] \in Blocks /\ slot'[i] # table'
                /\ slot'[i] \in DOMAIN heap' /\ heap'[slot'[i]] = SlabSize(i)
    <3>1. i \in 0 .. size - 1 /\ slot[i] \notin gone /\ slot'[i] = slot[i] /\ table' = table
      BY <1>1, <2>2, <2>5
    <3>2. slot[i] \notin c.large BY <1>2, <2>8, <2>9, <3>1
    <3> QED BY <1>5, <2>1, <3>1, <3>2
  <2>11. table' \in DOMAIN heap' BY <1>1, <1>2, <1>5, <2>1, <2>6, <2>8
  <2>12. \A i, j \in 0 .. size' - 1 : slot'[i] = slot'[j] => i = j
    BY <1>1, <2>1, <2>2
  <2> QED BY <2>7, <2>10, <2>11, <2>12 DEF SlabShape
<1>12. Ownership'
  <2>1. \A k \in 1 .. MaxDepth : ctx'[k].large \subseteq ctx[k].large
    BY <1>4 DEF NoContext
  <2>2. ctx'[depth].large = {} BY <1>4 DEF NoContext
  <2>3. \A k \in 1 .. MaxDepth : ctx'[k].large \cap c.large = {}
    BY <1>2, <2>1, <2>2 DEF IInv, Ownership
  <2>4. \A k \in 1 .. MaxDepth : ctx'[k].large \cap gone = {}
    BY <1>6, <2>1 DEF IInv, Ownership
  <2>5. /\ pool'[Home] \subseteq DOMAIN heap'
        /\ pool'[Foreign] \subseteq DOMAIN heap' \ pool'[Home]
    BY <1>2, <1>5, <1>6 DEF IInv, Ownership
  <2>6. \A k \in 1 .. MaxDepth :
          ctx'[k].large \subseteq DOMAIN heap' \ (pool'[Home] \cup pool'[Foreign])
    BY <1>5, <1>6, <2>1, <2>3, <2>4 DEF IInv, Ownership
  <2>7. held' \subseteq DOMAIN heap' \ (pool'[Home] \cup pool'[Foreign])
    BY <1>1, <1>2, <1>5, <1>6, ZenonT(60) DEF IInv, Ownership
  <2> QED BY <1>1, <2>1, <2>5, <2>6, <2>7 DEF IInv, Ownership
<1>13. ContextShape'
  <2>1. \A k \in 1 .. MaxDepth : k > depth' => ctx'[k] = NoContext
    <3>1. \A k \in 1 .. MaxDepth : k > depth' => k = depth \/ k > depth
      BY <1>1, <1>2
    <3> QED BY <1>4, <3>1 DEF IInv, ContextShape
  <2>2. \A k \in 1 .. depth' : /\ k \in 1 .. depth /\ k < depth /\ k # depth
                               /\ k \in 1 .. MaxDepth /\ depth \in 1 .. depth
    BY <1>1, <1>2, ArenaAssumption
  <2>3. \A k \in 1 .. depth' : ctx'[k] = ctx[k] /\ ctx[k] \in Context
    BY <1>2, <1>4, <2>2
  <2>4. ASSUME NEW k \in 1 .. depth'
        PROVE  /\ ctx'[k].ptr = NullPtr => ctx'[k].idx = 0
               /\ ctx'[k].ptr # NullPtr =>
                    /\ capacity' > 0 /\ ctx'[k].idx < size'
                    /\ ctx'[k].ptr.b = slot'[ctx'[k].idx]
                    /\ ctx'[k].ptr.o \in 0 .. SlabSize(ctx'[k].idx)
                    /\ Aligned(ctx'[k].ptr.o)
               /\ ctx'[k].idx < idx' \/ (ctx'[k].idx = idx' /\ ctx'[k].ptr.o <= cur'.o)
    <3>1. /\ ctx'[k] = ctx[k] /\ ctx[k].idx \in Nat /\ ctx[k].ptr.o \in Int
          /\ k \in 1 .. depth /\ k < depth /\ depth \in 1 .. depth
      BY <2>2, <2>3 DEF Context, Ptr
    <3>2. ctx[k].idx < c.idx \/ (ctx[k].idx = c.idx /\ ctx[k].ptr.o <= c.ptr.o)
      BY <3>1 DEF IInv, ContextShape
    <3>3. CASE capacity = 0
      <4>1. cur'.o = c.ptr.o /\ idx' = c.idx BY <1>1, <1>9, <3>3
      <4> QED BY <1>1, <3>1, <3>2, <3>3, <4>1 DEF IInv, ContextShape
    <3>4. CASE capacity # 0
      <4>1. cur'.o = c.ptr.o /\ idx' = c.idx /\ c.idx < size' /\ size' \in Nat /\ capacity > 0
        BY <1>1, <1>2, <1>7, <1>8, <3>4, SMTT(60)
      <4>2. ctx[k].idx < size' BY <1>2, <3>1, <3>2, <4>1
      <4> QED BY <1>1, <3>1, <3>2, <4>1, <4>2 DEF IInv, ContextShape
    <3> QED BY <3>3, <3>4
  <2>5. \A j, k \in 1 .. depth' :
          j < k => \/ ctx'[j].idx < ctx'[k].idx
                   \/ ctx'[j].idx = ctx'[k].idx /\ ctx'[j].ptr.o <= ctx'[k].ptr.o
    BY <2>2, <2>3 DEF IInv, ContextShape
  <2> QED BY <2>1, <2>4, <2>5 DEF ContextShape
<1>14. PayloadShape'
  <2>1. PayloadsDisjoint' BY <1>1 DEF IInv, PayloadShape, PayloadsDisjoint
  <2>2. ASSUME NEW a \in live'
        PROVE  /\ a.depth \in 1 .. depth'
               /\ a.slot < size' /\ a.b = slot'[a.slot]
               /\ 0 <= a.lo /\ a.lo + a.n <= SlabSize(a.slot)
               /\ EndsBefore(a, idx', cur'.o)
               /\ \A k \in a.depth + 1 .. depth' : EndsBefore(a, ctx'[k].idx, ctx'[k].ptr.o)
    <3>1. /\ a \in live /\ a.depth < depth /\ a.depth \in 1 .. depth
          /\ a.slot < size /\ a.b = slot[a.slot]
          /\ 0 <= a.lo /\ a.lo + a.n <= SlabSize(a.slot)
          /\ \A k \in a.depth + 1 .. depth : EndsBefore(a, ctx[k].idx, ctx[k].ptr.o)
          /\ a.slot \in Nat
      BY <1>1 DEF IInv, PayloadShape, TypeOK, Payload
    <3>2. capacity > 0 BY <1>2, <1>9, <3>1
    <3>3. EndsBefore(a, c.idx, c.ptr.o) BY <1>2, <3>1
    <3>4. EndsBefore(a, idx', cur'.o) BY <1>1, <1>7, <3>2, <3>3 DEF EndsBefore
    <3>5. a.slot < size' BY <1>2, <1>8, <3>1, <3>2, <3>3 DEF EndsBefore
    <3>6. \A k \in a.depth + 1 .. depth' :
            k \in a.depth + 1 .. depth /\ k # depth /\ k \in 1 .. MaxDepth
      BY <1>1, <1>2, <3>1, ArenaAssumption, SMTT(60)
    <3>7. \A k \in a.depth + 1 .. depth' : EndsBefore(a, ctx'[k].idx, ctx'[k].ptr.o)
      BY <1>4, <3>1, <3>6
    <3> QED BY <1>1, <1>2, <3>1, <3>4, <3>5, <3>7
  <2> QED BY <2>1, <2>2 DEF PayloadShape
<1>15. TypeOK'
  <2>1. DOMAIN heap' \subseteq Blocks /\ \A b \in DOMAIN heap' : heap'[b] \in Nat
    BY <1>5 DEF IInv, TypeOK
  <2>2. cur' \in Ptr /\ end' \in Ptr /\ size' \in Nat
    <3>1. CASE capacity = 0 BY <1>1, <1>2, <1>9, <3>1 DEF IInv, TypeOK
    <3>2. CASE capacity # 0
      <4>1. capacity > 0 BY <1>2, <3>2
      <4>2. slot[c.idx] \in Blocks /\ SlabSize(c.idx) \in Int
        BY <1>2, <1>7, <4>1 DEF IInv, SlabShape
      <4> QED BY <1>1, <1>7, <1>8, <4>1, <4>2 DEF IInv, TypeOK, Ptr
    <3> QED BY <3>1, <3>2
  <2>3. idx' \in Nat /\ depth' \in 0 .. MaxDepth BY <1>1, <1>2, ArenaAssumption
  <2>4. live' \subseteq Payload /\ shadow' \subseteq (Blocks \X Int)
    BY DEF Close, IInv, TypeOK
  <2> QED BY <1>1, <1>4, <1>6, <2>1, <2>2, <2>3, <2>4 DEF IInv, TypeOK
<1> QED BY <1>10, <1>11, <1>12, <1>13, <1>14, <1>15 DEF IInv

-----------------------------------------------------------------------------
(* The inductive invariant holds, and what follows from it. *)

LEMMA InitInv == Init => IInv
<1> SUFFICES ASSUME Init PROVE IInv OBVIOUS
<1> USE ArenaAssumption
<1>1. NullPtr \in Ptr /\ NoContext \in Context
  BY DEF NullPtr, Ptr, NoContext, Context
<1>2. TypeOK BY <1>1 DEF Init, TypeOK
<1>3. ArenaShape /\ SlabShape BY DEF Init, ArenaShape, SlabShape, Pools
<1>4. Ownership BY DEF Init, Ownership, Pools, NoContext
<1>5. ContextShape BY DEF Init, ContextShape
<1>6. PayloadShape BY DEF Init, PayloadShape, PayloadsDisjoint
<1> QED BY <1>2, <1>3, <1>4, <1>5, <1>6 DEF IInv

LEMMA StepInv ==
  ASSUME SizesFit, IInv, [Next]_vars
  PROVE  IInv'
<1>1. CASE Next
  BY <1>1, OpenInv, AllocateInv, LargeAllocateInv, WeakLargeInv, CloseInv, ForeignInv DEF Next
<1>2. CASE UNCHANGED vars
  BY <1>2, SMTT(60) DEF vars, arenaVars, IInv, TypeOK, ArenaShape, SlabShape, Slabs, Ownership,
              ContextShape, PayloadShape, PayloadsDisjoint, EndsBefore
<1> QED BY <1>1, <1>2

(* IInv is an invariant of every arena whose callers respect SizesFit. *)
THEOREM Invariant == ASSUME SizesFit PROVE Spec => []IInv
<1>1. IInv /\ [Next]_vars => IInv' BY StepInv
<1> QED BY InitInv, <1>1, PTL DEF Spec

LEMMA InvPayloads == IInv => PayloadsInSlabs /\ PayloadsDisjoint
<1> SUFFICES ASSUME IInv PROVE PayloadsInSlabs /\ PayloadsDisjoint OBVIOUS
<1>1. PayloadsDisjoint BY DEF IInv, PayloadShape
<1>2. ASSUME NEW a \in live
      PROVE  /\ a.slot < size /\ slot[a.slot] = a.b /\ a.b \in DOMAIN heap
             /\ 0 <= a.lo /\ a.lo + a.n <= heap[a.b]
  <2>1. /\ a.slot < size /\ a.b = slot[a.slot] /\ a.slot \in Nat /\ size \in Nat
        /\ 0 <= a.lo /\ a.lo + a.n <= SlabSize(a.slot)
    BY <1>2 DEF IInv, PayloadShape, TypeOK, Payload
  <2>2. capacity > 0 BY <1>2 DEF IInv, ArenaShape, TypeOK
  <2>3. a.slot \in 0 .. size - 1 BY <2>1
  <2> QED BY <2>1, <2>2, <2>3 DEF IInv, SlabShape
<1> QED BY <1>1, <1>2 DEF PayloadsInSlabs

LEMMA InvPool == IInv => PoolAccounted /\ OneSpareSlab
<1> SUFFICES ASSUME IInv PROVE PoolAccounted /\ OneSpareSlab OBVIOUS
<1>1. CASE capacity = 0
  BY <1>1 DEF IInv, ArenaShape, Ownership, PoolAccounted, OneSpareSlab, Spare
<1>2. CASE capacity # 0
  <2>1. capacity > 0 BY <1>2 DEF IInv, TypeOK
  <2> QED
    BY <2>1 DEF IInv, ArenaShape, SlabShape, Ownership, PoolAccounted, OneSpareSlab
<1> QED BY <1>1, <1>2

LEMMA InvContexts == IInv => ContextsValid
<1> SUFFICES ASSUME IInv, NEW k \in 1 .. depth
             PROVE  LET c == ctx[k] IN
                    /\ c.ptr # NullPtr =>
                         c.idx < size /\ slot[c.idx] = c.ptr.b /\ c.ptr.o <= SlabSize(c.idx)
                    /\ c.ptr = NullPtr => c.idx = 0
                    /\ \A a \in live :
                         a.depth < k => a.slot < c.idx \/ (a.slot = c.idx /\ a.lo + a.n <= c.ptr.o)
  BY DEF ContextsValid
<1>1. \A a \in live : a.depth < k =>
        a.slot < ctx[k].idx \/ (a.slot = ctx[k].idx /\ a.lo + a.n <= ctx[k].ptr.o)
  <2> SUFFICES ASSUME NEW a \in live, a.depth < k
               PROVE  EndsBefore(a, ctx[k].idx, ctx[k].ptr.o)
    BY DEF EndsBefore
  <2>1. a.depth \in 1 .. depth /\ depth \in Nat
    BY ArenaAssumption DEF IInv, PayloadShape, TypeOK
  <2>2. k \in a.depth + 1 .. depth BY <2>1
  <2> QED BY <2>2 DEF IInv, PayloadShape
<1> QED BY <1>1 DEF IInv, ContextShape

(* No trim, table move, rewind or foreign teardown frees or outgrows a slab *)
(* payload that an owner still holds (_small_reallocate, _small_deallocate). *)
THEOREM PayloadsStayInSlabs == ASSUME SizesFit PROVE Spec => []PayloadsInSlabs
BY Invariant, InvPayloads, PTL

(* Payloads in use never overlap. *)
THEOREM PayloadsStayDisjoint == ASSUME SizesFit PROVE Spec => []PayloadsDisjoint
BY Invariant, InvPayloads, PTL

(* The arena's pool holds its table and its reachable slabs, nothing else. *)
THEOREM PoolStaysAccounted == ASSUME SizesFit PROVE Spec => []PoolAccounted
<1>1. IInv => PoolAccounted BY InvPool
<1> QED BY Invariant, <1>1, PTL

(* However scopes nest and close, at most one slab is kept in reserve. *)
THEOREM SpareStaysSingle == ASSUME SizesFit PROVE Spec => []OneSpareSlab
<1>1. IInv => OneSpareSlab BY InvPool
<1> QED BY Invariant, <1>1, PTL

(* The position an open owner will rewind to is valid and above everything *)
(* older owners hold. *)
THEOREM ContextsStayValid == ASSUME SizesFit PROVE Spec => []ContextsValid
BY Invariant, InvContexts, PTL

(* Type correctness of the arena. *)
THEOREM TypeCorrect == ASSUME SizesFit PROVE Spec => []TypeOK
<1>1. IInv => TypeOK BY DEF IInv
<1> QED BY Invariant, <1>1, PTL

-----------------------------------------------------------------------------
(* The unpoisoned bytes. *)

(* The bytes of a payload. *)
Bytes(a) == {<<a.b, x>> : x \in a.lo .. a.lo + a.n - 1}

LEMMA ShadowIs ==
  ShadowExact <=> (Redzone > 0 => shadow = UNION {Bytes(a) : a \in live})
BY DEF ShadowExact, Bytes

LEMMA BumpShadow ==
  ASSUME IInv, ShadowInv, NEW n, NEW p, NEW i, Bump(p, i, n), depth > 0, ctx' = ctx,
         p.o \in Int, i \in Nat, i = idx + 1 \/ (i = idx /\ cur.o <= p.o)
  PROVE  ShadowInv'
<1> DEFINE a0 == [slot |-> i, b |-> p.b, lo |-> p.o, n |-> n, depth |-> depth]
<1>1. live' = live \cup {a0} BY DEF Bump
<1>2. ShadowExact'
  <2>1. UNION {Bytes(a) : a \in live'} = (UNION {Bytes(a) : a \in live}) \cup Bytes(a0)
    BY <1>1
  <2>2. Redzone > 0 => shadow' = shadow \cup Bytes(a0) BY DEF Bump, Bytes
  <2>3. Redzone > 0 => shadow = UNION {Bytes(a) : a \in live}
    BY ShadowIs DEF ShadowInv
  <2> QED BY <2>1, <2>2, <2>3 DEF ShadowExact, Bytes
<1>3. BeginsBehind(a0, ctx[depth].idx, ctx[depth].ptr.o)
  <2>1. depth \in 1 .. depth /\ depth \in 1 .. MaxDepth
    BY ArenaAssumption DEF IInv, TypeOK
  <2>2. ctx[depth].idx \in Nat /\ ctx[depth].ptr.o \in Int /\ idx \in Nat /\ cur.o \in Int
    BY <2>1 DEF IInv, TypeOK, Context, Ptr
  <2>3. ctx[depth].idx < idx \/ (ctx[depth].idx = idx /\ ctx[depth].ptr.o <= cur.o)
    BY <2>1 DEF IInv, ContextShape
  <2> QED BY <2>2, <2>3 DEF BeginsBehind
<1> QED BY <1>1, <1>2, <1>3 DEF ShadowInv

LEMMA SmallPathShadow ==
  ASSUME IInv, ShadowInv, NEW n, NEW m, depth > 0, SmallPath(n, m)
  PROVE  ShadowInv'
<1>1. cur.o \in Int /\ idx \in Nat /\ size \in Nat BY DEF IInv, TypeOK, Ptr
<1>2. CASE BumpInSlab(n)
  <2>1. Bump(cur, idx, n) /\ ctx' = ctx BY <1>2 DEF BumpInSlab
  <2> QED BY <2>1, <1>1, BumpShadow
<1>3. CASE FirstSlab(n, m)
  <2>1. idx = 0 /\ cur.o = 0 BY <1>3 DEF FirstSlab, IInv, ArenaShape, NullPtr
  <2>2. PICK s \in Blocks : Bump([b |-> s, o |-> 0], 0, n) BY <1>3 DEF FirstSlab
  <2>3. ctx' = ctx BY <1>3 DEF FirstSlab
  <2> QED BY <2>1, <2>2, <2>3, BumpShadow
<1>4. CASE CachedSlab(n)
  <2>1. Bump([b |-> slot[idx + 1], o |-> 0], idx + 1, n) /\ ctx' = ctx
    BY <1>4 DEF CachedSlab
  <2> QED BY <2>1, <1>1, BumpShadow
<1>5. CASE NewSlab(n, m)
  <2>1. PICK s \in Blocks : Bump([b |-> s, o |-> 0], size, n)
    BY <1>5 DEF NewSlab
  <2>2. ctx' = ctx /\ size = idx + 1 BY <1>5 DEF NewSlab
  <2> QED BY <2>1, <2>2, <1>1, BumpShadow
<1> QED BY <1>2, <1>3, <1>4, <1>5 DEF SmallPath

(* A rewind poisons the payloads of the owner that goes, and no others. *)
LEMMA CloseShadow ==
  ASSUME IInv, ShadowInv, Close
  PROVE  ShadowInv'
<1> DEFINE c    == ctx[depth]
           base == Restored(c)
           gone == Trimmed(c.idx)
           bad  == Poisoned(base, c.idx)
<1>1. /\ live' = {a \in live : a.depth < depth}
      /\ ctx' = [ctx EXCEPT ![depth] = NoContext]
      /\ Redzone > 0 /\ cur # NullPtr => shadow' = {s \in shadow \ bad : s[1] \notin gone}
      /\ Redzone > 0 /\ cur = NullPtr => shadow' = shadow
  BY DEF Close
<1>2. depth \in 1 .. MaxDepth /\ depth \in 1 .. depth /\ depth \in Nat
  BY ArenaAssumption DEF Close, IInv, TypeOK
<1>3. c.idx \in Nat /\ c.ptr.o \in Int /\ idx \in Nat /\ size \in Nat /\ cur.o \in Int
  BY <1>2 DEF IInv, TypeOK, Context, Ptr
<1>4. \A a \in live : /\ a.slot \in Nat /\ a.lo \in Int /\ a.n \in Nat /\ a.depth \in Nat
                      /\ a.depth \in 1 .. depth /\ a.slot < size /\ a.b = slot[a.slot]
                      /\ 0 <= a.lo /\ a.lo + a.n <= SlabSize(a.slot)
                      /\ EndsBefore(a, idx, cur.o)
                      /\ \A k \in a.depth + 1 .. depth : EndsBefore(a, ctx[k].idx, ctx[k].ptr.o)
                      /\ BeginsBehind(a, ctx[a.depth].idx, ctx[a.depth].ptr.o)
  BY DEF IInv, PayloadShape, TypeOK, Payload, ShadowInv
<1>5. \A a \in live' : BeginsBehind(a, ctx'[a.depth].idx, ctx'[a.depth].ptr.o)
  <2> SUFFICES ASSUME NEW a \in live, a.depth < depth
               PROVE  BeginsBehind(a, ctx'[a.depth].idx, ctx'[a.depth].ptr.o)
    BY <1>1
  <2>1. ctx'[a.depth] = ctx[a.depth] BY <1>1, <1>2, <1>4 DEF IInv, TypeOK
  <2> QED BY <2>1, <1>4
<1>6. CASE ~(Redzone > 0) BY <1>5, <1>6 DEF ShadowInv, ShadowExact
<1>7. CASE Redzone > 0 /\ live = {}
  <2>1. shadow = {} BY <1>7, ShadowIs DEF ShadowInv
  <2>2. shadow' = {} /\ live' = {} BY <2>1, <1>1, <1>7
  <2> QED BY <2>2 DEF ShadowInv, ShadowExact
<1>8. CASE Redzone > 0 /\ live # {}
  <2>0. capacity > 0 BY <1>8 DEF IInv, ArenaShape, TypeOK
  <2>1. /\ \A i, j \in 0 .. size - 1 : slot[i] = slot[j] => i = j
        /\ idx < size /\ slot[idx] \in Blocks /\ cur.b = slot[idx]
        /\ first = [b |-> slot[0], o |-> 0] /\ cur.o <= SlabSize(idx)
    BY <2>0, <1>3 DEF IInv, SlabShape, ArenaShape
  <2>2. cur # NullPtr BY <2>1, ArenaAssumption DEF NullPtr
  <2>3. c.idx < idx \/ (c.idx = idx /\ c.ptr.o <= cur.o)
    BY <1>2 DEF IInv, ContextShape
  <2>4. base.b = slot[c.idx] /\ base.o = c.ptr.o
    BY <1>2, <2>1 DEF IInv, ContextShape, Restored, NullPtr
  <2>5. \A a \in live : a.depth = depth => \A s \in Bytes(a) : s \in bad
    <3> SUFFICES ASSUME NEW a \in live, a.depth = depth, NEW x \in a.lo .. a.lo + a.n - 1
                 PROVE  <<a.b, x>> \in bad
      BY DEF Bytes
    <3>1. /\ a.slot \in Nat /\ a.lo \in Int /\ a.n \in Nat /\ x \in Int /\ a.b = slot[a.slot]
          /\ a.lo <= x /\ x < a.lo + a.n /\ 0 <= x /\ a.lo + a.n <= SlabSize(a.slot)
          /\ a.slot < size
      BY <1>4
    <3>2. a.slot < idx \/ (a.slot = idx /\ x < cur.o)
      BY <3>1, <1>3, <1>4 DEF EndsBefore
    <3>3. a.slot > c.idx \/ (a.slot = c.idx /\ base.o <= x)
      BY <3>1, <1>3, <1>4, <2>4 DEF BeginsBehind
    <3>4. SlabSize(a.slot) \in Int
      <4>1. a.slot \in 0 .. MaxIdx
        BY <3>1, <2>0, <1>3, ArenaAssumption DEF IInv, ArenaShape
      <4> QED BY <4>1, SlabFacts
    <3>5. CASE c.idx = idx
      <4>1. a.slot = idx /\ x \in base.o .. cur.o - 1
        BY <3>1, <3>2, <3>3, <3>5, <1>3, <2>4
      <4> QED BY <4>1, <3>1, <3>5, <2>4 DEF Poisoned
    <3>6. CASE c.idx # idx /\ a.slot = idx
      <4>1. x \in 0 .. cur.o - 1 BY <3>1, <3>2, <3>6, <1>3
      <4> QED BY <4>1, <3>1, <3>6 DEF Poisoned
    <3>7. CASE c.idx # idx /\ a.slot = c.idx
      <4>1. x \in base.o .. SlabSize(c.idx) - 1
        BY <3>1, <3>3, <3>4, <3>7, <1>3, <2>4
      <4> QED BY <4>1, <3>1, <3>7, <2>4 DEF Poisoned
    <3>8. CASE c.idx # idx /\ a.slot # idx /\ a.slot # c.idx
      <4>1. a.slot \in c.idx + 1 .. idx - 1 /\ x \in 0 .. SlabSize(a.slot) - 1
        BY <3>1, <3>2, <3>3, <3>4, <3>8, <1>3
      <4>2. <<a.b, x>> \in {<<slot[a.slot], y>> : y \in 0 .. SlabSize(a.slot) - 1}
        BY <4>1, <3>1
      <4>3. <<a.b, x>> \in UNION {{<<slot[i], y>> : y \in 0 .. SlabSize(i) - 1} : i \in c.idx + 1 .. idx - 1}
        BY <4>1, <4>2
      <4> QED BY <4>3, <3>8 DEF Poisoned
    <3> QED BY <3>5, <3>6, <3>7, <3>8
  <2>6. \A a \in live : a.depth < depth => \A s \in Bytes(a) : s \notin bad /\ s[1] \notin gone
    <3> SUFFICES ASSUME NEW a \in live, a.depth < depth, NEW x \in a.lo .. a.lo + a.n - 1
                 PROVE  <<a.b, x>> \notin bad /\ a.b \notin gone
      BY DEF Bytes
    <3>1. /\ a.slot \in Nat /\ a.lo \in Int /\ a.n \in Nat /\ x \in Int /\ a.b = slot[a.slot]
          /\ a.lo <= x /\ x < a.lo + a.n /\ a.slot \in 0 .. size - 1
      BY <1>3, <1>4
    <3>2. a.slot < c.idx \/ (a.slot = c.idx /\ x < base.o)
      <4>1. depth \in a.depth + 1 .. depth BY <1>2, <1>4
      <4>2. EndsBefore(a, c.idx, c.ptr.o) BY <4>1, <1>4
      <4> QED BY <4>2, <3>1, <1>3, <2>4 DEF EndsBefore
    <3>3. \A j \in 0 .. size - 1 : a.b = slot[j] => j = a.slot BY <3>1, <2>1
    <3>4. a.b \notin gone
      <4> SUFFICES ASSUME NEW j \in c.idx + Spare .. size - 1 PROVE a.b # slot[j]
        BY DEF Trimmed
      <4>1. j \in 0 .. size - 1 /\ j # a.slot BY <3>1, <3>2, <1>3 DEF Spare
      <4> QED BY <4>1, <3>3
    <3>5. c.idx \in 0 .. size - 1 /\ idx \in 0 .. size - 1 BY <1>3, <2>1, <2>3
    <3>6. <<a.b, x>> \notin {<<base.b, y>> : y \in base.o .. cur.o - 1}
      BY <3>1, <3>2, <3>3, <3>5, <1>3, <2>4
    <3>7. <<a.b, x>> \notin {<<base.b, y>> : y \in base.o .. SlabSize(c.idx) - 1}
      BY <3>1, <3>2, <3>3, <3>5, <1>3, <2>4
    <3>8. ASSUME c.idx # idx PROVE <<a.b, x>> \notin {<<slot[idx], y>> : y \in 0 .. cur.o - 1}
      BY <3>1, <3>2, <3>3, <3>5, <3>8, <1>3, <2>3
    <3>9. <<a.b, x>> \notin UNION {{<<slot[i], y>> : y \in 0 .. SlabSize(i) - 1} : i \in c.idx + 1 .. idx - 1}
      <4> SUFFICES ASSUME NEW i \in c.idx + 1 .. idx - 1 PROVE a.b # slot[i]
        OBVIOUS
      <4>1. i \in 0 .. size - 1 /\ i # a.slot BY <3>1, <3>2, <3>5, <1>3
      <4> QED BY <4>1, <3>3
    <3> QED BY <3>4, <3>6, <3>7, <3>8, <3>9 DEF Poisoned
  <2>7. shadow = UNION {Bytes(a) : a \in live} /\ shadow' = {s \in shadow \ bad : s[1] \notin gone}
    BY <1>1, <1>8, <2>2, ShadowIs DEF ShadowInv
  <2> HIDE DEF bad, gone
  <2>8. shadow' = UNION {Bytes(a) : a \in live'}
    <3>1. \A a \in live : a.depth < depth \/ a.depth = depth BY <1>2, <1>4
    <3> QED BY <1>1, <2>5, <2>6, <2>7, <3>1
  <2> QED BY <2>8, <1>5 DEF ShadowInv, ShadowExact, Bytes
<1> QED BY <1>6, <1>7, <1>8

LEMMA StepShadow ==
  ASSUME IInv, ShadowInv, [Next]_vars
  PROVE  ShadowInv'
<1>0. /\ \A a \in live : a.depth \in 1 .. depth
      /\ depth \in 0 .. MaxDepth /\ MaxDepth \in Nat /\ ctx \in [1 .. MaxDepth -> Context]
  BY ArenaAssumption DEF IInv, PayloadShape, TypeOK
<1>1. ASSUME UNCHANGED <<live, shadow>>,
             \A k \in 1 .. depth : ctx'[k].idx = ctx[k].idx /\ ctx'[k].ptr = ctx[k].ptr
      PROVE  ShadowInv'
  BY <1>0, <1>1 DEF ShadowInv, ShadowExact, BeginsBehind
<1>2. CASE Open
  <2>1. \A k \in 1 .. depth : ctx'[k] = ctx[k] BY <1>0, <1>2 DEF Open
  <2> QED BY <2>1, <1>1, <1>2 DEF Open
<1>3. CASE \E n \in Sizes, m \in Pools : Allocate(n, m) \/ WeakAllocate(n, m)
  BY <1>3, SmallPathShadow DEF Allocate, WeakAllocate
<1>4. CASE \E k \in 1 .. depth, n \in Sizes : LargeAllocate(k, n)
  <2>1. PICK k \in 1 .. depth, b \in Blocks : ctx' = [ctx EXCEPT ![k].large = @ \cup {b}]
    BY <1>4 DEF LargeAllocate
  <2>2. \A j \in 1 .. depth : ctx'[j].idx = ctx[j].idx /\ ctx'[j].ptr = ctx[j].ptr
    BY <1>0, <2>1 DEF Context
  <2> QED BY <2>2, <1>1, <1>4 DEF LargeAllocate
<1>5. CASE \/ \E n \in Sizes : WeakLargeAllocate(n)
           \/ \E b \in held : WeakDeallocate(b)
           \/ ForeignRefill \/ ForeignTeardown \/ UNCHANGED vars
  BY <1>1, <1>5 DEF WeakLargeAllocate, WeakDeallocate, ForeignRefill, ForeignTeardown, vars
<1> QED BY <1>2, <1>3, <1>4, <1>5, CloseShadow DEF Next

(* Under AddressSanitizer exactly the payloads in use are not poisoned: no *)
(* rewind leaves a byte of a released payload usable or poisons one of an *)
(* older owner (_poison_small, _allocate_impl). *)
THEOREM ShadowStaysExact == ASSUME SizesFit PROVE Spec => []ShadowExact
<1>1. Init => ShadowInv BY DEF Init, ShadowInv, ShadowExact
<1>2. IInv /\ ShadowInv /\ [Next]_vars => ShadowInv' BY StepShadow
<1>3. ShadowInv => ShadowExact BY DEF ShadowInv
<1> QED BY Invariant, <1>1, <1>2, <1>3, PTL DEF Spec

(* Without red zones SizesFit asks no more than that requests be not empty: *)
(* the theorems hold of the ordinary build for requests of any size. *)
THEOREM OrdinaryBuild ==
  ASSUME Redzone = 0, \A n \in Sizes : n > 0
  PROVE  SizesFit
<1>1. /\ Threshold \in Nat /\ MinCache \in Nat
      /\ (IF MinCache > Threshold THEN MinCache ELSE Threshold) \in Nat
  BY ArenaAssumption
<1>2. CacheSize \in Nat /\ Threshold <= CacheSize
  BY <1>1, AlignUpFacts DEF CacheSize
<1>3. \A n \in Sizes : n \in Nat BY ArenaAssumption
<1> QED BY <1>1, <1>2, <1>3 DEF SizesFit, Step

-----------------------------------------------------------------------------
(* The arena implements RegionStack: every step pushes or pops a region, *)
(* adds one extent that is disjoint from all in use, or is invisible to the *)
(* owners (pool, weak and foreign steps). *)

Large(k) == {[b |-> b, lo |-> Header, n |-> heap[b] - Header] : b \in ctx[k].large}
Small(k) == {[b |-> a.b, lo |-> a.lo, n |-> a.n] : a \in {x \in live : x.depth = k}}

LEMMA RegionsParts ==
  /\ Regions = [k \in 1 .. MaxDepth |-> Small(k) \cup Large(k)]
  /\ Regions' = [k \in 1 .. MaxDepth |-> Small(k)' \cup Large(k)']
BY DEF Regions, Small, Large

(* The large blocks of a scope look the same as long as the scope keeps its *)
(* list and the heap its sizes. *)
LEMMA LargeSame ==
  ASSUME NEW k, ctx'[k].large = ctx[k].large, \A b \in ctx[k].large : heap'[b] = heap[b]
  PROVE  Large(k)' = Large(k)
BY DEF Large

LEMMA RegionsUnchanged ==
  ASSUME live' = live, depth' = depth,
         \A k \in 1 .. MaxDepth : ctx'[k].large = ctx[k].large,
         \A k \in 1 .. MaxDepth : \A b \in ctx[k].large : heap'[b] = heap[b]
  PROVE  UNCHANGED <<depth, Regions>>
<1>1. \A k \in 1 .. MaxDepth : Large(k)' = Large(k) /\ Small(k)' = Small(k)
  BY LargeSame DEF Small
<1> QED BY <1>1, RegionsParts

(* What any owner has in use lies in a live block, and is a payload of the *)
(* slabs or a large block. *)
LEMMA InUseParts ==
  ASSUME IInv, NEW y \in Scopes!InUse
  PROVE  \/ \E a \in live : y = [b |-> a.b, lo |-> a.lo, n |-> a.n]
         \/ \E k \in 1 .. depth : y.b \in ctx[k].large
<1>1. PICK k \in 1 .. depth : y \in Regions[k] BY DEF Scopes!InUse
<1>2. k \in 1 .. MaxDepth BY ArenaAssumption DEF IInv, TypeOK
<1>3. y \in Small(k) \cup Large(k) BY <1>1, <1>2, RegionsParts
<1> QED BY <1>3 DEF Small, Large

LEMMA SmallPathAdds ==
  ASSUME IInv, IInv', NEW n, NEW m, depth > 0, SmallPath(n, m)
  PROVE  [Scopes!Next]_<<depth, Regions>>
<1>1. PICK p, i : Bump(p, i, n)
  BY DEF SmallPath, BumpInSlab, FirstSlab, CachedSlab, NewSlab
<1>2. ctx' = ctx /\ depth' = depth
  BY DEF SmallPath, BumpInSlab, FirstSlab, CachedSlab, NewSlab
<1>0. PICK d \in 1 .. MaxDepth : d = depth /\ d \in 1 .. depth /\ d \in Nat
  BY ArenaAssumption DEF IInv, TypeOK
<1> DEFINE a0 == [slot |-> i, b |-> p.b, lo |-> p.o, n |-> n, depth |-> depth]
           x0 == [b |-> p.b, lo |-> p.o, n |-> n]
<1>3. live' = live \cup {a0} BY <1>1 DEF Bump
<1>4. \A b \in DOMAIN heap \ pool[Home] : b \in DOMAIN heap' => heap'[b] = heap[b]
  <2>1. CASE BumpInSlab(n) \/ CachedSlab(n) BY <2>1 DEF BumpInSlab, CachedSlab
  <2>2. CASE FirstSlab(n, m)
    <3>1. PICK t, s \in Blocks :
            /\ Free(t) /\ Free(s)
            /\ heap' = HeapWith([b \in {t, s} |-> IF b = t THEN TableGrow ELSE CacheSize])
      BY <2>2 DEF FirstSlab
    <3> QED BY <3>1, HeapFacts DEF IInv, Free
  <2>3. CASE NewSlab(n, m)
    <3>1. PICK s \in Blocks :
            /\ Free(s)
            /\ \/ heap' = HeapWith([b \in {s} |-> SlabSize(size)])
               \/ \E t \in Blocks :
                    /\ Free(t)
                    /\ heap' = [b \in (DOMAIN heap \ {table}) \cup {t, s} |->
                                  IF b = t THEN capacity + TableGrow
                                  ELSE IF b = s THEN SlabSize(size) ELSE heap[b]]
      BY <2>3 DEF NewSlab
    <3>2. CASE heap' = HeapWith([b \in {s} |-> SlabSize(size)])
      BY <3>1, <3>2, HeapFacts, ZenonT(60) DEF IInv, Free
    <3>3. CASE \E t \in Blocks :
                 /\ Free(t)
                 /\ heap' = [b \in (DOMAIN heap \ {table}) \cup {t, s} |->
                               IF b = t THEN capacity + TableGrow
                               ELSE IF b = s THEN SlabSize(size) ELSE heap[b]]
      BY <3>1, <3>3 DEF Free
    <3> QED BY <3>1, <3>2, <3>3
  <2> QED BY <2>1, <2>2, <2>3 DEF SmallPath
<1>5. \A k \in 1 .. MaxDepth : \A b \in ctx[k].large : heap'[b] = heap[b]
  BY <1>2, <1>4 DEF IInv, Ownership
<1>6. \A k \in 1 .. MaxDepth : Large(k)' = Large(k) BY <1>2, <1>5, LargeSame
<1>7. CASE a0 \in live
  <2>1. live' = live BY <1>3, <1>7
  <2> QED BY <1>2, <1>5, <2>1, RegionsUnchanged
<1>8. CASE a0 \notin live
  <2>1. Small(d)' = Small(d) \cup {x0}
    <3>1. \A a : a \in live' /\ a.depth = d <=> (a \in live /\ a.depth = d) \/ a = a0
      BY <1>0, <1>3
    <3>2. x0 = [b |-> a0.b, lo |-> a0.lo, n |-> a0.n] /\ a0.depth = d BY <1>0
    <3>3. ASSUME NEW x \in Small(d)' PROVE x \in Small(d) \cup {x0}
      <4>1. PICK a \in live' : a.depth = d /\ x = [b |-> a.b, lo |-> a.lo, n |-> a.n]
        BY DEF Small
      <4> QED BY <3>1, <3>2, <4>1 DEF Small
    <3>4. ASSUME NEW x \in Small(d) \cup {x0} PROVE x \in Small(d)'
      <4>1. PICK a \in live' : a.depth = d /\ x = [b |-> a.b, lo |-> a.lo, n |-> a.n]
        BY <3>1, <3>2 DEF Small
      <4> QED BY <4>1 DEF Small
    <3> QED BY <3>3, <3>4
  <2>2. \A k \in 1 .. MaxDepth : k # d => Small(k)' = Small(k)
    BY <1>0, <1>3 DEF Small
  <2>3. Regions' = [Regions EXCEPT ![d] = @ \cup {x0}]
    <3>1. \A k \in 1 .. MaxDepth :
            Small(k)' \cup Large(k)' =
              IF k = d THEN (Small(k) \cup Large(k)) \cup {x0} ELSE Small(k) \cup Large(k)
      BY <1>6, <2>1, <2>2
    <3> QED BY <1>0, <3>1, RegionsParts
  <2>4. p.b \in pool'[Home]
    <3>1. /\ a0 \in live' /\ a0.slot < size' /\ a0.b = slot'[a0.slot] /\ a0.slot \in Nat
          /\ size' \in Nat
      BY <1>3 DEF IInv, PayloadShape, TypeOK, Payload
    <3>2. capacity' > 0
      <4>1. live' # {} /\ capacity' \in Nat BY <1>3 DEF IInv, TypeOK
      <4> QED BY <4>1 DEF IInv, ArenaShape
    <3>3. a0.slot \in 0 .. size' - 1 BY <3>1
    <3> QED BY <3>1, <3>2, <3>3 DEF IInv, SlabShape, Slabs
  <2>5. ASSUME NEW y \in Scopes!InUse
        PROVE  Scopes!Disjoint(x0, y)
    <3>1. CASE \E a \in live : y = [b |-> a.b, lo |-> a.lo, n |-> a.n]
      <4>1. PICK a \in live : y = [b |-> a.b, lo |-> a.lo, n |-> a.n] BY <3>1
      <4>2. a \in live' /\ a0 \in live' /\ a0 # a BY <1>3, <1>8
      <4>3. a0.b # a.b \/ a0.lo + a0.n <= a.lo \/ a.lo + a.n <= a0.lo
        BY <4>2 DEF IInv, PayloadShape, PayloadsDisjoint
      <4> QED BY <4>1, <4>3 DEF Scopes!Disjoint
    <3>2. CASE \E k \in 1 .. depth : y.b \in ctx[k].large
      <4>1. y.b \notin pool'[Home]
        <5>1. PICK k \in 1 .. depth : y.b \in ctx'[k].large BY <1>2, <3>2
        <5>2. k \in 1 .. MaxDepth BY <1>0, ArenaAssumption
        <5> QED BY <5>1, <5>2 DEF IInv, Ownership
      <4> QED BY <2>4, <4>1 DEF Scopes!Disjoint
    <3> QED BY <3>1, <3>2, InUseParts
  <2>6. x0 \in Regions'[d] BY <1>0, <2>3, RegionsParts
  <2>7. Scopes!Add(d, x0) BY <1>2, <2>3, <2>5 DEF Scopes!Add
  <2> QED BY <1>0, <2>6, <2>7 DEF Scopes!Next
<1> QED BY <1>7, <1>8

LEMMA LargeAllocateAdds ==
  ASSUME IInv, NEW k \in 1 .. depth, NEW n \in Sizes, LargeAllocate(k, n)
  PROVE  Scopes!Next
<1>1. PICK b \in Blocks :
        /\ b \notin DOMAIN heap
        /\ heap' = HeapWith([x \in {b} |-> n + Header])
        /\ ctx' = [ctx EXCEPT ![k].large = @ \cup {b}]
  BY DEF LargeAllocate, Free
<1>2. live' = live /\ depth' = depth BY DEF LargeAllocate
<1>3. heap'[b] = n + Header /\ \A x \in DOMAIN heap : heap'[x] = heap[x]
  BY <1>1, HeapFacts, ZenonT(60) DEF IInv
<1>4. k \in 1 .. MaxDepth /\ ctx \in [1 .. MaxDepth -> Context]
  BY ArenaAssumption DEF IInv, TypeOK
<1> DEFINE x0 == [b |-> b, lo |-> Header, n |-> n]
<1>5. /\ ctx'[k].large = ctx[k].large \cup {b}
      /\ \A j \in 1 .. MaxDepth : j # k => ctx'[j] = ctx[j]
  BY <1>1, <1>4 DEF Context
<1>6. \A j \in 1 .. MaxDepth : \A x \in ctx[j].large : heap'[x] = heap[x] /\ x # b
  BY <1>1, <1>3 DEF IInv, Ownership
<1>7. Large(k)' = Large(k) \cup {x0}
  <2>1. [b |-> b, lo |-> Header, n |-> heap'[b] - Header] = x0
    <3>1. PICK h \in Nat : h = n + Header BY ArenaAssumption
    <3>2. heap'[b] = h BY <1>3, <3>1
    <3>3. h - Header = n BY <3>1, ArenaAssumption
    <3> QED BY <3>2, <3>3
  <2> QED BY <1>4, <1>5, <1>6, <2>1 DEF Large
<1>8. \A j \in 1 .. MaxDepth : j # k => Large(j)' = Large(j)
  BY <1>5, <1>6, LargeSame
<1>9. \A j \in 1 .. MaxDepth : Small(j)' = Small(j) BY <1>2 DEF Small
<1>10. Regions' = [Regions EXCEPT ![k] = @ \cup {x0}]
  BY <1>4, <1>7, <1>8, <1>9, RegionsParts, ZenonT(60)
<1>11. ASSUME NEW y \in Scopes!InUse
       PROVE  Scopes!Disjoint(x0, y)
  <2>1. y.b \in DOMAIN heap
    <3>1. CASE \E a \in live : y = [b |-> a.b, lo |-> a.lo, n |-> a.n]
      BY <3>1, InvPayloads DEF PayloadsInSlabs
    <3>2. CASE \E j \in 1 .. depth : y.b \in ctx[j].large
      BY <3>2, ArenaAssumption DEF IInv, Ownership, TypeOK
    <3> QED BY <3>1, <3>2, InUseParts
  <2> QED BY <1>1, <2>1 DEF Scopes!Disjoint
<1>12. Scopes!Add(k, x0) BY <1>2, <1>10, <1>11 DEF Scopes!Add
<1>13. x0 \in Regions'[k] BY <1>4, <1>10, RegionsParts
<1> QED BY <1>12, <1>13 DEF Scopes!Next

LEMMA ClosePops ==
  ASSUME IInv, Close
  PROVE  Scopes!Pop
<1> DEFINE c    == ctx[depth]
           gone == Trimmed(c.idx)
<1>1. /\ depth > 0 /\ depth' = depth - 1 /\ depth \in 1 .. MaxDepth
      /\ live' = {a \in live : a.depth < depth}
      /\ ctx' = [ctx EXCEPT ![depth] = NoContext]
      /\ heap' = HeapWithout(gone \cup c.large)
  BY ArenaAssumption DEF Close, IInv, TypeOK
<1>2. gone \subseteq pool[Home]
  <2>1. CASE size = 0
    <3>1. ~(size - c.idx > Spare)
      <4>1. c.idx \in Nat BY <1>1 DEF IInv, TypeOK, Context
      <4> QED BY <2>1, <4>1 DEF Spare
    <3> QED BY <3>1 DEF Trimmed
  <2>2. CASE size # 0
    <3>1. capacity > 0 /\ c.idx \in Nat /\ size \in Nat
      BY <1>1, <2>2 DEF IInv, ArenaShape, TypeOK, Context
    <3>2. \A j \in c.idx + Spare .. size - 1 : j \in 0 .. size - 1
      BY <3>1 DEF Spare
    <3> QED BY <3>1, <3>2 DEF IInv, SlabShape, Slabs, Trimmed
  <2> QED BY <2>1, <2>2
<1>3. ASSUME NEW k \in 1 .. MaxDepth, k # depth
      PROVE  Large(k)' = Large(k)
  <2>1. ctx'[k] = ctx[k] BY <1>1, <1>3 DEF IInv, TypeOK
  <2>2. ctx[k].large \subseteq DOMAIN heap \ (gone \cup c.large)
    BY <1>1, <1>2, <1>3 DEF IInv, Ownership
  <2>3. \A b \in ctx[k].large : heap'[b] = heap[b]
    BY <1>1, <2>2, HeapFacts DEF IInv
  <2> QED BY <2>1, <2>3, LargeSame
<1>4. \A a \in live : a.depth \in 1 .. depth BY DEF IInv, PayloadShape
<1>5. ASSUME NEW k \in 1 .. MaxDepth, k # depth
      PROVE  Small(k)' = Small(k)
  <2>1. \A a \in live : a.depth = k => a.depth < depth
    BY <1>1, <1>4, <1>5, ArenaAssumption
  <2> QED BY <1>1, <2>1 DEF Small
<1>6. PICK d \in 1 .. MaxDepth : d = depth BY <1>1
<1>7. Small(d)' = {} BY <1>1, <1>6, ArenaAssumption DEF Small
<1>8. Large(d)' = {}
  <2>1. ctx'[d].large = {} BY <1>1, <1>6 DEF IInv, TypeOK, NoContext
  <2> QED BY <2>1 DEF Large
<1>9. Regions' = [Regions EXCEPT ![d] = {}]
  BY <1>3, <1>5, <1>6, <1>7, <1>8, RegionsParts
<1> QED BY <1>1, <1>6, <1>9 DEF Scopes!Pop

LEMMA AsideStutters ==
  ASSUME IInv,
         \/ \E n \in Sizes : WeakLargeAllocate(n)
         \/ \E b \in held : WeakDeallocate(b)
         \/ ForeignRefill \/ ForeignTeardown
  PROVE  UNCHANGED <<depth, Regions>>
<1>1. live' = live /\ depth' = depth /\ ctx' = ctx
  BY DEF WeakLargeAllocate, WeakDeallocate, ForeignRefill, ForeignTeardown
<1>2. \A b \in DOMAIN heap \ (held \cup pool[Foreign]) : heap'[b] = heap[b]
  <2>1. CASE \E n \in Sizes : WeakLargeAllocate(n)
    <3>1. PICK n \in Sizes, b \in Blocks : Free(b) /\ heap' = HeapWith([x \in {b} |-> n])
      BY <2>1 DEF WeakLargeAllocate
    <3> QED BY <3>1, HeapFacts DEF IInv, Free
  <2>2. CASE \E b \in held : WeakDeallocate(b)
    <3>1. PICK b \in held : heap' = HeapWithout({b}) BY <2>2 DEF WeakDeallocate
    <3> QED BY <3>1, HeapFacts DEF IInv
  <2>3. CASE ForeignRefill
    <3>1. PICK b \in Blocks : Free(b) /\ heap' = HeapWith([x \in {b} |-> CacheSize])
      BY <2>3 DEF ForeignRefill
    <3> QED BY <3>1, HeapFacts DEF IInv, Free
  <2>4. CASE ForeignTeardown
    BY <2>4, HeapFacts, ZenonT(60) DEF IInv, ForeignTeardown
  <2> QED BY <2>1, <2>2, <2>3, <2>4
<1>3. \A k \in 1 .. MaxDepth : \A b \in ctx[k].large : heap'[b] = heap[b]
  BY <1>2 DEF IInv, Ownership
<1> QED BY <1>1, <1>3, RegionsUnchanged

LEMMA StepRefines ==
  ASSUME IInv, IInv', [Next]_vars
  PROVE  [Scopes!Next]_<<depth, Regions>>
<1>1. CASE Open
  <2>1. /\ live' = live /\ heap' = heap /\ depth' = depth + 1 /\ depth < MaxDepth
        /\ ctx' = [ctx EXCEPT ![depth + 1] = [ptr |-> cur, idx |-> idx, large |-> {}]]
    BY <1>1 DEF Open
  <2>2. \A k \in 1 .. MaxDepth : ctx'[k].large = ctx[k].large
    <3>1. depth + 1 \in 1 .. MaxDepth /\ depth + 1 > depth
      BY <2>1, ArenaAssumption DEF IInv, TypeOK
    <3>2. ctx[depth + 1].large = {} BY <3>1 DEF IInv, ContextShape, NoContext
    <3> QED BY <2>1, <3>1, <3>2 DEF IInv, TypeOK
  <2>3. \A k \in 1 .. MaxDepth : Large(k)' = Large(k) /\ Small(k)' = Small(k)
    BY <2>1, <2>2, LargeSame DEF Small
  <2>4. Regions' = Regions BY <2>3, RegionsParts
  <2> QED BY <2>1, <2>4 DEF Scopes!Next, Scopes!Push
<1>2. CASE \E n \in Sizes, m \in Pools : Allocate(n, m) \/ WeakAllocate(n, m)
  BY <1>2, SmallPathAdds DEF Allocate, WeakAllocate
<1>3. CASE \E k \in 1 .. depth, n \in Sizes : LargeAllocate(k, n)
  BY <1>3, LargeAllocateAdds
<1>4. CASE Close BY <1>4, ClosePops DEF Scopes!Next
<1>5. CASE \/ \E n \in Sizes : WeakLargeAllocate(n)
           \/ \E b \in held : WeakDeallocate(b)
           \/ ForeignRefill \/ ForeignTeardown
  BY <1>5, AsideStutters
<1>6. CASE UNCHANGED vars
  <2>1. live' = live /\ depth' = depth /\ ctx' = ctx /\ heap' = heap
    BY <1>6 DEF vars
  <2> QED BY <2>1, RegionsUnchanged
<1> QED BY <1>1, <1>2, <1>3, <1>4, <1>5, <1>6 DEF Next

(* The arena of stack_allocator.hpp is a stack of regions: what an owner *)
(* allocates is disjoint from everything in use, and stays in use, in place, *)
(* until exactly the owner it belongs to is destroyed. *)
THEOREM Refinement == ASSUME SizesFit PROVE Spec => IsRegionStack
<1>1. Init => Scopes!Init BY DEF Init, Scopes!Init, Regions, NoContext
<1>2. IInv /\ IInv' /\ [Next]_vars => [Scopes!Next]_<<depth, Regions>>
  BY StepRefines
<1> QED BY <1>1, <1>2, Invariant, PTL DEF Spec, IsRegionStack, Scopes!Spec
=============================================================================
