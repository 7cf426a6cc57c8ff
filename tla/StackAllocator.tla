--------------------------- MODULE StackAllocator ---------------------------
(***************************************************************************)
(* The thread-bound scratch arena of include/wjr/memory/stack_allocator.hpp *)
(* and src/memory/stack_allocator.cpp: one stack_allocator_object, the     *)
(* nested unique_stack_allocator owners ("scopes") that borrow it, the     *)
(* weak_stack_allocator allocations made through them, and the             *)
(* automatic_free_pool of each module that may run the code.               *)
(*                                                                         *)
(* Addresses are pairs of a heap block and a byte offset.  A block is what *)
(* one call of the default allocation function returns, without the pool's *)
(* own chunk header; malloc is external and may hand out any block that is *)
(* not live, also one that was freed before.                               *)
(***************************************************************************)
EXTENDS Integers, FiniteSets

CONSTANTS
  Blocks,      \* the blocks malloc can hand out
  NULL,        \* the null pointer's block
  Home,        \* the pool of the module the arena was constant-initialized in
  Foreign,     \* the pool of another module that runs code on the same arena
  Align,       \* mem::default_new_alignment
  Threshold,   \* stack_allocator_threshold
  MinCache,    \* the 16_KB floor of the first slab
  Redzone,     \* asan_small_redzone_size: 0, or Align under AddressSanitizer
  Header,      \* aligned_header_size of a large allocation
  TableGrow,   \* capacity_grow
  Sizes,       \* the request sizes, in bytes
  MaxDepth,    \* bound: owners alive at once
  MaxIdx       \* bound: highest slab index in use

Pools == {Home, Foreign}

(* align_up(n, Align). *)
AlignUp(n) == ((n + Align - 1) \div Align) * Align

(* stack_allocator_cache_size. *)
CacheSize == AlignUp(IF MinCache > Threshold THEN MinCache ELSE Threshold)

(* Capacity of slab i: stack_allocator_cache_size << ((2 * i + 3) / 5). *)
SlabSize(i) == CacheSize * 2^((2 * i + 3) \div 5)

(* The constants make sense as the code's own.  The last conjunct is what a *)
(* slab must offer to the largest request that is sent to the slab path. *)
ASSUME ArenaAssumption ==
  /\ Home # Foreign
  /\ NULL \notin Blocks
  /\ Align \in Nat \ {0}
  /\ Threshold \in Nat \ {0} /\ MinCache \in Nat
  /\ Redzone \in Nat /\ Header \in Nat /\ TableGrow \in Nat \ {0}
  /\ MaxDepth \in Nat /\ MaxIdx \in Nat
  /\ Sizes \subseteq Nat

(* What the shift that scales the slabs evaluates to. *)
ASSUME SlabAssumption ==
  /\ \A i \in 0 .. MaxIdx : 2^((2 * i + 3) \div 5) \in Nat \ {0}
  /\ 2^((2 * 0 + 3) \div 5) = 1

Ptr == [b : Blocks \cup {NULL}, o : Int]
NullPtr == [b |-> NULL, o |-> 0]

(* A stack_context: the saved cursor and slab index, and the list of large *)
(* blocks its owner allocated (m_prev). *)
Context == [ptr : Ptr, idx : Nat, large : SUBSET Blocks]
NoContext == [ptr |-> NullPtr, idx |-> 0, large |-> {}]

(* A payload handed to a user: n bytes at offset lo of slab number slot, *)
(* made while depth owners were alive. *)
Payload == [slot : Nat, b : Blocks \cup {NULL}, lo : Int, n : Nat, depth : Nat]

VARIABLES
  heap,      \* live blocks of the process -> their size in bytes
  pool,      \* the chunks linked into each module's automatic_free_pool
  cur, end,  \* m_cache.ptr, m_cache.end
  idx, size, capacity,
  table,     \* the block that holds the array m_ptr
  slot,      \* m_ptr[0 .. capacity-1], the slab of each index
  first,     \* m_first
  depth,     \* number of owners alive
  ctx,       \* their contexts, oldest first
  live,      \* ghost: slab payloads no owner has released yet
  held,      \* large blocks owned by weak_stack_allocator containers
  shadow     \* AddressSanitizer: slab bytes that are not poisoned

arenaVars == <<cur, end, idx, size, capacity, table, slot, first>>
vars == <<heap, pool, arenaVars, depth, ctx, live, held, shadow>>

TypeOK ==
  /\ DOMAIN heap \subseteq Blocks
  /\ \A b \in DOMAIN heap : heap[b] \in Nat
  /\ pool \in [Pools -> SUBSET Blocks]
  /\ cur \in Ptr /\ end \in Ptr /\ first \in Ptr
  /\ idx \in Nat /\ size \in Nat /\ capacity \in Nat
  /\ table \in Blocks \cup {NULL}
  /\ slot \in [0 .. capacity - 1 -> Blocks \cup {NULL}]
  /\ depth \in 0 .. MaxDepth
  /\ ctx \in [1 .. MaxDepth -> Context]
  /\ live \subseteq Payload
  /\ held \subseteq Blocks
  /\ shadow \subseteq (Blocks \X Int)

Init ==
  /\ heap = [b \in {} |-> 0]
  /\ pool = [p \in Pools |-> {}]
  /\ cur = NullPtr /\ end = NullPtr /\ first = NullPtr
  /\ idx = 0 /\ size = 0 /\ capacity = 0
  /\ table = NULL
  /\ slot = [i \in 0 .. -1 |-> NULL]
  /\ depth = 0
  /\ ctx = [k \in 1 .. MaxDepth |-> NoContext]
  /\ live = {} /\ held = {} /\ shadow = {}

-----------------------------------------------------------------------------
(* The pools and the C++ heap. *)

Free(b) == b \in Blocks \ DOMAIN heap

HeapWith(new) ==
  [b \in DOMAIN heap \cup DOMAIN new |-> IF b \in DOMAIN new THEN new[b] ELSE heap[b]]

HeapWithout(gone) == [b \in DOMAIN heap \ gone |-> heap[b]]

(* Mutant: the slab goes to the pool of the module that runs the code, as it *)
(* did before the arena carried its provider. *)
ProviderOfCaller(m) == m

(* The pool m_pool_provider() resolves to when module m runs the growth path. *)
Provider(m) == Home

-----------------------------------------------------------------------------
(* Bump allocation. *)

Step(n) == n + Redzone

(* size_t(m_cache.end - m_cache.ptr) >= step: a cursor beyond the end wraps *)
(* to a huge unsigned difference. *)
Fits(n) == LET room == end.o - cur.o IN room < 0 \/ Step(n) <= room

(* The payload at p is handed out and the cursor moves behind it. *)
Bump(p, i, n) ==
  /\ cur' = [b |-> p.b, o |-> p.o + AlignUp(Step(n))]
  /\ live' = live \cup {[slot |-> i, b |-> p.b, lo |-> p.o, n |-> n, depth |-> depth]}
  /\ shadow' = IF Redzone > 0
                 THEN shadow \cup {<<p.b, x>> : x \in p.o .. p.o + n - 1}
                 ELSE shadow

(* The common path of _allocate_impl: room in the current slab. *)
BumpInSlab(n) ==
  /\ Fits(n)
  /\ Bump(cur, idx, n)
  /\ UNCHANGED <<heap, pool, end, idx, size, capacity, table, slot, first, depth, ctx, held>>

(* _small_reallocate in its initial state: the slab table and slab 0. *)
FirstSlab(n, m) ==
  /\ ~Fits(n)
  /\ capacity = 0
  /\ \E t, s \in Blocks :
       /\ Free(t) /\ Free(s) /\ t # s
       /\ heap' = HeapWith([b \in {t, s} |-> IF b = t THEN TableGrow ELSE CacheSize])
       /\ pool' = [pool EXCEPT ![Provider(m)] = @ \cup {t, s}]
       /\ table' = t
       /\ capacity' = TableGrow
       /\ size' = 1
       /\ slot' = [i \in 0 .. TableGrow - 1 |-> IF i = 0 THEN s ELSE NULL]
       /\ end' = [b |-> s, o |-> CacheSize]
       /\ first' = [b |-> s, o |-> 0]
       /\ Bump([b |-> s, o |-> 0], 0, n)
  /\ UNCHANGED <<idx, depth, ctx, held>>

(* _small_reallocate with a cached slab above the current one. *)
CachedSlab(n) ==
  /\ ~Fits(n)
  /\ capacity > 0
  /\ idx + 1 < size
  /\ idx' = idx + 1
  /\ end' = [b |-> slot[idx + 1], o |-> SlabSize(idx + 1)]
  /\ Bump([b |-> slot[idx + 1], o |-> 0], idx + 1, n)
  /\ UNCHANGED <<heap, pool, size, capacity, table, slot, first, depth, ctx, held>>

(* Mutant: m_capacity is not updated after the table has moved. *)
NewSlabKeepsCapacity(n, m) ==
  /\ ~Fits(n) /\ capacity > 0 /\ idx + 1 = size /\ idx < MaxIdx
  /\ \E s \in Blocks :
       /\ Free(s)
       /\ slot' = [i \in 0 .. capacity + TableGrow - 1 |->
                     IF i <= idx THEN slot[i] ELSE IF i = size THEN s ELSE NULL]
       /\ heap' = HeapWith([b \in {s} |-> SlabSize(size)])
       /\ pool' = [pool EXCEPT ![Provider(m)] = @ \cup {s}]
       /\ end' = [b |-> s, o |-> SlabSize(size)]
       /\ Bump([b |-> s, o |-> 0], size, n)
  /\ idx' = idx + 1 /\ size' = size + 1
  /\ UNCHANGED <<table, capacity, first, depth, ctx, held>>

(* _small_reallocate with no cached slab: a new one, linked into the *)
(* provider's pool; the table is moved to a larger chunk when it is full. *)
NewSlab(n, m) ==
  /\ ~Fits(n)
  /\ capacity > 0
  /\ idx + 1 = size
  /\ idx < MaxIdx
  /\ \E s \in Blocks :
       /\ Free(s)
       /\ IF size < capacity
            THEN /\ slot' = [slot EXCEPT ![size] = s]
                 /\ heap' = HeapWith([b \in {s} |-> SlabSize(size)])
                 /\ pool' = [pool EXCEPT ![Provider(m)] = @ \cup {s}]
                 /\ UNCHANGED <<table, capacity>>
            ELSE \E t \in Blocks :
                 /\ Free(t) /\ t # s
                 /\ table' = t
                 /\ capacity' = capacity + TableGrow
                 /\ slot' = [i \in 0 .. capacity + TableGrow - 1 |->
                               IF i <= idx THEN slot[i] ELSE IF i = size THEN s ELSE NULL]
                 /\ heap' = [b \in (DOMAIN heap \ {table}) \cup {t, s} |->
                               IF b = t THEN capacity + TableGrow
                               ELSE IF b = s THEN SlabSize(size) ELSE heap[b]]
                 /\ pool' = [p \in Pools |->
                               (pool[p] \ {table}) \cup (IF p = Provider(m) THEN {t, s} ELSE {})]
       /\ end' = [b |-> s, o |-> SlabSize(size)]
       /\ Bump([b |-> s, o |-> 0], size, n)
  /\ idx' = idx + 1
  /\ size' = size + 1
  /\ UNCHANGED <<first, depth, ctx, held>>

SmallPath(n, m) == BumpInSlab(n) \/ FirstSlab(n, m) \/ CachedSlab(n) \/ NewSlab(n, m)

-----------------------------------------------------------------------------
(* Owners. *)

(* unique_stack_allocator's constructor, or make_scope() of a live owner. *)
Open ==
  /\ depth < MaxDepth
  /\ depth' = depth + 1
  /\ ctx' = [ctx EXCEPT ![depth + 1] = [ptr |-> cur, idx |-> idx, large |-> {}]]
  /\ UNCHANGED <<heap, pool, arenaVars, live, held, shadow>>

(* unique_stack_allocator::allocate on the slab path. *)
Allocate(n, m) ==
  /\ depth > 0
  /\ Fits(n) \/ Step(n) < Threshold
  /\ SmallPath(n, m)

(* _large_allocate for owner k: a request that does not fit and reaches the *)
(* threshold, or one whose size the compiler knows to reach it. *)
LargeAllocate(k, n) ==
  /\ n >= Threshold \/ (~Fits(n) /\ Step(n) >= Threshold)
  /\ \E b \in Blocks :
       /\ Free(b)
       /\ heap' = HeapWith([x \in {b} |-> n + Header])
       /\ ctx' = [ctx EXCEPT ![k].large = @ \cup {b}]
  /\ UNCHANGED <<pool, arenaVars, depth, live, held, shadow>>

(* weak_stack_allocator::allocate below the threshold: _small_allocate. *)
WeakAllocate(n, m) ==
  /\ depth > 0
  /\ n < Threshold
  /\ SmallPath(n, m)

(* weak_stack_allocator::allocate from the threshold on: aligned new. *)
WeakLargeAllocate(n) ==
  /\ depth > 0
  /\ n >= Threshold
  /\ \E b \in Blocks :
       /\ Free(b)
       /\ heap' = HeapWith([x \in {b} |-> n])
       /\ held' = held \cup {b}
  /\ UNCHANGED <<pool, arenaVars, depth, ctx, live, shadow>>

(* weak_stack_allocator::deallocate from the threshold on; below it, it *)
(* does nothing and the payload lives until its owner rewinds. *)
WeakDeallocate(b) ==
  /\ heap' = HeapWithout({b})
  /\ held' = held \ {b}
  /\ UNCHANGED <<pool, arenaVars, depth, ctx, live, shadow>>

-----------------------------------------------------------------------------
(* Rewinding. *)

(* Mutant: the slab right above the restored one is left out. *)
PoisonedSkipsSlab(base, old) ==
  IF old = idx
    THEN {<<base.b, x>> : x \in base.o .. cur.o - 1}
    ELSE {<<slot[idx], x>> : x \in 0 .. cur.o - 1}
         \cup (UNION {{<<slot[i], x>> : x \in 0 .. SlabSize(i) - 1} : i \in old + 2 .. idx - 1})
         \cup {<<base.b, x>> : x \in base.o .. SlabSize(old) - 1}

(* The bytes _poison_small(context) poisons, where the context's cursor is *)
(* restored to base at slab old: the tail of slab old, the slabs between, *)
(* and the used part of the current slab. *)
Poisoned(base, old) ==
  IF old = idx
    THEN {<<base.b, x>> : x \in base.o .. cur.o - 1}
    ELSE {<<slot[idx], x>> : x \in 0 .. cur.o - 1}
         \cup (UNION {{<<slot[i], x>> : x \in 0 .. SlabSize(i) - 1} : i \in old + 1 .. idx - 1})
         \cup {<<base.b, x>> : x \in base.o .. SlabSize(old) - 1}

(* bufsize - 1: how many slabs from the restored index on survive a trim. *)
Spare == 2

(* Mutants: the loop starts one slab early; the trim waits for one slab more. *)
TrimmedTakesSpare(i) ==
  IF i # idx /\ size - i > Spare THEN {slot[j] : j \in i + Spare - 1 .. size - 1} ELSE {}
TrimmedTooLate(i) ==
  IF i # idx /\ size - i > Spare + 1 THEN {slot[j] : j \in i + Spare .. size - 1} ELSE {}

(* The slabs _small_redeallocate gives back to their pool after a rewind to *)
(* slab i; a rewind within one slab trims nothing. *)
Trimmed(i) ==
  IF i # idx /\ size - i > Spare THEN {slot[j] : j \in i + Spare .. size - 1} ELSE {}

(* Mutants: the slab index is restored but not the offset in it; the case of *)
(* an owner opened before the first slab existed is forgotten. *)
RestoredToSlabStart(c) == IF c.ptr = NullPtr THEN first ELSE [c.ptr EXCEPT !.o = 0]
RestoredToNull(c) == c.ptr

(* Where _small_deallocate puts the cursor. *)
Restored(c) == IF c.ptr = NullPtr THEN first ELSE c.ptr

(* ~unique_stack_allocator of the youngest owner: the slab cursor returns *)
(* to where the owner found it and its large blocks are freed. *)
Close ==
  /\ depth > 0
  /\ LET c    == ctx[depth]
         base == Restored(c)
         gone == Trimmed(c.idx)
     IN  /\ cur' = base
         /\ idx' = c.idx
         /\ end' = IF c.idx = idx THEN end ELSE [b |-> slot[c.idx], o |-> SlabSize(c.idx)]
         /\ size' = IF gone = {} THEN size ELSE c.idx + Spare
         /\ pool' = [p \in Pools |-> pool[p] \ gone]
         /\ heap' = HeapWithout(gone \cup c.large)
         /\ shadow' = IF Redzone > 0 /\ cur # NullPtr
                        THEN {s \in shadow \ Poisoned(base, c.idx) : s[1] \notin gone}
                        ELSE shadow
  /\ live' = {a \in live : a.depth < depth}
  /\ ctx' = [ctx EXCEPT ![depth] = NoContext]
  /\ depth' = depth - 1
  /\ UNCHANGED <<capacity, table, slot, first, held>>

-----------------------------------------------------------------------------
(* The foreign module's pool, which its own arena fills and its teardown *)
(* (automatic_free_pool::clear or the destructor) empties. *)

ForeignRefill ==
  /\ \E b \in Blocks :
       /\ Free(b)
       /\ heap' = HeapWith([x \in {b} |-> CacheSize])
       /\ pool' = [pool EXCEPT ![Foreign] = @ \cup {b}]
  /\ UNCHANGED <<arenaVars, depth, ctx, live, held, shadow>>

ForeignTeardown ==
  /\ pool[Foreign] # {}
  /\ heap' = HeapWithout(pool[Foreign])
  /\ pool' = [pool EXCEPT ![Foreign] = {}]
  /\ UNCHANGED <<arenaVars, depth, ctx, live, held, shadow>>

-----------------------------------------------------------------------------
Next ==
  \/ Open
  \/ \E n \in Sizes, m \in Pools : Allocate(n, m)
  \/ \E k \in 1 .. depth, n \in Sizes : LargeAllocate(k, n)
  \/ \E n \in Sizes, m \in Pools : WeakAllocate(n, m)
  \/ \E n \in Sizes : WeakLargeAllocate(n)
  \/ \E b \in held : WeakDeallocate(b)
  \/ Close
  \/ ForeignRefill
  \/ ForeignTeardown

Spec == Init /\ [][Next]_vars

-----------------------------------------------------------------------------
(* Safety. *)

Slabs == {slot[i] : i \in 0 .. size - 1}

(* Every payload an owner has not released yet lies inside a slab that is *)
(* still in the arena, of live memory: no trim, table growth, rewind or *)
(* teardown of a foreign pool frees or outgrows what a user still holds. *)
PayloadsInSlabs ==
  \A a \in live :
    /\ a.slot < size /\ slot[a.slot] = a.b
    /\ a.b \in DOMAIN heap
    /\ 0 <= a.lo /\ a.lo + a.n <= heap[a.b]

(* Two payloads in use never share a byte, whichever owners made them and *)
(* however often the slabs under them were rewound, trimmed and refilled. *)
PayloadsDisjoint ==
  \A x, y \in live :
    x # y => x.b # y.b \/ x.lo + x.n <= y.lo \/ y.lo + y.n <= x.lo

(* The chunks of the arena's pool are exactly its table and the slabs it *)
(* can still reach, all live: growth and trimming neither leak a chunk *)
(* until thread exit nor leave a freed one in the table. *)
PoolAccounted ==
  /\ pool[Home] = IF capacity = 0 THEN {} ELSE {table} \cup Slabs
  /\ pool[Home] \subseteq DOMAIN heap

(* What an open owner saved stays usable: its slab is still in the table, *)
(* its cursor is inside it, and no payload of an older owner reaches past *)
(* it, so that rewinding to it cannot expose memory still in use. *)
ContextsValid ==
  \A k \in 1 .. depth :
    LET c == ctx[k] IN
    /\ c.ptr # NullPtr => c.idx < size /\ slot[c.idx] = c.ptr.b /\ c.ptr.o <= SlabSize(c.idx)
    /\ c.ptr = NullPtr => c.idx = 0
    /\ \A a \in live :
         a.depth < k => a.slot < c.idx \/ (a.slot = c.idx /\ a.lo + a.n <= c.ptr.o)

(* At most one slab above the current one is cached. *)
OneSpareSlab == size <= idx + Spare

(* A request is served from a slab: the assumption _allocate_impl states *)
(* (WJR_ASSUME(m_cache.ptr != nullptr)) right before it hands out m_cache.ptr. *)
CursorAssumed == \A a \in live : a.b # NULL

(* Under AddressSanitizer the unpoisoned bytes of the slabs are exactly the *)
(* payloads in use: an access to a released payload, or past the end of a *)
(* live one, is reported, and an access inside a live one is not. *)
ShadowExact ==
  Redzone > 0 =>
    shadow = UNION {{<<a.b, x>> : x \in a.lo .. a.lo + a.n - 1} : a \in live}

(* The user's view of the arena, for the refinement of RegionStack: owner *)
(* k's region holds the slab payloads made while it was the youngest and *)
(* the large blocks allocated through it. *)
Regions ==
  [k \in 1 .. MaxDepth |->
     {[b |-> a.b, lo |-> a.lo, n |-> a.n] : a \in {x \in live : x.depth = k}}
     \cup {[b |-> b, lo |-> Header, n |-> heap[b] - Header] : b \in ctx[k].large}]

Scopes == INSTANCE RegionStack
            WITH height <- depth, region <- Regions

(* The arena is a stack of regions. *)
IsRegionStack == Scopes!Spec
-----------------------------------------------------------------------------
(* The inductive invariant behind the safety properties.  A position in the *)
(* arena is a slab index and an offset, ordered lexicographically. *)

Aligned(x) == \E q \in 0 .. x : x = q * Align

(* A payload that ends at or before position <<i, o>>. *)
EndsBefore(a, i, o) == a.slot < i \/ (a.slot = i /\ a.lo + a.n <= o)

ArenaShape ==
  IF capacity = 0
    THEN /\ cur = NullPtr /\ end = NullPtr /\ first = NullPtr
         /\ idx = 0 /\ size = 0 /\ live = {} /\ pool[Home] = {}
    ELSE /\ idx < size /\ size <= capacity
         /\ size <= idx + Spare /\ size <= MaxIdx + 1
         /\ cur.b = slot[idx] /\ cur.o \in 0 .. SlabSize(idx) /\ Aligned(cur.o)
         /\ end = [b |-> slot[idx], o |-> SlabSize(idx)]
         /\ first = [b |-> slot[0], o |-> 0]

SlabShape ==
  capacity > 0 =>
    /\ pool[Home] = {table} \cup Slabs
    /\ \A i \in 0 .. size - 1 :
         /\ slot[i] \in Blocks /\ slot[i] # table
         /\ slot[i] \in DOMAIN heap /\ heap[slot[i]] = SlabSize(i)
    /\ \A i, j \in 0 .. size - 1 : slot[i] = slot[j] => i = j
    /\ table \in DOMAIN heap

(* Every live block has one owner. *)
Ownership ==
  /\ pool[Home] \subseteq DOMAIN heap
  /\ pool[Foreign] \subseteq DOMAIN heap \ pool[Home]
  /\ \A k \in 1 .. MaxDepth :
       ctx[k].large \subseteq DOMAIN heap \ (pool[Home] \cup pool[Foreign])
  /\ \A j, k \in 1 .. MaxDepth : j # k => ctx[j].large \cap ctx[k].large = {}
  /\ held \subseteq DOMAIN heap \ (pool[Home] \cup pool[Foreign])
  /\ \A k \in 1 .. MaxDepth : ctx[k].large \cap held = {}

ContextShape ==
  /\ \A k \in 1 .. MaxDepth : k > depth => ctx[k] = NoContext
  /\ \A k \in 1 .. depth :
       /\ ctx[k].ptr = NullPtr => ctx[k].idx = 0
       /\ ctx[k].ptr # NullPtr =>
            /\ capacity > 0 /\ ctx[k].idx < size
            /\ ctx[k].ptr.b = slot[ctx[k].idx]
            /\ ctx[k].ptr.o \in 0 .. SlabSize(ctx[k].idx) /\ Aligned(ctx[k].ptr.o)
       /\ ctx[k].idx < idx \/ (ctx[k].idx = idx /\ ctx[k].ptr.o <= cur.o)
  /\ \A j, k \in 1 .. depth :
       j < k => \/ ctx[j].idx < ctx[k].idx
                \/ ctx[j].idx = ctx[k].idx /\ ctx[j].ptr.o <= ctx[k].ptr.o

PayloadShape ==
  /\ \A a \in live :
       /\ a.depth \in 1 .. depth
       /\ a.slot < size /\ a.b = slot[a.slot]
       /\ 0 <= a.lo /\ a.lo + a.n <= SlabSize(a.slot)
       /\ EndsBefore(a, idx, cur.o)
       /\ \A k \in a.depth + 1 .. depth : EndsBefore(a, ctx[k].idx, ctx[k].ptr.o)
  /\ PayloadsDisjoint

(* The arena's cursor is inside its slab, every block has one owner, the *)
(* open owners' saved positions ascend to the cursor, and every payload *)
(* ends before the positions saved by all younger owners. *)
IInv ==
  /\ TypeOK /\ ArenaShape /\ SlabShape /\ Ownership /\ ContextShape /\ PayloadShape

(* A payload that begins at or behind position <<i, o>>. *)
BeginsBehind(a, i, o) == a.slot > i \/ (a.slot = i /\ a.lo >= o)

(* What the unpoisoned bytes depend on: an owner's payloads begin behind *)
(* the position it saved, so that the rewind to it poisons all of them. *)
ShadowInv ==
  /\ ShadowExact
  /\ \A a \in live : BeginsBehind(a, ctx[a.depth].idx, ctx[a.depth].ptr.o)

(* What the callers and the build must respect: no empty requests, and (in *)
(* a build with red zones) no weak request in the last Redzone bytes below *)
(* the threshold. *)
SizesFit == \A n \in Sizes : n > 0 /\ (n < Threshold => Step(n) <= CacheSize)
=============================================================================
